----------------------------- MODULE TsvProofs ------------------------------
(***************************************************************************)
(* What the command line tool packs, for every text, every size of its     *)
(* chunks and every value of the constants: a line with all its columns is *)
(* one row, wherever the chunks were cut.  And what it means that the text *)
(* and what is unpacked of it are found equal.                             *)
(***************************************************************************)
EXTENDS TsvTool, FiniteSetTheorems, SequenceTheorems, WellFoundedInduction, TLAPS

-----------------------------------------------------------------------------
(* The first position that holds a token of a set. *)

LEMMA SmallestPart ==
  ASSUME NEW S, IsFiniteSet(S), NEW T, T \subseteq SUBSET S, T # {}
  PROVE  \E s \in T : \A u \in T : u \subseteq s => u = s
<1>1. IsWellFoundedOn(StrictSubsetOrdering(S), FiniteSubsetsOf(S))
  BY FS_StrictSubsetOrderingWellFounded
<1>2. FiniteSubsetsOf(S) = SUBSET S
  BY FS_FiniteSubsetsOfFinite
<1>3. PICK s \in T : \A u \in T : <<u, s>> \notin StrictSubsetOrdering(S)
  BY <1>1, <1>2, WFMin
<1> QED
  BY <1>3 DEF StrictSubsetOrdering

LEMMA Smallest ==
  ASSUME NEW T \in SUBSET Nat, T # {}
  PROVE  \E m \in T : \A k \in T : m <= k
<1>1. PICK n \in T : TRUE
  OBVIOUS
<1> DEFINE Upto(k) == T \cap (0 .. k)
           U == {Upto(k) : k \in T \cap (0 .. n)}
<1> DEFINE Box == 0 .. n
<1>2. IsFiniteSet(Box)
  BY <1>1, FS_Interval
<1>3. U \subseteq SUBSET Box /\ U # {}
  <2>1. \A k \in T \cap (0 .. n) : Upto(k) \in SUBSET Box
    BY <1>1
  <2>2. n \in T \cap (0 .. n)
    BY <1>1
  <2> HIDE DEF Upto, Box
  <2> QED
    BY <2>1, <2>2
<1>4. PICK s \in U : \A u \in U : u \subseteq s => u = s
  <2> HIDE DEF U, Box
  <2> QED
    BY <1>2, <1>3, SmallestPart
<1>5. PICK m \in T \cap (0 .. n) : s = Upto(m)
  BY <1>4
<1>6. ASSUME NEW k \in T, k < m PROVE FALSE
  <2>1. k \in T \cap (0 .. n) /\ Upto(k) \in U /\ Upto(k) \subseteq Upto(m)
    BY <1>5, <1>6
  <2>2. Upto(k) = Upto(m)
    BY <1>4, <1>5, <2>1
  <2> QED
    BY <1>5, <1>6, <2>2
<1> QED
  BY <1>5, <1>6

LEMMA Greatest ==
  ASSUME NEW n \in Nat, NEW T \in SUBSET (1 .. n), T # {}
  PROVE  \E m \in T : \A k \in T : k <= m
<1> DEFINE U == {i \in 0 .. n : n - i \in T}
<1>1. \A k \in T : n - k \in U
  <2> SUFFICES ASSUME NEW k \in T PROVE n - k \in U
    OBVIOUS
  <2>1. PICK i : i = n - k
    OBVIOUS
  <2>2. k \in 1 .. n
    OBVIOUS
  <2>3. i \in 0 .. n /\ n - i = k
    BY <2>1, <2>2
  <2> QED
    BY <2>1, <2>3
<1>2. U \in SUBSET Nat
  OBVIOUS
<1>6. U # {}
  <2> HIDE DEF U
  <2> QED
    BY <1>1
<1>3. PICK i \in U : \A k \in U : i <= k
  <2> HIDE DEF U
  <2> QED
    BY <1>2, <1>6, Smallest
<1>4. n - i \in T /\ i \in 0 .. n
  BY <1>3
<1>5. ASSUME NEW k \in T PROVE k <= n - i
  <2>1. n - k \in U
    BY <1>1
  <2>2. i <= n - k /\ k \in 1 .. n
    BY <1>3, <2>1
  <2> QED
    BY <1>4, <2>2
<1> QED
  BY <1>4, <1>5

(* i is the first position at or after p that holds a token of S. *)
IsFirst(S, buf, p, i) ==
  i \in p .. Len(buf) /\ buf[i] \in S /\ \A j \in p .. i - 1 : buf[j] \notin S

LEMMA FirstIs ==
  ASSUME NEW S, NEW X, NEW buf \in Seq(X), NEW p \in Nat, NEW i, IsFirst(S, buf, p, i)
  PROVE  FirstOf(S, buf, p) = i
<1>1. \A k : IsFirst(S, buf, p, k) => k = i
  BY DEF IsFirst
<1>2. FirstOf(S, buf, p) = CHOOSE k : k \in p .. Len(buf) /\ (buf[k] \in S /\ \A j \in p .. k - 1 : buf[j] \notin S)
  BY DEF FirstOf
<1>3. \A k : (k \in p .. Len(buf) /\ (buf[k] \in S /\ \A j \in p .. k - 1 : buf[j] \notin S)) <=> IsFirst(S, buf, p, k)
  BY DEF IsFirst
<1> QED
  BY <1>1, <1>2, <1>3

LEMMA FirstFound ==
  ASSUME NEW S, NEW X, NEW buf \in Seq(X), NEW p \in Nat,
         NEW k \in p .. Len(buf), buf[k] \in S
  PROVE  /\ IsFirst(S, buf, p, FirstOf(S, buf, p))
         /\ FirstOf(S, buf, p) \in p .. k
<1> DEFINE T == {i \in p .. Len(buf) : buf[i] \in S}
<1>1. T \in SUBSET Nat /\ k \in T
  OBVIOUS
<1>2. PICK m \in T : \A i \in T : m <= i
  <2> HIDE DEF T
  <2> QED
    BY <1>1, Smallest
<1>3. IsFirst(S, buf, p, m)
  BY <1>2 DEF IsFirst
<1>4. FirstOf(S, buf, p) = m
  BY <1>3, FirstIs
<1> QED
  BY <1>1, <1>2, <1>3, <1>4

-----------------------------------------------------------------------------
(* Lines of a text. *)

LEMMA LineOfIs ==
  ASSUME NEW s \in Text
  PROVE  LET l == LineOf(s)
         IN  /\ l \in Text /\ Len(l) \in 0 .. Len(s)
             /\ \A i \in 1 .. Len(l) : l[i] = s[i] /\ s[i] # NL
             /\ Len(l) < Len(s) => s[Len(l) + 1] = NL
<1> DEFINE t == Append(s, NL)
           n == Len(s)
           f == FirstOf({NL}, t, 1)
<1>1. n \in Nat /\ t \in Seq(Field) /\ Len(t) = n + 1 /\ t[n + 1] = NL /\ \A i \in 1 .. n : t[i] = s[i]
  BY AppendProperties DEF Text, Field
<1>2. IsFirst({NL}, t, 1, f) /\ f \in 1 .. n + 1
  <2>1. n + 1 \in 1 .. Len(t) /\ t[n + 1] \in {NL}
    BY <1>1
  <2> HIDE DEF t, n
  <2> QED
    BY <1>1, <2>1, FirstFound
<1>3. \A i \in 1 .. f - 1 : s[i] \in Field /\ s[i] # NL
  <2> HIDE DEF f, t, n
  <2>1. \A i \in 1 .. f - 1 : t[i] \notin {NL} /\ i \in 1 .. n
    BY <1>1, <1>2 DEF IsFirst
  <2> USE DEF n
  <2> QED
    BY <1>1, <2>1 DEF Text
<1>4. f <= n => s[f] = NL
  <2>1. t[f] \in {NL}
    BY <1>2 DEF IsFirst
  <2> QED
    BY <1>1, <1>2, <2>1
<1> DEFINE l == LineOf(s)
<1>5. l = SubSeq(s, 1, f - 1)
  BY DEF LineOf
<1>6. l \in Seq(Field) /\ Len(l) = f - 1 /\ \A i \in 1 .. f - 1 : l[i] = s[i]
  <2> HIDE DEF f, n, t
  <2>1. f - 1 \in Int /\ \A i \in 1 .. f - 1 : s[i] \in Field
    BY <1>1, <1>2, <1>3
  <2>2. /\ SubSeq(s, 1, f - 1) \in Seq(Field)
        /\ Len(SubSeq(s, 1, f - 1)) = IF 1 <= f - 1 THEN f - 1 - 1 + 1 ELSE 0
        /\ \A i \in 1 .. f - 1 - 1 + 1 : SubSeq(s, 1, f - 1)[i] = s[1 + i - 1]
    BY <2>1, SubSeqProperties
  <2>3. Len(l) = f - 1
    BY <1>1, <1>2, <1>5, <2>2
  <2>4. \A i \in 1 .. f - 1 : l[i] = s[i]
    BY <1>1, <1>2, <1>5, <2>2
  <2> QED
    BY <1>5, <2>2, <2>3, <2>4
<1> HIDE DEF l, f, t
<1> QED
  BY <1>1, <1>2, <1>3, <1>4, <1>6 DEF l, Text

(* A sequence's part from s to its end. *)
LEMMA SuffixIs ==
  ASSUME NEW X, NEW t \in Seq(X), NEW s \in 1 .. Len(t) + 1
  PROVE  LET u == SubSeq(t, s, Len(t))
         IN  /\ u \in Seq(X) /\ Len(u) = Len(t) + 1 - s
             /\ \A i \in 1 .. Len(t) + 1 - s : u[i] = t[s + i - 1]
<1> DEFINE n == Len(t)
<1>1. n \in Nat /\ s \in Int /\ n \in Int /\ \A i \in s .. n : t[i] \in X
  OBVIOUS
<1>2. /\ SubSeq(t, s, n) \in Seq(X)
      /\ Len(SubSeq(t, s, n)) = IF s <= n THEN n - s + 1 ELSE 0
      /\ \A i \in 1 .. n - s + 1 : SubSeq(t, s, n)[i] = t[s + i - 1]
  <2> HIDE DEF n
  <2> QED
    BY <1>1, SubSeqProperties
<1> QED
  BY <1>1, <1>2

(* The line at s has n tokens. *)
IsLine(t, s, n) ==
  /\ s \in 1 .. Len(t) /\ n \in Nat /\ s + n <= Len(t) + 1
  /\ \A i \in s .. s + n - 1 : t[i] # NL
  /\ s + n <= Len(t) => t[s + n] = NL

LEMMA LineAtIs ==
  ASSUME text \in Text, NEW s \in 1 .. Len(text)
  PROVE  LET l == LineAt(s)
         IN  /\ l \in Text /\ IsLine(text, s, Len(l))
             /\ \A i \in 1 .. Len(l) : l[i] = text[s + i - 1]
<1> DEFINE u == SubSeq(text, s, Len(text))
           l == LineOf(u)
<1>1. Len(text) \in Nat /\ u \in Text /\ Len(u) = Len(text) + 1 - s
      /\ \A i \in 1 .. Len(text) + 1 - s : u[i] = text[s + i - 1]
  BY SuffixIs DEF Text
<1> HIDE DEF u
<1>2. /\ l \in Text /\ Len(l) \in 0 .. Len(u)
      /\ \A i \in 1 .. Len(l) : l[i] = u[i] /\ u[i] # NL
      /\ Len(l) < Len(u) => u[Len(l) + 1] = NL
  BY <1>1, LineOfIs
<1> HIDE DEF l
<1>3. \A i \in s .. s + Len(l) - 1 : text[i] # NL
  <2> SUFFICES ASSUME NEW i \in s .. s + Len(l) - 1 PROVE text[i] # NL
    OBVIOUS
  <2>1. i - s + 1 \in 1 .. Len(l) /\ i - s + 1 \in 1 .. Len(text) + 1 - s /\ s + (i - s + 1) - 1 = i
    BY <1>1, <1>2
  <2> QED
    BY <1>1, <1>2, <2>1
<1>4. s + Len(l) <= Len(text) => text[s + Len(l)] = NL
  <2> SUFFICES ASSUME s + Len(l) <= Len(text) PROVE text[s + Len(l)] = NL
    OBVIOUS
  <2>1. Len(l) + 1 \in 1 .. Len(text) + 1 - s /\ s + (Len(l) + 1) - 1 = s + Len(l) /\ Len(l) < Len(u)
    BY <1>1, <1>2
  <2> QED
    BY <1>1, <1>2, <2>1
<1>5. \A i \in 1 .. Len(l) : l[i] = text[s + i - 1]
  <2> SUFFICES ASSUME NEW i \in 1 .. Len(l) PROVE l[i] = text[s + i - 1]
    OBVIOUS
  <2>1. i \in 1 .. Len(text) + 1 - s
    BY <1>1, <1>2
  <2> QED
    BY <1>1, <1>2, <2>1
<1>6. LineAt(s) = l
  BY DEF LineAt, l, u
<1> QED
  BY <1>1, <1>2, <1>3, <1>4, <1>5, <1>6 DEF IsLine

LEMMA LineLength ==
  ASSUME NEW t \in Text, NEW s, NEW m, NEW n, IsLine(t, s, m), IsLine(t, s, n)
  PROVE  m = n
<1>1. s \in Nat /\ m \in Nat /\ n \in Nat /\ Len(t) \in Nat
  BY DEF IsLine, Text
<1>2. ASSUME NEW i \in Nat, NEW j \in Nat, IsLine(t, s, i), IsLine(t, s, j), i < j PROVE FALSE
  <2>1. s + i \in s .. s + j - 1 /\ s + i <= Len(t)
    BY <1>1, <1>2 DEF IsLine
  <2> QED
    BY <1>2, <2>1 DEF IsLine
<1> QED
  BY <1>1, <1>2

-----------------------------------------------------------------------------
(* Buffers. *)

Tokens == Field \cup {NUL}

(* A buffer ends with a NUL, whatever it is filled with. *)
IsBuffer(b) == b \in Seq(Tokens) /\ Len(b) \in Nat \ {0} /\ b[Len(b)] = NUL

LEMMA FilledIs ==
  ASSUME NEW b, IsBuffer(b), NEW t \in Text
  PROVE  LET g == Filled(b, t)
         IN  /\ IsBuffer(g) /\ Len(g) >= Len(b) /\ Len(g) > Len(t)
             /\ \A i \in 1 .. Len(t) : g[i] = t[i]
             /\ g[Len(t) + 1] = NUL
<1> DEFINE n == Len(t)
           m == Len(b)
           u == SubSeq(b, n + 2, m)
           v == t \o <<NUL>>
           g == v \o u
<1>1. n \in Nat /\ m \in Nat \ {0} /\ t \in Seq(Tokens) /\ b \in Seq(Tokens) /\ b[m] = NUL
  BY SeqMonotonic DEF Text, Tokens, IsBuffer
<1>2. /\ u \in Seq(Tokens) /\ Len(u) = IF n + 2 <= m THEN m - (n + 2) + 1 ELSE 0
      /\ \A i \in 1 .. m - (n + 2) + 1 : u[i] = b[(n + 2) + i - 1]
  <2>1. n + 2 \in Int /\ m \in Int /\ \A i \in n + 2 .. m : b[i] \in Tokens
    BY <1>1
  <2> HIDE DEF n, m
  <2> QED
    BY <2>1, SubSeqProperties
<1>3. /\ v \in Seq(Tokens) /\ Len(v) = n + 1 /\ v[n + 1] = NUL
      /\ \A i \in 1 .. n : v[i] = t[i]
  BY <1>1 DEF Tokens
<1> HIDE DEF u, v, n, m
<1>4. /\ g \in Seq(Tokens) /\ Len(g) = Len(v) + Len(u)
      /\ \A i \in 1 .. Len(v) + Len(u) : g[i] = IF i <= Len(v) THEN v[i] ELSE u[i - Len(v)]
  BY <1>2, <1>3, ConcatProperties
<1>5. Len(u) \in Nat /\ Len(g) \in Nat \ {0} /\ Len(g) >= m /\ Len(g) > n
  BY <1>1, <1>2, <1>3, <1>4
<1> HIDE DEF g
<1>6. g[n + 1] = NUL /\ \A i \in 1 .. n : g[i] = t[i]
  BY <1>1, <1>2, <1>3, <1>4, <1>5
<1>7. g[Len(g)] = NUL
  <2>1. CASE n + 2 <= m
    <3>1. Len(g) = m /\ Len(u) = m - (n + 2) + 1 /\ Len(u) \in 1 .. m - (n + 2) + 1
      BY SMT, <1>1, <1>2, <1>3, <1>4, <2>1
    <3>2. g[Len(g)] = u[Len(g) - (n + 1)] /\ Len(g) - (n + 1) = Len(u)
      BY <1>1, <1>3, <1>4, <1>5, <2>1, <3>1
    <3>3. u[Len(u)] = b[m]
      BY <1>1, <1>2, <3>1
    <3> QED
      BY <1>1, <3>2, <3>3
  <2>2. CASE ~ n + 2 <= m
    <3>1. Len(g) = n + 1
      BY <1>1, <1>2, <1>3, <1>4, <2>2
    <3> QED
      BY <1>6, <3>1
  <2> QED
    BY <2>1, <2>2
<1>8. Filled(b, t) = g
  BY DEF Filled, g, u, v, n, m
<1> QED
  BY <1>4, <1>5, <1>6, <1>7, <1>8 DEF IsBuffer, n, m

LEMMA LineEndIs ==
  ASSUME NEW b, IsBuffer(b), NEW p \in 1 .. Len(b)
  PROVE  IsFirst({NL, NUL}, b, p, LineEnd(b, p)) /\ LineEnd(b, p) \in p .. Len(b)
<1>1. Len(b) \in p .. Len(b) /\ b[Len(b)] \in {NL, NUL} /\ b \in Seq(Tokens) /\ p \in Nat
  BY DEF IsBuffer
<1> QED
  BY <1>1, FirstFound DEF LineEnd

LEMMA ParsedBufferIs ==
  ASSUME NEW b, IsBuffer(b), NEW p \in 1 .. Len(b)
  PROVE  LET g == ParsedBuffer(b, p)
         IN  /\ IsBuffer(g) /\ Len(g) = Len(b)
             /\ \A i \in 1 .. Len(b) :
                  g[i] = IF i \in p .. LineEnd(b, p) /\ b[i] \in Stops THEN NUL ELSE b[i]
<1> DEFINE g == ParsedBuffer(b, p)
           n == Len(b)
<1>1. n \in Nat \ {0} /\ b \in Seq(Tokens) /\ DOMAIN b = 1 .. n /\ b[n] = NUL /\ \A i \in 1 .. n : b[i] \in Tokens
  BY DEF IsBuffer
<1>2. /\ DOMAIN g = 1 .. n
      /\ \A i \in 1 .. n : g[i] = IF i \in p .. LineEnd(b, p) /\ b[i] \in Stops THEN NUL ELSE b[i]
  BY <1>1 DEF ParsedBuffer
<1>3. \A i \in 1 .. n : g[i] \in Tokens
  BY <1>1, <1>2 DEF Tokens
<1>4. g = [i \in 1 .. n |-> g[i]]
  BY <1>1 DEF ParsedBuffer
<1> HIDE DEF g, n
<1>5. g \in [1 .. n -> Tokens]
  BY <1>3, <1>4
<1>6. g \in Seq(Tokens) /\ Len(g) = n
  BY <1>1, <1>5
<1>7. g[n] = NUL
  BY <1>1, <1>2
<1> QED
  BY <1>1, <1>2, <1>6, <1>7 DEF IsBuffer, g, n

-----------------------------------------------------------------------------
(* Columns. *)

(* Where the column behind the one at b begins, if the line ends at e. *)
IsNext(buf, e, b, a) ==
  IF b > e THEN a = b ELSE a \in b + 1 .. e + 1 /\ IsFirst(Stops, buf, b, a - 1)

(* g are the places where the columns of the line from p to e begin. *)
Walks(buf, p, e, g) ==
  /\ \A c \in 1 .. ColumnCount : g[c] \in p .. e + 1
  /\ g[1] = p /\ \A c \in 1 .. ColumnCount - 1 : IsNext(buf, e, g[c], g[c + 1])

LEMMA BeginsWalk ==
  ASSUME NEW X, NEW buf \in Seq(X), NEW p \in 1 .. Len(buf), NEW e,
         IsFirst({NL, NUL}, buf, p, e)
  PROVE  Walks(buf, p, e, Begins(buf, p))
<1>1. LineEnd(buf, p) = e /\ e \in p .. Len(buf) /\ buf[e] \in Stops /\ p \in Nat
  <2>1. p \in Nat
    OBVIOUS
  <2>2. FirstOf({NL, NUL}, buf, p) = e
    BY <2>1, FirstIs
  <2> QED
    BY <2>2 DEF LineEnd, IsFirst, Stops
<1> DEFINE next(b) == IF b > e THEN b ELSE FirstOf(Stops, buf, b) + 1
           behind == [b \in p .. Len(buf) + 1 |-> next(b)]
<1>2. ASSUME NEW b \in p .. e + 1
      PROVE  behind[b] \in p .. e + 1 /\ IsNext(buf, e, b, behind[b])
  <2>1. behind[b] = next(b)
    BY <1>1
  <2>2. CASE b > e
    BY <1>1, <2>1, <2>2 DEF IsNext
  <2>3. CASE ~ b > e
    <3>1. b \in Nat /\ e \in b .. Len(buf)
      BY <1>1, <2>3
    <3>2. IsFirst(Stops, buf, b, FirstOf(Stops, buf, b)) /\ FirstOf(Stops, buf, b) \in b .. e
      BY <1>1, <3>1, FirstFound
    <3>3. behind[b] = FirstOf(Stops, buf, b) + 1
      BY <2>1, <2>3
    <3> HIDE DEF behind
    <3>4. behind[b] - 1 = FirstOf(Stops, buf, b) /\ behind[b] \in b + 1 .. e + 1
      BY <1>1, <3>1, <3>2, <3>3
    <3> QED
      BY <1>1, <2>3, <3>1, <3>2, <3>4 DEF IsNext
  <2> QED
    BY <2>2, <2>3
<1> DEFINE g == Begins(buf, p)
<1>3. g = <<p, behind[p], behind[behind[p]], behind[behind[behind[p]]], behind[behind[behind[behind[p]]]]>>
  BY <1>1 DEF Begins
<1> HIDE DEF behind
<1>4. /\ g[1] = p /\ g[2] = behind[g[1]] /\ g[3] = behind[g[2]]
      /\ g[4] = behind[g[3]] /\ g[5] = behind[g[4]]
  BY <1>3
<1> HIDE DEF g
<1>5. g[1] \in p .. e + 1
  BY <1>1, <1>4
<1>6. g[2] \in p .. e + 1 /\ IsNext(buf, e, g[1], g[2])
  BY <1>2, <1>4, <1>5
<1>7. g[3] \in p .. e + 1 /\ IsNext(buf, e, g[2], g[3])
  BY <1>2, <1>4, <1>6
<1>8. g[4] \in p .. e + 1 /\ IsNext(buf, e, g[3], g[4])
  BY <1>2, <1>4, <1>7
<1>9. g[5] \in p .. e + 1 /\ IsNext(buf, e, g[4], g[5])
  BY <1>2, <1>4, <1>8
<1>10. \A c \in 1 .. 5 : c = 1 \/ c = 2 \/ c = 3 \/ c = 4 \/ c = 5
  OBVIOUS
<1>11. \A c \in 1 .. 5 : g[c] \in p .. e + 1
  BY <1>5, <1>6, <1>7, <1>8, <1>9, <1>10
<1>12. \A c \in 1 .. 4 : IsNext(buf, e, g[c], g[c + 1])
  <2>1. \A c \in 1 .. 4 : c = 1 \/ c = 2 \/ c = 3 \/ c = 4
    OBVIOUS
  <2>2. 1 + 1 = 2 /\ 2 + 1 = 3 /\ 3 + 1 = 4 /\ 4 + 1 = 5
    OBVIOUS
  <2> QED
    BY <1>6, <1>7, <1>8, <1>9, <2>1, <2>2
<1> QED
  BY <1>4, <1>11, <1>12 DEF Walks, ColumnCount, g

(* The buffer holds the line at p. *)
Holds(buf, p, line) ==
  /\ line \in Text /\ \A i \in 1 .. Len(line) : line[i] # NL
  /\ buf \in Seq(Tokens) /\ p \in 1 .. Len(buf) /\ p + Len(line) <= Len(buf)
  /\ \A i \in 1 .. Len(line) : buf[p + i - 1] = line[i]
  /\ buf[p + Len(line)] \in {NL, NUL}

LEMMA HeldLineEnd ==
  ASSUME NEW buf, NEW p, NEW line, Holds(buf, p, line)
  PROVE  IsFirst({NL, NUL}, buf, p, p + Len(line)) /\ LineEnd(buf, p) = p + Len(line)
<1> DEFINE n == Len(line)
<1>1. n \in Nat /\ p \in Nat /\ p + n \in p .. Len(buf) /\ buf[p + n] \in {NL, NUL} /\ buf \in Seq(Tokens)
  BY DEF Holds, Text
<1>2. ASSUME NEW j \in p .. p + n - 1 PROVE buf[j] \notin {NL, NUL}
  <2>1. j - p + 1 \in 1 .. n /\ p + (j - p + 1) - 1 = j
    BY <1>1
  <2>2. buf[j] = line[j - p + 1] /\ line[j - p + 1] # NL /\ line[j - p + 1] \in Field
    BY <2>1 DEF Holds, Text
  <2> QED
    BY <2>2, TsvAssumption
<1>3. IsFirst({NL, NUL}, buf, p, p + n)
  BY <1>1, <1>2 DEF IsFirst
<1> QED
  BY <1>1, <1>3, FirstIs DEF LineEnd

LEMMA LineAlone ==
  ASSUME NEW line \in Text, \A i \in 1 .. Len(line) : line[i] # NL
  PROVE  Holds(Append(line, NL), 1, line) /\ Len(Append(line, NL)) = Len(line) + 1
<1> DEFINE l == Append(line, NL)
<1>1. /\ l \in Seq(Field) /\ Len(l) = Len(line) + 1 /\ Len(line) \in Nat
      /\ \A i \in 1 .. Len(line) : l[i] = line[i]
      /\ l[Len(line) + 1] = NL
  BY AppendProperties DEF Text, Field
<1> HIDE DEF l
<1>2. l \in Seq(Tokens)
  BY <1>1, SeqMonotonic DEF Tokens
<1>3. 1 \in 1 .. Len(l) /\ 1 + Len(line) <= Len(l) /\ l[1 + Len(line)] \in {NL, NUL}
      /\ \A i \in 1 .. Len(line) : l[1 + i - 1] = line[i]
  BY <1>1
<1>4. Holds(l, 1, line)
  BY <1>2, <1>3 DEF Holds
<1> QED
  BY <1>1, <1>4 DEF l

(* The same line in two buffers has its stops at the same places. *)
LEMMA FirstMoves ==
  ASSUME NEW a, NEW p, NEW b, NEW q, NEW line, Holds(a, p, line), Holds(b, q, line),
         NEW i \in 1 .. Len(line) + 1, NEW k, IsFirst(Stops, a, p + i - 1, k)
  PROVE  k <= p + Len(line) /\ IsFirst(Stops, b, q + i - 1, k - p + q)
<1> DEFINE n == Len(line)
<1>1. /\ n \in Nat /\ p \in Nat /\ q \in Nat /\ Len(a) \in Nat /\ Len(b) \in Nat
      /\ p + n <= Len(a) /\ q + n <= Len(b)
      /\ \A j \in 1 .. n : a[p + j - 1] = line[j] /\ b[q + j - 1] = line[j]
      /\ a[p + n] \in Stops /\ b[q + n] \in Stops
  BY DEF Holds, Text, Stops
<1>2. k \in p + i - 1 .. Len(a) /\ a[k] \in Stops /\ \A j \in p + i - 1 .. k - 1 : a[j] \notin Stops
  BY DEF IsFirst
<1>3. k <= p + n
  <2> SUFFICES ASSUME k > p + n PROVE FALSE
    BY <1>1, <1>2
  <2>1. p + n \in p + i - 1 .. k - 1
    BY <1>1, <1>2
  <2> QED
    BY <1>1, <1>2, <2>1
<1>4. k - p + q \in q + i - 1 .. Len(b)
  BY <1>1, <1>2, <1>3
<1>5. b[k - p + q] \in Stops
  <2>1. CASE k = p + n
    BY <1>1, <2>1
  <2>2. CASE k # p + n
    <3>1. k - p + 1 \in 1 .. n /\ p + (k - p + 1) - 1 = k /\ q + (k - p + 1) - 1 = k - p + q
      BY <1>1, <1>2, <1>3, <2>2
    <3> QED
      BY Zenon, <1>1, <1>2, <3>1
  <2> QED
    BY <2>1, <2>2
<1>6. ASSUME NEW j \in q + i - 1 .. (k - p + q) - 1 PROVE b[j] \notin Stops
  <2>1. j - q + 1 \in 1 .. n /\ q + (j - q + 1) - 1 = j
        /\ p + (j - q + 1) - 1 \in p + i - 1 .. k - 1
    BY <1>1, <1>2, <1>3
  <2> QED
    BY <1>1, <1>2, <2>1
<1>7. PICK m : m = k - p + q
  OBVIOUS
<1>8. m \in q + i - 1 .. Len(b) /\ b[m] \in Stops
  BY <1>4, <1>5, <1>7
<1>9. \A j \in q + i - 1 .. m - 1 : b[j] \notin Stops
  BY <1>6, <1>7
<1>10. IsFirst(Stops, b, q + i - 1, m)
  BY <1>8, <1>9 DEF IsFirst
<1> QED
  BY <1>3, <1>7, <1>10

(* And its columns. *)
LEMMA NextMoves ==
  ASSUME NEW a, NEW p, NEW b, NEW q, NEW line, Holds(a, p, line), Holds(b, q, line),
         NEW x \in p .. p + Len(line) + 1, NEW y, NEW z,
         IsNext(a, p + Len(line), x, y), IsNext(b, q + Len(line), x - p + q, z)
  PROVE  z = y - p + q
<1> DEFINE n == Len(line)
<1>1. n \in Nat /\ p \in Nat /\ q \in Nat /\ b \in Seq(Tokens)
  BY DEF Holds, Text
<1>2. CASE x > p + n
  BY <1>1, <1>2 DEF IsNext
<1>3. CASE ~ x > p + n
  <2> DEFINE i == x - p + 1
  <2>1. i \in 1 .. n + 1 /\ p + i - 1 = x /\ q + i - 1 = x - p + q /\ ~ x - p + q > q + n
    BY <1>1, <1>3
  <2>2. IsFirst(Stops, a, x, y - 1) /\ y \in x + 1 .. p + n + 1
    BY <1>3 DEF IsNext
  <2>3. IsFirst(Stops, b, x - p + q, z - 1) /\ z \in x - p + q + 1 .. q + n + 1
    BY <2>1 DEF IsNext
  <2> HIDE DEF i
  <2>4. IsFirst(Stops, b, x - p + q, y - 1 - p + q)
    BY <2>1, <2>2, FirstMoves
  <2>5. x - p + q \in Nat
    BY <1>1
  <2>6. FirstOf(Stops, b, x - p + q) = y - 1 - p + q /\ FirstOf(Stops, b, x - p + q) = z - 1
    BY <1>1, <2>3, <2>4, <2>5, FirstIs
  <2> QED
    BY SMT, <1>1, <2>2, <2>3, <2>6
<1> QED
  BY <1>2, <1>3

LEMMA WalksMove ==
  ASSUME NEW a, NEW p, NEW b, NEW q, NEW line, Holds(a, p, line), Holds(b, q, line),
         NEW g, NEW h, Walks(a, p, p + Len(line), g), Walks(b, q, q + Len(line), h)
  PROVE  \A c \in 1 .. ColumnCount : h[c] = g[c] - p + q
<1> DEFINE n == Len(line)
<1>1. n \in Nat /\ p \in Nat /\ q \in Nat
  BY DEF Holds, Text
<1>2. ASSUME NEW c \in 1 .. 4, h[c] = g[c] - p + q PROVE h[c + 1] = g[c + 1] - p + q
  <2>1. c \in 1 .. ColumnCount /\ c \in 1 .. ColumnCount - 1
    BY DEF ColumnCount
  <2>2. g[c] \in p .. p + n + 1 /\ IsNext(a, p + n, g[c], g[c + 1]) /\ IsNext(b, q + n, g[c] - p + q, h[c + 1])
    BY <1>2, <2>1 DEF Walks
  <2>3. PICK x \in p .. p + n + 1 : x = g[c]
    BY <2>2
  <2>4. PICK y : y = g[c + 1]
    OBVIOUS
  <2>5. PICK z : z = h[c + 1]
    OBVIOUS
  <2>6. IsNext(a, p + n, x, y) /\ IsNext(b, q + n, x - p + q, z)
    BY <2>2, <2>3, <2>4, <2>5
  <2>7. z = y - p + q
    BY <2>6, NextMoves
  <2> QED
    BY <2>3, <2>4, <2>5, <2>7
<1>3. h[1] = g[1] - p + q
  BY <1>1 DEF Walks
<1>4. h[2] = g[2] - p + q
  BY <1>2, <1>3
<1>5. h[3] = g[3] - p + q
  BY <1>2, <1>4
<1>6. h[4] = g[4] - p + q
  BY <1>2, <1>5
<1>7. h[5] = g[5] - p + q
  BY <1>2, <1>6
<1> QED
  BY <1>3, <1>4, <1>5, <1>6, <1>7 DEF ColumnCount

(* Where the columns of a line begin in a buffer, and in the line. *)
LEMMA HeldColumns ==
  ASSUME NEW buf, NEW p, NEW line, Holds(buf, p, line)
  PROVE  /\ Walks(buf, p, p + Len(line), Begins(buf, p))
         /\ \A c \in 1 .. ColumnCount :
              /\ Begins(buf, p)[c] \in p .. p + Len(line) + 1
              /\ LineBegins(line)[c] = Begins(buf, p)[c] - p + 1
              /\ Has(line, c) <=> Begins(buf, p)[c] <= p + Len(line)
<1> DEFINE l == Append(line, NL)
           g == Begins(buf, p)
           h == Begins(l, 1)
<1>1. Holds(l, 1, line) /\ Len(line) \in Nat /\ p \in Nat
  BY SMT, LineAlone DEF Holds, Text
<1>2. Walks(buf, p, p + Len(line), g)
  <2>1. buf \in Seq(Tokens) /\ p \in 1 .. Len(buf)
    BY DEF Holds
  <2> QED
    BY <2>1, HeldLineEnd, BeginsWalk
<1>3. Walks(l, 1, 1 + Len(line), h)
  <2>1. l \in Seq(Tokens) /\ 1 \in 1 .. Len(l)
    BY <1>1 DEF Holds
  <2> HIDE DEF l
  <2> QED
    BY <1>1, <2>1, HeldLineEnd, BeginsWalk
<1>4. \A c \in 1 .. ColumnCount : h[c] = g[c] - p + 1
  <2> HIDE DEF l, g, h
  <2> QED
    BY <1>1, <1>2, <1>3, WalksMove
<1>5. \A c \in 1 .. ColumnCount : g[c] \in p .. p + Len(line) + 1
  BY <1>2 DEF Walks
<1>6. LineBegins(line) = h
  BY DEF LineBegins
<1> HIDE DEF g, h
<1>7. ASSUME NEW c \in 1 .. ColumnCount PROVE Has(line, c) <=> g[c] <= p + Len(line)
  BY <1>1, <1>4, <1>5, <1>6 DEF Has
<1> QED
  BY <1>2, <1>4, <1>5, <1>6, <1>7 DEF g

-----------------------------------------------------------------------------
(* What a column is read as. *)

LEMMA StringIs ==
  ASSUME NEW b, IsBuffer(b), NEW p \in 1 .. Len(b)
  PROVE  StringAt(b, p) \in String
<1> DEFINE f == FirstOf({NUL}, b, p)
<1>1. b \in Seq(Tokens) /\ Len(b) \in p .. Len(b) /\ b[Len(b)] \in {NUL} /\ p \in Nat
  BY DEF IsBuffer
<1>2. IsFirst({NUL}, b, p, f) /\ f \in p .. Len(b)
  BY <1>1, FirstFound
<1>3. StringAt(b, p) = SubSeq(b, p, f - 1)
  BY DEF StringAt
<1> HIDE DEF f
<1>4. \A i \in p .. f - 1 : b[i] \in Field
  <2> SUFFICES ASSUME NEW i \in p .. f - 1 PROVE b[i] \in Field
    OBVIOUS
  <2>1. i \in 1 .. Len(b) /\ b[i] \notin {NUL}
    BY <1>1, <1>2 DEF IsFirst
  <2> QED
    BY <1>1, <2>1 DEF Tokens
<1>5. p \in Int /\ f - 1 \in Int
  BY <1>1, <1>2
<1> QED
  BY <1>3, <1>4, <1>5, SubSeqProperties DEF String

(* The part of a line, and what the line is parsed to. *)
LEMMA HeldPart ==
  ASSUME NEW buf, IsBuffer(buf), NEW p, NEW line, Holds(buf, p, line),
         NEW c \in 1 .. ColumnCount, Has(line, c),
         NEW b, b = Begins(buf, p)[c]
  PROVE  LET f == FirstOf(Stops, buf, b)
         IN  /\ b \in p .. p + Len(line) /\ f \in b .. p + Len(line)
             /\ IsFirst(Stops, buf, b, f)
             /\ Part(line, c) = SubSeq(line, b - p + 1, f - p)
             /\ Part(line, c) \in String /\ Len(Part(line, c)) = f - b
             /\ StringAt(ParsedBuffer(buf, p), b) = Part(line, c)
<1> DEFINE f == FirstOf(Stops, buf, b)
           n == Len(line)
           l == Append(line, NL)
           d == b - p + 1
           g == ParsedBuffer(buf, p)
<1>1. n \in Nat /\ p \in Nat /\ buf \in Seq(Tokens) /\ p + n <= Len(buf) /\ Len(buf) \in Nat
      /\ p \in 1 .. Len(buf) /\ buf[p + n] \in Stops
  BY DEF Holds, Text, Stops
<1>2. b \in p .. p + n /\ LineBegins(line)[c] = d /\ LineEnd(buf, p) = p + n
  BY <1>1, HeldColumns, HeldLineEnd
<1>3. IsFirst(Stops, buf, b, f) /\ f \in b .. p + n
  <2>1. p + n \in b .. Len(buf) /\ b \in Nat
    BY <1>1, <1>2
  <2> QED
    BY <1>1, <2>1, FirstFound
<1> HIDE DEF f
<1> HIDE DEF n
<1>19. n \in Nat /\ p \in Nat /\ b \in Nat /\ f \in Nat /\ 1 <= p /\ p <= b /\ b <= f /\ f <= p + n
  <2>1. b \in Nat /\ p <= b
    BY <1>1, <1>2
  <2> QED
    BY <1>1, <1>3, <2>1
<1>20. f - p - d + 1 = f - b /\ f - b \in Nat /\ (d <= f - p <=> f - b # 0)
  <2>1. f - p - d + 1 = f - b /\ f - b \in Nat
    BY <1>19
  <2>2. d <= f - p <=> f - b # 0
    BY <1>19
  <2> QED
    BY <2>1, <2>2
<1>21. d \in 1 .. n + 1 /\ p + d - 1 = b /\ 1 + d - 1 = d /\ d \in Nat
  BY <1>19
<1> USE DEF n
<1>4. Holds(l, 1, line) /\ Len(l) = n + 1
  BY LineAlone DEF Holds
<1>5. FirstOf(Stops, l, d) = f - p + 1
  <2>1. d \in 1 .. n + 1 /\ p + d - 1 = b /\ 1 + d - 1 = d /\ d \in Nat
    BY <1>21
  <2>2. IsFirst(Stops, l, 1 + d - 1, f - p + 1)
    <3> HIDE DEF d, l
    <3> QED
      BY <1>3, <1>4, <2>1, FirstMoves
  <2>3. l \in Seq(Tokens)
    BY <1>4 DEF Holds
  <2> HIDE DEF d, l
  <2> QED
    BY <2>1, <2>2, <2>3, FirstIs
<1>6. Part(line, c) = SubSeq(l, d, (f - p + 1) - 1)
  <2>1. Part(line, c) = SubSeq(l, LineBegins(line)[c], FirstOf(Stops, l, LineBegins(line)[c]) - 1)
    BY DEF Part
  <2> HIDE DEF d, l
  <2> QED
    BY <1>2, <1>5, <2>1
<1>7. d \in Int /\ f - p \in Int /\ (f - p + 1) - 1 = f - p /\ f - p <= n
  BY <1>1, <1>2, <1>3
<1>8. \A i \in d .. f - p : i \in 1 .. n /\ line[i] \in Field /\ l[i] = line[i] /\ line[i] # NL
  <2>1. \A i \in d .. f - p : i \in 1 .. n
    <3> HIDE DEF n
    <3> QED
      BY <1>19
  <2>2. \A i \in 1 .. n : line[i] \in Field /\ line[i] # NL
    BY DEF Holds, Text
  <2>3. \A i \in 1 .. n : l[i] = line[i]
    BY <1>1, <1>4 DEF Holds
  <2> QED
    BY <2>1, <2>2, <2>3
<1>9. /\ SubSeq(l, d, f - p) \in Seq(Field)
      /\ Len(SubSeq(l, d, f - p)) = f - b
      /\ \A i \in 1 .. f - b : SubSeq(l, d, f - p)[i] = l[d + i - 1]
  <2> HIDE DEF l
  <2>1. \A i \in d .. f - p : l[i] \in Field
    BY <1>8
  <2>2. /\ SubSeq(l, d, f - p) \in Seq(Field)
        /\ Len(SubSeq(l, d, f - p)) = IF d <= f - p THEN f - p - d + 1 ELSE 0
        /\ \A i \in 1 .. f - p - d + 1 : SubSeq(l, d, f - p)[i] = l[d + i - 1]
    <3> HIDE DEF d
    <3> QED
      BY <1>7, <2>1, SubSeqProperties
  <2>3. f - p - d + 1 = f - b /\ f - b \in Nat /\ (d <= f - p <=> f - b # 0)
    BY <1>20
  <2> HIDE DEF d
  <2> QED
    BY <2>2, <2>3
<1>10. /\ SubSeq(line, d, f - p) \in Seq(Field)
       /\ Len(SubSeq(line, d, f - p)) = f - b
       /\ \A i \in 1 .. f - b : SubSeq(line, d, f - p)[i] = line[d + i - 1]
  <2>1. \A i \in d .. f - p : line[i] \in Field
    BY <1>8
  <2>2. /\ SubSeq(line, d, f - p) \in Seq(Field)
        /\ Len(SubSeq(line, d, f - p)) = IF d <= f - p THEN f - p - d + 1 ELSE 0
        /\ \A i \in 1 .. f - p - d + 1 : SubSeq(line, d, f - p)[i] = line[d + i - 1]
    <3> HIDE DEF d
    <3> QED
      BY <1>7, <2>1, SubSeqProperties
  <2>3. f - p - d + 1 = f - b /\ f - b \in Nat /\ (d <= f - p <=> f - b # 0)
    BY <1>20
  <2> HIDE DEF d
  <2> QED
    BY <2>2, <2>3
<1>11. f - b \in Nat /\ \A i \in 1 .. f - b : d + i - 1 \in d .. f - p /\ b + i - 1 \in b .. f - 1
  <2>1. b \in Nat /\ f \in Nat /\ b <= f /\ p \in Nat /\ p <= b
    BY <1>1, <1>2, <1>3
  <2> QED
    BY <2>1
<1>12. SubSeq(l, d, f - p) = SubSeq(line, d, f - p)
  <2>1. \A i \in 1 .. f - b : SubSeq(l, d, f - p)[i] = SubSeq(line, d, f - p)[i]
    BY Zenon, <1>8, <1>9, <1>10, <1>11
  <2> HIDE DEF d, l
  <2> QED
    BY <1>9, <1>10, <2>1, SeqEqual
<1>13. Part(line, c) = SubSeq(line, d, f - p)
  BY <1>6, <1>7, <1>12
<1>14. IsBuffer(g) /\ Len(g) = Len(buf)
       /\ \A i \in 1 .. Len(buf) : g[i] = IF i \in p .. p + n /\ buf[i] \in Stops THEN NUL ELSE buf[i]
  BY <1>1, <1>2, ParsedBufferIs
<1> HIDE DEF g
<1>15. IsFirst({NUL}, g, b, f)
  <2>1. f \in b .. Len(g) /\ f \in p .. p + n /\ f \in 1 .. Len(buf) /\ buf[f] \in Stops
    BY <1>1, <1>2, <1>3, <1>14 DEF IsFirst
  <2>2. g[f] = NUL
    BY <1>14, <2>1
  <2>3. ASSUME NEW j \in b .. f - 1 PROVE g[j] # NUL
    <3>1. j \in 1 .. Len(buf) /\ buf[j] \notin Stops
      BY <1>1, <1>2, <1>3 DEF IsFirst
    <3>2. g[j] = buf[j]
      BY <1>14, <3>1
    <3> QED
      BY <3>1, <3>2 DEF Stops
  <2> QED
    BY <2>1, <2>2, <2>3 DEF IsFirst
<1>16. StringAt(g, b) = SubSeq(g, b, f - 1)
  <2>1. b \in Nat /\ g \in Seq(Tokens)
    BY <1>1, <1>2, <1>14 DEF IsBuffer
  <2>2. FirstOf({NUL}, g, b) = f
    BY <1>15, <2>1, FirstIs
  <2> QED
    BY <2>2 DEF StringAt
<1>17. \A i \in 1 .. f - b : g[b + i - 1] = line[d + i - 1] /\ line[d + i - 1] \in Field
  <2> SUFFICES ASSUME NEW i \in 1 .. f - b PROVE g[b + i - 1] = line[d + i - 1] /\ line[d + i - 1] \in Field
    OBVIOUS
  <2>1. b + i - 1 \in b .. f - 1 /\ d + i - 1 \in d .. f - p
    BY <1>11
  <2>2. b + i - 1 \in 1 .. Len(buf) /\ buf[b + i - 1] \notin Stops
    <3>1. buf[b + i - 1] \notin Stops
      BY <1>3, <2>1 DEF IsFirst
    <3>2. b \in 1 .. Len(buf) /\ f \in 1 .. Len(buf)
      <4> HIDE DEF n
      <4> QED
        BY <1>1, <1>19
    <3> QED
      BY <2>1, <3>1, <3>2
  <2>3. g[b + i - 1] = buf[b + i - 1]
    BY <1>14, <2>2
  <2>4. d + i - 1 \in 1 .. n /\ line[d + i - 1] \in Field
    BY <1>8, <2>1
  <2>5. p + (d + i - 1) - 1 = b + i - 1
    BY <1>1, <1>2
  <2>6. buf[p + (d + i - 1) - 1] = line[d + i - 1]
    BY <2>4 DEF Holds
  <2> QED
    BY <2>3, <2>4, <2>5, <2>6
<1>18. SubSeq(g, b, f - 1) = SubSeq(line, d, f - p)
  <2>1. \A i \in b .. f - 1 : g[i] \in Field
    <3> SUFFICES ASSUME NEW i \in b .. f - 1 PROVE g[i] \in Field
      OBVIOUS
    <3>1. i - b + 1 \in 1 .. f - b /\ b + (i - b + 1) - 1 = i
      <4>1. b \in Nat /\ f \in Nat
        BY <1>19
      <4> HIDE DEF d, n
      <4> QED
        BY <4>1
    <3> QED
      BY <1>17, <3>1
  <2>2. b \in Int /\ f - 1 \in Int
    BY <1>19
  <2>3. /\ SubSeq(g, b, f - 1) \in Seq(Field)
        /\ Len(SubSeq(g, b, f - 1)) = IF b <= f - 1 THEN f - 1 - b + 1 ELSE 0
        /\ \A i \in 1 .. f - 1 - b + 1 : SubSeq(g, b, f - 1)[i] = g[b + i - 1]
    BY <2>1, <2>2, SubSeqProperties
  <2>4. f - 1 - b + 1 = f - b /\ (b <= f - 1 <=> f - b # 0)
    BY <1>19
  <2>5. Len(SubSeq(g, b, f - 1)) = f - b /\ \A i \in 1 .. f - b : SubSeq(g, b, f - 1)[i] = SubSeq(line, d, f - p)[i]
    BY <1>10, <1>11, <1>17, <2>3, <2>4
  <2> HIDE DEF d
  <2> QED
    BY Zenon, <1>10, <2>3, <2>5, SeqEqual
<1> QED
  BY <1>2, <1>3, <1>10, <1>13, <1>16, <1>18 DEF String, f, g

(* A line that has its last column has all of them. *)
LEMMA HasEach ==
  ASSUME NEW line \in Text, \A i \in 1 .. Len(line) : line[i] # NL, Complete(line)
  PROVE  \A c \in 1 .. ColumnCount : Has(line, c)
<1> DEFINE l == Append(line, NL)
           g == Begins(l, 1)
           e == 1 + Len(line)
<1>1. Walks(l, 1, e, g) /\ e \in Nat
  <2>1. Holds(l, 1, line) /\ Len(line) \in Nat
    BY LineAlone DEF Text
  <2> HIDE DEF l
  <2> QED
    BY <2>1, HeldColumns
<1>2. \A c \in 1 .. ColumnCount : (Has(line, c) <=> g[c] <= e) /\ g[c] \in 1 .. e + 1
  <2>1. e = Len(line) + 1
    BY <1>1
  <2>2. LineBegins(line) = g
    BY DEF LineBegins
  <2>3. \A c \in 1 .. ColumnCount : g[c] \in 1 .. e + 1
    BY <1>1 DEF Walks
  <2> HIDE DEF g, e
  <2> QED
    BY <2>1, <2>2, <2>3 DEF Has
<1> HIDE DEF g, e
<1>3. ASSUME NEW c \in 1 .. 4, g[c + 1] <= e PROVE g[c] <= e
  <2>1. IsNext(l, e, g[c], g[c + 1]) /\ g[c] \in 1 .. e + 1
    BY <1>1 DEF Walks, ColumnCount
  <2> QED
    BY <1>1, <1>3, <2>1 DEF IsNext
<1>4. g[5] <= e
  BY <1>2 DEF Complete, ColumnCount
<1>5. g[4] <= e
  BY <1>3, <1>4
<1>6. g[3] <= e
  BY <1>3, <1>5
<1>7. g[2] <= e
  BY <1>3, <1>6
<1>8. g[1] <= e
  BY <1>3, <1>7
<1> QED
  BY <1>2, <1>4, <1>5, <1>6, <1>7, <1>8 DEF ColumnCount

LEMMA ColumnsTyped ==
  ASSUME NEW buf, IsBuffer(buf), NEW p, NEW line \in Lines, Holds(buf, p, line),
         NEW cols \in Columns, \A c \in 1 .. ColumnCount : cols[c] <= Len(buf)
  PROVE  LET g == ParsedColumns(cols, buf, p)
         IN  /\ g \in Columns /\ \A c \in 1 .. ColumnCount : g[c] <= Len(buf)
             /\ g[1] = p
             /\ \A c \in 2 .. ColumnCount :
                  g[c] = IF Has(line, c) THEN Column(buf, Begins(buf, p)[c]) ELSE cols[c]
             /\ (Complete(line) \/ cols[2] # Null) => g[2] # Null
<1> DEFINE g == ParsedColumns(cols, buf, p)
           n == Len(line)
<1>1. n \in Nat /\ p \in Nat \ {0} /\ p + n <= Len(buf) /\ Len(buf) \in Nat
  BY DEF Holds, Text
<1>2. LineEnd(buf, p) = p + n
  BY HeldLineEnd
<1>3. /\ g = [c \in 1 .. ColumnCount |-> g[c]]
      /\ g[1] = p
      /\ \A c \in 2 .. ColumnCount :
           g[c] = IF Begins(buf, p)[c] <= p + n THEN Column(buf, Begins(buf, p)[c]) ELSE cols[c]
  BY <1>2 DEF ParsedColumns, ColumnCount
<1>4. \A c \in 1 .. ColumnCount : Begins(buf, p)[c] \in p .. p + n + 1 /\ (Has(line, c) <=> Begins(buf, p)[c] <= p + n)
  BY HeldColumns
<1>5. \A c \in 2 .. ColumnCount : c \in 1 .. ColumnCount
  BY DEF ColumnCount
<1>6. \A c \in 2 .. ColumnCount : g[c] = IF Has(line, c) THEN Column(buf, Begins(buf, p)[c]) ELSE cols[c]
  BY <1>3, <1>4, <1>5
<1> HIDE DEF g, n
<1>7. ASSUME NEW c \in 1 .. ColumnCount PROVE g[c] \in Nat /\ g[c] <= Len(buf)
  <2>1. CASE c = 1
    BY <1>1, <1>3, <2>1
  <2>2. CASE c # 1
    <3>1. c \in 2 .. ColumnCount /\ cols[c] \in Nat /\ cols[c] <= Len(buf)
      BY <2>2 DEF Columns, ColumnCount
    <3>2. CASE Has(line, c)
      <4>1. Begins(buf, p)[c] \in Nat /\ Begins(buf, p)[c] <= Len(buf)
        BY <1>1, <1>4, <3>2
      <4>2. g[c] = Column(buf, Begins(buf, p)[c])
        BY <1>6, <3>1, <3>2
      <4> QED
        BY <1>1, <4>1, <4>2 DEF Column, Null
    <3>3. CASE ~ Has(line, c)
      BY <1>6, <3>1, <3>3
    <3> QED
      BY <3>2, <3>3
  <2> QED
    BY <2>1, <2>2
<1>8. g \in Columns
  BY <1>3, <1>7 DEF Columns
<1>9. ASSUME Complete(line) \/ cols[2] # Null PROVE g[2] # Null
  <2>1. 2 \in 2 .. ColumnCount /\ 2 \in 1 .. ColumnCount
    BY DEF ColumnCount
  <2>2. line \in Text /\ Proper(line) /\ \A i \in 1 .. Len(line) : line[i] # NL
    BY TsvAssumption DEF Proper, Text
  <2>3. CASE Has(line, 2)
    <3> DEFINE b == Begins(buf, p)[2]
    <3>1. Part(line, 2) # <<>>
      BY <2>2, <2>3 DEF Proper
    <3>2. /\ b \in p .. p + n /\ FirstOf(Stops, buf, b) \in b .. p + n
          /\ Len(Part(line, 2)) = FirstOf(Stops, buf, b) - b
          /\ Part(line, 2) \in String
          /\ IsFirst(Stops, buf, b, FirstOf(Stops, buf, b))
      BY <2>1, <2>3, HeldPart DEF n
    <3> HIDE DEF b
    <3>3. Len(Part(line, 2)) # 0
      BY <3>1, <3>2, EmptySeq DEF String
    <3>4. b \in b .. FirstOf(Stops, buf, b) - 1
      BY <1>1, <3>2, <3>3
    <3>5. buf[b] \notin Stops
      BY <3>2, <3>4 DEF IsFirst
    <3>6. g[2] = Column(buf, b)
      BY <1>6, <2>1, <2>3 DEF b
    <3> QED
      BY <1>1, <3>2, <3>5, <3>6 DEF Column, Stops, Null
  <2>4. CASE ~ Has(line, 2)
    <3>1. ~ Complete(line)
      BY <2>1, <2>2, <2>4, HasEach
    <3> QED
      BY <1>6, <1>9, <2>1, <2>4, <3>1
  <2> QED
    BY <2>3, <2>4
<1> QED
  BY <1>3, <1>6, <1>7, <1>8, <1>9 DEF g

(* The value in a complete line's last column, if the line ends with the token x. *)
ValueIn(line, x) ==
  IF Part(line, 5) # <<>> THEN Reading[Part(line, 5)[1]]
  ELSE IF x = NUL THEN [type |-> "INT_POS", text |-> <<Zero>>]
  ELSE [type |-> "NULL", text |-> <<>>]

(* The columns are read as the parts of the line. *)
ReadAs(buf, cols, line, v) ==
  /\ StringAt(buf, cols[1]) = Part(line, 1)
  /\ StringAt(buf, cols[2]) = Part(line, 2)
  /\ UnitAt(buf, cols[4]) = Part(line, 4)
  /\ ValueAt(buf, cols[5]) = v

LEMMA LastPart ==
  ASSUME NEW buf, IsBuffer(buf), NEW p, NEW line \in Lines, Holds(buf, p, line), Complete(line),
         NEW b, b = Begins(buf, p)[5]
  PROVE  \/ Part(line, 5) = <<>> /\ b = p + Len(line)
         \/ /\ Part(line, 5) # <<>> /\ Len(Part(line, 5)) = 1 /\ Part(line, 5)[1] \in ValueTexts
            /\ buf[b] \notin Stops
<1> DEFINE n == Len(line)
           d == b - p + 1
           f == FirstOf(Stops, buf, b)
           v == Part(line, 5)
           u == SubSeq(line, d, n)
<1>1. n \in Nat /\ p \in Nat \ {0} /\ line \in Text /\ buf[p + n] \in {NL, NUL}
      /\ \A i \in 1 .. n : buf[p + i - 1] = line[i] /\ line[i] \in Field /\ line[i] # NL
  BY DEF Holds, Text
<1>2. 5 \in 1 .. ColumnCount /\ Has(line, 5) /\ LineBegins(line)[5] = d
  BY HeldColumns DEF ColumnCount, Complete
<1>3. /\ b \in p .. p + n /\ f \in b .. p + n /\ IsFirst(Stops, buf, b, f)
      /\ v = SubSeq(line, d, f - p) /\ v \in String /\ Len(v) = f - b
  BY <1>2, HeldPart
<1>4. u \in {<<>>} \cup {<<x>> : x \in ValueTexts}
  BY <1>2, TsvAssumption DEF Proper, ColumnCount
<1>5. Len(u) = p + n - b /\ \A i \in 1 .. n - d + 1 : u[i] = line[d + i - 1]
  <2>0. n \in Nat /\ p \in Nat \ {0} /\ b \in p .. p + n
    BY <1>1, <1>3
  <2>1. d \in Int /\ n \in Int /\ \A i \in d .. n : line[i] \in Field
    <3>1. d \in Nat \ {0} /\ n \in Int
      <4> HIDE DEF n
      <4> QED
        BY <2>0
    <3>2. \A i \in d .. n : i \in 1 .. n
      <4> HIDE DEF d, n
      <4> QED
        BY <3>1
    <3> QED
      BY <1>1, <3>1, <3>2
  <2>2. /\ Len(SubSeq(line, d, n)) = IF d <= n THEN n - d + 1 ELSE 0
        /\ \A i \in 1 .. n - d + 1 : SubSeq(line, d, n)[i] = line[d + i - 1]
    <3> HIDE DEF d, n
    <3> QED
      BY <2>1, SubSeqProperties
  <2>3. b \in Nat /\ p <= b /\ b <= p + n
    <3>1. n \in Nat /\ p \in Nat /\ b \in p .. p + n
      BY <1>1, <1>3
    <3> HIDE DEF n, f, v
    <3> QED
      BY <3>1
  <2>4. p + n - b = IF d <= n THEN n - d + 1 ELSE 0
    <3>1. n \in Nat /\ p \in Nat
      BY <1>1
    <3> HIDE DEF n
    <3> QED
      BY <2>3, <3>1
  <2> QED
    BY <2>2, <2>4
<1> HIDE DEF f, u, v
<1> HIDE DEF n
<1>6. b \in Nat /\ p <= b /\ b <= p + n
  BY <1>1, <1>3
<1>7. CASE b = p + n
  <2>1. f = b /\ Len(v) = 0
    BY <1>1, <1>3, <1>7
  <2>2. v = <<>>
    BY <1>3, <2>1, EmptySeq DEF String
  <2> QED
    BY <1>7, <2>2 DEF v, n
<1>8. CASE b # p + n
  <2>1. Len(u) # 0
    BY <1>1, <1>5, <1>6, <1>8
  <2>2. PICK x \in ValueTexts : u = <<x>>
    BY <1>4, <2>1, EmptySeq
  <2>3. Len(u) = 1 /\ u[1] = x
    BY <2>2
  <2>4. b = p + n - 1 /\ d = n /\ 1 \in 1 .. n - d + 1
    BY <1>1, <1>5, <1>6, <2>3
  <2>5. line[n] = x /\ n \in 1 .. n
    <3>1. u[1] = line[d + 1 - 1]
      BY <1>5, <2>4
    <3>2. d + 1 - 1 = n /\ n >= 1
      <4>1. n \in Nat /\ p \in Nat
        BY <1>1
      <4> QED
        BY <1>6, <2>4, <4>1
    <3>3. n \in 1 .. n
      BY <1>1, <3>2
    <3> QED
      BY <2>3, <3>1, <3>2, <3>3
  <2>6. buf[b] = x
    <3>1. p + n - 1 = b /\ p + (n - 1) = b
      BY <1>1, <2>4
    <3>2. buf[p + n - 1] = line[n]
      BY <1>1, <2>5
    <3> QED
      BY <2>5, <3>1, <3>2
  <2>7. x \in Field /\ x # TAB /\ x # NL
    BY TsvAssumption DEF Field
  <2>8. x # NUL
    BY <2>7, TsvAssumption
  <2>9. buf[b] \notin Stops
    BY <2>6, <2>7, <2>8 DEF Stops
  <2>10. f = b + 1
    <3>1. f # b
      BY <1>3, <2>9 DEF IsFirst
    <3> QED
      BY <1>1, <1>3, <2>4, <3>1
  <2>11. v = SubSeq(line, n, n)
    <3>1. f - p = n
      BY <1>1, <1>3, <2>4, <2>10
    <3> QED
      BY <1>3, <2>4, <3>1
  <2>12. v = <<x>>
    <3>1. u = v
      BY <2>4, <2>11 DEF u
    <3> QED
      BY <2>2, <3>1
  <2> QED
    BY <2>9, <2>12 DEF v
<1> QED
  BY <1>7, <1>8

LEMMA PartAt ==
  ASSUME NEW buf, IsBuffer(buf), NEW p, NEW line, Holds(buf, p, line),
         NEW c \in 1 .. ColumnCount, Has(line, c), NEW b, b = Begins(buf, p)[c]
  PROVE  /\ b \in Nat \ {0} /\ StringAt(ParsedBuffer(buf, p), b) = Part(line, c)
         /\ Part(line, c) = <<>> <=> buf[b] \in Stops
<1>1. Len(line) \in Nat /\ p \in Nat \ {0}
  BY DEF Holds, Text
<1>2. /\ b \in p .. p + Len(line) /\ FirstOf(Stops, buf, b) \in b .. p + Len(line)
      /\ IsFirst(Stops, buf, b, FirstOf(Stops, buf, b))
      /\ Part(line, c) \in String /\ Len(Part(line, c)) = FirstOf(Stops, buf, b) - b
      /\ StringAt(ParsedBuffer(buf, p), b) = Part(line, c)
  BY HeldPart
<1>3. PICK f : f = FirstOf(Stops, buf, b)
  OBVIOUS
<1>4. b \in Nat \ {0} /\ f \in Nat /\ f >= b
  BY <1>1, <1>2, <1>3
<1>5. buf[b] \in Stops <=> f = b
  <2>1. f # b => b \in b .. f - 1
    BY <1>4
  <2> QED
    BY <1>2, <1>3, <2>1 DEF IsFirst
<1>6. Part(line, c) = <<>> <=> f = b
  BY <1>2, <1>3, <1>4, EmptySeq DEF String
<1> QED
  BY <1>2, <1>4, <1>5, <1>6

LEMMA LineParsed ==
  ASSUME NEW buf, IsBuffer(buf), NEW p, NEW line \in Lines, Holds(buf, p, line), Complete(line),
         NEW cols \in Columns, \A c \in 1 .. ColumnCount : cols[c] <= Len(buf)
  PROVE  ReadAs(ParsedBuffer(buf, p), ParsedColumns(cols, buf, p), line, ValueIn(line, buf[p + Len(line)]))
<1> DEFINE g == ParsedBuffer(buf, p)
           h == ParsedColumns(cols, buf, p)
           k == Begins(buf, p)
           n == Len(line)
<1>1. line \in Text /\ \A i \in 1 .. n : line[i] # NL
  BY DEF Holds
<1>2. \A c \in 1 .. ColumnCount : Has(line, c)
  BY <1>1, HasEach
<1>3. n \in Nat /\ p \in Nat \ {0} /\ buf[p + n] \in {NL, NUL}
  BY DEF Holds, Text
<1>4. ASSUME NEW c \in 1 .. ColumnCount
      PROVE  /\ k[c] \in Nat \ {0} /\ StringAt(g, k[c]) = Part(line, c)
             /\ (Part(line, c) = <<>> <=> buf[k[c]] \in Stops)
  BY <1>2, PartAt
<1>5. /\ h[1] = p /\ h[2] = Column(buf, k[2]) /\ h[4] = Column(buf, k[4]) /\ h[5] = Column(buf, k[5])
      /\ h[2] # Null
  <2>1. 2 \in 2 .. ColumnCount /\ 4 \in 2 .. ColumnCount /\ 5 \in 2 .. ColumnCount
        /\ 2 \in 1 .. ColumnCount /\ 4 \in 1 .. ColumnCount /\ 5 \in 1 .. ColumnCount
    BY DEF ColumnCount
  <2> QED
    BY <1>2, <2>1, ColumnsTyped
<1>6. 1 \in 1 .. ColumnCount /\ 2 \in 1 .. ColumnCount /\ 4 \in 1 .. ColumnCount /\ 5 \in 1 .. ColumnCount
  BY DEF ColumnCount
<1>7. k[1] = p
  BY HeldColumns DEF Walks
<1> HIDE DEF g, h, k, n
<1>8. StringAt(g, h[1]) = Part(line, 1)
  BY <1>4, <1>5, <1>6, <1>7
<1>9. StringAt(g, h[2]) = Part(line, 2)
  BY <1>4, <1>5, <1>6 DEF Column
<1>10. UnitAt(g, h[4]) = Part(line, 4)
  <2>1. CASE h[4] = Null
    <3>1. buf[k[4]] \in Stops
      BY <1>4, <1>5, <1>6, <2>1 DEF Column, Null, Stops
    <3> QED
      BY <1>4, <1>6, <2>1, <3>1 DEF UnitAt
  <2>2. CASE h[4] # Null
    BY <1>4, <1>5, <1>6, <2>2 DEF Column, UnitAt
  <2> QED
    BY <2>1, <2>2
<1>11. ValueAt(g, h[5]) = ValueIn(line, buf[p + n])
  <2> DEFINE v == Part(line, 5)
  <2>1. CASE v = <<>> /\ k[5] = p + n
    <3>1. CASE buf[p + n] = NL
      <4>1. h[5] = Null
        BY <1>5, <2>1, <3>1 DEF Column
      <4> QED
        BY <2>1, <3>1, <4>1 DEF ValueAt, ValueIn, NL, NUL
    <3>2. CASE buf[p + n] = NUL
      <4>1. h[5] = k[5] /\ h[5] # Null
        BY <1>4, <1>5, <1>6, <2>1, <3>2 DEF Column, TAB, NL, NUL, Null
      <4>2. StringAt(g, h[5]) = <<>>
        BY <1>4, <1>6, <2>1, <4>1
      <4> QED
        BY <2>1, <3>2, <4>1, <4>2 DEF ValueAt, ValueIn
    <3> QED
      BY <1>3, <3>1, <3>2
  <2>2. CASE v # <<>> /\ Len(v) = 1 /\ v[1] \in ValueTexts /\ buf[k[5]] \notin Stops
    <3>1. h[5] = k[5] /\ h[5] # Null
      BY <1>4, <1>5, <1>6, <2>2 DEF Column, Stops, Null
    <3>2. StringAt(g, h[5]) = v
      BY <1>4, <1>6, <3>1
    <3> QED
      BY <2>2, <3>1, <3>2 DEF ValueAt, ValueIn
  <2> QED
    BY <2>1, <2>2, LastPart DEF k, n
<1> QED
  BY <1>8, <1>9, <1>10, <1>11 DEF ReadAs, g, h, n

-----------------------------------------------------------------------------
(* FlattenSeq. *)

Flattens(seqs, n, f) ==
  f = [i \in 1 .. n |-> IF i = 1 THEN seqs[i] ELSE f[i - 1] \o seqs[i]]

LEMMA FlattenFound ==
  ASSUME NEW seqs, NEW n \in Nat
  PROVE  \E f : Flattens(seqs, n, f)
<1> DEFINE T == {k \in Nat : ~ \E f : Flattens(seqs, k, f)}
<1> SUFFICES ASSUME T # {} PROVE FALSE
  OBVIOUS
<1>1. PICK m \in T : \A k \in T : m <= k
  <2>1. T \in SUBSET Nat
    OBVIOUS
  <2> HIDE DEF T
  <2> QED
    BY <2>1, Smallest
<1>2. m # 0
  <2>1. Flattens(seqs, 0, [i \in 1 .. 0 |-> 0])
    BY DEF Flattens
  <2> QED
    BY <1>1, <2>1
<1>3. m - 1 \in Nat /\ m - 1 \notin T
  BY <1>1, <1>2
<1>4. PICK f : Flattens(seqs, m - 1, f)
  BY <1>3
<1> DEFINE h == [i \in 1 .. m |-> IF i = m THEN (IF m = 1 THEN seqs[m] ELSE f[m - 1] \o seqs[m]) ELSE f[i]]
<1>5. \A i \in 1 .. m - 1 : f[i] = IF i = 1 THEN seqs[i] ELSE f[i - 1] \o seqs[i]
  BY <1>4 DEF Flattens
<1>6. ASSUME NEW i \in 1 .. m PROVE h[i] = IF i = 1 THEN seqs[i] ELSE h[i - 1] \o seqs[i]
  <2>1. CASE i = m
    <3>1. m # 1 => h[m - 1] = f[m - 1]
      BY <1>1, <1>2
    <3> QED
      BY <2>1, <3>1
  <2>2. CASE i # m
    <3>1. i \in 1 .. m - 1 /\ h[i] = f[i] /\ (i # 1 => h[i - 1] = f[i - 1])
      BY <1>1, <2>2
    <3> HIDE DEF h
    <3> QED
      BY <1>5, <3>1
  <2> QED
    BY <2>1, <2>2
<1>7. h = [i \in 1 .. m |-> h[i]]
  OBVIOUS
<1> HIDE DEF h
<1>8. h = [i \in 1 .. m |-> IF i = 1 THEN seqs[i] ELSE h[i - 1] \o seqs[i]]
  BY <1>6, <1>7
<1>9. Flattens(seqs, m, h)
  BY <1>8 DEF Flattens
<1> QED
  BY <1>1, <1>9

(* The sequence made of the first i ones, for each i. *)
Joined(seqs, n, f) ==
  f[1] = seqs[1] /\ \A i \in 1 .. n - 1 : f[i + 1] = f[i] \o seqs[i + 1]

LEMMA FlattenIs ==
  ASSUME NEW X, NEW seqs \in Seq(X), Len(seqs) # 0
  PROVE  \E f : Joined(seqs, Len(seqs), f) /\ FlattenSeq(seqs) = f[Len(seqs)]
<1> DEFINE n == Len(seqs)
<1>1. n \in Nat \ {0}
  OBVIOUS
<1>2. PICK f : f = CHOOSE g : Flattens(seqs, n, g)
  OBVIOUS
<1>3. Flattens(seqs, n, f)
  BY <1>1, <1>2, FlattenFound
<1>4. FlattenSeq(seqs) = f[n]
  <2>1. FlattenSeq(seqs) = (CHOOSE g : g = [i \in 1 .. Len(seqs) |-> IF i = 1 THEN seqs[i] ELSE g[i - 1] \o seqs[i]])[Len(seqs)]
    BY DEF FlattenSeq
  <2> QED
    BY <1>2, <2>1 DEF Flattens
<1>5. \A i \in 1 .. n : f[i] = IF i = 1 THEN seqs[i] ELSE f[i - 1] \o seqs[i]
  BY <1>3 DEF Flattens
<1> HIDE DEF n
<1>6. f[1] = seqs[1]
  BY <1>1, <1>5
<1>7. ASSUME NEW i \in 1 .. n - 1 PROVE f[i + 1] = f[i] \o seqs[i + 1]
  <2>1. i + 1 \in 1 .. n /\ i + 1 # 1 /\ (i + 1) - 1 = i
    BY <1>1
  <2> QED
    BY <1>5, <2>1
<1> QED
  BY <1>4, <1>6, <1>7 DEF Joined, n

-----------------------------------------------------------------------------
(* The input is made of lines. *)

(* The line stands in t at s, with its end. *)
HasLine(t, s, line) ==
  /\ IsLine(t, s, Len(line)) /\ s + Len(line) <= Len(t)
  /\ \A i \in 1 .. Len(line) : t[s + i - 1] = line[i]

MadeOf(t, first) ==
  /\ t \in Text /\ Len(t) # 0 /\ t[Len(t)] = NL /\ HasLine(t, 1, first)
  /\ \A s \in 2 .. Len(t) : t[s - 1] = NL => \E line \in Lines : HasLine(t, s, line)

LEMMA LineTyped ==
  ASSUME NEW line \in Lines
  PROVE  /\ line \in Text /\ Proper(line) /\ Len(line) \in Nat
         /\ \A i \in 1 .. Len(line) : line[i] \in Field /\ line[i] # NL
         /\ Len(line) # 0 => line[1] # TAB
<1>1. line \in Text /\ Proper(line)
  BY TsvAssumption
<1>2. Len(line) # 0 => line # <<>>
  BY EmptySeq
<1>3. Len(line) # 0 => line[1] \in Times
  BY <1>1, <1>2 DEF Proper
<1>4. TAB \notin Times
  BY TsvAssumption
<1> QED
  BY <1>1, <1>3, <1>4 DEF Proper, Text

LEMMA CompleteHasText ==
  ASSUME NEW line \in Lines, Complete(line)
  PROVE  Len(line) \in Nat \ {0}
<1>1. line \in Text /\ Len(line) \in Nat
  BY LineTyped
<1> SUFFICES ASSUME Len(line) = 0 PROVE FALSE
  BY <1>1
<1>2. \A i \in 1 .. Len(line) : line[i] # NL
  OBVIOUS
<1>3. Has(line, 2)
  BY <1>1, <1>2, HasEach DEF ColumnCount
<1>4. Holds(Append(line, NL), 1, line)
  BY <1>1, <1>2, LineAlone
<1>5. Walks(Append(line, NL), 1, 1 + Len(line), LineBegins(line))
  BY <1>4, HeldColumns DEF LineBegins
<1>6. IsNext(Append(line, NL), 1, 1, LineBegins(line)[2])
  BY <1>5 DEF Walks, ColumnCount
<1> QED
  BY <1>1, <1>3, <1>6 DEF IsNext, Has

LEMMA OneLine ==
  ASSUME NEW line \in Lines
  PROVE  MadeOf(Append(line, NL), line)
<1> DEFINE t == Append(line, NL)
           n == Len(line)
<1>1. n \in Nat /\ line \in Seq(Field) /\ \A i \in 1 .. n : line[i] # NL
  BY LineTyped DEF Text
<1>2. t \in Seq(Field) /\ Len(t) = n + 1 /\ t[n + 1] = NL /\ \A i \in 1 .. n : t[i] = line[i]
  BY <1>1, AppendProperties DEF Field
<1> HIDE DEF t, n
<1>3. IsLine(t, 1, n)
  <2>1. \A i \in 1 .. 1 + n - 1 : t[i] # NL
    BY <1>1, <1>2
  <2>2. 1 \in 1 .. Len(t) /\ 1 + n <= Len(t) + 1 /\ t[1 + n] = NL
    BY <1>1, <1>2
  <2> QED
    BY <1>1, <2>1, <2>2 DEF IsLine
<1>4. \A i \in 1 .. n : t[1 + i - 1] = line[i]
  BY <1>1, <1>2
<1>5. HasLine(t, 1, line)
  BY <1>1, <1>2, <1>3, <1>4 DEF HasLine, n
<1>6. \A s \in 2 .. Len(t) : t[s - 1] # NL
  BY <1>1, <1>2
<1> QED
  BY <1>1, <1>2, <1>5, <1>6 DEF MadeOf, Text, t

LEMMA OneLineMore ==
  ASSUME NEW t, NEW first, MadeOf(t, first), NEW line \in Lines
  PROVE  MadeOf(t \o Append(line, NL), first)
<1> DEFINE v == Append(line, NL)
           u == t \o v
           m == Len(t)
           n == Len(line)
<1>1. t \in Seq(Field) /\ m \in Nat \ {0} /\ t[m] = NL /\ HasLine(t, 1, first)
  BY DEF MadeOf, Text
<1>2. n \in Nat /\ line \in Seq(Field) /\ \A i \in 1 .. n : line[i] # NL
  BY LineTyped DEF Text
<1>3. v \in Seq(Field) /\ Len(v) = n + 1 /\ v[n + 1] = NL /\ \A i \in 1 .. n : v[i] = line[i]
  BY <1>2, AppendProperties DEF Field
<1> HIDE DEF v, n, m
<1>4. /\ u \in Seq(Field) /\ Len(u) = m + (n + 1)
      /\ \A i \in 1 .. m + (n + 1) : u[i] = IF i <= m THEN t[i] ELSE v[i - m]
  <2>1. /\ t \o v \in Seq(Field) /\ Len(t \o v) = Len(t) + Len(v)
        /\ \A i \in 1 .. Len(t) + Len(v) : (t \o v)[i] = IF i <= Len(t) THEN t[i] ELSE v[i - Len(t)]
    BY <1>1, <1>3, ConcatProperties
  <2> QED
    BY <1>3, <2>1 DEF m
<1> HIDE DEF u
<1>5. (\A i \in 1 .. m : u[i] = t[i]) /\ \A i \in 1 .. n : u[m + i] = line[i]
  <2>1. \A i \in 1 .. m : u[i] = t[i]
    BY <1>1, <1>2, <1>4
  <2>2. ASSUME NEW i \in 1 .. n PROVE u[m + i] = line[i]
    <3>1. m + i \in 1 .. m + (n + 1) /\ ~ m + i <= m /\ (m + i) - m = i
      BY <1>1, <1>2
    <3>2. u[m + i] = v[(m + i) - m]
      BY <1>4, <3>1
    <3> QED
      BY <1>3, <3>1, <3>2
  <2> QED
    BY <2>1, <2>2
<1>6. u[Len(u)] = NL
  <2>1. m + (n + 1) \in 1 .. m + (n + 1) /\ ~ m + (n + 1) <= m /\ (m + (n + 1)) - m = n + 1
    BY <1>1, <1>2
  <2>2. u[m + (n + 1)] = v[(m + (n + 1)) - m]
    BY <1>4, <2>1
  <2> QED
    BY <1>3, <1>4, <2>1, <2>2
<1>7. ASSUME NEW s, NEW l, HasLine(t, s, l) PROVE HasLine(u, s, l)
  <2> DEFINE k == Len(l)
  <2>1. s \in 1 .. m /\ k \in Nat /\ s + k <= m /\ (\A i \in s .. s + k - 1 : t[i] # NL) /\ t[s + k] = NL
        /\ \A i \in 1 .. k : t[s + i - 1] = l[i]
    BY <1>7 DEF HasLine, IsLine, m
  <2> HIDE DEF k
  <2>2. \A i \in s .. s + k - 1 : u[i] # NL
    BY <1>1, <1>5, <2>1
  <2>3. s \in 1 .. Len(u) /\ s + k <= Len(u) + 1 /\ s + k <= Len(u)
    BY <1>1, <1>2, <1>4, <2>1
  <2>4. u[s + k] = NL
    BY <1>1, <1>5, <2>1
  <2>5. \A i \in 1 .. k : s + i - 1 \in 1 .. m
    BY <1>1, <2>1
  <2>6. \A i \in 1 .. k : u[s + i - 1] = l[i]
    BY <1>5, <2>1, <2>5
  <2> QED
    BY <2>1, <2>2, <2>3, <2>4, <2>6 DEF HasLine, IsLine, k
<1>8. HasLine(u, m + 1, line)
  <2>1. ASSUME NEW i \in (m + 1) .. (m + 1) + n - 1 PROVE u[i] # NL
    <3>1. i - m \in 1 .. n /\ m + (i - m) = i
      BY <1>1, <1>2
    <3> QED
      BY <1>2, <1>5, <3>1
  <2>2. m + 1 \in 1 .. Len(u) /\ (m + 1) + n = Len(u) /\ Len(u) \in Nat
    BY <1>1, <1>2, <1>4
  <2>3. \A i \in 1 .. n : (m + 1) + i - 1 = m + i
    BY <1>1, <1>2
  <2>4. \A i \in 1 .. n : u[(m + 1) + i - 1] = line[i]
    BY <1>5, <2>3
  <2> QED
    BY <1>2, <1>6, <2>1, <2>2, <2>4 DEF HasLine, IsLine, n
<1>9. ASSUME NEW s \in 2 .. Len(u), u[s - 1] = NL PROVE \E l \in Lines : HasLine(u, s, l)
  <2>1. CASE s <= m
    <3>1. s \in 2 .. m /\ t[s - 1] = NL
      BY <1>1, <1>5, <1>9, <2>1
    <3> QED
      BY <1>7, <3>1 DEF MadeOf, m
  <2>2. CASE s = m + 1
    BY <1>8, <2>2
  <2>3. CASE s > m + 1
    <3>1. s - 1 - m \in 1 .. n /\ m + (s - 1 - m) = s - 1
      BY <1>1, <1>2, <1>4, <2>3
    <3> QED
      BY <1>2, <1>5, <1>9, <3>1
  <2> QED
    BY <1>1, <1>2, <1>4, <2>1, <2>2, <2>3
<1>10. HasLine(u, 1, first) /\ Len(u) # 0
  BY <1>1, <1>2, <1>4, <1>7
<1> QED
  BY <1>4, <1>6, <1>9, <1>10 DEF MadeOf, Text, u, v

(* Whatever lines a text is made of, it has one of them at each place a line begins. *)
TextOfLines ==
  /\ text \in Text /\ Len(text) # 0
  /\ \A s \in Starts : LineAt(s) \in Lines
  /\ Complete(LineAt(1))

LEMMA EndedIsMade ==
  ASSUME NEW lines \in Seq(Lines), Len(lines) # 0
  PROVE  MadeOf(Ended(lines), lines[1])
<1> DEFINE n == Len(lines)
           seqs == [i \in 1 .. n |-> Append(lines[i], NL)]
<1>1. n \in Nat \ {0} /\ \A i \in 1 .. n : lines[i] \in Lines
  OBVIOUS
<1>2. seqs \in Seq(Text) /\ Len(seqs) = n /\ Ended(lines) = FlattenSeq(seqs)
      /\ \A i \in 1 .. n : seqs[i] = Append(lines[i], NL)
  <2>1. \A i \in 1 .. n : Append(lines[i], NL) \in Text
    BY <1>1, LineTyped, AppendProperties DEF Text, Field
  <2>2. Ended(lines) = FlattenSeq(seqs)
    <3>1. DOMAIN lines = 1 .. n
      OBVIOUS
    <3> QED
      BY <3>1 DEF Ended
  <2>3. seqs \in [1 .. n -> Text]
    BY <2>1
  <2> HIDE DEF n
  <2> QED
    BY <1>1, <2>2, <2>3
<1> HIDE DEF n, seqs
<1>3. PICK f : Joined(seqs, n, f) /\ FlattenSeq(seqs) = f[n]
  BY <1>1, <1>2, FlattenIs
<1> DEFINE T == {k \in 1 .. n : ~ MadeOf(f[k], lines[1])}
<1>4. ASSUME T # {} PROVE FALSE
  <2>1. T \in SUBSET Nat
    BY <1>1
  <2>2. PICK m \in T : \A k \in T : m <= k
    <3> HIDE DEF T
    <3> QED
      BY <1>4, <2>1, Smallest
  <2>3. CASE m = 1
    BY <1>1, <1>2, <1>3, <2>2, <2>3, OneLine DEF Joined
  <2>4. CASE m # 1
    <3>1. m - 1 \in 1 .. n - 1 /\ m - 1 \in 1 .. n /\ m - 1 \notin T /\ (m - 1) + 1 = m /\ m \in 1 .. n
      BY <1>1, <2>1, <2>2, <2>4
    <3>2. MadeOf(f[m - 1], lines[1])
      BY <3>1
    <3>3. f[m] = f[m - 1] \o Append(lines[m], NL)
      BY <1>2, <1>3, <3>1 DEF Joined
    <3>4. MadeOf(f[m], lines[1])
      BY <1>1, <3>1, <3>2, <3>3, OneLineMore
    <3> QED
      BY <2>2, <3>4
  <2> QED
    BY <2>3, <2>4
<1>5. MadeOf(f[n], lines[1])
  BY <1>1, <1>4
<1> QED
  BY <1>2, <1>3, <1>5

(* A line that stands in a text is the line there, also if the last one has lost its end. *)
LEMMA LineStands ==
  ASSUME text \in Text, NEW t \in Text, NEW s \in 1 .. Len(text), NEW line \in Text, HasLine(t, s, line),
         Len(text) = Len(t) \/ Len(text) + 1 = Len(t),
         \A i \in 1 .. Len(text) : text[i] = t[i]
  PROVE  LineAt(s) = line
<1> DEFINE n == Len(line)
           l == LineAt(s)
<1>1. n \in Nat /\ Len(text) \in Nat /\ Len(t) \in Nat /\ Len(l) \in Nat
      /\ l \in Text /\ IsLine(text, s, Len(l)) /\ \A i \in 1 .. Len(l) : l[i] = text[s + i - 1]
  BY LineAtIs DEF Text
<1> HIDE DEF l
<1>2. IsLine(text, s, n)
  <2>1. s + n <= Len(t) /\ (\A i \in s .. s + n - 1 : t[i] # NL) /\ t[s + n] = NL
    BY <1>1 DEF HasLine, IsLine
  <2> HIDE DEF n
  <2>2. \A i \in s .. s + n - 1 : text[i] # NL
    BY <1>1, <2>1
  <2>3. s + n <= Len(text) => text[s + n] = NL
    BY <1>1, <2>1
  <2> QED
    BY <1>1, <2>1, <2>2, <2>3 DEF IsLine
<1>3. Len(l) = n
  BY <1>1, <1>2, LineLength
<1>4. \A i \in 1 .. n : l[i] = line[i]
  <2> SUFFICES ASSUME NEW i \in 1 .. n PROVE l[i] = line[i]
    OBVIOUS
  <2>1. s + i - 1 \in 1 .. Len(text)
    BY <1>1, <1>2 DEF IsLine
  <2> QED
    BY <1>1, <1>3, <2>1 DEF HasLine
<1> HIDE DEF n
<1>5. l = line
  BY <1>1, <1>3, <1>4, SeqEqual DEF Text, n
<1> QED
  BY <1>5 DEF l

LEMMA TextInit ==
  ASSUME TsvInit
  PROVE  TextOfLines
<1>1. PICK lines \in SeqOf(Lines, MaxLines) :
        lines # <<>> /\ Complete(lines[1]) /\ text \in {Ended(lines), Front(Ended(lines))}
  BY DEF TsvInit
<1>2. lines \in Seq(Lines) /\ Len(lines) # 0
  <2>1. PICK m \in 0 .. MaxLines : lines \in [1 .. m -> Lines]
    BY <1>1 DEF SeqOf
  <2>2. m \in Nat
    BY <2>1, TsvAssumption
  <2>3. lines \in Seq(Lines)
    BY <2>1, <2>2
  <2> QED
    BY <1>1, <2>3, EmptySeq
<1> DEFINE t == Ended(lines)
           first == lines[1]
<1>3. MadeOf(t, first) /\ first \in Lines /\ Complete(first)
  BY <1>1, <1>2, EndedIsMade
<1> HIDE DEF t, first
<1>4. t \in Text /\ Len(t) \in Nat \ {0} /\ HasLine(t, 1, first)
  BY <1>3 DEF MadeOf, Text
<1>5. first \in Text /\ Len(first) \in Nat \ {0}
  BY <1>3, LineTyped, CompleteHasText
<1>6. /\ text \in Text /\ Len(text) \in Nat /\ Len(text) # 0
      /\ Len(text) = Len(t) \/ Len(text) + 1 = Len(t)
      /\ \A i \in 1 .. Len(text) : text[i] = t[i]
  <2>1. CASE text = t
    BY <1>4, <2>1 DEF Text
  <2>2. CASE text = Front(t)
    <3>1. Len(t) > 1
      BY <1>4, <1>5 DEF HasLine
    <3>2. 1 \in Int /\ Len(t) - 1 \in Int /\ \A i \in 1 .. Len(t) - 1 : t[i] \in Field
      BY <1>4 DEF Text
    <3>3. /\ SubSeq(t, 1, Len(t) - 1) \in Seq(Field)
          /\ Len(SubSeq(t, 1, Len(t) - 1)) = IF 1 <= Len(t) - 1 THEN Len(t) - 1 - 1 + 1 ELSE 0
          /\ \A i \in 1 .. Len(t) - 1 - 1 + 1 : SubSeq(t, 1, Len(t) - 1)[i] = t[1 + i - 1]
      BY <3>2, SubSeqProperties
    <3>4. text = SubSeq(t, 1, Len(t) - 1)
      BY <2>2 DEF Front
    <3>5. Len(text) = Len(t) - 1 /\ Len(text) \in Nat
      BY <1>4, <3>1, <3>3, <3>4
    <3>6. \A i \in 1 .. Len(text) : text[i] = t[i]
      BY <1>4, <3>3, <3>4, <3>5
    <3> QED
      BY <1>4, <3>1, <3>3, <3>4, <3>5, <3>6 DEF Text
  <2> QED
    BY <1>1, <2>1, <2>2 DEF t
<1>7. LineAt(1) = first
  BY <1>4, <1>5, <1>6, LineStands
<1>8. ASSUME NEW s \in Starts PROVE LineAt(s) \in Lines
  <2>1. CASE s = 1
    BY <1>3, <1>7, <2>1
  <2>2. CASE s # 1
    <3>1. s \in 1 .. Len(text) /\ text[s - 1] = NL
      BY <1>6, <1>8, <2>2 DEF Starts, Text
    <3>2. s \in 2 .. Len(t) /\ t[s - 1] = NL
      BY <1>4, <1>6, <2>2, <3>1
    <3>3. PICK line \in Lines : HasLine(t, s, line)
      BY <1>3, <3>2 DEF MadeOf
    <3>4. LineAt(s) = line
      BY <1>4, <1>6, <3>1, <3>3, LineTyped, LineStands
    <3> QED
      BY <3>4
  <2> QED
    BY <2>1, <2>2
<1> QED
  BY <1>3, <1>6, <1>7, <1>8 DEF TextOfLines

-----------------------------------------------------------------------------
(* Chunks. *)

LEMMA BlankIs ==
  ASSUME NEW t \in Text
  PROVE  \E j \in 0 .. Len(t) :
           /\ Cardinality(Blank(t)) = j
           /\ \A i \in 1 .. j : t[i] \in {TAB, NL}
           /\ j < Len(t) => t[j + 1] \notin {TAB, NL}
<1> DEFINE n == Len(t)
           T == {i \in 1 .. n : t[i] \notin {TAB, NL}}
<1>1. n \in Nat /\ DOMAIN t = 1 .. n
  BY DEF Text
<1>2. \A j \in Nat : IsFiniteSet(1 .. j) /\ Cardinality(1 .. j) = j
  <2> TAKE j \in Nat
  <2>1. IsFiniteSet(1 .. j) /\ Cardinality(1 .. j) = IF 1 > j THEN 0 ELSE j - 1 + 1
    BY FS_Interval
  <2> QED
    BY <2>1
<1>3. CASE T = {}
  <2>1. Blank(t) = 1 .. n
    BY <1>1, <1>3 DEF Blank
  <2>2. \A i \in 1 .. n : t[i] \in {TAB, NL}
    BY <1>3
  <2> QED
    BY <1>1, <1>2, <2>1, <2>2
<1>4. CASE T # {}
  <2>1. T \in SUBSET Nat
    BY <1>1
  <2>2. PICK m \in T : \A k \in T : m <= k
    <3> HIDE DEF T
    <3> QED
      BY <1>4, <2>1, Smallest
  <2>3. m \in 1 .. n /\ t[m] \notin {TAB, NL} /\ \A i \in 1 .. m - 1 : t[i] \in {TAB, NL}
    BY <1>1, <2>2
  <2>4. Blank(t) = 1 .. m - 1
    BY <1>1, <2>3 DEF Blank
  <2>5. m - 1 \in 0 .. n /\ m - 1 \in Nat /\ (m - 1) + 1 = m
    BY <1>1, <2>3
  <2> QED
    BY <1>2, <2>3, <2>4, <2>5
<1> QED
  BY <1>3, <1>4

(* r is what is left of t behind k tokens. *)
IsRest(t, k, r) ==
  r \in Text /\ k \in 0 .. Len(t) /\ Len(r) = Len(t) - k /\ \A i \in 1 .. Len(t) - k : r[i] = t[k + i]

LEMMA RestIs ==
  ASSUME NEW t \in Text, NEW k \in 0 .. Len(t)
  PROVE  IsRest(t, k, SubSeq(t, k + 1, Len(t)))
<1>1. Len(t) \in Nat /\ k + 1 \in 1 .. Len(t) + 1 /\ k \in Nat
  BY DEF Text
<1>2. PICK s : s = k + 1
  OBVIOUS
<1> DEFINE u == SubSeq(t, s, Len(t))
<1>3. /\ u \in Text /\ Len(u) = Len(t) + 1 - s
      /\ \A i \in 1 .. Len(t) + 1 - s : u[i] = t[s + i - 1]
  BY <1>1, <1>2, SuffixIs DEF Text
<1> HIDE DEF u
<1>4. Len(u) = Len(t) - k /\ \A i \in 1 .. Len(t) - k : u[i] = t[k + i]
  <2>1. Len(t) + 1 - s = Len(t) - k
    BY <1>1, <1>2
  <2>2. \A i \in 1 .. Len(t) - k : s + i - 1 = k + i
    BY <1>1, <1>2
  <2> QED
    BY <1>3, <2>1, <2>2
<1> QED
  BY <1>2, <1>3, <1>4 DEF IsRest, u

LEMMA RestOfRest ==
  ASSUME NEW t \in Text, NEW k, NEW r, IsRest(t, k, r), NEW j, NEW u, IsRest(r, j, u)
  PROVE  IsRest(t, k + j, u)
<1>1. /\ Len(t) \in Nat /\ k \in Nat /\ k <= Len(t) /\ r \in Text /\ Len(r) = Len(t) - k /\ \A i \in 1 .. Len(t) - k : r[i] = t[k + i]
      /\ j \in Nat /\ j <= Len(r) /\ u \in Text /\ Len(u) = Len(r) - j /\ \A i \in 1 .. Len(r) - j : u[i] = r[j + i]
  BY DEF IsRest, Text
<1>2. k + j \in 0 .. Len(t) /\ Len(u) = Len(t) - (k + j)
  BY <1>1
<1>3. ASSUME NEW i \in 1 .. Len(t) - (k + j) PROVE u[i] = t[(k + j) + i]
  <2>1. i \in 1 .. Len(r) - j /\ j + i \in 1 .. Len(t) - k /\ k + (j + i) = (k + j) + i
    BY <1>1
  <2> QED
    BY <1>1, <2>1
<1> QED
  BY <1>1, <1>2, <1>3 DEF IsRest

LEMMA BehindIs ==
  ASSUME NEW s \in Text
  PROVE  \E k \in Len(LineOf(s)) .. Len(s) :
           /\ IsRest(s, k, BehindLine(s))
           /\ \A i \in Len(LineOf(s)) + 1 .. k : s[i] \in {TAB, NL}
           /\ k < Len(s) => k > Len(LineOf(s)) /\ s[k + 1] \notin {TAB, NL}
<1> DEFINE m == Len(LineOf(s))
           t == SubSeq(s, m + 1, Len(s))
<1>1. m \in 0 .. Len(s) /\ Len(s) \in Nat /\ (m < Len(s) => s[m + 1] = NL)
  BY LineOfIs DEF Text
<1>2. IsRest(s, m, t)
  BY <1>1, RestIs
<1>3. t \in Text /\ Len(t) \in Nat /\ Len(t) = Len(s) - m /\ \A i \in 1 .. Len(s) - m : t[i] = s[m + i]
  BY <1>2 DEF IsRest, Text
<1>4. PICK j \in 0 .. Len(t) :
        /\ Cardinality(Blank(t)) = j
        /\ \A i \in 1 .. j : t[i] \in {TAB, NL}
        /\ j < Len(t) => t[j + 1] \notin {TAB, NL}
  <2> HIDE DEF t
  <2> QED
    BY <1>3, BlankIs
<1>5. BehindLine(s) = SubSeq(t, j + 1, Len(t))
  BY <1>4 DEF BehindLine
<1> HIDE DEF t, m
<1>6. IsRest(s, m + j, BehindLine(s))
  BY <1>2, <1>3, <1>4, <1>5, RestIs, RestOfRest
<1>7. \A i \in m + 1 .. m + j : s[i] \in {TAB, NL}
  <2> SUFFICES ASSUME NEW i \in m + 1 .. m + j PROVE s[i] \in {TAB, NL}
    OBVIOUS
  <2>1. i - m \in 1 .. j /\ i - m \in 1 .. Len(s) - m /\ m + (i - m) = i
    BY <1>1, <1>3, <1>4
  <2> QED
    BY <1>3, <1>4, <2>1
<1>8. ASSUME m + j < Len(s) PROVE m + j > m /\ s[m + j + 1] \notin {TAB, NL}
  <2>1. j < Len(t) /\ j + 1 \in 1 .. Len(s) - m /\ m + (j + 1) = m + j + 1
    BY <1>1, <1>3, <1>4, <1>8
  <2>2. s[m + j + 1] \notin {TAB, NL}
    BY <1>3, <1>4, <2>1
  <2>3. j # 0
    <3>1. j = 0 => m + j + 1 = m + 1 /\ m < Len(s)
      BY <1>1, <1>8
    <3> QED
      BY <1>1, <2>2, <3>1
  <2> QED
    BY <1>1, <1>4, <2>2, <2>3
<1>9. m + j \in m .. Len(s)
  BY <1>1, <1>3, <1>4
<1> QED
  BY <1>6, <1>7, <1>8, <1>9 DEF m

(* A chunk is m tokens of r, and what is read next lies behind k of them. *)
IsChunk(r, c, m, k) ==
  /\ m \in 0 .. Len(r) /\ k \in m .. Len(r)
  /\ c.chunk \in Text /\ Len(c.chunk) = m /\ \A i \in 1 .. m : c.chunk[i] = r[i]
  /\ IsRest(r, k, c.rest)
  /\ m < Len(r) => r[m + 1] = NL /\ k > m
  /\ \A i \in m + 1 .. k : r[i] \in {TAB, NL}
  /\ k < Len(r) /\ k # m + 1 => r[k + 1] \notin {TAB, NL}

LEMMA CompletedIs ==
  ASSUME NEW r \in Text, NEW n \in 1 .. Len(r)
  PROVE  \E m \in n .. Len(r), k \in n .. Len(r) :
           IsChunk(r, Completed(SubSeq(r, 1, n), SubSeq(r, n + 1, Len(r))), m, k)
<1> DEFINE got == SubSeq(r, 1, n)
           after == SubSeq(r, n + 1, Len(r))
           c == Completed(got, after)
<1>1. Len(r) \in Nat /\ n \in Nat /\ n <= Len(r) /\ n >= 1
  BY DEF Text
<1>2. got \in Text /\ Len(got) = n /\ \A i \in 1 .. n : got[i] = r[i]
  <2>1. 1 \in Int /\ n \in Int /\ \A i \in 1 .. n : r[i] \in Field
    BY <1>1 DEF Text
  <2>2. /\ SubSeq(r, 1, n) \in Seq(Field)
        /\ Len(SubSeq(r, 1, n)) = IF 1 <= n THEN n - 1 + 1 ELSE 0
        /\ \A i \in 1 .. n - 1 + 1 : SubSeq(r, 1, n)[i] = r[1 + i - 1]
    BY <2>1, SubSeqProperties
  <2>3. \A i \in 1 .. n : SubSeq(r, 1, n)[i] = r[i]
    BY <1>1, <2>2
  <2> QED
    BY <1>1, <2>2, <2>3 DEF Text
<1>3. IsRest(r, n, after)
  BY <1>1, RestIs
<1> HIDE DEF got, after
<1>4. after \in Text /\ Len(after) = Len(r) - n /\ Len(after) \in Nat /\ \A i \in 1 .. Len(r) - n : after[i] = r[n + i]
  BY <1>1, <1>3 DEF IsRest
<1>5. CASE after # <<>> /\ Head(after) = NL
  <2>1. c.chunk = got /\ c.rest = Tail(after)
    BY <1>5 DEF Completed
  <2>2. Len(after) # 0
    BY <1>4, <1>5, EmptySeq DEF Text
  <2>3. after[1] = NL
    BY <1>4, <1>5, <2>2 DEF Text
  <2>4. r[n + 1] = NL
    BY <1>1, <1>4, <2>2, <2>3
  <2>5. IsRest(after, 1, Tail(after))
    <3>1. Tail(after) \in Text /\ Len(Tail(after)) = Len(after) - 1
          /\ \A i \in 1 .. Len(Tail(after)) : Tail(after)[i] = after[i + 1]
      BY <1>4, <1>5, HeadTailProperties DEF Text
    <3> QED
      BY <1>4, <2>2, <3>1 DEF IsRest
  <2>6. IsRest(r, n + 1, c.rest)
    BY <1>3, <2>1, <2>5, RestOfRest
  <2>7. n + 1 \in n .. Len(r)
    BY <1>1, <1>4, <2>2
  <2>8. IsChunk(r, c, n, n + 1)
    <3>1. \A i \in n + 1 .. n + 1 : r[i] \in {TAB, NL}
      BY <1>1, <2>4
    <3> QED
      BY <1>1, <1>2, <2>1, <2>4, <2>6, <2>7, <3>1 DEF IsChunk
  <2> QED
    BY <1>1, <2>7, <2>8 DEF got, after
<1>6. CASE ~ (after # <<>> /\ Head(after) = NL)
  <2> DEFINE l == LineOf(after)
             m == n + Len(l)
  <2>1. c.chunk = got \o l /\ c.rest = BehindLine(after)
    BY <1>6 DEF Completed
  <2>2. /\ l \in Text /\ Len(l) \in 0 .. Len(after)
        /\ \A i \in 1 .. Len(l) : l[i] = after[i]
        /\ Len(l) < Len(after) => after[Len(l) + 1] = NL
    BY <1>4, LineOfIs
  <2>3. PICK j \in Len(l) .. Len(after) :
          /\ IsRest(after, j, BehindLine(after))
          /\ \A i \in Len(l) + 1 .. j : after[i] \in {TAB, NL}
          /\ j < Len(after) => j > Len(l) /\ after[j + 1] \notin {TAB, NL}
    BY <1>4, BehindIs
  <2> HIDE DEF l
  <2>4. /\ got \o l \in Text /\ Len(got \o l) = m
        /\ \A i \in 1 .. n + Len(l) : (got \o l)[i] = IF i <= n THEN got[i] ELSE l[i - n]
    <3>1. got \in Seq(Field) /\ l \in Seq(Field)
      BY <1>2, <2>2 DEF Text
    <3> QED
      BY <1>2, <3>1, ConcatProperties DEF Text
  <2>5. \A i \in 1 .. m : c.chunk[i] = r[i]
    <3> SUFFICES ASSUME NEW i \in 1 .. m PROVE c.chunk[i] = r[i]
      OBVIOUS
    <3>1. CASE i <= n
      BY <1>1, <1>2, <2>1, <2>2, <2>4, <3>1
    <3>2. CASE ~ i <= n
      <4>1. i - n \in 1 .. Len(l) /\ i - n \in 1 .. Len(r) - n /\ n + (i - n) = i
        BY <1>1, <1>4, <2>2, <3>2
      <4> QED
        BY <1>4, <2>1, <2>2, <2>4, <3>2, <4>1
    <3> QED
      BY <3>1, <3>2
  <2>6. IsRest(r, n + j, c.rest)
    BY <1>3, <2>1, <2>3, RestOfRest
  <2>7. m \in n .. Len(r) /\ n + j \in m .. Len(r) /\ n + j \in n .. Len(r)
    BY <1>1, <1>4, <2>2, <2>3
  <2>8. m < Len(r) => r[m + 1] = NL /\ n + j > m
    <3> SUFFICES ASSUME m < Len(r) PROVE r[m + 1] = NL /\ n + j > m
      OBVIOUS
    <3>1. Len(l) < Len(after) /\ Len(l) + 1 \in 1 .. Len(r) - n /\ n + (Len(l) + 1) = m + 1
      BY <1>1, <1>4, <2>2
    <3>2. r[m + 1] = NL
      BY <1>4, <2>2, <3>1
    <3>3. j > Len(l)
      BY <1>4, <2>2, <2>3, <3>1
    <3> QED
      BY <1>1, <2>2, <2>3, <3>2, <3>3
  <2>9. \A i \in m + 1 .. n + j : r[i] \in {TAB, NL}
    <3> SUFFICES ASSUME NEW i \in m + 1 .. n + j PROVE r[i] \in {TAB, NL}
      OBVIOUS
    <3>1. i - n \in Len(l) + 1 .. j /\ i - n \in 1 .. Len(r) - n /\ n + (i - n) = i
      BY <1>1, <1>4, <2>2, <2>3
    <3> QED
      BY <1>4, <2>3, <3>1
  <2>10. n + j < Len(r) => r[(n + j) + 1] \notin {TAB, NL}
    <3> SUFFICES ASSUME n + j < Len(r) PROVE r[(n + j) + 1] \notin {TAB, NL}
      OBVIOUS
    <3>1. j < Len(after) /\ j + 1 \in 1 .. Len(r) - n /\ n + (j + 1) = (n + j) + 1
      BY <1>1, <1>4, <2>2, <2>3
    <3> QED
      BY <1>4, <2>3, <3>1
  <2>11. IsChunk(r, c, m, n + j)
    <3>1. m \in 0 .. Len(r)
      BY <1>1, <2>7
    <3>2. c.chunk \in Text /\ Len(c.chunk) = m
      BY <2>1, <2>4
    <3> HIDE DEF m, c
    <3> QED
      BY <2>5, <2>6, <2>7, <2>8, <2>9, <2>10, <3>1, <3>2 DEF IsChunk
  <2> QED
    BY <2>7, <2>11 DEF got, after
<1> QED
  BY <1>5, <1>6

(* No line is lost between two chunks: what is passed over are ends of lines. *)
LEMMA GapIsEmpty ==
  ASSUME TextOfLines, NEW u, IsRest(text, u, rest), NEW c, NEW m, NEW k, IsChunk(rest, c, m, k)
  PROVE  \A i \in u + m + 1 .. u + k : text[i] = NL
<1>1. /\ Len(text) \in Nat /\ u \in Nat /\ m \in Nat /\ k \in Nat /\ m <= k /\ k <= Len(rest)
      /\ Len(rest) = Len(text) - u /\ \A i \in 1 .. Len(text) - u : rest[i] = text[u + i]
      /\ (m < Len(rest) => rest[m + 1] = NL)
      /\ \A i \in m + 1 .. k : rest[i] \in {TAB, NL}
  BY DEF IsRest, IsChunk, TextOfLines, Text
<1>2. \A i \in u + m + 1 .. u + k : text[i] \in {TAB, NL}
  <2> SUFFICES ASSUME NEW i \in u + m + 1 .. u + k PROVE text[i] \in {TAB, NL}
    OBVIOUS
  <2>1. i - u \in m + 1 .. k /\ i - u \in 1 .. Len(text) - u /\ u + (i - u) = i
    BY <1>1
  <2> QED
    BY <1>1, <2>1
<1> DEFINE T == {i \in u + m + 1 .. u + k : text[i] # NL}
<1> SUFFICES ASSUME T # {} PROVE FALSE
  OBVIOUS
<1>3. PICK i \in T : \A j \in T : i <= j
  <2>1. T \in SUBSET Nat
    BY <1>1
  <2> HIDE DEF T
  <2> QED
    BY <2>1, Smallest
<1>4. text[i] = TAB /\ i \in Nat
  BY <1>1, <1>2, <1>3
<1>5. i # u + m + 1
  <2>1. ASSUME i = u + m + 1 PROVE FALSE
    <3>1. m < Len(rest) /\ m + 1 \in 1 .. Len(text) - u /\ u + (m + 1) = u + m + 1
      BY <1>1, <1>3, <2>1
    <3> QED
      BY <1>1, <1>3, <2>1, <3>1
  <2> QED
    BY <2>1
<1>6. i - 1 \in u + m + 1 .. u + k /\ i - 1 \notin T
  BY <1>1, <1>3, <1>4, <1>5
<1>7. text[i - 1] = NL
  BY <1>6
<1>8. i \in Starts /\ i \in 1 .. Len(text)
  <2>1. i \in 1 .. Len(text)
    BY <1>1, <1>3
  <2> QED
    BY <1>7, <2>1 DEF Starts, TextOfLines, Text
<1>9. LineAt(i) \in Lines
  BY <1>8 DEF TextOfLines
<1>10. /\ Len(LineAt(i)) \in Nat /\ IsLine(text, i, Len(LineAt(i)))
       /\ \A j \in 1 .. Len(LineAt(i)) : LineAt(i)[j] = text[i + j - 1]
  BY <1>8, <1>9, LineAtIs, LineTyped DEF TextOfLines
<1>11. Len(LineAt(i)) # 0
  <2>1. Len(LineAt(i)) = 0 => text[i] = NL
    <3>1. i + 0 = i /\ i <= Len(text)
      BY <1>1, <1>4, <1>8
    <3> QED
      BY <1>10, <3>1 DEF IsLine
  <2> QED
    BY <1>3, <2>1
<1>12. LineAt(i)[1] = TAB
  BY <1>4, <1>10, <1>11
<1> QED
  BY <1>9, <1>11, <1>12, LineTyped

-----------------------------------------------------------------------------
(* The chunk in the buffer. *)

(* How much of the text has been read. *)
Used == Len(text) - Len(rest)

(***************************************************************************)
(* The chunk is a stretch of the text that ends with a line, what was read *)
(* behind it are ends of lines, and the line to be parsed stands where the *)
(* pointer is, as the text has it.                                         *)
(***************************************************************************)
Chunked ==
  /\ IsRest(text, Used, rest)
  /\ base \in Nat /\ size \in Nat /\ pointer \in Nat \ {0}
  /\ base + size <= Used /\ \A i \in base + size + 1 .. Used : text[i] = NL
  /\ base + size = Used => size = 0 \/ Used = Len(text)
  /\ size = 0 => base = 0 /\ Used = 0 /\ from = 0
  /\ ends \subseteq 1 .. Len(text) /\ \A x \in ends : x <= base \/ x = base + size
  /\ size # 0 => base + size \in ends
  /\ IsBuffer(buffer) /\ size < Len(buffer)
  /\ pointer <= size => /\ base + pointer \in Starts
                        /\ buffer[size + 1] = NUL
                        /\ \A i \in pointer .. size : buffer[i] = text[base + i]

(* The columns point into the buffer, and name and time are there once a line was parsed. *)
Pointed ==
  /\ columns \in Columns /\ \A c \in 1 .. ColumnCount : columns[c] <= Len(buffer)
  /\ from \in Nat
  /\ from = 0 => base = 0 /\ pointer = 1
  /\ from # 0 => columns[1] # Null /\ columns[2] # Null

LEMMA UsedIs ==
  ASSUME text \in Text, NEW k, IsRest(text, k, rest)
  PROVE  Used = k /\ k \in Nat /\ Len(text) \in Nat /\ k <= Len(text) /\ Len(rest) = Len(text) - k
  BY DEF Used, IsRest, Text

LEMMA ReadChunkChunks ==
  ASSUME TextOfLines, Chunked, Pointed, chunkSize \in ChunkSizes, ReadChunk
  PROVE  /\ Chunked' /\ Pointed'
         /\ base' = Used /\ pointer' = 1 /\ size' \in Nat \ {0} /\ ends' = ends \cup {base' + size'}
         /\ size = 0 \/ base + size < Used
<1> DEFINE n == IF chunkSize < Len(rest) THEN chunkSize ELSE Len(rest)
           c == Completed(SubSeq(rest, 1, n), SubSeq(rest, n + 1, Len(rest)))
<1>1. /\ phase = "read" /\ pointer > size /\ rest # <<>>
      /\ buffer' = Filled(buffer, c.chunk) /\ size' = Len(c.chunk) /\ pointer' = 1
      /\ base' = Len(text) - Len(rest) /\ ends' = ends \cup {base' + Len(c.chunk)} /\ rest' = c.rest
      /\ text' = text /\ columns' = columns /\ from' = from
  BY DEF ReadChunk
<1>2. text \in Text /\ Len(text) \in Nat /\ IsRest(text, Used, rest) /\ Used \in Nat /\ Used <= Len(text)
      /\ Len(rest) = Len(text) - Used /\ rest \in Text /\ Len(rest) \in Nat /\ Len(rest) # 0
  <2>1. text \in Text /\ IsRest(text, Used, rest)
    BY DEF TextOfLines, Chunked
  <2>2. rest \in Text
    BY <2>1 DEF IsRest
  <2> QED
    BY <1>1, <2>1, <2>2, UsedIs, EmptySeq DEF Text
<1>3. n \in 1 .. Len(rest)
  BY <1>2, TsvAssumption
<1> HIDE DEF n
<1>4. PICK m \in n .. Len(rest), k \in n .. Len(rest) : IsChunk(rest, c, m, k)
  BY <1>2, <1>3, CompletedIs
<1> HIDE DEF c
<1>5. /\ m \in Nat \ {0} /\ k \in Nat /\ m <= k /\ k <= Len(rest)
      /\ c.chunk \in Text /\ Len(c.chunk) = m /\ (\A i \in 1 .. m : c.chunk[i] = rest[i])
      /\ IsRest(rest, k, c.rest) /\ (m < Len(rest) => k > m)
  BY <1>2, <1>3, <1>4 DEF IsChunk
<1>6. IsRest(text, Used + k, rest')
  BY <1>1, <1>2, <1>5, RestOfRest
<1>7. Used' = Used + k
  <2> DEFINE u == Used + k
  <2>1. IsRest(text, u, rest')
    BY <1>6
  <2>2. Used \in Nat /\ k \in Nat /\ Used + k \in Nat
    BY <1>2, <1>5
  <2> HIDE DEF u
  <2>3. u \in Nat /\ u <= Len(text) /\ Len(rest') = Len(text) - u
    BY <2>1 DEF IsRest
  <2>4. Used' = Len(text) - Len(rest')
    BY <1>1 DEF Used
  <2>5. Used' = u
    BY <1>2, <2>3, <2>4
  <2> QED
    BY <2>5 DEF u
<1>8. base' = Used /\ size' = m
  BY <1>1, <1>5 DEF Used
<1>9. IsBuffer(buffer') /\ Len(buffer') >= Len(buffer) /\ Len(buffer') > m
      /\ (\A i \in 1 .. m : buffer'[i] = rest[i]) /\ buffer'[m + 1] = NUL
  <2>1. IsBuffer(buffer)
    BY DEF Chunked
  <2>2. LET g == Filled(buffer, c.chunk)
        IN  /\ IsBuffer(g) /\ Len(g) >= Len(buffer) /\ Len(g) > Len(c.chunk)
            /\ \A i \in 1 .. Len(c.chunk) : g[i] = c.chunk[i]
            /\ g[Len(c.chunk) + 1] = NUL
    BY <1>5, <2>1, FilledIs
  <2> QED
    BY <1>1, <1>5, <2>2
<1>10. \A i \in Used + m + 1 .. Used + k : text[i] = NL
  BY <1>2, <1>4, GapIsEmpty
<1>11. size = 0 \/ base + size < Used
  BY <1>2, <1>5 DEF Chunked
<1>12. Used + 1 \in Starts
  <2>1. CASE size = 0
    BY <1>2, <2>1 DEF Chunked, Starts, Text
  <2>2. CASE size # 0
    <3>1. Used \in base + size + 1 .. Used
      BY <1>2, <1>11, <2>2 DEF Chunked
    <3>2. text[Used] = NL
      BY <3>1 DEF Chunked
    <3>3. Used + 1 \in 1 .. Len(text) /\ (Used + 1) - 1 = Used
      BY <1>2
    <3> QED
      BY <1>2, <3>2, <3>3 DEF Starts, Text
  <2> QED
    BY <2>1, <2>2
<1>13. Starts' = Starts
  BY <1>1 DEF Starts
<1>14. \A i \in 1 .. m : buffer'[i] = text[Used + i]
  BY <1>2, <1>5, <1>9 DEF IsRest
<1>15. ends' \subseteq 1 .. Len(text) /\ \A x \in ends' : x <= base' \/ x = base' + size'
  <2>1. ends' = ends \cup {Used + m} /\ Used + m \in 1 .. Len(text)
    BY <1>1, <1>2, <1>5, <1>8
  <2>2. ends \subseteq 1 .. Len(text) /\ base \in Nat /\ size \in Nat /\ base + size <= Used
        /\ \A x \in ends : x <= base \/ x = base + size
    BY DEF Chunked
  <2>3. \A x \in ends : x <= Used
    BY <1>2, <2>2
  <2> QED
    BY <1>8, <2>1, <2>2, <2>3
<1>16. Chunked'
  <2>1. IsRest(text, Used, rest)'
    BY <1>1, <1>6, <1>7
  <2>2. (base \in Nat /\ size \in Nat \ {0} /\ pointer \in Nat \ {0})'
    BY <1>1, <1>2, <1>5, <1>8
  <2>3. (base + size <= Used)' /\ base' + size' = Used + m
    BY <1>2, <1>5, <1>7, <1>8
  <2>4. (\A i \in base + size + 1 .. Used : text[i] = NL)'
    BY <1>1, <1>7, <1>8, <1>10
  <2>5. (base + size = Used => Used = Len(text))'
    BY <1>1, <1>2, <1>5, <1>7, <1>8
  <2>6. (size # 0)'
    BY <2>2
  <2>7. (ends \subseteq 1 .. Len(text) /\ \A x \in ends : x <= base \/ x = base + size)' /\ (base + size \in ends)'
    BY <1>1, <1>5, <1>8, <1>15
  <2>8. (base + pointer \in Starts)'
    BY <1>1, <1>8, <1>12, <1>13
  <2>9. (IsBuffer(buffer) /\ size < Len(buffer) /\ buffer[size + 1] = NUL)'
    BY <1>8, <1>9
  <2>10. (\A i \in pointer .. size : buffer[i] = text[base + i])'
    BY <1>1, <1>8, <1>14
  <2> QED
    BY <2>1, <2>2, <2>3, <2>4, <2>5, <2>6, <2>7, <2>8, <2>9, <2>10 DEF Chunked
<1>17. Pointed'
  <2>1. columns \in Columns /\ \A c1 \in 1 .. ColumnCount : columns[c1] <= Len(buffer)
    BY DEF Pointed
  <2>2. \A c1 \in 1 .. ColumnCount : columns[c1] <= Len(buffer')
    <3>1. \A c1 \in 1 .. ColumnCount : columns[c1] \in Nat
      BY <2>1 DEF Columns
    <3>2. Len(buffer) \in Nat /\ Len(buffer') \in Nat
      BY <1>9 DEF Chunked, IsBuffer
    <3> QED
      BY <1>9, <2>1, <3>1, <3>2
  <2>3. from = 0 => base' = 0
    <3>1. from = 0 => pointer = 1
      BY DEF Pointed
    <3>2. size \in Nat
      BY DEF Chunked
    <3>3. from = 0 => size = 0
      BY <1>1, <3>1, <3>2
    <3> QED
      BY <1>8, <3>3 DEF Chunked
  <2> QED
    BY <1>1, <2>1, <2>2, <2>3 DEF Pointed
<1> QED
  BY <1>1, <1>5, <1>8, <1>11, <1>16, <1>17

LEMMA LineHeld ==
  ASSUME TextOfLines, Chunked, pointer <= size,
         NEW s, s = base + pointer, NEW line, line = LineAt(s)
  PROVE  /\ s \in Starts /\ s \in 1 .. Len(text) /\ line \in Lines /\ IsLine(text, s, Len(line))
         /\ Holds(buffer, pointer, line)
         /\ pointer + Len(line) <= size + 1
         /\ buffer[pointer + Len(line)] = NUL <=> pointer + Len(line) = size + 1
<1>1. /\ base \in Nat /\ size \in Nat /\ pointer \in Nat \ {0} /\ s \in Starts
      /\ IsBuffer(buffer) /\ size < Len(buffer) /\ buffer[size + 1] = NUL
      /\ \A i \in pointer .. size : buffer[i] = text[base + i]
  BY DEF Chunked
<1>2. s \in 1 .. Len(text) /\ Len(text) \in Nat /\ text \in Text
  BY <1>1 DEF Starts, TextOfLines, Text
<1>3. line \in Lines /\ line \in Text /\ Len(line) \in Nat /\ IsLine(text, s, Len(line))
      /\ (\A i \in 1 .. Len(line) : line[i] = text[s + i - 1])
      /\ \A i \in 1 .. Len(line) : line[i] \in Field /\ line[i] # NL
  <2>1. line \in Lines
    BY <1>1 DEF TextOfLines
  <2> QED
    BY <1>2, <2>1, LineAtIs, LineTyped
<1>4. Used \in Nat /\ Used <= Len(text) /\ base + size <= Used
  BY <1>2, UsedIs DEF Chunked
<1>5. base + size + 1 <= Len(text) => text[base + size + 1] = NL
  <2> SUFFICES ASSUME base + size + 1 <= Len(text) PROVE text[base + size + 1] = NL
    OBVIOUS
  <2>1. base + size + 1 \in base + size + 1 .. Used
    <3>1. base + size = Used => Used = Len(text)
      BY <1>1 DEF Chunked
    <3> QED
      BY <1>1, <1>2, <1>4, <3>1
  <2> QED
    BY <2>1 DEF Chunked
<1>6. pointer + Len(line) <= size + 1
  <2>1. ASSUME pointer + Len(line) > size + 1 PROVE FALSE
    <3>1. base + size + 1 \in s .. s + Len(line) - 1 /\ base + size + 1 <= Len(text)
      <4>1. base \in Nat /\ size \in Nat /\ pointer \in Nat
        BY <1>1
      <4>2. s + Len(line) <= Len(text) + 1 /\ Len(line) \in Nat /\ Len(text) \in Nat
        BY <1>2, <1>3 DEF IsLine
      <4> QED
        BY SMT, <2>1, <4>1, <4>2
    <3>2. text[base + size + 1] # NL
      BY <1>3, <3>1 DEF IsLine
    <3> QED
      BY <1>5, <3>1, <3>2
  <2> QED
    BY <1>1, <1>3, <2>1
<1>7. NL # NUL /\ NUL \notin Field
  BY TsvAssumption DEF NL, NUL
<1>8. \A i \in 1 .. Len(line) : buffer[pointer + i - 1] = line[i]
  <2> SUFFICES ASSUME NEW i \in 1 .. Len(line) PROVE buffer[pointer + i - 1] = line[i]
    OBVIOUS
  <2>1. pointer + i - 1 \in pointer .. size /\ base + (pointer + i - 1) = s + i - 1
    BY <1>1, <1>3, <1>6
  <2>2. buffer[pointer + i - 1] = text[base + (pointer + i - 1)]
    BY <1>1, <2>1
  <2>3. line[i] = text[s + i - 1]
    BY <1>3
  <2> QED
    BY Zenon, <2>1, <2>2, <2>3
<1>9. CASE pointer + Len(line) = size + 1
  <2>1. buffer[pointer + Len(line)] = NUL
    BY <1>1, <1>9
  <2>2. Holds(buffer, pointer, line)
    BY <1>1, <1>3, <1>6, <1>8, <2>1 DEF Holds, IsBuffer
  <2> QED
    BY <1>1, <1>2, <1>3, <1>6, <1>9, <2>1, <2>2
<1>10. CASE pointer + Len(line) # size + 1
  <2>1. pointer + Len(line) \in pointer .. size /\ base + (pointer + Len(line)) = s + Len(line)
    BY <1>1, <1>3, <1>6, <1>10
  <2>2. s + Len(line) <= Len(text)
    BY <1>1, <1>2, <1>4, <2>1
  <2>3. text[s + Len(line)] = NL
    BY <1>3, <2>2 DEF IsLine
  <2>4. buffer[pointer + Len(line)] = NL
    BY <1>1, <2>1, <2>3
  <2>5. Holds(buffer, pointer, line)
    BY <1>1, <1>3, <1>6, <1>8, <2>4 DEF Holds, IsBuffer
  <2> QED
    BY <1>1, <1>2, <1>3, <1>6, <1>7, <1>10, <2>4, <2>5
<1> QED
  BY <1>9, <1>10

(* The line behind the one at s begins behind its end. *)
LEMMA NextStart ==
  ASSUME text \in Text, NEW s \in Starts, NEW n, IsLine(text, s, n),
         NEW u \in Starts, u <= s + n
  PROVE  u <= s
<1>1. s \in 1 .. Len(text) /\ u \in 1 .. Len(text) /\ Len(text) \in Nat /\ n \in Nat
  BY DEF Starts, Text, IsLine
<1> SUFFICES ASSUME u > s PROVE FALSE
  BY <1>1
<1>2. text[u - 1] = NL
  BY <1>1 DEF Starts
<1>3. u - 1 \in s .. s + n - 1
  BY <1>1
<1> QED
  BY <1>2, <1>3 DEF IsLine

LEMMA ParseLineParses ==
  ASSUME TextOfLines, Chunked, Pointed, ParseLine
  PROVE  /\ Chunked' /\ Pointed'
         /\ from' \in Starts /\ from' = base + pointer /\ from' # 0 /\ size # 0
         /\ from' <= base + size /\ from' < base + pointer'
         /\ \A s \in Starts : s < base + pointer' => s <= from'
         /\ TimeOf(StringAt(buffer', columns'[1])) = TimeAt(from')
         /\ Complete(LineAt(from')) =>
              ReadAs(buffer', columns', LineAt(from'), ExpectedValue(from', LineAt(from')))
<1> DEFINE s == base + pointer
           line == LineAt(s)
           n == Len(line)
<1>1. /\ pointer <= size /\ columns' = ParsedColumns(columns, buffer, pointer)
      /\ buffer' = ParsedBuffer(buffer, pointer) /\ pointer' = AfterLine(LineEnd(buffer, pointer))
      /\ from' = s /\ phase' = "inject"
      /\ text' = text /\ rest' = rest /\ size' = size /\ base' = base /\ ends' = ends
  BY DEF ParseLine
<1>2. /\ s \in Starts /\ s \in 1 .. Len(text) /\ line \in Lines /\ IsLine(text, s, n)
      /\ Holds(buffer, pointer, line) /\ pointer + n <= size + 1
      /\ buffer[pointer + n] = NUL <=> pointer + n = size + 1
  <2> HIDE DEF line, s
  <2> QED
    BY <1>1, LineHeld DEF line, s
<1>3. /\ base \in Nat /\ size \in Nat \ {0} /\ pointer \in Nat \ {0}
      /\ IsBuffer(buffer) /\ size < Len(buffer) /\ buffer[size + 1] = NUL
      /\ \A i \in pointer .. size : buffer[i] = text[base + i]
  BY <1>1 DEF Chunked
<1>4. n \in Nat /\ text \in Text /\ Len(text) \in Nat /\ Len(buffer) \in Nat /\ pointer \in 1 .. Len(buffer)
  <2>1. n \in Nat
    BY <1>2 DEF IsLine
  <2>2. text \in Text /\ Len(text) \in Nat
    BY DEF TextOfLines, Text
  <2>3. Len(buffer) \in Nat
    BY <1>3 DEF IsBuffer
  <2>4. pointer \in Nat \ {0} /\ size \in Nat /\ size < Len(buffer) /\ pointer <= size
    BY <1>1, <1>3
  <2>5. pointer \in 1 .. Len(buffer)
    BY <2>3, <2>4
  <2> QED
    BY <2>1, <2>2, <2>3, <2>5
<1> HIDE DEF n, line
<1>5. LineEnd(buffer, pointer) = pointer + n /\ pointer' = pointer + n + 1
  BY <1>1, <1>2, HeldLineEnd DEF AfterLine, n
<1>6. /\ IsBuffer(buffer') /\ Len(buffer') = Len(buffer)
      /\ \A i \in 1 .. Len(buffer) :
           buffer'[i] = IF i \in pointer .. pointer + n /\ buffer[i] \in Stops THEN NUL ELSE buffer[i]
  BY <1>1, <1>3, <1>4, <1>5, ParsedBufferIs
<1>7. /\ columns' \in Columns /\ (\A c \in 1 .. ColumnCount : columns'[c] <= Len(buffer))
      /\ columns'[1] = pointer /\ (Complete(line) \/ columns[2] # Null => columns'[2] # Null)
  <2>1. columns \in Columns /\ \A c \in 1 .. ColumnCount : columns[c] <= Len(buffer)
    BY DEF Pointed
  <2>2. line \in Lines /\ Holds(buffer, pointer, line) /\ IsBuffer(buffer)
    BY <1>2, <1>3
  <2>3. PICK w : w = ParsedColumns(columns, buffer, pointer)
    OBVIOUS
  <2>4. /\ w \in Columns /\ (\A c \in 1 .. ColumnCount : w[c] <= Len(buffer))
        /\ w[1] = pointer /\ (Complete(line) \/ columns[2] # Null => w[2] # Null)
    BY <2>1, <2>2, <2>3, ColumnsTyped
  <2>5. columns' = w
    BY <1>1, <2>3
  <2> QED
    BY <2>4, <2>5
<1>8. Starts' = Starts /\ Used' = Used
  BY <1>1 DEF Starts, Used
<1>9. \A u \in Starts : u < base + pointer' => u <= s
  <2> SUFFICES ASSUME NEW u \in Starts, u < base + pointer' PROVE u <= s
    OBVIOUS
  <2>1. u \in 1 .. Len(text)
    BY <1>4 DEF Starts, Text
  <2>2. u <= s + n
    BY <1>3, <1>4, <1>5, <2>1
  <2> QED
    BY <1>2, <1>4, <2>2, NextStart DEF n
<1>10. Chunked'
  <2>1. (/\ IsRest(text, Used, rest)
         /\ base \in Nat /\ size \in Nat
         /\ base + size <= Used /\ \A i \in base + size + 1 .. Used : text[i] = NL
         /\ base + size = Used => size = 0 \/ Used = Len(text))'
    BY <1>1, <1>8 DEF Chunked
  <2>2. (/\ size = 0 => base = 0 /\ Used = 0 /\ from = 0
         /\ ends \subseteq 1 .. Len(text) /\ \A x \in ends : x <= base \/ x = base + size
         /\ size # 0 => base + size \in ends)'
    BY <1>1, <1>3 DEF Chunked
  <2>3. pointer' \in Nat \ {0} /\ (IsBuffer(buffer) /\ size < Len(buffer))'
    BY <1>1, <1>3, <1>4, <1>5, <1>6
  <2>4. ASSUME pointer' <= size'
        PROVE  (/\ base + pointer \in Starts /\ buffer[size + 1] = NUL
                /\ \A i \in pointer .. size : buffer[i] = text[base + i])'
    <3>1. pointer + n + 1 <= size
      BY <1>1, <1>5, <2>4
    <3>2. buffer[pointer + n] = NL
      <4>1. buffer[pointer + n] \in {NL, NUL} /\ pointer + n # size + 1
        BY <1>2, <1>3, <1>4, <3>1 DEF Holds, n
      <4> QED
        BY <1>2, <4>1
    <3>3. text[s + n] = NL
      <4>1. pointer + n \in pointer .. size /\ base + (pointer + n) = s + n
        BY <1>3, <1>4, <3>1
      <4> QED
        BY <1>3, <3>2, <4>1
    <3>4. Used \in Nat /\ Used <= Len(text) /\ base + size <= Used
      BY <1>4, UsedIs DEF Chunked
    <3>5. base + pointer' \in 1 .. Len(text) /\ (base + pointer') - 1 = s + n
      BY <1>3, <1>4, <1>5, <3>1, <3>4
    <3>6. base + pointer' \in Starts
      BY <1>4, <3>3, <3>5 DEF Starts, Text
    <3>7. buffer'[size + 1] = NUL
      BY <1>3, <1>4, <1>6
    <3>8. \A i \in pointer' .. size : buffer'[i] = text[base + i]
      <4> SUFFICES ASSUME NEW i \in pointer' .. size PROVE buffer'[i] = text[base + i]
        OBVIOUS
      <4>1. i \in pointer .. size /\ i \in 1 .. Len(buffer) /\ i \notin pointer .. pointer + n
        BY <1>3, <1>4, <1>5
      <4> QED
        BY <1>3, <1>6, <4>1
    <3> QED
      BY <1>1, <1>8, <3>6, <3>7, <3>8
  <2> QED
    BY <2>1, <2>2, <2>3, <2>4 DEF Chunked
<1>11. from' # 0 /\ from' \in Nat
  BY <1>1, <1>3
<1>12. Pointed'
  <2>1. columns'[1] # Null /\ columns'[2] # Null
    <3>1. columns[2] # Null \/ Complete(line)
      <4>1. CASE from = 0
        <5>1. s = 1
          BY <4>1 DEF Pointed
        <5> QED
          BY <5>1 DEF TextOfLines, line
      <4>2. CASE from # 0
        BY <4>2 DEF Pointed
      <4> QED
        BY <4>1, <4>2
    <3> QED
      BY <1>3, <1>7, <3>1 DEF Null
  <2> QED
    BY <1>6, <1>7, <1>11, <2>1 DEF Pointed
<1>13. ASSUME Complete(line)
       PROVE  ReadAs(buffer', columns', line, ExpectedValue(s, line))
  <2>1. columns \in Columns /\ \A c \in 1 .. ColumnCount : columns[c] <= Len(buffer)
    BY DEF Pointed
  <2>2. ReadAs(buffer', columns', line, ValueIn(line, buffer[pointer + n]))
    BY <1>1, <1>2, <1>3, <1>13, <2>1, LineParsed DEF n
  <2>3. n # 0
    BY <1>2, <1>13, CompleteHasText DEF n
  <2>4. s + n - 1 \in ends <=> buffer[pointer + n] = NUL
    <3>1. /\ base + size \in ends /\ (\A x \in ends : x <= base \/ x = base + size)
          /\ (buffer[pointer + n] = NUL <=> pointer + n = size + 1)
      BY <1>2, <1>3 DEF Chunked
    <3>2. base \in Nat /\ size \in Nat \ {0} /\ pointer \in Nat \ {0} /\ n \in Nat
      BY <1>3, <1>4
    <3>3. CASE pointer + n = size + 1
      <4>1. s + n - 1 = base + size
        BY <3>2, <3>3
      <4> QED
        BY <3>1, <3>3, <4>1
    <3>4. CASE pointer + n # size + 1
      <4>1. ~ s + n - 1 <= base /\ s + n - 1 # base + size
        BY <2>3, <3>2, <3>4
      <4> QED
        BY <3>1, <3>4, <4>1
    <3> QED
      BY <3>3, <3>4
  <2>5. ExpectedValue(s, line) = ValueIn(line, buffer[pointer + n])
    BY <2>4 DEF ExpectedValue, ValueIn, n
  <2> QED
    BY <2>2, <2>5
<1>14. s <= base + size /\ s < base + pointer'
  <2>1. base \in Nat /\ size \in Nat /\ pointer \in Nat /\ n \in Nat /\ pointer <= size
    BY <1>1, <1>3, <1>4
  <2>2. pointer' = pointer + n + 1
    BY <1>5
  <2> QED
    BY <2>1, <2>2
<1>15. StringAt(buffer', columns'[1]) = Part(line, 1)
  <2>1. 1 \in 1 .. ColumnCount /\ columns'[1] = pointer
    BY <1>7 DEF ColumnCount
  <2>2. Begins(buffer, pointer)[1] = pointer /\ Has(line, 1)
    <3>1. /\ Walks(buffer, pointer, pointer + Len(line), Begins(buffer, pointer))
          /\ Has(line, 1) <=> Begins(buffer, pointer)[1] <= pointer + Len(line)
      BY <1>2, <2>1, HeldColumns
    <3>2. Begins(buffer, pointer)[1] = pointer
      BY <3>1 DEF Walks
    <3>3. pointer <= pointer + Len(line)
      BY <1>4 DEF n
    <3> QED
      BY <3>1, <3>2, <3>3
  <2>3. StringAt(ParsedBuffer(buffer, pointer), pointer) = Part(line, 1)
    <3> HIDE DEF line
    <3> QED
      BY <1>2, <1>3, <2>1, <2>2, HeldPart
  <2> QED
    BY <1>1, <2>1, <2>3
<1>16. TimeOf(StringAt(buffer', columns'[1])) = TimeAt(from')
  BY <1>1, <1>15 DEF TimeAt, line
<1> QED
  BY <1>1, <1>2, <1>3, <1>9, <1>10, <1>11, <1>12, <1>13, <1>14, <1>16 DEF line

LEMMA ReadingInit ==
  ASSUME TsvInit
  PROVE  Chunked /\ Pointed
<1>1. /\ rest = text /\ buffer = <<NUL>> /\ pointer = 1 /\ size = 0 /\ columns = NoColumns
      /\ from = 0 /\ base = 0 /\ ends = {}
  BY DEF TsvInit
<1>2. text \in Text /\ Len(text) \in Nat \ {0} /\ Complete(LineAt(1))
  BY TextInit DEF TextOfLines, Text
<1>3. IsRest(text, 0, rest) /\ Used = 0
  <2>1. IsRest(text, 0, rest)
    BY <1>1, <1>2 DEF IsRest
  <2> QED
    BY <1>2, <2>1, UsedIs
<1>4. buffer \in Seq(Tokens) /\ Len(buffer) = 1 /\ buffer[1] = NUL
  BY <1>1 DEF Tokens
<1>5. Chunked
  <2>1. IsBuffer(buffer) /\ size < Len(buffer)
    BY <1>1, <1>4 DEF IsBuffer
  <2> QED
    BY <1>1, <1>3, <2>1 DEF Chunked
<1>6. Pointed
  <2>1. NoColumns \in Columns /\ \A c \in 1 .. ColumnCount : NoColumns[c] = 0
    BY DEF NoColumns, Columns, Null
  <2> QED
    BY <1>1, <1>4, <2>1 DEF Pointed
<1> QED
  BY <1>5, <1>6

LEMMA ReadingStays ==
  ASSUME Chunked, Pointed, UNCHANGED <<text, reading>>
  PROVE  Chunked' /\ Pointed'
<1>1. /\ text' = text /\ rest' = rest /\ buffer' = buffer /\ pointer' = pointer /\ size' = size
      /\ columns' = columns /\ from' = from /\ base' = base /\ ends' = ends
  BY DEF reading
<1>2. Used' = Used /\ Starts' = Starts
  BY <1>1 DEF Used, Starts
<1> QED
  BY <1>1, <1>2 DEF Chunked, Pointed

LEMMA TextStays ==
  ASSUME TextOfLines, TsvNext
  PROVE  text' = text /\ TextOfLines'
<1>1. text' = text
  BY DEF TsvNext, ReadChunk, ParseLine, InjectLine, PackEnd, Unpack, CompareRead, CompareParse, CompareColumns,
     CompareEnd
<1>2. Starts' = Starts /\ \A s \in Starts : LineAt(s)' = LineAt(s)
  BY <1>1 DEF Starts, LineAt
<1>3. LineAt(1)' = LineAt(1)
  BY <1>1 DEF LineAt
<1> QED
  BY <1>1, <1>2, <1>3 DEF TextOfLines

-----------------------------------------------------------------------------
(* Types. *)

LEMMA TimeTyped ==
  ASSUME NEW s
  PROVE  TimeOf(s) \in Ticks /\ TimeOf(s) \in Nat
<1>1. \A x \in Times : Tick[x] \in Nat
  BY TsvAssumption
<1>2. 0 \in Ticks
  BY TsvAssumption DEF Ticks
<1>3. CASE s # <<>> /\ s[1] \in Times
  BY <1>1, <1>3 DEF TimeOf, Ticks
<1>4. CASE ~ (s # <<>> /\ s[1] \in Times)
  BY <1>2, <1>4 DEF TimeOf
<1> QED
  BY <1>3, <1>4


LEMMA ValueTyped ==
  ASSUME NEW b, IsBuffer(b), NEW p \in Nat, p <= Len(b)
  PROVE  ValueAt(b, p) \in Value /\ UnitAt(b, p) \in String
<1>1. <<>> \in String /\ <<Zero>> \in String
  BY DEF String, Field
<1>2. CASE p = Null
  BY <1>1, <1>2 DEF ValueAt, UnitAt, Value, Types
<1>3. CASE p # Null
  <2>1. p \in 1 .. Len(b)
    BY <1>3 DEF Null, IsBuffer
  <2>2. PICK s : s = StringAt(b, p)
    OBVIOUS
  <2>3. s \in String
    BY <2>1, <2>2, StringIs
  <2>4. UnitAt(b, p) \in String
    BY <1>3, <2>2, <2>3 DEF UnitAt
  <2>5. \A x \in ValueTexts : Reading[x] \in Value
    BY TsvAssumption
  <2>6. [type |-> "INT_POS", text |-> <<Zero>>] \in Value /\ [type |-> "STRING", text |-> s] \in Value
    BY <1>1, <2>3 DEF Value, Types
  <2>7. ValueAt(b, p) \in Value
    BY <1>3, <2>2, <2>5, <2>6 DEF ValueAt
  <2> QED
    BY <2>4, <2>7
<1> QED
  BY <1>2, <1>3

Row == [time : Nat, name : String, unit : String, value : Value, from : Nat]

LEMMA FirstUnitTyped ==
  ASSUME packed \in Seq(Row), NEW i \in 1 .. Len(packed)
  PROVE  \E k \in 1 .. i : /\ packed[k].name = packed[i].name /\ FirstUnit(packed[i].name) = packed[k].unit
                           /\ \A j \in 1 .. k - 1 : packed[j].name # packed[i].name
<1> DEFINE First(k) == packed[k].name = packed[i].name /\ \A j \in 1 .. k - 1 : packed[j].name # packed[i].name
           T == {k \in 1 .. Len(packed) : packed[k].name = packed[i].name}
<1>1. PICK k \in T : \A j \in T : k <= j
  <2>1. T \in SUBSET Nat /\ i \in T
    OBVIOUS
  <2> HIDE DEF T
  <2> QED
    BY <2>1, Smallest
<1>2. k \in 1 .. Len(packed) /\ First(k)
  BY <1>1
<1>3. \A a \in 1 .. Len(packed) : First(a) => a = k
  <2> SUFFICES ASSUME NEW a \in 1 .. Len(packed), First(a) PROVE a = k
    OBVIOUS
  <2>1. ~ a < k
    BY <1>2
  <2>2. ~ k < a
    BY <1>2
  <2> QED
    BY <1>2, <2>1, <2>2
<1>4. k <= i
  BY <1>1
<1>5. FirstUnit(packed[i].name) = packed[k].unit
  <2>1. FirstUnit(packed[i].name) = packed[CHOOSE a \in 1 .. Len(packed) : First(a)].unit
    <3>1. DOMAIN packed = 1 .. Len(packed)
      OBVIOUS
    <3> QED
      BY <3>1 DEF FirstUnit
  <2> HIDE DEF First
  <2> QED
    BY <1>2, <1>3, <2>1
<1> QED
  BY <1>2, <1>4, <1>5

LEMMA PrintedLineTyped ==
  ASSUME packed \in Seq(Row), NEW i \in 1 .. Len(packed), packed[i].time \in Ticks, NEW v \in Value
  PROVE  PrintedLine(packed[i], v) \in Text
<1>1. packed[i] \in Row
  OBVIOUS
<1>2. packed[i].name \in Text /\ v.text \in Text
  BY <1>1 DEF Row, Value, String, Text
<1>3. FirstUnit(packed[i].name) \in Text
  <2>1. PICK k \in 1 .. i : FirstUnit(packed[i].name) = packed[k].unit
    BY FirstUnitTyped
  <2>2. packed[k] \in Row
    BY <2>1
  <2> QED
    BY <2>1, <2>2 DEF Row, String, Text
<1>4. Shown[packed[i].time] \in Times
  BY TsvAssumption
<1>5. <<Shown[packed[i].time], TAB>> \in Text /\ <<TAB>> \in Text /\ <<NL>> \in Text
  BY <1>4 DEF Text, Field
<1> QED
  BY <1>2, <1>3, <1>5, ConcatProperties DEF PrintedLine, Text

LEMMA FlattenTyped ==
  ASSUME NEW seqs \in Seq(Text)
  PROVE  FlattenSeq(seqs) \in Text
<1>1. CASE Len(seqs) = 0
  <2>1. seqs = <<>>
    BY <1>1, EmptySeq
  <2> QED
    BY <1>1, <2>1 DEF FlattenSeq, Text
<1>2. CASE Len(seqs) # 0
  <2> DEFINE n == Len(seqs)
  <2>1. n \in Nat \ {0} /\ \A i \in 1 .. n : seqs[i] \in Text
    BY <1>2
  <2>2. PICK f : Joined(seqs, n, f) /\ FlattenSeq(seqs) = f[n]
    BY <1>2, FlattenIs
  <2> HIDE DEF n
  <2> DEFINE T == {k \in 1 .. n : f[k] \notin Text}
  <2>3. ASSUME T # {} PROVE FALSE
    <3>1. T \in SUBSET Nat
      BY <2>1
    <3>2. PICK m \in T : \A k \in T : m <= k
      <4> HIDE DEF T
      <4> QED
        BY <2>3, <3>1, Smallest
    <3>3. CASE m = 1
      BY <2>1, <2>2, <3>2, <3>3 DEF Joined
    <3>4. CASE m # 1
      <4>1. m - 1 \in 1 .. n - 1 /\ m - 1 \in 1 .. n /\ m - 1 \notin T /\ (m - 1) + 1 = m /\ m \in 1 .. n
        BY <2>1, <3>1, <3>2, <3>4
      <4>2. f[m - 1] \in Text /\ seqs[m] \in Text /\ f[m] = f[m - 1] \o seqs[m]
        BY <2>1, <2>2, <4>1 DEF Joined
      <4>3. f[m] \in Text
        BY <4>2, ConcatProperties DEF Text
      <4> QED
        BY <3>2, <4>3
    <3> QED
      BY <3>3, <3>4
  <2> QED
    BY <2>1, <2>2, <2>3
<1> QED
  BY <1>1, <1>2

LEMMA SideRest ==
  ASSUME NEW side, NEW r, NEW b, NEW c, side = [rest |-> r, buf |-> b, cols |-> c], NEW x
  PROVE  [side EXCEPT !.rest = x] = [rest |-> x, buf |-> b, cols |-> c]
OBVIOUS

LEMMA SideBuf ==
  ASSUME NEW side, NEW r, NEW b, NEW c, side = [rest |-> r, buf |-> b, cols |-> c], NEW x
  PROVE  [side EXCEPT !.buf = x] = [rest |-> r, buf |-> x, cols |-> c]
OBVIOUS

LEMMA SideCols ==
  ASSUME NEW side, NEW r, NEW b, NEW c, side = [rest |-> r, buf |-> b, cols |-> c], NEW x
  PROVE  [side EXCEPT !.cols = x] = [rest |-> r, buf |-> b, cols |-> x]
OBVIOUS

LEMMA WithLineIs ==
  ASSUME NEW side \in Side
  PROVE  WithLine(side) = [rest |-> BehindLine(side.rest),
                           buf |-> IF side.rest = <<>> THEN side.buf ELSE Filled(side.buf, LineOf(side.rest)),
                           cols |-> side.cols]
<1>1. side = [rest |-> side.rest, buf |-> side.buf, cols |-> side.cols]
  BY DEF Side
<1>2. PICK x, y : x = BehindLine(side.rest)
                  /\ y = IF side.rest = <<>> THEN side.buf ELSE Filled(side.buf, LineOf(side.rest))
  OBVIOUS
<1>3. PICK z : z = [side EXCEPT !.rest = x]
  OBVIOUS
<1>4. z = [rest |-> x, buf |-> side.buf, cols |-> side.cols]
  BY <1>1, <1>3, SideRest
<1>5. [z EXCEPT !.buf = y] = [rest |-> x, buf |-> y, cols |-> side.cols]
  BY <1>4, SideBuf
<1>6. WithLine(side) = [z EXCEPT !.buf = IF side.rest = <<>> THEN z.buf ELSE Filled(z.buf, LineOf(side.rest))]
  BY <1>2, <1>3 DEF WithLine
<1>7. z.buf = side.buf
  BY <1>4
<1> QED
  BY <1>2, <1>5, <1>6, <1>7

LEMMA WithColumnsIs ==
  ASSUME NEW side \in Side
  PROVE  WithColumns(side) = [rest |-> side.rest, buf |-> ParsedBuffer(side.buf, 1),
                              cols |-> ParsedColumns(side.cols, side.buf, 1)]
<1> DEFINE b == side.buf
<1>1. side = [rest |-> side.rest, buf |-> b, cols |-> side.cols]
  BY DEF Side
<1>2. PICK x, y : x = ParsedBuffer(b, 1) /\ y = ParsedColumns(side.cols, b, 1)
  OBVIOUS
<1>3. PICK z : z = [side EXCEPT !.buf = x]
  OBVIOUS
<1>4. z = [rest |-> side.rest, buf |-> x, cols |-> side.cols]
  BY <1>1, <1>3, SideBuf
<1>5. [z EXCEPT !.cols = y] = [rest |-> side.rest, buf |-> x, cols |-> y]
  BY <1>4, SideCols
<1>6. WithColumns(side) = [z EXCEPT !.cols = ParsedColumns(z.cols, side.buf, 1)]
  BY <1>2, <1>3 DEF WithColumns
<1>7. z.cols = side.cols
  BY <1>4
<1> QED
  BY <1>2, <1>5, <1>6, <1>7

LEMMA WithLineTyped ==
  ASSUME NEW side \in Side, IsBuffer(side.buf)
  PROVE  WithLine(side) \in Side /\ IsBuffer(WithLine(side).buf)
<1>1. side.rest \in Text /\ side.buf \in Seq(Tokens) /\ side.cols \in Columns
  BY DEF Side, Tokens
<1>2. BehindLine(side.rest) \in Text
  BY <1>1, BehindIs DEF IsRest
<1>3. IsBuffer(Filled(side.buf, LineOf(side.rest)))
  BY <1>1, LineOfIs, FilledIs
<1>4. WithLine(side) = [rest |-> BehindLine(side.rest),
                        buf |-> IF side.rest = <<>> THEN side.buf ELSE Filled(side.buf, LineOf(side.rest)),
                        cols |-> side.cols]
  BY WithLineIs
<1> QED
  BY <1>1, <1>2, <1>3, <1>4 DEF Side, IsBuffer, Tokens

LEMMA WithColumnsTyped ==
  ASSUME NEW side \in Side, IsBuffer(side.buf)
  PROVE  WithColumns(side) \in Side /\ IsBuffer(WithColumns(side).buf)
<1> DEFINE b == side.buf
           e == LineEnd(b, 1)
<1>1. side.rest \in Text /\ b \in Seq(Tokens) /\ side.cols \in Columns /\ 1 \in 1 .. Len(b)
  BY DEF Side, Tokens, IsBuffer
<1>2. IsFirst({NL, NUL}, b, 1, e) /\ e \in 1 .. Len(b)
  BY <1>1, LineEndIs
<1>3. Walks(b, 1, e, Begins(b, 1))
  BY <1>1, <1>2, BeginsWalk
<1>4. ParsedColumns(side.cols, b, 1) \in Columns
  <2>1. \A c \in 1 .. ColumnCount : Begins(b, 1)[c] \in Nat /\ side.cols[c] \in Nat
    <3>1. Len(b) \in Nat
      BY <1>1
    <3> HIDE DEF b, e
    <3>2. \A c \in 1 .. ColumnCount : Begins(b, 1)[c] \in 1 .. e + 1
      BY <1>3 DEF Walks
    <3>3. \A c \in 1 .. ColumnCount : side.cols[c] \in Nat
      BY <1>1 DEF Columns
    <3>4. 1 .. e + 1 \subseteq Nat
      BY <1>2, <3>1
    <3> QED
      BY <3>2, <3>3, <3>4
  <2> QED
    BY <2>1 DEF ParsedColumns, Columns, Column, Null
<1>5. IsBuffer(ParsedBuffer(b, 1))
  BY <1>1, ParsedBufferIs
<1>6. WithColumns(side) = [rest |-> side.rest, buf |-> ParsedBuffer(b, 1), cols |-> ParsedColumns(side.cols, b, 1)]
  BY WithColumnsIs
<1> QED
  BY <1>1, <1>4, <1>5, <1>6 DEF Side, IsBuffer, Tokens

(* What is made of the text: the rows, the printed text, and the two sides of compare. *)
Memory == [value : Value, first : BOOLEAN]

Outcome ==
  /\ clock \in Nat
  /\ packed \in Seq(Row) /\ \A i \in 1 .. Len(packed) : packed[i].time \in Ticks
  /\ told \in Seq(Memory) /\ Len(told) = Len(packed)
  /\ printed \in Text /\ chunkSize \in ChunkSizes
  /\ left \in Side /\ IsBuffer(left.buf) /\ right \in Side /\ IsBuffer(right.buf)
  /\ phase \in {"read", "inject", "unpack", "compare", "parse", "judge", "done"}
  /\ verdict \in {"none", "equal", "differs", "crash"}
  /\ phase = "inject" => from # 0

ToolInv == TextOfLines /\ Chunked /\ Pointed /\ Outcome

LEMMA ToolTyped ==
  ASSUME ToolInv
  PROVE  TsvTypeOK
<1>1. TextOfLines /\ Chunked /\ Pointed /\ Outcome
  BY DEF ToolInv
<1>2. text \in Text /\ rest \in Text
  BY <1>1 DEF TextOfLines, Chunked, IsRest
<1>3. /\ buffer \in Seq(Field \cup {NUL}) /\ pointer \in Nat \ {0} /\ size < Len(buffer)
      /\ base \in Nat /\ ends \subseteq 1 .. Len(text)
  BY <1>1 DEF Chunked, IsBuffer, Tokens
<1>4. columns \in Columns /\ (\A c \in DOMAIN columns : columns[c] <= Len(buffer)) /\ from \in Nat
  <2>1. columns \in Columns /\ (\A c \in 1 .. ColumnCount : columns[c] <= Len(buffer)) /\ from \in Nat
    BY <1>1 DEF Pointed
  <2>2. DOMAIN columns = 1 .. ColumnCount
    BY <2>1 DEF Columns
  <2> QED
    BY <2>1, <2>2
<1> QED
  BY <1>1, <1>2, <1>3, <1>4 DEF TsvTypeOK, Outcome, Row, Memory

LEMMA RowTyped ==
  ASSUME Chunked, Pointed, from # 0, NEW row, row = RowInHand
  PROVE  row \in Row /\ row.time \in Ticks
<1>1. IsBuffer(buffer) /\ from \in Nat /\ columns[2] # Null
      /\ columns \in Columns /\ \A c \in 1 .. ColumnCount : columns[c] <= Len(buffer)
  BY DEF Chunked, Pointed
<1>2. \A c \in 1 .. ColumnCount : columns[c] \in Nat /\ columns[c] <= Len(buffer)
  BY <1>1 DEF Columns
<1>3. 2 \in 1 .. ColumnCount /\ 4 \in 1 .. ColumnCount /\ 5 \in 1 .. ColumnCount
  BY DEF ColumnCount
<1>4. TimeOf(StringAt(buffer, columns[1])) \in Ticks /\ TimeOf(StringAt(buffer, columns[1])) \in Nat
  BY TimeTyped
<1>5. StringAt(buffer, columns[2]) \in String
  <2>1. columns[2] \in 1 .. Len(buffer)
    BY <1>1, <1>2, <1>3 DEF IsBuffer, Null
  <2> QED
    BY <1>1, <2>1, StringIs
<1>6. UnitAt(buffer, columns[4]) \in String
  BY <1>1, <1>2, <1>3, ValueTyped
<1>7. ValueAt(buffer, columns[5]) \in Value
  BY <1>1, <1>2, <1>3, ValueTyped
<1> QED
  BY <1>1, <1>4, <1>5, <1>6, <1>7 DEF Row, RowInHand

(* No row of this sensor was taken. *)
Unknown(name) == \A i \in 1 .. Len(packed) : packed[i].name # name

LEMMA NoEntry ==
  ASSUME packed \in Seq(Row), NEW name
  PROVE  Entry(name) = {} <=> Unknown(name)
<1> DEFINE T == {i \in 1 .. Len(packed) : packed[i].name = name}
<1>1. Len(packed) \in Nat /\ DOMAIN packed = 1 .. Len(packed)
  OBVIOUS
<1>2. Entry(name) \subseteq T
  BY <1>1 DEF Entry
<1>3. ASSUME T # {} PROVE Entry(name) # {}
  <2>1. PICK m \in T : \A k \in T : k <= m
    <3>1. T \in SUBSET (1 .. Len(packed))
      OBVIOUS
    <3> HIDE DEF T
    <3> QED
      BY <1>1, <1>3, <3>1, Greatest
  <2>2. \A j \in m + 1 .. Len(packed) : packed[j].name # name
    <3> SUFFICES ASSUME NEW j \in m + 1 .. Len(packed), packed[j].name = name PROVE FALSE
      OBVIOUS
    <3>1. m \in Nat /\ j \in 1 .. Len(packed) /\ ~ j <= m
      BY <1>1
    <3>2. j \in T
      BY <3>1
    <3> QED
      BY <2>1, <3>1, <3>2
  <2> QED
    BY <1>1, <2>1, <2>2 DEF Entry
<1> QED
  BY <1>2, <1>3 DEF Unknown

(***************************************************************************)
(* What becomes of a row: it is late, or the clock moves to its time and   *)
(* it is taken or, with a new and too long name and unit, refused.  What a *)
(* reader is told of a row that is taken is its value, or what was told of *)
(* an earlier row of the sensor if that is taken for the same.             *)
(***************************************************************************)
ToldOf(row, m) ==
  \/ m.value = row.value
  \/ \E i \in 1 .. Len(packed) :
       packed[i].name = row.name /\ m.value = told[i].value /\ Alike(m.value, row.value)

Late(row) == row.time < clock /\ clock' = clock /\ packed' = packed /\ told' = told

Refused(row) ==
  /\ row.time >= clock /\ clock' = row.time /\ packed' = packed /\ told' = told
  /\ Unknown(row.name) /\ <<row.name, row.unit>> \in Long

Taken(row, m) ==
  /\ row.time >= clock /\ clock' = row.time
  /\ packed' = Append(packed, row) /\ told' = Append(told, m) /\ ToldOf(row, m)
  /\ Unknown(row.name) => <<row.name, row.unit>> \notin Long

LEMMA AnswersIs ==
  ASSUME NEW m \in Memory, NEW v, TRUE \in Answers(m, v)
  PROVE  v = m.value \/ Alike(m.value, v)
<1>1. CASE m.first /\ m.value.type = "STRING"
  BY <1>1 DEF Answers, Alike
<1>2. CASE ~ (m.first /\ m.value.type = "STRING")
  <2>1. v = IF m.first THEN Kept(m.value) ELSE m.value
    BY <1>2 DEF Answers
  <2> QED
    BY <2>1 DEF Kept, Alike
<1> QED
  BY <1>1, <1>2

LEMMA Injected ==
  ASSUME Chunked, Pointed, Outcome, InjectLine, NEW row, row = RowInHand
  PROVE  /\ phase = "inject" /\ phase' = "read" /\ UNCHANGED <<text, reading>>
         /\ row \in Row /\ row.time \in Ticks /\ row.from = from
         /\ Late(row) \/ Refused(row) \/ \E m \in Memory : Taken(row, m)
<1>1. phase = "inject" /\ phase' = "read" /\ UNCHANGED <<text, reading>>
  BY DEF InjectLine
<1>2. row \in Row /\ row.time \in Ticks /\ row.from = from
  <2>1. row \in Row /\ row.time \in Ticks
    BY <1>1, RowTyped DEF Outcome
  <2> QED
    BY <2>1 DEF RowInHand
<1>3. packed \in Seq(Row) /\ told \in Seq(Memory) /\ Len(told) = Len(packed) /\ Len(packed) \in Nat
      /\ DOMAIN packed = 1 .. Len(packed) /\ row.value \in Value
  <2>1. packed \in Seq(Row) /\ told \in Seq(Memory) /\ Len(told) = Len(packed)
    BY DEF Outcome
  <2>2. row.value \in Value
    BY <1>2 DEF Row
  <2> QED
    BY <2>1, <2>2
<1>4. \/ row.time < clock /\ UNCHANGED channel
      \/ /\ row.time >= clock /\ clock' = row.time
         /\ \/ TakeNew(row) \/ TakeKnown(row)
            \/ Entry(row.name) = {} /\ <<row.name, row.unit>> \in Long /\ UNCHANGED <<packed, told>>
  BY DEF InjectLine
<1>5. Entry(row.name) = {} <=> Unknown(row.name)
  BY <1>3, NoEntry
<1>6. CASE row.time < clock /\ UNCHANGED channel
  BY <1>1, <1>2, <1>6 DEF Late, channel
<1>7. ASSUME row.time >= clock, clock' = row.time, TakeNew(row)
      PROVE  \E m \in Memory : Taken(row, m)
  <2>1. PICK m : m = [value |-> row.value, first |-> TRUE]
    OBVIOUS
  <2>2. m \in Memory /\ m.value = row.value
    BY <1>3, <2>1 DEF Memory
  <2>3. packed' = Append(packed, row) /\ told' = Append(told, m) /\ <<row.name, row.unit>> \notin Long
    BY <1>7, <2>1 DEF TakeNew, Take
  <2> QED
    BY <1>7, <2>2, <2>3 DEF Taken, ToldOf
<1>8. ASSUME row.time >= clock, clock' = row.time, TakeKnown(row)
      PROVE  \E m \in Memory : Taken(row, m)
  <2>7. PICK i \in Entry(row.name) : \E same \in Answers(told[i], row.value) :
          Take(row, IF same THEN told[i] ELSE [value |-> row.value, first |-> FALSE])
    BY <1>8 DEF TakeKnown
  <2>1. PICK same \in Answers(told[i], row.value) :
          Take(row, IF same THEN told[i] ELSE [value |-> row.value, first |-> FALSE])
    BY <2>7
  <2>2. i \in 1 .. Len(packed) /\ packed[i].name = row.name /\ told[i] \in Memory
    BY <1>3, <2>1 DEF Entry
  <2>3. PICK m : m = IF same THEN told[i] ELSE [value |-> row.value, first |-> FALSE]
    OBVIOUS
  <2>4. packed' = Append(packed, row) /\ told' = Append(told, m)
    BY <2>1, <2>3 DEF Take
  <2>5. m \in Memory /\ ToldOf(row, m)
    <3>1. CASE same
      <4>1. same = TRUE
        BY <2>1, <3>1 DEF Answers
      <4>2. row.value = told[i].value \/ Alike(told[i].value, row.value)
        BY <2>1, <2>2, <4>1, AnswersIs
      <4>3. m = told[i]
        BY <2>3, <3>1
      <4> QED
        BY <2>2, <4>2, <4>3 DEF ToldOf
    <3>2. CASE ~ same
      <4>1. m = [value |-> row.value, first |-> FALSE]
        BY <2>3, <3>2
      <4> QED
        BY <1>3, <4>1 DEF ToldOf, Memory
    <3> QED
      BY <3>1, <3>2
  <2>6. ~ Unknown(row.name)
    BY <2>2 DEF Unknown
  <2> QED
    BY <1>8, <2>4, <2>5, <2>6 DEF Taken
<1>9. ASSUME row.time >= clock, clock' = row.time, Entry(row.name) = {}, <<row.name, row.unit>> \in Long,
             UNCHANGED <<packed, told>>
      PROVE  Refused(row)
  BY <1>5, <1>9 DEF Refused
<1> QED
  BY <1>1, <1>2, <1>4, <1>6, <1>7, <1>8, <1>9

LEMMA PrintedTyped ==
  ASSUME packed \in Seq(Row), told \in Seq(Memory), Len(told) = Len(packed),
         \A i \in 1 .. Len(packed) : packed[i].time \in Ticks
  PROVE  FlattenSeq([i \in DOMAIN packed |-> PrintedLine(packed[i], told[i].value)]) \in Text
<1> DEFINE seqs == [i \in DOMAIN packed |-> PrintedLine(packed[i], told[i].value)]
<1>1. DOMAIN packed = 1 .. Len(packed) /\ Len(packed) \in Nat
  OBVIOUS
<1>2. \A i \in 1 .. Len(packed) : PrintedLine(packed[i], told[i].value) \in Text
  <2> SUFFICES ASSUME NEW i \in 1 .. Len(packed) PROVE PrintedLine(packed[i], told[i].value) \in Text
    OBVIOUS
  <2>1. told[i] \in Memory
    OBVIOUS
  <2>2. PICK v \in Value : v = told[i].value
    BY <2>1 DEF Memory
  <2>3. PrintedLine(packed[i], v) \in Text
    BY PrintedLineTyped
  <2> QED
    BY <2>2, <2>3
<1>3. seqs \in Seq(Text)
  <2>1. seqs \in [1 .. Len(packed) -> Text]
    BY <1>1, <1>2
  <2> HIDE DEF seqs
  <2> QED
    BY <1>1, <2>1
<1> QED
  BY <1>3, FlattenTyped

LEMMA ToolInit ==
  ASSUME TsvInit
  PROVE  ToolInv
<1>1. TextOfLines /\ Chunked /\ Pointed
  BY TextInit, ReadingInit
<1>2. /\ clock = 0 /\ packed = <<>> /\ told = <<>> /\ printed = <<>> /\ chunkSize \in ChunkSizes
      /\ phase = "read" /\ verdict = "none"
      /\ left = [rest |-> <<>>, buf |-> <<NUL>>, cols |-> NoColumns] /\ right = left
  BY DEF TsvInit
<1>3. /\ <<NUL>> \in Seq(Tokens) /\ Len(<<NUL>>) = 1 /\ <<NUL>>[1] = NUL /\ <<>> \in Text
      /\ NoColumns \in Columns
  BY DEF Tokens, Text, NoColumns, Columns, Null
<1>4. left \in Side /\ IsBuffer(left.buf)
  BY <1>2, <1>3 DEF Side, IsBuffer, Tokens
<1>5. packed \in Seq(Row) /\ Len(packed) = 0 /\ told \in Seq(Memory) /\ Len(told) = 0
  BY <1>2
<1>6. \A i \in 1 .. Len(packed) : packed[i].time \in Ticks
  BY <1>5
<1>7. Outcome
  BY <1>2, <1>3, <1>4, <1>5, <1>6 DEF Outcome
<1> QED
  BY <1>1, <1>7 DEF ToolInv

LEMMA ToolStep ==
  ASSUME ToolInv, [TsvNext]_tvars
  PROVE  ToolInv'
<1>1. TextOfLines /\ Chunked /\ Pointed /\ Outcome
  BY DEF ToolInv
<1>2. CASE UNCHANGED tvars
  <2>1. UNCHANGED <<text, reading>>
    BY <1>2 DEF tvars, reading
  <2>2. Chunked' /\ Pointed'
    BY <1>1, <2>1, ReadingStays
  <2>3. TextOfLines'
    <3>1. text' = text
      BY <1>2 DEF tvars
    <3> QED
      BY <1>1, <3>1 DEF TextOfLines, Starts, LineAt
  <2>4. Outcome'
    <3>1. /\ clock' = clock /\ packed' = packed /\ told' = told /\ printed' = printed /\ left' = left /\ right' = right
          /\ phase' = phase /\ verdict' = verdict /\ from' = from /\ chunkSize' = chunkSize
      BY <1>2 DEF tvars
    <3> QED
      BY <1>1, <3>1 DEF Outcome
  <2> QED
    BY <2>2, <2>3, <2>4 DEF ToolInv
<1>3. CASE TsvNext
  <2>1. TextOfLines' /\ text' = text
    BY <1>1, <1>3, TextStays
  <2>2. CASE ReadChunk
    <3>1. Chunked' /\ Pointed'
      BY <1>1, <2>2, ReadChunkChunks DEF Outcome
    <3>2. Outcome'
      BY <1>1, <2>2 DEF ReadChunk, Outcome, channel
    <3> QED
      BY <2>1, <3>1, <3>2 DEF ToolInv
  <2>3. CASE ParseLine
    <3>1. Chunked' /\ Pointed' /\ from' # 0
      BY <1>1, <2>3, ParseLineParses
    <3>2. Outcome'
      BY <1>1, <2>3, <3>1 DEF ParseLine, Outcome, channel
    <3> QED
      BY <2>1, <3>1, <3>2 DEF ToolInv
  <2>4. CASE ~ (ReadChunk \/ ParseLine)
    <3>1. UNCHANGED <<text, reading>> /\ chunkSize' = chunkSize
      BY <1>3, <2>4 DEF TsvNext, InjectLine, PackEnd, Unpack, CompareRead, CompareParse, CompareColumns, CompareEnd
    <3>2. Chunked' /\ Pointed'
      BY <1>1, <3>1, ReadingStays
    <3>3. CASE InjectLine
      <4>1. PICK row : row = RowInHand
        OBVIOUS
      <4>2. /\ row \in Row /\ row.time \in Ticks /\ row.time \in Nat
            /\ Late(row) \/ Refused(row) \/ \E m \in Memory : Taken(row, m)
        <5>1. row \in Row /\ row.time \in Ticks /\ (Late(row) \/ Refused(row) \/ \E m \in Memory : Taken(row, m))
          BY <1>1, <3>3, <4>1, Injected
        <5> QED
          BY <5>1 DEF Row
      <4>4. /\ packed \in Seq(Row) /\ (\A i \in 1 .. Len(packed) : packed[i].time \in Ticks)
            /\ clock \in Nat /\ told \in Seq(Memory) /\ Len(told) = Len(packed)
        BY <1>1 DEF Outcome
      <4>5. /\ packed' \in Seq(Row) /\ (\A i \in 1 .. Len(packed') : packed'[i].time \in Ticks)
            /\ clock' \in Nat /\ told' \in Seq(Memory) /\ Len(told') = Len(packed')
        <5>1. CASE Late(row) \/ Refused(row)
          BY <4>2, <4>4, <5>1 DEF Late, Refused
        <5>2. ASSUME NEW m \in Memory, Taken(row, m)
              PROVE  /\ packed' \in Seq(Row) /\ (\A i \in 1 .. Len(packed') : packed'[i].time \in Ticks)
                     /\ clock' \in Nat /\ told' \in Seq(Memory) /\ Len(told') = Len(packed')
          <6>1. packed' = Append(packed, row) /\ told' = Append(told, m) /\ clock' = row.time
            BY <5>2 DEF Taken
          <6>2. packed' \in Seq(Row) /\ Len(packed') = Len(packed) + 1
                /\ \A i \in 1 .. Len(packed') : packed'[i].time \in Ticks
            BY <4>2, <4>4, <6>1, AppendProperties
          <6>3. told' \in Seq(Memory) /\ Len(told') = Len(told) + 1
            BY <4>4, <6>1, AppendProperties
          <6> QED
            BY <4>2, <4>4, <6>1, <6>2, <6>3
        <5> QED
          BY <4>2, <5>1, <5>2
      <4>6. Outcome'
        BY <1>1, <3>3, <4>5 DEF InjectLine, Outcome
      <4> QED
        BY <2>1, <3>2, <4>6 DEF ToolInv
    <3>4. CASE PackEnd
      <4>1. Outcome'
        BY <1>1, <3>4 DEF PackEnd, Outcome, channel
      <4> QED
        BY <2>1, <3>2, <4>1 DEF ToolInv
    <3>5. CASE Unpack
      <4>1. /\ packed' = packed /\ told' = told /\ clock' = clock
            /\ printed' = FlattenSeq([i \in DOMAIN packed |-> PrintedLine(packed[i], told[i].value)])
            /\ left' = [left EXCEPT !.rest = text] /\ right' = [right EXCEPT !.rest = printed']
            /\ phase' \in {"compare", "done"} /\ verdict' = verdict
        BY <3>5 DEF Unpack, channel
      <4>2. printed' \in Text
        BY <1>1, <4>1, PrintedTyped DEF Outcome
      <4>3. left = [rest |-> left.rest, buf |-> left.buf, cols |-> left.cols]
            /\ right = [rest |-> right.rest, buf |-> right.buf, cols |-> right.cols]
        BY <1>1 DEF Outcome, Side
      <4>4. left' = [rest |-> text, buf |-> left.buf, cols |-> left.cols]
            /\ right' = [rest |-> printed', buf |-> right.buf, cols |-> right.cols]
        BY <4>1, <4>3, SideRest
      <4>5. left' \in Side /\ IsBuffer(left'.buf) /\ right' \in Side /\ IsBuffer(right'.buf)
        BY <1>1, <4>2, <4>4 DEF Outcome, Side, TextOfLines
      <4>6. Outcome'
        BY <1>1, <3>1, <4>1, <4>2, <4>5 DEF Outcome
      <4> QED
        BY <2>1, <3>2, <4>6 DEF ToolInv
    <3>6. CASE CompareRead
      <4>1. left' \in Side /\ IsBuffer(left'.buf) /\ right' \in Side /\ IsBuffer(right'.buf)
        BY <1>1, <3>6, WithLineTyped DEF CompareRead, Outcome
      <4>2. Outcome'
        BY <1>1, <3>6, <4>1 DEF CompareRead, Outcome, channel
      <4> QED
        BY <2>1, <3>2, <4>2 DEF ToolInv
    <3>7. CASE CompareParse
      <4>1. left' \in Side /\ IsBuffer(left'.buf) /\ right' \in Side /\ IsBuffer(right'.buf)
        BY <1>1, <3>7, WithColumnsTyped DEF CompareParse, Outcome
      <4>2. Outcome'
        BY <1>1, <3>7, <4>1 DEF CompareParse, Outcome, channel
      <4> QED
        BY <2>1, <3>2, <4>2 DEF ToolInv
    <3>8. CASE CompareColumns
      <4>1. /\ packed' = packed /\ told' = told /\ clock' = clock
            /\ printed' = printed /\ left' = left /\ right' = right
            /\ verdict' = Found(left, right) /\ phase' \in {"compare", "done"}
        BY <3>8 DEF CompareColumns, channel
      <4>2. verdict' \in {"equal", "differs", "crash"}
        BY <4>1 DEF Found
      <4>3. Outcome'
        BY <1>1, <3>1, <4>1, <4>2 DEF Outcome
      <4> QED
        BY <2>1, <3>2, <4>3 DEF ToolInv
    <3>9. CASE CompareEnd
      <4>1. Outcome'
        BY <1>1, <3>9 DEF CompareEnd, Outcome, channel
      <4> QED
        BY <2>1, <3>2, <4>1 DEF ToolInv
    <3> QED
      BY <1>3, <2>4, <3>3, <3>4, <3>5, <3>6, <3>7, <3>8, <3>9 DEF TsvNext
  <2> QED
    BY <2>2, <2>3, <2>4
<1> QED
  BY <1>2, <1>3

(***************************************************************************)
(* compress, decompress and compare only ever use what they have: wherever *)
(* fread cuts the input, the columns format_parse leaves point into the    *)
(* buffer, the channel gets a time, a name, a unit and a value, each       *)
(* unpacked row prints a line, and both of compare's buffers end.          *)
(***************************************************************************)
THEOREM ToolTypeCorrect == TsvSpec => []TsvTypeOK
<1>1. TsvInit => ToolInv
  BY ToolInit
<1>2. ToolInv /\ [TsvNext]_tvars => ToolInv'
  BY ToolStep
<1>3. ToolInv => TsvTypeOK
  BY ToolTyped
<1> QED
  BY <1>1, <1>2, <1>3, PTL DEF TsvSpec

-----------------------------------------------------------------------------
(* The rows. *)

(* The lines before this place are packed: a line that was parsed is not, until it is injected. *)
PackedUpTo == IF phase = "inject" THEN from ELSE base + pointer

(* The rows stand in the order of their lines, and of their times. *)
RowsInOrder ==
  /\ \A i \in 1 .. Len(packed) : /\ packed[i].from \in 1 .. base + size /\ packed[i].from < PackedUpTo
                                 /\ packed[i].time <= clock
  /\ \A i, j \in 1 .. Len(packed) :
       i < j => packed[i].from < packed[j].from /\ packed[i].time <= packed[j].time

(* The clock is the latest time of the lines so far, packed or refused. *)
ClockIs ==
  /\ \A u \in Starts : u < PackedUpTo => TimeAt(u) <= clock
  /\ clock = 0 \/ \E u \in Starts : u < PackedUpTo /\ u <= base + size /\ TimeAt(u) = clock

(* A line that was parsed is read as what stands in it, and the next one begins where the pointer is. *)
LineInHand ==
  phase = "inject" =>
    /\ from \in Starts /\ from <= base + size /\ from < base + pointer
    /\ \A s \in Starts : s < base + pointer => s <= from
    /\ TimeOf(StringAt(buffer, columns[1])) = TimeAt(from)
    /\ Complete(LineAt(from)) =>
         ReadAs(buffer, columns, LineAt(from), ExpectedValue(from, LineAt(from)))

RowsAt(s) == {i \in DOMAIN packed : packed[i].from = s}
LateAt(s) == \E u \in Starts : u < s /\ TimeAt(u) > TimeAt(s)
LongAt(s) ==
  /\ <<Part(LineAt(s), 2), Part(LineAt(s), 4)>> \in Long
  /\ \A i \in DOMAIN packed : packed[i].from < s => packed[i].name # Part(LineAt(s), 2)
RowFor(s) ==
  [time |-> TimeAt(s), name |-> Part(LineAt(s), 2), unit |-> Part(LineAt(s), 4),
   value |-> ExpectedValue(s, LineAt(s)), from |-> s]

AsRow(s) ==
  /\ Cardinality(RowsAt(s)) = IF LateAt(s) \/ LongAt(s) THEN 0 ELSE 1
  /\ \A i \in RowsAt(s) : packed[i] = RowFor(s)

RowsSoFar ==
  \A s \in Starts : Complete(LineAt(s)) /\ size # 0 /\ s < PackedUpTo => AsRow(s)

RowInv == RowsInOrder /\ ClockIs /\ LineInHand /\ RowsSoFar

LEMMA AsRowStays ==
  ASSUME text' = text, packed' = packed, NEW s, AsRow(s),
         s + Len(LineAt(s)) - 1 \in ends' <=> s + Len(LineAt(s)) - 1 \in ends
  PROVE  AsRow(s)'
<1>1. LineAt(s)' = LineAt(s) /\ Starts' = Starts /\ \A u : TimeAt(u)' = TimeAt(u)
  BY DEF LineAt, Starts, TimeAt
<1>2. RowsAt(s)' = RowsAt(s) /\ (LateAt(s)' <=> LateAt(s)) /\ (LongAt(s)' <=> LongAt(s))
  BY <1>1 DEF RowsAt, LateAt, LongAt
<1>3. RowFor(s)' = RowFor(s)
  BY <1>1 DEF RowFor, ExpectedValue
<1> QED
  BY <1>2, <1>3 DEF AsRow

LEMMA RowsStay ==
  ASSUME RowInv, UNCHANGED <<text, reading, channel>>, phase' = "inject" <=> phase = "inject"
  PROVE  RowInv'
<1>1. /\ text' = text /\ rest' = rest /\ buffer' = buffer /\ pointer' = pointer /\ size' = size
      /\ columns' = columns /\ from' = from /\ base' = base /\ ends' = ends /\ packed' = packed /\ clock' = clock
  BY DEF reading, channel
<1>2. PackedUpTo' = PackedUpTo /\ Starts' = Starts
  BY <1>1 DEF PackedUpTo, Starts
<1>3. \A s : LineAt(s)' = LineAt(s) /\ TimeAt(s)' = TimeAt(s)
  BY <1>1 DEF LineAt, TimeAt
<1>7. ClockIs'
  BY <1>1, <1>2, <1>3 DEF RowInv, ClockIs
<1>4. RowsInOrder'
  BY <1>1, <1>2 DEF RowInv, RowsInOrder
<1>5. LineInHand'
  <2>1. \A s, line : ExpectedValue(s, line)' = ExpectedValue(s, line)
    BY <1>1 DEF ExpectedValue
  <2> QED
    BY <1>1, <1>2, <1>3, <2>1 DEF RowInv, LineInHand
<1>6. RowsSoFar'
  BY <1>1, <1>2, <1>3, AsRowStays DEF RowInv, RowsSoFar
<1> QED
  BY <1>4, <1>5, <1>6, <1>7 DEF RowInv

(* The end of a line that stands where a line begins is an empty line, of time 0. *)
LEMMA BlankTime ==
  ASSUME text \in Text, NEW u \in Starts, LineAt(u) \in Lines, text[u] = NL
  PROVE  TimeAt(u) = 0
<1>1. u \in 1 .. Len(text) /\ Len(text) \in Nat
  BY DEF Starts, Text
<1>2. Len(LineAt(u)) \in Nat /\ IsLine(text, u, Len(LineAt(u))) /\ LineAt(u) \in Seq(Field)
  <2>1. LineAt(u) \in Text
    BY LineTyped
  <2> QED
    BY <1>1, <2>1, LineAtIs DEF Text
<1>3. LineAt(u) = <<>>
  <2>1. ~ Len(LineAt(u)) >= 1
    <3> SUFFICES ASSUME Len(LineAt(u)) >= 1 PROVE FALSE
      OBVIOUS
    <3>1. u \in u .. u + Len(LineAt(u)) - 1
      BY <1>1, <1>2
    <3> QED
      BY <1>2, <3>1 DEF IsLine
  <2> QED
    BY <1>2, <2>1
<1>4. Part(LineAt(u), 1) = <<>>
  <2>1. PICK line : line = LineAt(u)
    OBVIOUS
  <2>2. PICK l : l = <<NUL>>
    OBVIOUS
  <2>3. line \in Text /\ Len(line) = 0 /\ 1 \in 1 .. ColumnCount
    BY <1>2, <1>3, <2>1 DEF Text, ColumnCount
  <2>4. IsBuffer(l) /\ Holds(l, 1, line)
    <3>1. l \in Seq(Tokens) /\ Len(l) = 1 /\ l[1] = NUL
      BY <2>2 DEF Tokens
    <3> QED
      BY <2>3, <3>1 DEF IsBuffer, Holds
  <2>5. Has(line, 1) /\ Begins(l, 1)[1] = 1
    <3>1. /\ Walks(l, 1, 1 + Len(line), Begins(l, 1))
          /\ Has(line, 1) <=> Begins(l, 1)[1] <= 1 + Len(line)
      BY <2>3, <2>4, HeldColumns
    <3> QED
      BY <2>3, <3>1 DEF Walks
  <2>6. Part(line, 1) \in String /\ Len(Part(line, 1)) = 0
    <3>1. PICK b : b = Begins(l, 1)[1]
      OBVIOUS
    <3>2. /\ b \in 1 .. 1 + Len(line) /\ FirstOf(Stops, l, b) \in b .. 1 + Len(line)
          /\ Part(line, 1) \in String /\ Len(Part(line, 1)) = FirstOf(Stops, l, b) - b
      BY <2>3, <2>4, <2>5, <3>1, HeldPart
    <3> QED
      BY <2>3, <3>2
  <2> QED
    BY <2>1, <2>6, EmptySeq DEF String
<1> QED
  BY <1>4 DEF TimeAt, TimeOf

LEMMA ReadChunkRows ==
  ASSUME ToolInv, RowInv, ReadChunk
  PROVE  RowInv'
<1>1. /\ Chunked' /\ base' = Used /\ pointer' = 1 /\ size' \in Nat \ {0} /\ ends' = ends \cup {base' + size'}
      /\ (size = 0 \/ base + size < Used)
  BY ReadChunkChunks DEF ToolInv, Outcome
<1>2. /\ phase = "read" /\ phase' = "read" /\ pointer > size /\ text' = text /\ packed' = packed /\ clock' = clock
  BY DEF ReadChunk, channel
<1>3. /\ base \in Nat /\ size \in Nat /\ pointer \in Nat \ {0} /\ base + size <= Used
      /\ (\A i \in base + size + 1 .. Used : text[i] = NL)
      /\ (size = 0 => base = 0 /\ Used = 0)
      /\ text \in Text /\ Len(text) \in Nat /\ Used \in Nat /\ Used <= Len(text)
      /\ \A s \in Starts : LineAt(s) \in Lines
  BY UsedIs DEF ToolInv, Chunked, TextOfLines, Text
<1>4. PackedUpTo' = Used + 1 /\ PackedUpTo = base + pointer
  BY <1>1, <1>2 DEF PackedUpTo
<1>5. RowsInOrder'
  <2>1. \A i \in 1 .. Len(packed) : packed[i].from \in 1 .. base' + size' /\ packed[i].from < Used + 1
    <3> SUFFICES ASSUME NEW i \in 1 .. Len(packed)
                 PROVE  packed[i].from \in 1 .. base' + size' /\ packed[i].from < Used + 1
      OBVIOUS
    <3>1. packed[i].from \in 1 .. base + size
      BY DEF RowInv, RowsInOrder
    <3> QED
      BY <1>1, <1>3, <3>1
  <2> QED
    BY <1>2, <1>4, <2>1 DEF RowInv, RowsInOrder
<1>6. LineInHand'
  BY <1>2 DEF LineInHand
<1>8. ClockIs'
  <2>1. Starts' = Starts /\ \A s : TimeAt(s)' = TimeAt(s)
    BY <1>2 DEF Starts, LineAt, TimeAt
  <2>2. clock \in Nat /\ Starts \subseteq Nat
    BY <1>3 DEF ToolInv, Outcome, Starts
  <2>3. ASSUME NEW u \in Starts, u < Used + 1 PROVE TimeAt(u) <= clock
    <3>1. u \in 1 .. Len(text) /\ u <= Used /\ LineAt(u) \in Lines
      BY <1>3, <2>3 DEF Starts, Text
    <3>2. CASE u <= base + size
      <4>1. u < PackedUpTo
        BY <1>2, <1>3, <1>4, <3>1, <3>2
      <4> QED
        BY <4>1 DEF RowInv, ClockIs
    <3>3. CASE ~ u <= base + size
      <4>1. text[u] = NL
        <5>1. u \in base + size + 1 .. Used
          BY <1>3, <3>1, <3>3
        <5> QED
          BY <1>3, <5>1
      <4>2. TimeAt(u) = 0
        BY <1>3, <3>1, <4>1, BlankTime
      <4> QED
        BY <2>2, <4>2
    <3> QED
      BY <3>2, <3>3
  <2>4. ASSUME NEW u \in Starts, u <= base + size PROVE u < Used + 1 /\ u <= base' + size'
    <3>1. u \in Nat /\ base + size \in Nat /\ base + size <= Used /\ Used \in Nat
      BY <1>3, <2>2
    <3>2. base' + size' \in Nat /\ Used <= base' + size'
      <4>1. base' = Used /\ size' \in Nat
        BY <1>1
      <4>2. \A a, b, c : a = b /\ b \in Nat /\ c \in Nat => a + c \in Nat /\ b <= a + c
        OBVIOUS
      <4> QED
        BY Zenon, <3>1, <4>1, <4>2
    <3>3. PICK a, b, c : a = base + size /\ b = Used /\ c = base' + size'
      OBVIOUS
    <3> QED
      BY <2>4, <3>1, <3>2, <3>3
  <2> QED
    BY <1>2, <1>4, <2>1, <2>3, <2>4 DEF RowInv, ClockIs
<1>7. RowsSoFar'
  <2>1. Starts' = Starts /\ \A s : LineAt(s)' = LineAt(s)
    BY <1>2 DEF Starts, LineAt
  <2>2. ASSUME NEW s \in Starts, Complete(LineAt(s)), s < Used + 1
        PROVE  AsRow(s)'
    <3>1. s \in 1 .. Len(text) /\ LineAt(s) \in Lines /\ s <= Used
      BY <1>3, <2>2 DEF Starts, Text
    <3>2. Len(LineAt(s)) \in Nat \ {0} /\ IsLine(text, s, Len(LineAt(s)))
          /\ \A i \in 1 .. Len(LineAt(s)) : LineAt(s)[i] = text[s + i - 1]
      BY <1>3, <2>2, <3>1, CompleteHasText, LineAtIs
    <3>3. text[s] # NL
      <4>1. s \in s .. s + Len(LineAt(s)) - 1
        BY <3>1, <3>2
      <4> QED
        BY <3>2, <4>1 DEF IsLine
    <3>4. s <= base + size
      BY <1>3, <3>1, <3>3
    <3>5. size # 0 /\ base + size < Used
      BY <1>1, <1>3, <3>1
    <3>6. s < base + pointer
      BY <1>2, <1>3, <3>1, <3>4
    <3>7. AsRow(s)
      BY <1>4, <2>2, <3>5, <3>6 DEF RowInv, RowsSoFar
    <3>8. s + Len(LineAt(s)) - 1 # base' + size'
      <4>1. text[base + size + 1] = NL
        BY <1>3, <3>5
      <4>2. base + size + 1 \notin s .. s + Len(LineAt(s)) - 1
        BY <3>2, <4>1 DEF IsLine
      <4> QED
        BY <1>1, <1>3, <3>1, <3>2, <3>4, <3>5, <4>2
    <3> QED
      BY <1>1, <1>2, <3>7, <3>8, AsRowStays
  <2> QED
    BY <1>4, <2>1, <2>2 DEF RowsSoFar
<1> QED
  BY <1>5, <1>6, <1>7, <1>8 DEF RowInv

LEMMA ParseLineRows ==
  ASSUME ToolInv, RowInv, ParseLine
  PROVE  RowInv'
<1>1. /\ from' \in Starts /\ from' = base + pointer /\ size # 0
      /\ from' <= base + size /\ from' < base + pointer'
      /\ (\A s \in Starts : s < base + pointer' => s <= from')
      /\ TimeOf(StringAt(buffer', columns'[1])) = TimeAt(from')
      /\ Complete(LineAt(from')) =>
           ReadAs(buffer', columns', LineAt(from'), ExpectedValue(from', LineAt(from')))
  BY ParseLineParses DEF ToolInv
<1>2. /\ phase = "read" /\ phase' = "inject" /\ text' = text /\ packed' = packed /\ clock' = clock
      /\ size' = size /\ base' = base /\ ends' = ends
  BY DEF ParseLine, channel
<1>3. /\ PackedUpTo' = PackedUpTo /\ Starts' = Starts
      /\ \A s : LineAt(s)' = LineAt(s) /\ TimeAt(s)' = TimeAt(s)
  BY <1>1, <1>2 DEF PackedUpTo, Starts, LineAt, TimeAt
<1>4. RowsInOrder'
  BY <1>2, <1>3 DEF RowInv, RowsInOrder
<1>7. ClockIs'
  BY <1>2, <1>3 DEF RowInv, ClockIs
<1>5. LineInHand'
  <2>1. (LineAt(from))' = LineAt(from') /\ (TimeAt(from))' = TimeAt(from')
    BY <1>2 DEF LineAt, TimeAt
  <2>2. ExpectedValue(from, LineAt(from))' = ExpectedValue(from', LineAt(from'))
    BY <1>2, <2>1 DEF ExpectedValue
  <2> QED
    BY <1>1, <1>2, <1>3, <2>1, <2>2 DEF LineInHand
<1>6. RowsSoFar'
  BY <1>2, <1>3, AsRowStays DEF RowInv, RowsSoFar
<1> QED
  BY <1>4, <1>5, <1>6, <1>7 DEF RowInv

LEMMA InjectLineRows ==
  ASSUME ToolInv, RowInv, InjectLine
  PROVE  RowInv'
<1>1. PICK row : row = RowInHand
  OBVIOUS
<1>2. /\ phase = "inject" /\ phase' = "read" /\ UNCHANGED <<text, reading>>
      /\ row \in Row /\ row.from = from
      /\ Late(row) \/ Refused(row) \/ \E m \in Memory : Taken(row, m)
  BY <1>1, Injected DEF ToolInv, Outcome
<1>3. /\ text' = text /\ buffer' = buffer /\ pointer' = pointer /\ size' = size /\ columns' = columns
      /\ from' = from /\ base' = base /\ ends' = ends
  BY <1>2 DEF reading
<1>4. row.time \in Nat /\ clock \in Nat
  BY <1>2 DEF Row, ToolInv, Outcome
<1>5. packed \in Seq(Row) /\ Len(packed) \in Nat
      /\ \A i \in 1 .. Len(packed) : packed[i].time \in Nat /\ packed[i].from \in Nat
  <2>1. packed \in Seq(Row) /\ \A i \in 1 .. Len(packed) : packed[i] \in Row
    BY DEF ToolInv, Outcome
  <2>2. \A r \in Row : r.time \in Nat /\ r.from \in Nat
    BY DEF Row
  <2> QED
    BY <2>1, <2>2
<1>6. /\ from \in Starts /\ from <= base + size /\ from < base + pointer
      /\ (\A s \in Starts : s < base + pointer => s <= from)
      /\ row.time = TimeAt(from)
      /\ (Complete(LineAt(from)) =>
            ReadAs(buffer, columns, LineAt(from), ExpectedValue(from, LineAt(from))))
  BY <1>1, <1>2 DEF RowInv, LineInHand, RowInHand
<1>7. /\ base \in Nat /\ size \in Nat /\ pointer \in Nat /\ text \in Text /\ Starts \subseteq Nat \ {0}
  BY DEF ToolInv, Chunked, TextOfLines, Starts, Text
<1>8. PackedUpTo = from /\ PackedUpTo' = base + pointer
  BY <1>2, <1>3 DEF PackedUpTo
<1>9. /\ \A i \in 1 .. Len(packed) : /\ packed[i].from \in 1 .. base + size /\ packed[i].from < from
                                     /\ packed[i].time <= clock
      /\ \A i, j \in 1 .. Len(packed) :
           i < j => packed[i].from < packed[j].from /\ packed[i].time <= packed[j].time
  BY <1>8 DEF RowInv, RowsInOrder
<1>10. /\ row.time < clock => clock' = clock /\ packed' = packed
       /\ row.time >= clock => clock' = row.time
  BY <1>2, <1>4 DEF Late, Refused, Taken
<1>11. \/ packed' = packed
       \/ /\ row.time >= clock /\ packed' \in Seq(Row) /\ Len(packed') = Len(packed) + 1
          /\ (\A i \in 1 .. Len(packed) : packed'[i] = packed[i]) /\ packed'[Len(packed) + 1] = row
  <2>1. packed' = packed \/ (row.time >= clock /\ packed' = Append(packed, row))
    BY <1>2 DEF Late, Refused, Taken
  <2> QED
    BY <1>2, <1>5, <2>1, AppendProperties
<1>12. RowsInOrder'
  <2>1. CASE packed' = packed
    <3>1. \A i \in 1 .. Len(packed) : packed[i].from < base + pointer
      BY <1>5, <1>6, <1>7, <1>9
    <3>2. clock' \in Nat /\ clock' >= clock
      BY <1>4, <1>10
    <3>3. \A i \in 1 .. Len(packed) : packed[i].time <= clock'
      BY <1>4, <1>5, <1>9, <3>2
    <3> QED
      BY <1>3, <1>8, <1>9, <2>1, <3>1, <3>3 DEF RowsInOrder
  <2>2. CASE packed' # packed
    <3> DEFINE n == Len(packed)
    <3>1. /\ Len(packed') = n + 1 /\ n \in Nat /\ clock' = row.time /\ row.time >= clock
          /\ (\A i \in 1 .. n : packed'[i] = packed[i]) /\ packed'[n + 1] = row
      BY <1>5, <1>10, <1>11, <2>2
    <3>2. \A i \in 1 .. n : packed[i].time <= row.time /\ packed[i].from < row.from
      <4> SUFFICES ASSUME NEW i \in 1 .. n PROVE packed[i].time <= row.time /\ packed[i].from < row.from
        OBVIOUS
      <4>1. packed[i].time \in Nat /\ packed[i].time <= clock /\ packed[i].from < from
        BY <1>5, <1>9
      <4> QED
        BY <1>2, <1>4, <3>1, <4>1
    <3> HIDE DEF n
    <3>3. ASSUME NEW i \in 1 .. n + 1
          PROVE  /\ packed'[i].from \in 1 .. base + size /\ packed'[i].from < base + pointer
                 /\ packed'[i].time <= clock'
      <4>1. CASE i = n + 1
        BY <1>2, <1>4, <1>6, <1>7, <3>1, <4>1
      <4>2. CASE i # n + 1
        <5>1. i \in 1 .. n
          BY <3>1, <4>2
        <5>2. packed'[i] = packed[i] /\ packed[i].from \in 1 .. base + size /\ packed[i].from < from
          BY <1>9, <3>1, <5>1 DEF n
        <5>3. packed[i].time <= row.time
          BY <3>2, <5>1
        <5> QED
          BY <1>6, <1>7, <3>1, <5>2, <5>3
      <4> QED
        BY <4>1, <4>2
    <3>4. ASSUME NEW i \in 1 .. n + 1, NEW j \in 1 .. n + 1, i < j
          PROVE  packed'[i].from < packed'[j].from /\ packed'[i].time <= packed'[j].time
      <4>1. i \in 1 .. n
        BY <3>1, <3>4
      <4>2. CASE j = n + 1
        BY <3>1, <3>2, <4>1, <4>2
      <4>3. CASE j # n + 1
        <5>1. j \in 1 .. n
          BY <3>1, <4>3
        <5> QED
          BY <1>9, <3>1, <3>4, <4>1, <5>1 DEF n
      <4> QED
        BY <4>2, <4>3
    <3> QED
      BY <1>3, <1>8, <3>1, <3>3, <3>4 DEF RowsInOrder
  <2> QED
    BY <2>1, <2>2
<1>13. LineInHand'
  BY <1>2 DEF LineInHand
<1>14. /\ Starts' = Starts
       /\ \A s : LineAt(s)' = LineAt(s) /\ TimeAt(s)' = TimeAt(s) /\ RowFor(s)' = RowFor(s)
  BY <1>3 DEF Starts, LineAt, TimeAt, RowFor, ExpectedValue
<1>15. DOMAIN packed = 1 .. Len(packed) /\ DOMAIN packed' = 1 .. Len(packed')
  BY <1>5, <1>11
<1>19. \A s : LateAt(s)' <=> LateAt(s)
  BY <1>14 DEF LateAt
<1>20. \A u \in Starts : TimeAt(u) \in Nat /\ u \in Nat
  BY <1>7, TimeTyped DEF TimeAt
<1>21. \A u \in Starts : u < from => TimeAt(u) <= clock
  BY <1>8 DEF RowInv, ClockIs
<1>22. ClockIs'
  <2>1. ASSUME NEW u \in Starts, u < base + pointer PROVE TimeAt(u) <= clock'
    <3>1. u = from \/ u < from
      BY <1>6, <1>7, <2>1
    <3>2. CASE u = from
      BY <1>4, <1>6, <1>10, <3>2
    <3>3. CASE u < from
      BY <1>4, <1>10, <1>20, <1>21, <3>3
    <3> QED
      BY <3>1, <3>2, <3>3
  <2>2. clock' = 0 \/ \E u \in Starts : u < base + pointer /\ u <= base + size /\ TimeAt(u) = clock'
    <3>1. CASE row.time >= clock
      BY <1>6, <1>10, <3>1
    <3>2. CASE ~ row.time >= clock
      <4>1. clock' = clock
        BY <1>4, <1>10, <3>2
      <4>2. clock = 0 \/ \E u \in Starts : u < from /\ u <= base + size /\ TimeAt(u) = clock
        BY <1>8 DEF RowInv, ClockIs
      <4>3. \A u \in Starts : u < from => u < base + pointer
        BY <1>6, <1>7
      <4> QED
        BY <4>1, <4>2, <4>3
    <3> QED
      BY <3>1, <3>2
  <2> QED
    BY <1>3, <1>8, <1>14, <2>1, <2>2 DEF ClockIs
<1>16. ASSUME NEW s \in Starts, Complete(LineAt(s)), size # 0, s < from
       PROVE  AsRow(s)'
  <2>1. AsRow(s)
    BY <1>8, <1>16 DEF RowInv, RowsSoFar
  <2>2. CASE packed' = packed
    BY <1>3, <2>1, <2>2, AsRowStays
  <2>3. CASE packed' # packed
    <3> DEFINE n == Len(packed)
    <3>1. /\ Len(packed') = n + 1 /\ n \in Nat
          /\ (\A i \in 1 .. n : packed'[i] = packed[i]) /\ packed'[n + 1] = row
      BY <1>5, <1>11, <2>3
    <3>2. ~ row.from <= s
      BY <1>2, <1>6, <1>7, <1>16
    <3>3. ~ row.from < s /\ row.from # s
      BY <1>2, <1>6, <1>7, <3>2
    <3>4. RowsAt(s)' = RowsAt(s)
      <4>1. \A i \in 1 .. n + 1 : packed'[i].from = s <=> i \in 1 .. n /\ packed[i].from = s
        BY <3>1, <3>3
      <4> QED
        BY <1>15, <3>1, <4>1 DEF RowsAt, n
    <3>5. LongAt(s)' <=> LongAt(s)
      <4>1. PICK name : name = Part(LineAt(s), 2)
        OBVIOUS
      <4>2. Part(LineAt(s), 2)' = name /\ Part(LineAt(s), 4)' = Part(LineAt(s), 4)
        BY <1>14, <4>1
      <4>3. (\A i \in 1 .. n : packed[i].from < s => packed[i].name # name)
            <=> \A i \in 1 .. n + 1 : packed'[i].from < s => packed'[i].name # name
        BY <3>1, <3>3
      <4> QED
        BY <1>15, <3>1, <4>1, <4>2, <4>3 DEF LongAt, n
    <3>6. \A i \in RowsAt(s) : packed'[i] = packed[i]
      BY <1>15, <3>1 DEF RowsAt, n
    <3> QED
      BY <1>14, <1>19, <2>1, <3>4, <3>5, <3>6 DEF AsRow
  <2> QED
    BY <2>2, <2>3
<1>17. ASSUME Complete(LineAt(from)), NEW s, s = from
       PROVE  AsRow(s)'
  <2>1. row = RowFor(s)
    BY <1>1, <1>6, <1>17 DEF ReadAs, RowFor, RowInHand
  <2>2. LateAt(s) <=> row.time < clock
    <3>1. ASSUME LateAt(s) PROVE row.time < clock
      <4>1. PICK u \in Starts : u < s /\ TimeAt(u) > TimeAt(s)
        BY <3>1 DEF LateAt
      <4> QED
        BY <1>4, <1>6, <1>17, <1>20, <1>21, <4>1
    <3>2. ASSUME row.time < clock PROVE LateAt(s)
      <4>1. PICK u \in Starts : u < from /\ TimeAt(u) = clock
        BY <1>4, <1>8, <3>2 DEF RowInv, ClockIs
      <4> QED
        BY <1>4, <1>6, <1>17, <3>2, <4>1 DEF LateAt
    <3> QED
      BY <3>1, <3>2
  <2>3. row.name = Part(LineAt(s), 2) /\ row.unit = Part(LineAt(s), 4)
    BY <2>1 DEF RowFor
  <2>4. ASSUME packed' = packed PROVE RowsAt(s)' = {} /\ (LongAt(s)' <=>
                                        Unknown(row.name) /\ <<row.name, row.unit>> \in Long)
    <3>1. \A i \in 1 .. Len(packed) : packed[i].from < s /\ packed[i].from # s
      BY <1>5, <1>9, <1>17
    <3>2. RowsAt(s)' = {}
      BY <1>15, <2>4, <3>1 DEF RowsAt
    <3>3. Part(LineAt(s), 2)' = row.name /\ Part(LineAt(s), 4)' = row.unit
      BY <1>14, <2>3
    <3> QED
      BY <1>15, <2>4, <3>1, <3>2, <3>3 DEF LongAt, Unknown
  <2>5. CASE Late(row) \/ Refused(row)
    <3>1. packed' = packed
      BY <2>5 DEF Late, Refused
    <3>2. LateAt(s)' \/ LongAt(s)'
      BY <1>19, <2>2, <2>4, <2>5, <3>1 DEF Late, Refused
    <3>3. RowsAt(s)' = {} /\ Cardinality(RowsAt(s)') = 0
      BY <2>4, <3>1, FS_EmptySet
    <3> QED
      BY <3>2, <3>3 DEF AsRow
  <2>6. ASSUME NEW m \in Memory, Taken(row, m) PROVE AsRow(s)'
    <3> DEFINE n == Len(packed)
    <3>1. packed' = Append(packed, row) /\ row.time >= clock
          /\ (Unknown(row.name) => <<row.name, row.unit>> \notin Long)
      BY <2>6 DEF Taken
    <3>2. /\ Len(packed') = n + 1 /\ n \in Nat
          /\ (\A i \in 1 .. n : packed'[i] = packed[i]) /\ packed'[n + 1] = row
      BY <1>2, <1>5, <3>1, AppendProperties
    <3>3. \A i \in 1 .. n : packed[i].from < s /\ packed[i].from # s
      BY <1>5, <1>9, <1>17
    <3>7. \A i \in 1 .. n + 1 : packed'[i].from = s <=> i = n + 1
      BY <1>2, <1>17, <3>2, <3>3
    <3>4. RowsAt(s)' = {n + 1}
      BY <1>15, <3>2, <3>7 DEF RowsAt
    <3>5. Cardinality(RowsAt(s)') = 1
      BY <3>4, FS_Singleton
    <3>6. \A i \in RowsAt(s)' : packed'[i] = RowFor(s)'
      BY <1>14, <2>1, <3>2, <3>4
    <3>8. ~ LateAt(s)'
      BY <1>4, <1>19, <2>2, <3>1
    <3>9. ~ LongAt(s)'
      <4>1. Part(LineAt(s), 2)' = row.name /\ Part(LineAt(s), 4)' = row.unit
        BY <1>14, <2>3
      <4>2. ASSUME LongAt(s)' PROVE FALSE
        <5>1. <<row.name, row.unit>> \in Long
              /\ \A i \in 1 .. n + 1 : packed'[i].from < s => packed'[i].name # row.name
          BY <1>15, <3>2, <4>1, <4>2 DEF LongAt
        <5>2. Unknown(row.name)
          <6> SUFFICES ASSUME NEW i \in 1 .. n PROVE packed[i].name # row.name
            BY DEF Unknown
          <6>1. i \in 1 .. n + 1 /\ packed'[i] = packed[i] /\ packed[i].from < s
            BY <3>2, <3>3
          <6> QED
            BY <5>1, <6>1
        <5> QED
          BY <3>1, <5>1, <5>2
      <4> QED
        BY <4>2
    <3> QED
      BY <3>5, <3>6, <3>8, <3>9 DEF AsRow
  <2> QED
    BY <1>2, <2>5, <2>6
<1>18. RowsSoFar'
  <2> SUFFICES ASSUME NEW s \in Starts, Complete(LineAt(s)), size # 0, s < base + pointer
               PROVE  AsRow(s)'
    BY <1>3, <1>8, <1>14 DEF RowsSoFar
  <2>1. s <= from /\ s \in Nat /\ from \in Nat
    BY <1>6, <1>7
  <2>2. CASE s = from
    BY <1>17, <2>2
  <2>3. CASE s # from
    BY <1>16, <2>1, <2>3
  <2> QED
    BY <2>2, <2>3
<1> QED
  BY <1>12, <1>13, <1>18, <1>22 DEF RowInv

LEMMA RowsInit ==
  ASSUME TsvInit
  PROVE  RowInv
<1>1. packed = <<>> /\ phase = "read" /\ size = 0 /\ Len(packed) = 0 /\ clock = 0 /\ PackedUpTo = 1
  BY DEF TsvInit, PackedUpTo
<1>2. \A u \in Starts : u \in Nat \ {0}
  BY TextInit DEF Starts, Text, TextOfLines
<1>3. ClockIs
  BY <1>1, <1>2 DEF ClockIs
<1> QED
  BY <1>1, <1>3 DEF RowInv, RowsInOrder, LineInHand, RowsSoFar

LEMMA RowsStep ==
  ASSUME ToolInv, RowInv, [TsvNext]_tvars
  PROVE  RowInv'
<1>1. CASE ReadChunk
  BY <1>1, ReadChunkRows
<1>2. CASE ParseLine
  BY <1>2, ParseLineRows
<1>3. CASE InjectLine
  BY <1>3, InjectLineRows
<1>4. CASE UNCHANGED tvars
  <2>1. UNCHANGED <<text, reading, channel>> /\ (phase' = "inject" <=> phase = "inject")
    BY <1>4 DEF tvars, reading, channel
  <2> QED
    BY <2>1, RowsStay
<1>5. CASE PackEnd \/ Unpack \/ CompareRead \/ CompareParse \/ CompareColumns \/ CompareEnd
  <2>1. UNCHANGED <<text, reading, channel>> /\ phase # "inject" /\ phase' # "inject"
    BY <1>5 DEF PackEnd, Unpack, CompareRead, CompareParse, CompareColumns, CompareEnd
  <2> QED
    BY <2>1, RowsStay
<1> QED
  BY <1>1, <1>2, <1>3, <1>4, <1>5 DEF TsvNext

(***************************************************************************)
(* Wherever the chunks are cut, whatever shorter or blank lines stand      *)
(* before it: what compress injects for a line with all its columns is     *)
(* what stands in that line, and the channel takes it once, but not at all *)
(* if it comes too late or is the first of its sensor and too long.        *)
(* ParseLine and InjectLine keep the columns in place between two lines,   *)
(* format_parse does not copy them.                                        *)
(***************************************************************************)
THEOREM LineIsRow == TsvSpec => []LinesAsRows
<1>1. TsvInit => ToolInv /\ RowInv
  BY ToolInit, RowsInit
<1>2. ToolInv /\ RowInv /\ [TsvNext]_tvars => ToolInv' /\ RowInv'
  BY ToolStep, RowsStep
<1>3. RowInv => LinesAsRows
  <2> SUFFICES ASSUME RowInv, NEW s \in Starts, Complete(LineAt(s)), PackedSoFar(s)
               PROVE  AsRow(s)
    BY DEF LinesAsRows, AsRow, RowsAt, LateAt, LongAt, RowFor
  <2> QED
    BY DEF PackedSoFar, PackedUpTo, RowInv, RowsSoFar
<1> QED
  BY <1>1, <1>2, <1>3, PTL DEF TsvSpec

-----------------------------------------------------------------------------
(* What a reader is told of the rows. *)

(* Of a row, its value is told or an earlier one of its sensor, which is alike. *)
Tells(i) ==
  \E k \in 1 .. i : /\ packed[k].name = packed[i].name /\ told[i].value = packed[k].value
                    /\ told[i].value = packed[i].value \/ Alike(told[i].value, packed[i].value)

(* The first row of a sensor has no too long name and unit. *)
FirstFits(i) ==
  (\A k \in 1 .. i - 1 : packed[k].name # packed[i].name) => <<packed[i].name, packed[i].unit>> \notin Long

DictInv == \A i \in 1 .. Len(packed) : Tells(i) /\ FirstFits(i)

LEMMA DictInit ==
  ASSUME TsvInit
  PROVE  DictInv
<1>1. Len(packed) = 0
  BY DEF TsvInit
<1> QED
  BY <1>1 DEF DictInv

LEMMA TakenTells ==
  ASSUME packed \in Seq(Row), told \in Seq(Memory), Len(told) = Len(packed), DictInv,
         NEW row \in Row, NEW m \in Memory, Taken(row, m)
  PROVE  DictInv'
<1>9. PICK n \in Nat : n = Len(packed)
  OBVIOUS
<1>1. /\ Len(packed') = n + 1 /\ packed'[n + 1] = row /\ told'[n + 1] = m
      /\ \A i \in 1 .. n : packed'[i] = packed[i] /\ told'[i] = told[i]
  BY <1>9, AppendProperties DEF Taken
<1>2. ToldOf(row, m) /\ (Unknown(row.name) => <<row.name, row.unit>> \notin Long)
  BY DEF Taken
<1>3. \A i \in 1 .. n : Tells(i) /\ FirstFits(i)
  BY <1>9 DEF DictInv
<1>4. ASSUME NEW i \in 1 .. n PROVE Tells(i)'
  <2>1. PICK k \in 1 .. i : /\ packed[k].name = packed[i].name /\ told[i].value = packed[k].value
                            /\ told[i].value = packed[i].value \/ Alike(told[i].value, packed[i].value)
    BY <1>3 DEF Tells
  <2>2. k \in 1 .. n
    BY <1>1, <2>1
  <2>3. packed'[k] = packed[k] /\ packed'[i] = packed[i] /\ told'[i] = told[i]
    BY <1>1, <2>2
  <2>4. \A a, b : Alike(a, b)' <=> Alike(a, b)
    BY DEF Alike
  <2> QED
    BY <2>1, <2>3, <2>4 DEF Tells
<1>5. ASSUME NEW i \in 1 .. n PROVE FirstFits(i)'
  <2>1. \A k \in 1 .. i - 1 : k \in 1 .. n
    BY <1>1
  <2>2. \A k \in 1 .. i - 1 : packed'[k] = packed[k]
    BY <1>1, <2>1
  <2>3. packed'[i] = packed[i] /\ FirstFits(i)
    BY <1>1, <1>3
  <2> QED
    BY <2>2, <2>3 DEF FirstFits
<1>6. Tells(n + 1)'
  <2>1. \A a, b : Alike(a, b)' <=> Alike(a, b)
    BY DEF Alike
  <2>2. CASE m.value = row.value
    <3>1. n + 1 \in 1 .. n + 1
      BY <1>1
    <3> QED
      BY <1>1, <2>2, <3>1 DEF Tells
  <2>3. CASE \E i \in 1 .. n : packed[i].name = row.name /\ m.value = told[i].value /\ Alike(m.value, row.value)
    <3>1. PICK i \in 1 .. n : packed[i].name = row.name /\ m.value = told[i].value /\ Alike(m.value, row.value)
      BY <2>3
    <3>2. PICK k \in 1 .. i : packed[k].name = packed[i].name /\ told[i].value = packed[k].value
      BY <1>3 DEF Tells
    <3>3. k \in 1 .. n /\ k \in 1 .. n + 1
      BY <1>1, <3>2
    <3>4. packed'[k] = packed[k]
      BY <1>1, <3>3
    <3> QED
      BY <1>1, <2>1, <3>1, <3>2, <3>3, <3>4 DEF Tells
  <2> QED
    BY <1>2, <1>9, <2>2, <2>3 DEF ToldOf
<1>7. FirstFits(n + 1)'
  <2> SUFFICES ASSUME \A k \in 1 .. (n + 1) - 1 : packed'[k].name # packed'[n + 1].name
               PROVE  <<row.name, row.unit>> \notin Long
    BY <1>1 DEF FirstFits
  <2>1. \A k \in 1 .. n : k \in 1 .. (n + 1) - 1
    BY <1>1
  <2>2. Unknown(row.name)
    BY <1>1, <1>9, <2>1 DEF Unknown
  <2> QED
    BY <1>2, <2>2
<1>8. ASSUME NEW i \in 1 .. n + 1 PROVE Tells(i)' /\ FirstFits(i)'
  <2>1. i = n + 1 \/ i \in 1 .. n
    BY <1>1
  <2> QED
    BY <1>4, <1>5, <1>6, <1>7, <2>1
<1> QED
  BY <1>1, <1>8 DEF DictInv

LEMMA DictStep ==
  ASSUME ToolInv, DictInv, [TsvNext]_tvars
  PROVE  DictInv'
<1>1. CASE packed' = packed /\ told' = told
  BY <1>1 DEF DictInv, Tells, FirstFits, Alike
<1>2. CASE InjectLine
  <2>1. PICK row : row = RowInHand
    OBVIOUS
  <2>2. row \in Row /\ (Late(row) \/ Refused(row) \/ \E m \in Memory : Taken(row, m))
    BY <1>2, <2>1, Injected DEF ToolInv, Outcome
  <2>3. CASE Late(row) \/ Refused(row)
    BY <1>1, <2>3 DEF Late, Refused
  <2>4. CASE \E m \in Memory : Taken(row, m)
    BY <2>2, <2>4, TakenTells DEF ToolInv, Outcome
  <2> QED
    BY <2>2, <2>3, <2>4
<1>3. CASE UNCHANGED tvars
  BY <1>1, <1>3 DEF tvars
<1>4. CASE ReadChunk \/ ParseLine \/ PackEnd \/ Unpack
  BY <1>1, <1>4 DEF ReadChunk, ParseLine, PackEnd, Unpack, channel
<1>5. CASE CompareRead \/ CompareParse \/ CompareColumns \/ CompareEnd
  BY <1>1, <1>5 DEF CompareRead, CompareParse, CompareColumns, CompareEnd, channel
<1> QED
  BY <1>2, <1>3, <1>4, <1>5 DEF TsvNext

-----------------------------------------------------------------------------
(* Where the lines of the printed text stand. *)

OffsetsOf(seqs, t, off) ==
  /\ \A i \in 0 .. Len(seqs) : off[i] \in 0 .. Len(t)
  /\ off[0] = 0 /\ off[Len(seqs)] = Len(t)
  /\ \A i \in 1 .. Len(seqs) : /\ off[i] = off[i - 1] + Len(seqs[i])
                               /\ \A k \in 1 .. Len(seqs[i]) : t[off[i - 1] + k] = seqs[i][k]

LEMMA ConcatIs ==
  ASSUME NEW X, NEW p \in Seq(X), NEW q \in Seq(X)
  PROVE  /\ p \o q \in Seq(X) /\ Len(p \o q) = Len(p) + Len(q)
         /\ \A k \in 1 .. Len(p) : (p \o q)[k] = p[k]
         /\ \A k \in 1 .. Len(q) : (p \o q)[Len(p) + k] = q[k]
<1>1. Len(p) \in Nat /\ Len(q) \in Nat
  OBVIOUS
<1>2. /\ p \o q \in Seq(X) /\ Len(p \o q) = Len(p) + Len(q)
      /\ \A i \in 1 .. Len(p) + Len(q) : (p \o q)[i] = IF i <= Len(p) THEN p[i] ELSE q[i - Len(p)]
  BY ConcatProperties
<1>3. \A k \in 1 .. Len(p) : (p \o q)[k] = p[k]
  BY <1>1, <1>2
<1>4. ASSUME NEW k \in 1 .. Len(q) PROVE (p \o q)[Len(p) + k] = q[k]
  <2>1. Len(p) + k \in 1 .. Len(p) + Len(q) /\ ~ Len(p) + k <= Len(p) /\ (Len(p) + k) - Len(p) = k
    BY <1>1
  <2> QED
    BY <1>2, <2>1
<1> QED
  BY <1>2, <1>3, <1>4

Adds(X, p, q, g) ==
  /\ g \in Seq(X) /\ Len(g) = Len(p) + Len(q) /\ Len(g) \in Nat /\ Len(p) \in 0 .. Len(g)
  /\ \A k \in 1 .. Len(p) : g[k] = p[k]
  /\ \A k \in 1 .. Len(q) : Len(p) + k \in 1 .. Len(g) /\ g[Len(p) + k] = q[k]

LEMMA FlattenOffsets ==
  ASSUME NEW X, NEW seqs \in Seq(Seq(X))
  PROVE  \E off : OffsetsOf(seqs, FlattenSeq(seqs), off)
<1>1. CASE Len(seqs) = 0
  <2>1. FlattenSeq(seqs) = seqs
    BY <1>1 DEF FlattenSeq
  <2> DEFINE off == [i \in 0 .. 0 |-> 0]
  <2>2. OffsetsOf(seqs, FlattenSeq(seqs), off)
    BY <1>1, <2>1 DEF OffsetsOf
  <2> QED
    BY <2>2
<1>2. CASE Len(seqs) # 0
  <2> DEFINE n == Len(seqs)
  <2>1. n \in Nat \ {0} /\ \A i \in 1 .. n : seqs[i] \in Seq(X) /\ Len(seqs[i]) \in Nat
    BY <1>2
  <2>2. PICK f : Joined(seqs, n, f) /\ FlattenSeq(seqs) = f[n]
    BY <1>2, FlattenIs
  <2> HIDE DEF n
  <2> DEFINE Grown(m) == /\ f[m] \in Seq(X) /\ Len(f[m]) \in Nat
                         /\ \A i \in 1 .. m : /\ Len(f[i]) \in 0 .. Len(f[m])
                                              /\ \A k \in 1 .. Len(f[i]) : f[m][k] = f[i][k]
             T == {m \in 1 .. n : ~ Grown(m)}
  <2>3. f[1] = seqs[1] /\ \A i \in 1 .. n - 1 : f[i + 1] = f[i] \o seqs[i + 1]
    BY <2>2 DEF Joined
  <2>4. ASSUME NEW m \in 2 .. n, f[m - 1] \in Seq(X) PROVE Adds(X, f[m - 1], seqs[m], f[m])
    <3>1. m - 1 \in 1 .. n - 1 /\ (m - 1) + 1 = m /\ m \in 1 .. n
      BY <2>1
    <3> HIDE DEF T, Grown
    <3>2. PICK p \in Seq(X), q \in Seq(X), g \in {f[m]} : p = f[m - 1] /\ q = seqs[m]
      BY <2>1, <2>4, <3>1
    <3>3. g = p \o q
      BY <2>3, <3>1, <3>2
    <3>4. Adds(X, p, q, g)
      BY <3>3, ConcatIs DEF Adds
    <3> QED
      BY <3>2, <3>4
  <2>5. ASSUME T # {} PROVE FALSE
    <3>1. T \in SUBSET Nat /\ T \subseteq 1 .. n
      BY <2>1
    <3>2. PICK m \in T : \A k \in T : m <= k
      <4> HIDE DEF T
      <4> QED
        BY <2>5, <3>1, Smallest
    <3>3. CASE m = 1
      <4>1. Grown(1)
        BY <2>1, <2>3
      <4> QED
        BY <3>2, <3>3, <4>1
    <3>4. CASE m # 1
      <4>1. m \in 2 .. n /\ m - 1 \in 1 .. n /\ m - 1 \notin T /\ m \in Nat
        <5> HIDE DEF T
        <5>1. n \in Nat /\ m \in 1 .. n
          BY <2>1, <3>1, <3>2
        <5>2. m \in 2 .. n /\ m - 1 \in 1 .. n /\ m \in Nat /\ ~ m <= m - 1
          BY <3>4, <5>1
        <5> QED
          BY <3>2, <5>2
      <4>2. Grown(m - 1)
        BY <4>1
      <4>3. PICK p, g : p = f[m - 1] /\ g = f[m]
        OBVIOUS
      <4>4. /\ g \in Seq(X) /\ Len(g) \in Nat /\ Len(p) \in 0 .. Len(g) /\ Len(p) \in Nat
            /\ \A k \in 1 .. Len(p) : g[k] = p[k]
        <5>1. Adds(X, p, seqs[m], g)
          BY <2>4, <4>1, <4>2, <4>3
        <5> QED
          BY <5>1 DEF Adds
      <4>5. ASSUME NEW i \in 1 .. m
            PROVE  Len(f[i]) \in 0 .. Len(f[m]) /\ \A k \in 1 .. Len(f[i]) : f[m][k] = f[i][k]
        <5>1. CASE i = m
          BY <4>3, <4>4, <5>1
        <5>2. CASE i # m
          <6>1. i \in 1 .. m - 1
            BY <4>1, <5>2
          <6>2. Len(f[i]) \in 0 .. Len(p) /\ \A k \in 1 .. Len(f[i]) : p[k] = f[i][k]
            BY <4>2, <4>3, <6>1
          <6>3. Len(f[i]) \in 0 .. Len(g)
            BY <4>4, <6>2
          <6>4. \A k \in 1 .. Len(f[i]) : k \in 1 .. Len(p)
            BY <4>4, <6>2
          <6> QED
            BY <4>3, <4>4, <6>2, <6>3, <6>4
        <5> QED
          BY <5>1, <5>2
      <4>6. Grown(m)
        BY <4>3, <4>4, <4>5
      <4> QED
        BY <3>2, <4>6
    <3> QED
      BY <3>3, <3>4
  <2>6. \A m \in 1 .. n : Grown(m)
    BY <2>5
  <2> DEFINE off == [i \in 0 .. n |-> IF i = 0 THEN 0 ELSE Len(f[i])]
  <2>7. n \in 1 .. n /\ f[n] \in Seq(X) /\ Len(f[n]) \in Nat
        /\ \A i \in 1 .. n : Len(f[i]) \in 0 .. Len(f[n]) /\ \A k \in 1 .. Len(f[i]) : f[n][k] = f[i][k]
    BY <2>1, <2>6
  <2>8. off[0] = 0 /\ off[n] = Len(f[n]) /\ \A i \in 0 .. n : off[i] \in 0 .. Len(f[n])
    BY <2>1, <2>7
  <2>9. ASSUME NEW i \in 1 .. n
        PROVE  /\ off[i] = off[i - 1] + Len(seqs[i])
               /\ \A k \in 1 .. Len(seqs[i]) : f[n][off[i - 1] + k] = seqs[i][k]
    <3>1. CASE i = 1
      <4>1. off[i] = Len(seqs[1]) /\ off[i - 1] = 0
        BY <2>1, <2>3, <3>1
      <4>2. \A k \in 1 .. Len(seqs[1]) : f[n][0 + k] = seqs[1][k]
        BY <2>1, <2>3, <2>7, <3>1
      <4> HIDE DEF off
      <4> QED
        BY <2>1, <3>1, <4>1, <4>2
    <3>2. CASE i # 1
      <4>1. i \in 2 .. n /\ i - 1 \in 1 .. n /\ off[i] = Len(f[i]) /\ off[i - 1] = Len(f[i - 1])
        BY <2>1, <3>2
      <4>2. PICK p, g : p = f[i - 1] /\ g = f[i]
        OBVIOUS
      <4>3. p \in Seq(X) /\ i \in 2 .. n /\ p = f[i - 1] /\ g = f[i]
        BY <2>6, <4>1, <4>2
      <4> HIDE DEF T, Grown, off
      <4>6. Adds(X, p, seqs[i], g)
        BY <2>4, <4>3
      <4>4. /\ Len(g) = Len(p) + Len(seqs[i])
            /\ \A k \in 1 .. Len(seqs[i]) : Len(p) + k \in 1 .. Len(g) /\ g[Len(p) + k] = seqs[i][k]
        BY <4>6 DEF Adds
      <4>5. ASSUME NEW k \in 1 .. Len(seqs[i]) PROVE f[n][Len(p) + k] = seqs[i][k]
        BY <2>7, <4>2, <4>4
      <4> HIDE DEF off
      <4> QED
        BY <4>1, <4>2, <4>4, <4>5
    <3> QED
      BY <3>1, <3>2
  <2> HIDE DEF off
  <2>10. OffsetsOf(seqs, FlattenSeq(seqs), off)
    BY <2>2, <2>8, <2>9 DEF OffsetsOf, n
  <2> QED
    BY <2>10
<1> QED
  BY <1>1, <1>2

-----------------------------------------------------------------------------
(* A line of compare's second text: a time and three columns. *)

Word(a) == a \in Text /\ \A k \in 1 .. Len(a) : a[k] \notin Stops

Four(line, x, a, b, c) ==
  /\ line \in Text /\ Len(line) = Len(a) + Len(b) + Len(c) + 4
  /\ line[1] = x /\ line[2] = TAB
  /\ \A k \in 1 .. Len(a) : line[2 + k] = a[k]
  /\ line[Len(a) + 3] = TAB
  /\ \A k \in 1 .. Len(b) : line[Len(a) + 3 + k] = b[k]
  /\ line[Len(a) + Len(b) + 4] = TAB
  /\ \A k \in 1 .. Len(c) : line[Len(a) + Len(b) + 4 + k] = c[k]

LEMMA FourIs ==
  ASSUME NEW x \in Field, NEW a, Word(a), NEW b, Word(b), NEW c, Word(c)
  PROVE  Four(<<x, TAB>> \o a \o <<TAB>> \o b \o <<TAB>> \o c, x, a, b, c)
<1>1. TAB \in Field
  BY DEF Field
<1>2. PICK m1 \in Seq(Field), m2 \in Seq(Field) : m1 = <<x, TAB>> /\ m2 = <<TAB>>
  <2>1. <<x, TAB>> \in Seq(Field) /\ <<TAB>> \in Seq(Field)
    BY <1>1
  <2> QED
    BY <2>1
<1>3. Len(m1) = 2 /\ m1[1] = x /\ m1[2] = TAB /\ Len(m2) = 1 /\ m2[1] = TAB
  BY <1>2
<1>4. a \in Seq(Field) /\ b \in Seq(Field) /\ c \in Seq(Field)
      /\ Len(a) \in Nat /\ Len(b) \in Nat /\ Len(c) \in Nat
  BY DEF Word, Text
<1>5. \A p \in Seq(Field), q \in Seq(Field) : p \o q \in Seq(Field) /\ Adds(Field, p, q, p \o q)
  BY ConcatIs DEF Adds
<1>6. PICK n1 \in Seq(Field) : n1 = m1 \o a /\ Adds(Field, m1, a, n1)
  BY <1>4, <1>5
<1>7. PICK n2 \in Seq(Field) : n2 = n1 \o m2 /\ Adds(Field, n1, m2, n2)
  BY <1>4, <1>5
<1>8. PICK n3 \in Seq(Field) : n3 = n2 \o b /\ Adds(Field, n2, b, n3)
  BY <1>4, <1>5
<1>9. PICK n4 \in Seq(Field) : n4 = n3 \o m2 /\ Adds(Field, n3, m2, n4)
  BY <1>4, <1>5
<1>10. PICK n5 \in Seq(Field) : n5 = n4 \o c /\ Adds(Field, n4, c, n5)
  BY <1>4, <1>5
<1>11. /\ Len(n1) = Len(a) + 2 /\ n1[1] = x /\ n1[2] = TAB
       /\ \A k \in 1 .. Len(a) : n1[2 + k] = a[k]
  <2>1. Len(n1) = 2 + Len(a) /\ (\A k \in 1 .. 2 : n1[k] = m1[k])
        /\ \A k \in 1 .. Len(a) : n1[2 + k] = a[k]
    BY <1>3, <1>6 DEF Adds
  <2>2. 1 \in 1 .. 2 /\ 2 \in 1 .. 2 /\ 2 + Len(a) = Len(a) + 2
    BY <1>4
  <2> QED
    BY <1>3, <2>1, <2>2
<1>12. /\ Len(n2) = Len(a) + 3 /\ (\A k \in 1 .. Len(a) + 2 : n2[k] = n1[k]) /\ n2[Len(a) + 3] = TAB
  <2>1. Len(n2) = (Len(a) + 2) + 1 /\ (\A k \in 1 .. Len(n1) : n2[k] = n1[k])
        /\ \A k \in 1 .. 1 : n2[Len(n1) + k] = m2[k]
    BY <1>3, <1>7, <1>11 DEF Adds
  <2>2. 1 \in 1 .. 1 /\ (Len(a) + 2) + 1 = Len(a) + 3
    BY <1>4
  <2> QED
    BY <1>3, <1>11, <2>1, <2>2
<1>13. /\ Len(n3) = Len(a) + Len(b) + 3 /\ (\A k \in 1 .. Len(a) + 3 : n3[k] = n2[k])
       /\ \A k \in 1 .. Len(b) : n3[Len(a) + 3 + k] = b[k]
  <2>1. Len(n3) = (Len(a) + 3) + Len(b)
    BY <1>8, <1>12 DEF Adds
  <2>2. \A k \in 1 .. Len(n2) : n3[k] = n2[k]
    BY <1>8 DEF Adds
  <2>3. \A k \in 1 .. Len(b) : n3[Len(n2) + k] = b[k]
    BY <1>8 DEF Adds
  <2>4. Len(n3) = Len(a) + Len(b) + 3
    BY <1>4, <2>1
  <2> QED
    BY <1>12, <2>2, <2>3, <2>4
<1>14. /\ Len(n4) = Len(a) + Len(b) + 4 /\ (\A k \in 1 .. Len(a) + Len(b) + 3 : n4[k] = n3[k])
       /\ n4[Len(a) + Len(b) + 4] = TAB
  <2>1. Len(n4) = (Len(a) + Len(b) + 3) + 1 /\ (\A k \in 1 .. Len(n3) : n4[k] = n3[k])
        /\ \A k \in 1 .. 1 : n4[Len(n3) + k] = m2[k]
    BY <1>3, <1>9, <1>13 DEF Adds
  <2>2. 1 \in 1 .. 1 /\ (Len(a) + Len(b) + 3) + 1 = Len(a) + Len(b) + 4
    BY <1>4
  <2> QED
    BY <1>3, <1>13, <2>1, <2>2
<1>15. /\ Len(n5) = Len(a) + Len(b) + Len(c) + 4 /\ (\A k \in 1 .. Len(a) + Len(b) + 4 : n5[k] = n4[k])
       /\ \A k \in 1 .. Len(c) : n5[Len(a) + Len(b) + 4 + k] = c[k]
  <2>1. Len(n5) = (Len(a) + Len(b) + 4) + Len(c)
    BY <1>10, <1>14 DEF Adds
  <2>2. \A k \in 1 .. Len(n4) : n5[k] = n4[k]
    BY <1>10 DEF Adds
  <2>3. \A k \in 1 .. Len(c) : n5[Len(n4) + k] = c[k]
    BY <1>10 DEF Adds
  <2> QED
    BY <1>4, <1>14, <2>1, <2>2, <2>3
<1>16. \A k \in 1 .. Len(a) + 2 : n5[k] = n1[k]
  <2> SUFFICES ASSUME NEW k \in 1 .. Len(a) + 2 PROVE n5[k] = n1[k]
    OBVIOUS
  <2>1. k \in 1 .. Len(a) + 3 /\ k \in 1 .. Len(a) + Len(b) + 3 /\ k \in 1 .. Len(a) + Len(b) + 4
    BY <1>4
  <2>2. n5[k] = n4[k] /\ n4[k] = n3[k]
    BY Zenon, <1>14, <1>15, <2>1
  <2>3. n3[k] = n2[k] /\ n2[k] = n1[k]
    BY Zenon, <1>12, <1>13, <2>1
  <2> QED
    BY <2>2, <2>3
<1>17. n5[Len(a) + 3] = TAB
  <2>1. Len(a) + 3 \in 1 .. Len(a) + 3 /\ Len(a) + 3 \in 1 .. Len(a) + Len(b) + 3
        /\ Len(a) + 3 \in 1 .. Len(a) + Len(b) + 4
    BY <1>4
  <2>2. n5[Len(a) + 3] = n4[Len(a) + 3] /\ n4[Len(a) + 3] = n3[Len(a) + 3] /\ n3[Len(a) + 3] = n2[Len(a) + 3]
    BY <1>13, <1>14, <1>15, <2>1
  <2> QED
    BY <1>12, <2>2
<1>18. \A k \in 1 .. Len(b) : n5[Len(a) + 3 + k] = b[k]
  <2> SUFFICES ASSUME NEW k \in 1 .. Len(b) PROVE n5[Len(a) + 3 + k] = b[k]
    OBVIOUS
  <2>1. Len(a) + 3 + k \in 1 .. Len(a) + Len(b) + 3 /\ Len(a) + 3 + k \in 1 .. Len(a) + Len(b) + 4
    BY <1>4
  <2> QED
    BY <1>13, <1>14, <1>15, <2>1
<1>19. n5[Len(a) + Len(b) + 4] = TAB
  <2>1. Len(a) + Len(b) + 4 \in 1 .. Len(a) + Len(b) + 4
    BY <1>4
  <2> QED
    BY <1>14, <1>15, <2>1
<1>20. n5[1] = x /\ n5[2] = TAB /\ \A k \in 1 .. Len(a) : n5[2 + k] = a[k]
  <2>1. 1 \in 1 .. Len(a) + 2 /\ 2 \in 1 .. Len(a) + 2
    BY <1>4
  <2>2. ASSUME NEW k \in 1 .. Len(a) PROVE n5[2 + k] = a[k]
    <3>1. 2 + k \in 1 .. Len(a) + 2
      BY <1>4
    <3> QED
      BY Zenon, <1>11, <1>16, <3>1
  <2>3. n5[1] = x /\ n5[2] = TAB
    BY Zenon, <1>11, <1>16, <2>1
  <2> QED
    BY <2>2, <2>3
<1>21. n5 = <<x, TAB>> \o a \o <<TAB>> \o b \o <<TAB>> \o c
  BY <1>2, <1>6, <1>7, <1>8, <1>9, <1>10
<1>22. Four(n5, x, a, b, c)
  BY <1>15, <1>17, <1>18, <1>19, <1>20 DEF Four, Text
<1> QED
  BY <1>21, <1>22

LEMMA PieceIs ==
  ASSUME NEW line \in Text, NEW a \in Text, NEW j \in Nat, j + Len(a) <= Len(line),
         \A k \in 1 .. Len(a) : line[j + k] = a[k]
  PROVE  SubSeq(line, j + 1, j + Len(a)) = a
<1>1. Len(a) \in Nat /\ Len(line) \in Nat /\ \A i \in 1 .. Len(line) : line[i] \in Field
  BY DEF Text
<1> DEFINE u == SubSeq(line, j + 1, j + Len(a))
<1>2. \A i \in j + 1 .. j + Len(a) : line[i] \in Field
  BY <1>1
<1>3. /\ u \in Seq(Field)
      /\ Len(u) = IF j + 1 <= j + Len(a) THEN (j + Len(a)) - (j + 1) + 1 ELSE 0
      /\ \A i \in 1 .. (j + Len(a)) - (j + 1) + 1 : u[i] = line[j + 1 + i - 1]
  <2>1. j + 1 \in Int /\ j + Len(a) \in Int
    BY <1>1
  <2> QED
    BY <1>2, <2>1, SubSeqProperties
<1> HIDE DEF u
<1>4. Len(u) = Len(a) /\ \A i \in 1 .. Len(a) : u[i] = a[i]
  <2>1. Len(u) = Len(a)
    BY <1>1, <1>3
  <2>2. ASSUME NEW i \in 1 .. Len(a) PROVE u[i] = a[i]
    <3>1. i \in 1 .. (j + Len(a)) - (j + 1) + 1 /\ j + 1 + i - 1 = j + i
      BY <1>1
    <3> QED
      BY <1>3, <3>1
  <2> QED
    BY <2>1, <2>2
<1>5. u = a
  BY <1>1, <1>3, <1>4, SeqEqual DEF Text
<1> QED
  BY <1>5 DEF u

(* What compare finds in the columns of a line of the second text, and of the first. *)
RowRead(buf, cols, x, a, b, c) ==
  /\ StringAt(buf, cols[1]) = <<x>>
  /\ cols[2] # Null /\ StringAt(buf, cols[2]) = a
  /\ (cols[3] = Null <=> b = <<>>) /\ (b # <<>> => StringAt(buf, cols[3]) = b)
  /\ cols[4] # Null /\ StringAt(buf, cols[4]) = c

LineRead(buf, cols, line) ==
  /\ StringAt(buf, cols[1]) = Part(line, 1)
  /\ cols[2] # Null /\ StringAt(buf, cols[2]) = Part(line, 2)
  /\ (cols[4] = Null <=> Part(line, 4) = <<>>)
  /\ (Part(line, 4) # <<>> => StringAt(buf, cols[4]) = Part(line, 4))
  /\ cols[5] # Null /\ StringAt(buf, cols[5]) = Part(line, 5)

(* The buffer begins with the line and a NUL. *)
HoldsAlone(buf, line) == IsBuffer(buf) /\ Holds(buf, 1, line) /\ buf[Len(line) + 1] = NUL

LEMMA ColumnIs ==
  ASSUME NEW buf, NEW line, HoldsAlone(buf, line), NEW cols,
         NEW c \in 2 .. ColumnCount, Has(line, c), NEW b, b = Begins(buf, 1)[c]
  PROVE  ParsedColumns(cols, buf, 1)[c] = IF buf[b] \in {TAB, NL} THEN Null ELSE b
<1>1. Holds(buf, 1, line) /\ c \in 1 .. ColumnCount /\ c # 1 /\ Len(line) \in Nat
  BY DEF HoldsAlone, Holds, Text, ColumnCount
<1>2. LineEnd(buf, 1) = 1 + Len(line) /\ b <= 1 + Len(line)
  BY <1>1, HeldLineEnd, HeldColumns
<1> QED
  BY <1>1, <1>2 DEF ParsedColumns, Column

LEMMA NextIs ==
  ASSUME NEW buf \in Seq(Tokens), NEW e \in Nat, NEW b \in Nat, b <= e, NEW a, IsNext(buf, e, b, a),
         NEW k, IsFirst(Stops, buf, b, k)
  PROVE  a = k + 1
<1>1. a \in b + 1 .. e + 1 /\ IsFirst(Stops, buf, b, a - 1)
  BY DEF IsNext
<1>2. FirstOf(Stops, buf, b) = k /\ FirstOf(Stops, buf, b) = a - 1
  <2>1. PICK j : j = a - 1
    OBVIOUS
  <2> QED
    BY <1>1, <2>1, FirstIs
<1>3. a \in Int
  BY <1>1
<1> QED
  BY <1>2, <1>3

FourPlaces(k, buf, line, a, b, c) ==
  /\ k[1] = 1 /\ k[2] = 3 /\ k[3] = Len(a) + 4 /\ k[4] = Len(a) + Len(b) + 5
  /\ FirstOf(Stops, buf, 1) = 2 /\ FirstOf(Stops, buf, 3) = Len(a) + 3
  /\ FirstOf(Stops, buf, Len(a) + 4) = Len(a) + Len(b) + 4
  /\ FirstOf(Stops, buf, Len(a) + Len(b) + 5) = Len(line) + 1
  /\ \A i \in 1 .. 4 : Has(line, i)

LEMMA FourBegins ==
  ASSUME NEW line, NEW x \in Times, NEW a, Word(a), NEW b, Word(b), NEW c, Word(c), Four(line, x, a, b, c),
         NEW buf, HoldsAlone(buf, line)
  PROVE  FourPlaces(Begins(buf, 1), buf, line, a, b, c)
<1> DEFINE g == Begins(buf, 1)
           n == Len(line)
           La == Len(a)
           Lb == Len(b)
           Lc == Len(c)
<1>1. La \in Nat /\ Lb \in Nat /\ Lc \in Nat /\ n = La + Lb + Lc + 4 /\ n \in Nat
  BY DEF Word, Text, Four
<1>2. /\ buf \in Seq(Tokens) /\ n + 1 <= Len(buf) /\ Len(buf) \in Nat /\ buf[n + 1] = NUL
      /\ \A i \in 1 .. n : buf[i] = line[i]
  BY <1>1 DEF HoldsAlone, Holds, IsBuffer
<1>3. Walks(buf, 1, n + 1, g) /\ \A k \in 1 .. ColumnCount : Has(line, k) <=> g[k] <= n + 1
  <2>1. 1 + Len(line) = n + 1
    BY <1>1
  <2> QED
    BY <2>1, HeldColumns DEF HoldsAlone
<1>4. x \notin Stops /\ TAB \in Stops /\ NUL \in Stops
  BY TsvAssumption DEF Stops, Field
<1>5. /\ line[1] = x /\ line[2] = TAB /\ (\A k \in 1 .. La : line[2 + k] = a[k]) /\ line[La + 3] = TAB
      /\ (\A k \in 1 .. Lb : line[La + 3 + k] = b[k]) /\ line[La + Lb + 4] = TAB
      /\ \A k \in 1 .. Lc : line[La + Lb + 4 + k] = c[k]
  BY DEF Four
<1>6. /\ \A k \in 1 .. La : a[k] \notin Stops
      /\ \A k \in 1 .. Lb : b[k] \notin Stops
      /\ \A k \in 1 .. Lc : c[k] \notin Stops
  BY DEF Word
<1> HIDE DEF n, g, La, Lb, Lc
<1>7. IsFirst(Stops, buf, 1, 2)
  <2>1. 2 \in 1 .. Len(buf) /\ buf[2] \in Stops
    BY <1>1, <1>2, <1>4, <1>5
  <2>2. \A j \in 1 .. 2 - 1 : buf[j] \notin Stops
    BY <1>1, <1>2, <1>4, <1>5
  <2> QED
    BY <2>1, <2>2 DEF IsFirst
<1>8. IsFirst(Stops, buf, 3, La + 3)
  <2>1. La + 3 \in 3 .. Len(buf) /\ buf[La + 3] \in Stops
    BY <1>1, <1>2, <1>4, <1>5
  <2>2. ASSUME NEW j \in 3 .. (La + 3) - 1 PROVE buf[j] \notin Stops
    <3>1. j - 2 \in 1 .. La /\ 2 + (j - 2) = j /\ j \in 1 .. n
      BY <1>1
    <3> QED
      BY <1>2, <1>5, <1>6, <3>1
  <2> QED
    BY <2>1, <2>2 DEF IsFirst
<1>9. IsFirst(Stops, buf, La + 4, La + Lb + 4)
  <2>1. La + Lb + 4 \in La + 4 .. Len(buf) /\ buf[La + Lb + 4] \in Stops
    <3>1. La + Lb + 4 \in 1 .. n /\ La + Lb + 4 \in La + 4 .. Len(buf)
      BY <1>1, <1>2
    <3> QED
      BY <1>2, <1>4, <1>5, <3>1
  <2>2. ASSUME NEW j \in La + 4 .. (La + Lb + 4) - 1 PROVE buf[j] \notin Stops
    <3>1. j - (La + 3) \in 1 .. Lb /\ La + 3 + (j - (La + 3)) = j /\ j \in 1 .. n
      BY <1>1
    <3>2. line[j] = b[j - (La + 3)]
      BY <1>5, <3>1
    <3> QED
      BY <1>2, <1>6, <3>1, <3>2
  <2> QED
    BY <2>1, <2>2 DEF IsFirst
<1>10. IsFirst(Stops, buf, La + Lb + 5, n + 1)
  <2>1. n + 1 \in La + Lb + 5 .. Len(buf) /\ buf[n + 1] \in Stops
    BY <1>1, <1>2, <1>4
  <2>2. ASSUME NEW j \in La + Lb + 5 .. (n + 1) - 1 PROVE buf[j] \notin Stops
    <3>1. j - (La + Lb + 4) \in 1 .. Lc /\ La + Lb + 4 + (j - (La + Lb + 4)) = j /\ j \in 1 .. n
      BY <1>1
    <3>2. line[j] = c[j - (La + Lb + 4)]
      BY <1>5, <3>1
    <3> QED
      BY <1>2, <1>6, <3>1, <3>2
  <2> QED
    BY <2>1, <2>2 DEF IsFirst
<1>11. g[1] = 1 /\ IsNext(buf, n + 1, g[1], g[2]) /\ IsNext(buf, n + 1, g[2], g[3]) /\ IsNext(buf, n + 1, g[3], g[4])
  BY <1>3 DEF Walks, ColumnCount
<1>12. g[2] = 3
  BY <1>1, <1>2, <1>7, <1>11, NextIs
<1>13. g[3] = La + 4
  <2>1. g[3] = (La + 3) + 1
    BY <1>1, <1>2, <1>8, <1>11, <1>12, NextIs
  <2> QED
    BY <1>1, <2>1
<1>14. g[4] = La + Lb + 5
  <2>1. La + 4 \in Nat /\ La + 4 <= n + 1 /\ n + 1 \in Nat
    BY <1>1
  <2>2. PICK q : q = La + 4
    OBVIOUS
  <2>3. g[4] = (La + Lb + 4) + 1
    BY <1>2, <1>9, <1>11, <1>13, <2>1, <2>2, NextIs
  <2> QED
    BY <1>1, <2>3
<1>15. \A k \in 1 .. 4 : Has(line, k)
  <2>1. \A k \in 1 .. 4 : k \in 1 .. ColumnCount /\ (k = 1 \/ k = 2 \/ k = 3 \/ k = 4)
    BY DEF ColumnCount
  <2>2. g[1] <= n + 1 /\ g[2] <= n + 1 /\ g[3] <= n + 1 /\ g[4] <= n + 1
    BY <1>1, <1>11, <1>12, <1>13, <1>14
  <2> QED
    BY <1>3, <2>1, <2>2
<1>16. /\ FirstOf(Stops, buf, 1) = 2 /\ FirstOf(Stops, buf, 3) = La + 3
       /\ FirstOf(Stops, buf, La + 4) = La + Lb + 4 /\ FirstOf(Stops, buf, La + Lb + 5) = n + 1
  <2>1. La + 4 \in Nat /\ La + Lb + 5 \in Nat
    BY <1>1
  <2> QED
    BY <1>2, <1>7, <1>8, <1>9, <1>10, <2>1, FirstIs
<1> QED
  BY <1>11, <1>12, <1>13, <1>14, <1>15, <1>16 DEF FourPlaces, n, g, La, Lb, Lc

LEMMA FourColumns ==
  ASSUME NEW line, NEW x \in Times, NEW a, Word(a), NEW b, Word(b), NEW c, Word(c), Four(line, x, a, b, c),
         a # <<>>, NEW buf, HoldsAlone(buf, line), NEW cols
  PROVE  RowRead(ParsedBuffer(buf, 1), ParsedColumns(cols, buf, 1), x, a, b, c)
<1> DEFINE k == Begins(buf, 1)
           g == ParsedBuffer(buf, 1)
           h == ParsedColumns(cols, buf, 1)
<1>1. /\ Len(a) \in Nat /\ Len(b) \in Nat /\ Len(c) \in Nat /\ Len(line) = Len(a) + Len(b) + Len(c) + 4
      /\ a \in Text /\ b \in Text /\ c \in Text /\ line \in Text
  BY DEF Word, Text, Four
<1>2. /\ k[1] = 1 /\ k[2] = 3 /\ k[3] = Len(a) + 4 /\ k[4] = Len(a) + Len(b) + 5
      /\ FirstOf(Stops, buf, 1) = 2 /\ FirstOf(Stops, buf, 3) = Len(a) + 3
      /\ FirstOf(Stops, buf, Len(a) + 4) = Len(a) + Len(b) + 4
      /\ FirstOf(Stops, buf, Len(a) + Len(b) + 5) = Len(line) + 1
      /\ \A i \in 1 .. 4 : Has(line, i)
  <2>1. FourPlaces(Begins(buf, 1), buf, line, a, b, c)
    BY FourBegins
  <2>2. FourPlaces(k, buf, line, a, b, c)
    BY <2>1
  <2> HIDE DEF k
  <2> QED
    BY Zenon, <2>2 DEF FourPlaces
<1>3. IsBuffer(buf) /\ Holds(buf, 1, line) /\ buf[Len(line) + 1] = NUL
  BY DEF HoldsAlone
<1>4. /\ line[1] = x /\ (\A i \in 1 .. Len(a) : line[2 + i] = a[i])
      /\ (\A i \in 1 .. Len(b) : line[Len(a) + 3 + i] = b[i]) /\ line[Len(a) + Len(b) + 4] = TAB
      /\ \A i \in 1 .. Len(c) : line[Len(a) + Len(b) + 4 + i] = c[i]
  BY DEF Four
<1>5. 1 \in 1 .. ColumnCount /\ 2 \in 2 .. ColumnCount /\ 3 \in 2 .. ColumnCount /\ 4 \in 2 .. ColumnCount
      /\ 2 \in 1 .. ColumnCount /\ 3 \in 1 .. ColumnCount /\ 4 \in 1 .. ColumnCount
      /\ 1 \in 1 .. 4 /\ 2 \in 1 .. 4 /\ 3 \in 1 .. 4 /\ 4 \in 1 .. 4
  BY DEF ColumnCount
<1> HIDE DEF g, h, k
<1>6. ASSUME NEW i \in 1 .. ColumnCount, Has(line, i)
      PROVE  /\ Part(line, i) = SubSeq(line, k[i], FirstOf(Stops, buf, k[i]) - 1)
             /\ StringAt(g, k[i]) = Part(line, i) /\ k[i] \in Nat \ {0}
             /\ (Part(line, i) = <<>> <=> buf[k[i]] \in Stops)
  <2>1. PICK p, f : p = k[i] /\ f = FirstOf(Stops, buf, p)
    OBVIOUS
  <2>2. /\ p \in 1 .. 1 + Len(line) /\ f \in p .. 1 + Len(line)
        /\ Part(line, i) = SubSeq(line, p - 1 + 1, f - 1)
    BY <1>3, <1>6, <2>1, HeldPart DEF k
  <2>3. /\ p \in Nat \ {0} /\ StringAt(g, p) = Part(line, i)
        /\ (Part(line, i) = <<>> <=> buf[p] \in Stops)
    BY <1>3, <1>6, <2>1, PartAt DEF k, g
  <2>4. p - 1 + 1 = p
    BY <2>3
  <2> QED
    BY <2>1, <2>2, <2>3, <2>4
<1>7. Part(line, 1) = <<x>>
  <2>1. Part(line, 1) = SubSeq(line, 1, 1)
    <3>1. 2 - 1 = 1
      OBVIOUS
    <3>2. k[1] = 1 /\ FirstOf(Stops, buf, 1) = 2 /\ Has(line, 1)
      BY Zenon, <1>2, <1>5
    <3>3. Part(line, 1) = SubSeq(line, k[1], FirstOf(Stops, buf, k[1]) - 1)
      BY Zenon, <1>5, <1>6, <3>2
    <3> QED
      BY Zenon, <3>1, <3>2, <3>3
  <2>2. PICK q \in Text : q = <<x>> /\ Len(q) = 1 /\ q[1] = x
    <3>1. <<x>> \in Text /\ Len(<<x>>) = 1 /\ <<x>>[1] = x
      BY DEF Text, Field
    <3> QED
      BY <3>1
  <2>3. 0 \in Nat /\ 0 + Len(q) <= Len(line) /\ 0 + 1 = 1 /\ 0 + Len(q) = 1
    BY <1>1, <2>2
  <2>4. \A i \in 1 .. Len(q) : line[0 + i] = q[i]
    BY <1>4, <2>2
  <2>5. SubSeq(line, 0 + 1, 0 + Len(q)) = q
    BY <1>1, <2>3, <2>4, PieceIs
  <2> QED
    BY <2>1, <2>2, <2>3, <2>5
<1>8. Part(line, 2) = a
  <2>1. Part(line, 2) = SubSeq(line, 3, (Len(a) + 3) - 1)
    BY <1>2, <1>5, <1>6
  <2>2. (Len(a) + 3) - 1 = 2 + Len(a) /\ 2 + 1 = 3 /\ 2 + Len(a) <= Len(line)
    BY <1>1
  <2>3. SubSeq(line, 2 + 1, 2 + Len(a)) = a
    BY <1>1, <1>4, <2>2, PieceIs
  <2> QED
    BY <2>1, <2>2, <2>3
<1>9. Part(line, 3) = b
  <2>1. Part(line, 3) = SubSeq(line, Len(a) + 4, (Len(a) + Len(b) + 4) - 1)
    BY <1>2, <1>5, <1>6
  <2>2. PICK j \in Nat : j = Len(a) + 3
    BY <1>1
  <2>3. (Len(a) + Len(b) + 4) - 1 = j + Len(b) /\ j + 1 = Len(a) + 4 /\ j + Len(b) <= Len(line)
    BY <1>1, <2>2
  <2>4. \A i \in 1 .. Len(b) : line[j + i] = b[i]
    BY <1>4, <2>2
  <2>5. SubSeq(line, j + 1, j + Len(b)) = b
    BY <1>1, <2>3, <2>4, PieceIs
  <2> QED
    BY <2>1, <2>3, <2>5
<1>10. Part(line, 4) = c
  <2>1. Part(line, 4) = SubSeq(line, Len(a) + Len(b) + 5, (Len(line) + 1) - 1)
    BY <1>2, <1>5, <1>6
  <2>2. PICK j \in Nat : j = Len(a) + Len(b) + 4
    BY <1>1
  <2>3. (Len(line) + 1) - 1 = j + Len(c) /\ j + 1 = Len(a) + Len(b) + 5 /\ j + Len(c) <= Len(line)
    BY <1>1, <2>2
  <2>4. \A i \in 1 .. Len(c) : line[j + i] = c[i]
    BY <1>4, <2>2
  <2>5. SubSeq(line, j + 1, j + Len(c)) = c
    BY <1>1, <2>3, <2>4, PieceIs
  <2> QED
    BY <2>1, <2>3, <2>5
<1>11. h[1] = 1
  BY <1>5 DEF h, ParsedColumns
<1>12. \A i \in 2 .. ColumnCount : Has(line, i) => h[i] = IF buf[k[i]] \in {TAB, NL} THEN Null ELSE k[i]
  BY ColumnIs DEF h, k
<1>13. h[2] # Null /\ h[2] = k[2]
  <2>1. buf[k[2]] \notin Stops
    BY <1>2, <1>5, <1>6, <1>8
  <2> QED
    BY <1>2, <1>5, <1>6, <1>12, <2>1 DEF Stops, Null
<1>14. (h[3] = Null <=> b = <<>>) /\ (b # <<>> => h[3] = k[3])
  <2>1. CASE b = <<>>
    <3>1. Len(b) = 0
      BY <2>1
    <3>2. k[3] \in 1 .. Len(line) /\ k[3] = Len(a) + Len(b) + 4
      BY <1>1, <1>2, <3>1
    <3>3. buf[k[3]] = TAB
      <4>1. buf[1 + k[3] - 1] = line[k[3]]
        BY <1>3, <3>2 DEF Holds
      <4>2. 1 + k[3] - 1 = k[3]
        BY <3>2
      <4> QED
        BY <1>4, <3>2, <4>1, <4>2
    <3> QED
      BY <1>2, <1>5, <1>12, <2>1, <3>3
  <2>2. CASE b # <<>>
    <3>1. buf[k[3]] \notin Stops
      BY <1>2, <1>5, <1>6, <1>9, <2>2
    <3> QED
      BY <1>2, <1>5, <1>6, <1>12, <2>2, <3>1 DEF Stops, Null
  <2> QED
    BY <2>1, <2>2
<1>15. h[4] # Null /\ h[4] = k[4]
  <2>1. buf[k[4]] \notin {TAB, NL}
    <3>1. CASE c = <<>>
      <4>1. Len(c) = 0
        BY <3>1
      <4>2. k[4] = Len(line) + 1
        BY <1>1, <1>2, <4>1
      <4> QED
        BY <1>3, <4>2 DEF TAB, NL, NUL
    <3>2. CASE c # <<>>
      BY <1>2, <1>5, <1>6, <1>10, <3>2 DEF Stops
    <3> QED
      BY <3>1, <3>2
  <2> QED
    BY <1>2, <1>5, <1>6, <1>12, <2>1 DEF Null
<1> QED
  <2>1. \A i \in 1 .. 4 : StringAt(g, k[i]) = Part(line, i)
    <3>1. \A i \in 1 .. 4 : i \in 1 .. ColumnCount /\ Has(line, i)
      BY <1>2 DEF ColumnCount
    <3> QED
      BY Zenon, <1>6, <3>1
  <2>2. StringAt(g, h[1]) = <<x>>
    BY Zenon, <1>2, <1>5, <1>7, <1>11, <2>1
  <2>3. StringAt(g, k[2]) = a /\ StringAt(g, k[3]) = b /\ StringAt(g, k[4]) = c
    BY Zenon, <1>5, <1>8, <1>9, <1>10, <2>1
  <2> QED
    BY <1>13, <1>14, <1>15, <2>2, <2>3 DEF RowRead, g, h

LEMMA LineColumns ==
  ASSUME NEW line \in Lines, Complete(line), NEW buf, HoldsAlone(buf, line), NEW cols
  PROVE  LineRead(ParsedBuffer(buf, 1), ParsedColumns(cols, buf, 1), line)
<1> DEFINE k == Begins(buf, 1)
           g == ParsedBuffer(buf, 1)
           h == ParsedColumns(cols, buf, 1)
           n == Len(line)
<1>1. IsBuffer(buf) /\ Holds(buf, 1, line) /\ buf[n + 1] = NUL
  BY DEF HoldsAlone
<1>2. line \in Text /\ n \in Nat /\ Proper(line) /\ \A i \in 1 .. n : line[i] \in Field /\ line[i] # NL
  BY LineTyped
<1>3. \A c \in 1 .. ColumnCount : Has(line, c)
  BY <1>2, HasEach
<1>4. 1 \in 1 .. ColumnCount /\ 2 \in 2 .. ColumnCount /\ 4 \in 2 .. ColumnCount /\ 5 \in 2 .. ColumnCount
      /\ 2 \in 1 .. ColumnCount /\ 4 \in 1 .. ColumnCount /\ 5 \in 1 .. ColumnCount
  BY DEF ColumnCount
<1> HIDE DEF k, g, h, n
<1>5. ASSUME NEW c \in 1 .. ColumnCount
      PROVE  /\ k[c] \in Nat \ {0} /\ StringAt(g, k[c]) = Part(line, c)
             /\ (Part(line, c) = <<>> <=> buf[k[c]] \in Stops)
  BY <1>1, <1>3, PartAt DEF k, g
<1>6. \A c \in 2 .. ColumnCount : c \in 1 .. ColumnCount
  BY DEF ColumnCount
<1>7. \A c \in 2 .. ColumnCount : h[c] = IF buf[k[c]] \in {TAB, NL} THEN Null ELSE k[c]
  BY <1>3, <1>6, ColumnIs DEF h, k
<1>8. h[1] = 1 /\ k[1] = 1
  <2>1. h[1] = 1
    BY <1>4 DEF h, ParsedColumns
  <2>2. Walks(buf, 1, 1 + n, k)
    BY <1>1, HeldColumns DEF k, n
  <2> QED
    BY <2>1, <2>2 DEF Walks
<1>9. h[2] # Null /\ h[2] = k[2]
  <2>1. Part(line, 2) # <<>>
    BY <1>2, <1>3, <1>4 DEF Proper
  <2>2. buf[k[2]] \notin Stops
    BY <1>4, <1>5, <2>1
  <2> QED
    BY <1>4, <1>5, <1>7, <2>2 DEF Stops, Null
<1>10. (h[4] = Null <=> Part(line, 4) = <<>>) /\ (Part(line, 4) # <<>> => h[4] = k[4])
  <2>1. buf[k[4]] # NUL
    <3>1. Walks(buf, 1, 1 + n, k) /\ k[5] <= 1 + n
      BY <1>1, <1>3, <1>4, HeldColumns DEF k, n
    <3>2. IsNext(buf, 1 + n, k[4], k[5]) /\ k[4] \in 1 .. (1 + n) + 1
      BY <3>1 DEF Walks, ColumnCount
    <3>3. k[4] \in 1 .. n
      BY <1>2, <3>1, <3>2 DEF IsNext
    <3>4. buf[k[4]] = line[k[4]]
      <4>1. buf[1 + k[4] - 1] = line[k[4]] /\ 1 + k[4] - 1 = k[4]
        BY <1>1, <1>2, <3>3 DEF Holds, n
      <4> QED
        BY <4>1
    <3> QED
      BY <1>2, <3>3, <3>4, TsvAssumption
  <2>2. buf[k[4]] \in Stops <=> buf[k[4]] \in {TAB, NL}
    BY <2>1 DEF Stops
  <2> QED
    BY <1>4, <1>5, <1>7, <2>2 DEF Null
<1>11. h[5] # Null /\ h[5] = k[5]
  <2>1. buf[k[5]] \notin {TAB, NL}
    <3>1. \/ Part(line, 5) = <<>> /\ k[5] = 1 + n
          \/ Part(line, 5) # <<>> /\ buf[k[5]] \notin Stops
      BY <1>1, LastPart DEF k, n
    <3>2. CASE k[5] = 1 + n
      BY <1>1, <1>2, <3>2 DEF TAB, NL, NUL, n
    <3>3. CASE buf[k[5]] \notin Stops
      BY <3>3 DEF Stops
    <3> QED
      BY <3>1, <3>2, <3>3
  <2> QED
    BY <1>4, <1>5, <1>7, <2>1 DEF Null
<1> QED
  <2>1. StringAt(g, h[1]) = Part(line, 1) /\ StringAt(g, k[2]) = Part(line, 2)
        /\ StringAt(g, k[4]) = Part(line, 4) /\ StringAt(g, k[5]) = Part(line, 5)
    BY <1>4, <1>5, <1>8
  <2> QED
    BY <1>9, <1>10, <1>11, <2>1 DEF LineRead, g, h

-----------------------------------------------------------------------------
(* compare reads a line. *)

(* Behind a line stands its end, and what follows that is no blank. *)
Stands(r, line) ==
  /\ r \in Text /\ line \in Text /\ Len(line) <= Len(r)
  /\ \A i \in 1 .. Len(line) : r[i] = line[i] /\ line[i] # NL
  /\ Len(line) < Len(r) => r[Len(line) + 1] = NL
  /\ Len(line) + 1 < Len(r) => r[Len(line) + 2] \notin {TAB, NL}

LEMMA LineTaken ==
  ASSUME NEW r, NEW line, Stands(r, line)
  PROVE  /\ LineOf(r) = line
         /\ \E k \in 0 .. Len(r) : /\ k = IF Len(line) < Len(r) THEN Len(line) + 1 ELSE Len(line)
                                   /\ IsRest(r, k, BehindLine(r))
<1> DEFINE n == Len(line)
           l == LineOf(r)
           m == Len(l)
<1>1. /\ r \in Text /\ line \in Text /\ n \in Nat /\ Len(r) \in Nat /\ n <= Len(r)
      /\ (\A i \in 1 .. n : r[i] = line[i] /\ line[i] # NL)
      /\ (n < Len(r) => r[n + 1] = NL) /\ (n + 1 < Len(r) => r[n + 2] \notin {TAB, NL})
  BY DEF Stands, Text
<1>2. /\ l \in Text /\ m \in 0 .. Len(r) /\ (\A i \in 1 .. m : l[i] = r[i] /\ r[i] # NL)
      /\ (m < Len(r) => r[m + 1] = NL)
  BY <1>1, LineOfIs
<1>3. PICK k \in m .. Len(r) :
        /\ IsRest(r, k, BehindLine(r))
        /\ \A i \in m + 1 .. k : r[i] \in {TAB, NL}
        /\ k < Len(r) => k > m /\ r[k + 1] \notin {TAB, NL}
  BY <1>1, BehindIs
<1> HIDE DEF n, l, m
<1>4. m = n
  <2>1. ~ m < n
    <3> SUFFICES ASSUME m < n PROVE FALSE
      OBVIOUS
    <3>1. m + 1 \in 1 .. n /\ m < Len(r)
      BY <1>1, <1>2
    <3> QED
      BY <1>1, <1>2, <3>1
  <2>2. ~ n < m
    <3> SUFFICES ASSUME n < m PROVE FALSE
      OBVIOUS
    <3>1. n + 1 \in 1 .. m /\ n < Len(r)
      BY <1>1, <1>2
    <3> QED
      BY <1>1, <1>2, <3>1
  <2> QED
    BY <1>1, <1>2, <2>1, <2>2
<1>5. l = line
  <2>1. \A i \in 1 .. Len(l) : l[i] = line[i]
    BY <1>1, <1>2, <1>4 DEF m, n
  <2>2. Len(l) = Len(line) /\ l \in Seq(Field) /\ line \in Seq(Field)
    BY <1>1, <1>2, <1>4 DEF m, n, Text
  <2> QED
    BY <2>1, <2>2, SeqEqual
<1>6. k = IF n < Len(r) THEN n + 1 ELSE n
  <2>1. CASE ~ n < Len(r)
    BY <1>1, <1>3, <1>4, <2>1
  <2>2. CASE n < Len(r)
    <3>1. k # n
      BY <1>1, <1>3, <1>4, <2>2
    <3>2. ~ n + 2 <= k
      <4> SUFFICES ASSUME n + 2 <= k PROVE FALSE
        OBVIOUS
      <4>1. n + 2 \in m + 1 .. k /\ n + 1 < Len(r)
        BY <1>1, <1>3, <1>4
      <4> QED
        BY <1>1, <1>3, <4>1
    <3> QED
      BY <1>1, <1>3, <1>4, <2>2, <3>1, <3>2
  <2> QED
    BY <2>1, <2>2
<1>7. k \in 0 .. Len(r)
  BY <1>1, <1>2, <1>3
<1> QED
  BY <1>3, <1>5, <1>6, <1>7 DEF n, l

LEMMA NothingTaken ==
  ASSUME NEW t \in Text, NEW k, NEW r, IsRest(t, k, r), r = <<>>
  PROVE  IsRest(t, k, BehindLine(r))
<1>1. r \in Text /\ Len(r) = 0
  BY DEF IsRest
<1>2. PICK j \in Len(LineOf(r)) .. Len(r) : IsRest(r, j, BehindLine(r))
  BY <1>1, BehindIs
<1>3. Len(LineOf(r)) \in 0 .. Len(r)
  BY <1>1, LineOfIs
<1>4. j = 0 /\ k \in Nat /\ k + j = k
  BY <1>1, <1>2, <1>3 DEF IsRest
<1> QED
  BY <1>2, <1>4, RestOfRest

(* The buffer begins with this time. *)
Told(buf, x) == IsBuffer(buf) /\ Len(buf) >= 2 /\ x \in Times /\ buf[1] = x /\ buf[2] \in {TAB, NUL}

LEMMA ToldParsed ==
  ASSUME NEW buf, NEW x, Told(buf, x), NEW cols
  PROVE  /\ Told(ParsedBuffer(buf, 1), x) /\ ParsedBuffer(buf, 1)[2] = NUL /\ ParsedColumns(cols, buf, 1)[1] = 1
         /\ StringAt(ParsedBuffer(buf, 1), ParsedColumns(cols, buf, 1)[1]) = <<x>>
<1> DEFINE g == ParsedBuffer(buf, 1)
           e == LineEnd(buf, 1)
<1>1. IsBuffer(buf) /\ Len(buf) \in Nat /\ Len(buf) >= 2 /\ buf[1] = x /\ buf[2] \in {TAB, NUL} /\ 1 \in 1 .. Len(buf)
      /\ x \in Times
  BY DEF Told, IsBuffer
<1>2. x \notin Stops /\ x \in Field
  BY <1>1, TsvAssumption DEF Stops, Field
<1>3. IsFirst({NL, NUL}, buf, 1, e) /\ e \in 1 .. Len(buf)
  BY <1>1, LineEndIs
<1>4. /\ IsBuffer(g) /\ Len(g) = Len(buf)
      /\ \A i \in 1 .. Len(buf) : g[i] = IF i \in 1 .. e /\ buf[i] \in Stops THEN NUL ELSE buf[i]
  BY <1>1, ParsedBufferIs
<1> HIDE DEF g, e
<1>5. e >= 2
  <2>1. e # 1
    BY <1>1, <1>2, <1>3 DEF IsFirst, Stops
  <2> QED
    BY <1>3, <2>1
<1>6. g[1] = x /\ g[2] = NUL
  BY <1>1, <1>2, <1>4, <1>5 DEF Stops
<1>7. Told(g, x)
  BY <1>1, <1>4, <1>6 DEF Told
<1>8. ParsedColumns(cols, buf, 1)[1] = 1
  BY DEF ParsedColumns, ColumnCount
<1>9. FirstOf({NUL}, g, 1) = 2
  <2>1. g \in Seq(Tokens)
    BY <1>4 DEF IsBuffer
  <2>2. x # NUL
    BY <1>2 DEF Stops
  <2>3. IsFirst({NUL}, g, 1, 2)
    BY <1>1, <1>4, <1>6, <2>2 DEF IsFirst
  <2> QED
    BY <2>1, <2>3, FirstIs
<1>10. SubSeq(g, 1, 1) = <<x>>
  <2>1. PICK u : u = SubSeq(g, 1, 1)
    OBVIOUS
  <2>2. g[1] \in Tokens /\ <<x>> \in Seq(Tokens) /\ Len(<<x>>) = 1 /\ <<x>>[1] = x
    BY <1>2, <1>6 DEF Tokens
  <2>3. u \in Seq(Tokens) /\ Len(u) = 1 /\ u[1] = g[1]
    BY <2>1, <2>2, SubSeqProperties
  <2>4. \A i \in 1 .. Len(u) : u[i] = <<x>>[i]
    BY <1>6, <2>2, <2>3
  <2>5. PICK w \in Seq(Tokens) : w = <<x>>
    BY <2>2
  <2>6. u = w
    BY <2>2, <2>3, <2>4, <2>5, SeqEqual
  <2> QED
    BY <2>1, <2>5, <2>6
<1>11. StringAt(g, 1) = <<x>>
  BY <1>9, <1>10 DEF StringAt
<1> QED
  BY <1>6, <1>7, <1>8, <1>11 DEF g

(* A buffer that was parsed once is left as it is, and so are the columns. *)
LEMMA ParsedAgain ==
  ASSUME NEW buf, NEW x, Told(buf, x), buf[2] = NUL, NEW cols \in Columns, cols[1] = 1
  PROVE  ParsedBuffer(buf, 1) = buf /\ ParsedColumns(cols, buf, 1) = cols
<1>1. IsBuffer(buf) /\ buf \in Seq(Tokens) /\ Len(buf) \in Nat /\ Len(buf) >= 2 /\ buf[1] = x /\ 1 \in 1 .. Len(buf)
      /\ x \in Times
  BY DEF Told, IsBuffer
<1>2. x \notin Stops
  BY <1>1, TsvAssumption DEF Stops, Field
<1>3. LineEnd(buf, 1) = 2 /\ FirstOf(Stops, buf, 1) = 2
  <2>1. IsFirst({NL, NUL}, buf, 1, 2) /\ IsFirst(Stops, buf, 1, 2)
    BY <1>1, <1>2 DEF IsFirst, Stops
  <2> QED
    BY <1>1, <2>1, FirstIs DEF LineEnd
<1>4. ParsedBuffer(buf, 1) = buf
  <2>1. PICK g : g = ParsedBuffer(buf, 1)
    OBVIOUS
  <2>2. /\ g \in Seq(Tokens) /\ Len(g) = Len(buf)
        /\ \A i \in 1 .. Len(buf) : g[i] = IF i \in 1 .. 2 /\ buf[i] \in Stops THEN NUL ELSE buf[i]
    BY <1>1, <1>3, <2>1, ParsedBufferIs DEF IsBuffer
  <2>3. ASSUME NEW i \in 1 .. Len(buf) PROVE g[i] = buf[i]
    <3>1. CASE i = 1
      BY <1>1, <1>2, <2>2, <3>1
    <3>2. CASE i = 2
      BY <1>1, <2>2, <3>2
    <3>3. CASE i # 1 /\ i # 2
      <4>1. i \notin 1 .. 2
        BY <3>3
      <4> QED
        BY <2>2, <4>1
    <3> QED
      BY <3>1, <3>2, <3>3
  <2> QED
    BY <1>1, <2>1, <2>2, <2>3, SeqEqual
<1>5. \A c \in 2 .. ColumnCount : Begins(buf, 1)[c] = 3
  <2> DEFINE behind == [b \in 1 .. Len(buf) + 1 |-> IF b > 2 THEN b ELSE FirstOf(Stops, buf, b) + 1]
  <2>1. behind[1] = 3 /\ behind[3] = 3
    BY <1>1, <1>3
  <2>2. Begins(buf, 1) = <<1, behind[1], behind[behind[1]], behind[behind[behind[1]]],
                           behind[behind[behind[behind[1]]]]>>
    BY <1>3 DEF Begins
  <2> HIDE DEF behind
  <2>3. Begins(buf, 1) = <<1, 3, 3, 3, 3>>
    BY <2>1, <2>2
  <2> QED
    BY <2>3 DEF ColumnCount
<1>6. ParsedColumns(cols, buf, 1) = cols
  <2>1. \A c \in 1 .. ColumnCount : (IF c = 1 THEN 1 ELSE IF Begins(buf, 1)[c] <= 2 THEN Column(buf, Begins(buf, 1)[c])
                                     ELSE cols[c]) = cols[c]
    <3> TAKE c \in 1 .. ColumnCount
    <3>1. c = 1 \/ c \in 2 .. ColumnCount
      BY DEF ColumnCount
    <3>2. ~ 3 <= 2
      OBVIOUS
    <3> QED
      BY <1>5, <3>1, <3>2
  <2>2. cols = [c \in 1 .. ColumnCount |-> cols[c]]
    BY DEF Columns
  <2> QED
    BY <1>3, <2>1, <2>2 DEF ParsedColumns
<1> QED
  BY <1>4, <1>6

-----------------------------------------------------------------------------
(* What is printed of the rows. *)

LEMMA FilledHolds ==
  ASSUME NEW b, IsBuffer(b), NEW line \in Text, \A i \in 1 .. Len(line) : line[i] # NL
  PROVE  HoldsAlone(Filled(b, line), line)
<1> DEFINE g == Filled(b, line)
<1>1. /\ IsBuffer(g) /\ Len(g) > Len(line)
      /\ (\A i \in 1 .. Len(line) : g[i] = line[i]) /\ g[Len(line) + 1] = NUL
  BY FilledIs
<1> HIDE DEF g
<1>2. Len(line) \in Nat /\ Len(g) \in Nat /\ g \in Seq(Tokens) /\ 1 \in 1 .. Len(g)
  BY <1>1 DEF Text, IsBuffer
<1>3. 1 + Len(line) <= Len(g) /\ 1 + Len(line) = Len(line) + 1
  BY <1>1, <1>2
<1>4. \A i \in 1 .. Len(line) : 1 + i - 1 = i
  BY <1>2
<1>5. Holds(g, 1, line)
  BY <1>1, <1>2, <1>3, <1>4 DEF Holds
<1> QED
  BY <1>1, <1>5 DEF HoldsAlone, g

LEMMA PartWord ==
  ASSUME NEW line \in Lines, Complete(line), NEW c \in 1 .. ColumnCount
  PROVE  Word(Part(line, c))
<1> DEFINE buf == Filled(<<NUL>>, line)
<1>1. /\ line \in Text /\ Len(line) \in Nat /\ (\A i \in 1 .. Len(line) : line[i] \in Field /\ line[i] # NL)
      /\ \A k \in 1 .. ColumnCount : Has(line, k)
  BY LineTyped, HasEach
<1>2. IsBuffer(<<NUL>>)
  BY DEF IsBuffer, Tokens
<1>3. HoldsAlone(buf, line)
  BY <1>1, <1>2, FilledHolds
<1> HIDE DEF buf
<1>4. PICK b : b = Begins(buf, 1)[c]
  OBVIOUS
<1>5. PICK f : f = FirstOf(Stops, buf, b)
  OBVIOUS
<1>6. /\ b \in 1 .. 1 + Len(line) /\ f \in b .. 1 + Len(line) /\ IsFirst(Stops, buf, b, f)
      /\ Part(line, c) = SubSeq(line, b - 1 + 1, f - 1) /\ Part(line, c) \in String /\ Len(Part(line, c)) = f - b
  BY <1>1, <1>3, <1>4, <1>5, HeldPart DEF HoldsAlone
<1>7. b \in Nat \ {0} /\ f \in Nat /\ b - 1 + 1 = b /\ f - 1 <= Len(line)
  BY <1>1, <1>6
<1>8. \A i \in 1 .. Len(line) : buf[i] = line[i]
  <2>1. \A i \in 1 .. Len(line) : buf[1 + i - 1] = line[i] /\ 1 + i - 1 = i
    BY <1>1, <1>3 DEF HoldsAlone, Holds
  <2> QED
    BY <2>1
<1>9. ASSUME NEW k \in 1 .. Len(Part(line, c)) PROVE Part(line, c)[k] \notin Stops
  <2>1. k \in 1 .. f - b /\ k \in 1 .. (f - 1) - b + 1 /\ b + k - 1 \in b .. f - 1 /\ b + k - 1 \in 1 .. Len(line)
    BY <1>1, <1>6, <1>7
  <2>2. \A i \in b .. f - 1 : line[i] \in Field
    BY <1>1, <1>7
  <2>3. SubSeq(line, b, f - 1)[k] = line[b + k - 1]
    <3>1. b \in Int /\ f - 1 \in Int
      BY <1>7
    <3> QED
      BY <2>1, <2>2, <3>1, SubSeqProperties
  <2>4. buf[b + k - 1] \notin Stops
    BY <1>6, <2>1 DEF IsFirst
  <2> QED
    BY <1>6, <1>7, <1>8, <2>1, <2>3, <2>4
<1> QED
  BY <1>6, <1>9 DEF Word, String, Text

LEMMA FifthPart ==
  ASSUME NEW line \in Lines, Complete(line)
  PROVE  \/ Part(line, 5) = <<>>
         \/ Part(line, 5) # <<>> /\ Len(Part(line, 5)) = 1 /\ Part(line, 5)[1] \in ValueTexts
<1>1. line \in Text /\ \A i \in 1 .. Len(line) : line[i] # NL
  BY LineTyped
<1>2. IsBuffer(<<NUL>>)
  BY DEF IsBuffer, Tokens
<1>3. PICK buf : HoldsAlone(buf, line)
  BY <1>1, <1>2, FilledHolds
<1> QED
  BY <1>3, LastPart DEF HoldsAlone

(* Each line of the input is packed, and each row is one of them. *)
AllPacked ==
  /\ TextOfLines /\ AllComplete
  /\ packed \in Seq(Row) /\ Len(packed) \in Nat
  /\ \A i \in 1 .. Len(packed) : packed[i] \in Row /\ packed[i].time \in Ticks
  /\ \A i, j \in 1 .. Len(packed) : i < j => packed[i].from < packed[j].from /\ packed[i].time <= packed[j].time
  /\ \A s \in Starts : AsRow(s)
  /\ \A i \in 1 .. Len(packed) : packed[i].from \in Starts /\ packed[i] = RowFor(packed[i].from)
  /\ DictInv

(* What stands in a printed row: no ends of lines, delimiters or NULs. *)
RowHas(row, v) ==
  /\ Shown[row.time] \in Times
  /\ Word(row.name) /\ row.name # <<>> /\ Word(FirstUnit(row.name)) /\ Word(v.text)

LEMMA EachRowHas ==
  ASSUME AllPacked, NEW i \in 1 .. Len(packed)
  PROVE  RowHas(packed[i], told[i].value)
<1>1. TextOfLines /\ AllComplete /\ packed \in Seq(Row) /\ packed[i].time \in Ticks
      /\ \A k \in 1 .. Len(packed) : packed[k].from \in Starts /\ packed[k] = RowFor(packed[k].from)
  BY DEF AllPacked
<1>2. \A k \in 1 .. Len(packed) : LineAt(packed[k].from) \in Lines /\ Complete(LineAt(packed[k].from))
  BY <1>1 DEF TextOfLines, AllComplete
<1>3. \A k \in 1 .. Len(packed) : /\ packed[k].name = Part(LineAt(packed[k].from), 2)
                                  /\ packed[k].unit = Part(LineAt(packed[k].from), 4)
  <2> TAKE k \in 1 .. Len(packed)
  <2>1. PICK s : s = packed[k].from
    OBVIOUS
  <2>2. packed[k] = RowFor(s)
    BY <1>1, <2>1
  <2> QED
    BY <2>1, <2>2 DEF RowFor
<1>4. 2 \in 1 .. ColumnCount /\ 4 \in 1 .. ColumnCount
  BY DEF ColumnCount
<1>5. Word(packed[i].name) /\ packed[i].name # <<>>
  <2>1. PICK line : line = LineAt(packed[i].from)
    OBVIOUS
  <2>2. line \in Lines /\ Complete(line) /\ line \in Text /\ Proper(line) /\ Has(line, 2)
    <3>1. line \in Lines /\ Complete(line)
      BY <1>2, <2>1
    <3> QED
      BY <1>4, <3>1, LineTyped, HasEach
  <2> QED
    BY <1>3, <1>4, <2>1, <2>2, PartWord DEF Proper
<1>6. Word(FirstUnit(packed[i].name))
  <2>1. PICK k \in 1 .. i : FirstUnit(packed[i].name) = packed[k].unit
    BY <1>1, FirstUnitTyped
  <2>2. k \in 1 .. Len(packed)
    BY <1>1, <2>1
  <2> QED
    BY <1>2, <1>3, <1>4, <2>1, <2>2, PartWord
<1>7. ASSUME NEW k \in 1 .. Len(packed) PROVE Word(packed[k].value.text)
  <2>1. PICK s, line : s = packed[k].from /\ line = LineAt(s)
    OBVIOUS
  <2>2. line \in Lines /\ Complete(line)
    BY <1>2, <2>1
  <2>3. packed[k].value = ExpectedValue(s, line)
    <3>1. packed[k] = RowFor(s)
      BY <1>1, <2>1
    <3> QED
      BY <2>1, <3>1 DEF RowFor
  <2>4. /\ \A x \in ValueTexts : x \in Field /\ x \notin Stops
        /\ Zero \in Field /\ Zero \notin Stops
    BY TsvAssumption DEF Field, Stops, Zero, TAB, NL, NUL
  <2>5. \A x : x \in Field /\ x \notin Stops => Word(<<x>>)
    BY DEF Word, Text
  <2>6. Word(<<>>)
    BY DEF Word, Text
  <2>7. CASE Part(line, 5) = <<>>
    <3>1. packed[k].value.text = <<Zero>> \/ packed[k].value.text = <<>>
      BY <2>3, <2>7 DEF ExpectedValue
    <3> QED
      BY <2>4, <2>5, <2>6, <3>1
  <2>8. CASE Part(line, 5) # <<>> /\ Part(line, 5)[1] \in ValueTexts
    <3>1. PICK x \in ValueTexts : packed[k].value = Reading[x]
      BY <2>3, <2>8 DEF ExpectedValue
    <3>2. PICK y \in ValueTexts : Reading[x].text = <<y>>
      BY TsvAssumption
    <3> QED
      BY <2>4, <2>5, <3>1, <3>2
  <2> QED
    BY <2>2, <2>7, <2>8, FifthPart
<1>8. Word(told[i].value.text)
  <2>1. PICK k \in 1 .. i : told[i].value = packed[k].value
    BY DEF AllPacked, DictInv, Tells
  <2>2. k \in 1 .. Len(packed)
    BY <1>1, <2>1
  <2> QED
    BY <1>7, <2>1, <2>2
<1>9. Shown[packed[i].time] \in Times
  BY <1>1, TsvAssumption
<1> QED
  BY <1>5, <1>6, <1>8, <1>9 DEF RowHas

(* A printed line without its end, and the printed lines. *)
RowLine(row, v) ==
  <<Shown[row.time], TAB>> \o row.name \o <<TAB>> \o FirstUnit(row.name) \o <<TAB>> \o v.text

PrintedLines == [i \in DOMAIN packed |-> PrintedLine(packed[i], told[i].value)]

LEMMA FourNoEnd ==
  ASSUME NEW line, NEW x \in Times, NEW a, Word(a), NEW b, Word(b), NEW c, Word(c), Four(line, x, a, b, c)
  PROVE  \A i \in 1 .. Len(line) : line[i] # NL
<1> DEFINE La == Len(a)
           Lb == Len(b)
           Lc == Len(c)
<1>1. La \in Nat /\ Lb \in Nat /\ Lc \in Nat /\ Len(line) = La + Lb + Lc + 4
  BY DEF Word, Text, Four
<1>2. /\ line[1] = x /\ line[2] = TAB /\ (\A k \in 1 .. La : line[2 + k] = a[k]) /\ line[La + 3] = TAB
      /\ (\A k \in 1 .. Lb : line[La + 3 + k] = b[k]) /\ line[La + Lb + 4] = TAB
      /\ \A k \in 1 .. Lc : line[La + Lb + 4 + k] = c[k]
  BY DEF Four
<1>3. x # NL /\ TAB # NL
  BY TsvAssumption DEF TAB, NL
<1>4. /\ \A k \in 1 .. La : a[k] # NL
      /\ \A k \in 1 .. Lb : b[k] # NL
      /\ \A k \in 1 .. Lc : c[k] # NL
  BY DEF Word, Stops
<1> HIDE DEF La, Lb, Lc
<1> SUFFICES ASSUME NEW i \in 1 .. Len(line) PROVE line[i] # NL
  OBVIOUS
<1>5. CASE i = 1 \/ i = 2 \/ i = La + 3 \/ i = La + Lb + 4
  BY <1>2, <1>3, <1>5
<1>6. CASE i > 2 /\ i < La + 3
  <2>1. i - 2 \in 1 .. La /\ 2 + (i - 2) = i
    BY <1>1, <1>6
  <2> QED
    BY <1>2, <1>4, <2>1
<1>7. CASE i > La + 3 /\ i < La + Lb + 4
  <2>1. i - (La + 3) \in 1 .. Lb /\ La + 3 + (i - (La + 3)) = i
    BY <1>1, <1>7
  <2> QED
    BY Zenon, <1>2, <1>4, <2>1
<1>8. CASE i > La + Lb + 4
  <2>1. i - (La + Lb + 4) \in 1 .. Lc /\ La + Lb + 4 + (i - (La + Lb + 4)) = i
    BY <1>1, <1>8
  <2> QED
    BY <1>2, <1>4, <2>1
<1> QED
  BY <1>1, <1>5, <1>6, <1>7, <1>8

(* A printed line is the row's four columns and an end. *)
Printed(row, v, p) ==
  /\ Four(RowLine(row, v), Shown[row.time], row.name, FirstUnit(row.name), v.text)
  /\ RowLine(row, v) \in Text /\ Len(RowLine(row, v)) \in Nat /\ Len(RowLine(row, v)) >= 4
  /\ RowLine(row, v)[1] = Shown[row.time] /\ RowLine(row, v)[2] = TAB
  /\ \A k \in 1 .. Len(RowLine(row, v)) : RowLine(row, v)[k] # NL
  /\ p \in Text /\ Len(p) = Len(RowLine(row, v)) + 1 /\ p[Len(RowLine(row, v)) + 1] = NL
  /\ \A k \in 1 .. Len(RowLine(row, v)) : p[k] = RowLine(row, v)[k]

LEMMA RowPrinted ==
  ASSUME NEW row, NEW v, RowHas(row, v)
  PROVE  Printed(row, v, PrintedLine(row, v))
<1> DEFINE x == Shown[row.time]
           a == row.name
           b == FirstUnit(row.name)
           c == v.text
           l == RowLine(row, v)
           p == PrintedLine(row, v)
<1>1. x \in Times /\ x \in Field /\ Word(a) /\ Word(b) /\ Word(c)
  BY DEF RowHas, Field
<1> HIDE DEF x, a, b, c
<1>2. l = <<x, TAB>> \o a \o <<TAB>> \o b \o <<TAB>> \o c /\ p = l \o <<NL>>
  BY DEF l, p, x, a, b, c, RowLine, PrintedLine
<1> HIDE DEF l, p
<1>3. Four(l, x, a, b, c)
  BY <1>1, <1>2, FourIs
<1>4. \A k \in 1 .. Len(l) : l[k] # NL
  BY <1>1, <1>3, FourNoEnd
<1>5. Len(a) \in Nat /\ Len(b) \in Nat /\ Len(c) \in Nat
  BY <1>1 DEF Word, Text
<1>6. l \in Text /\ Len(l) \in Nat /\ Len(l) >= 4 /\ l[1] = x /\ l[2] = TAB
  BY <1>3, <1>5 DEF Four
<1>7. PICK q \in Seq(Field) : q = <<NL>> /\ Len(q) = 1 /\ q[1] = NL
  <2>1. <<NL>> \in Seq(Field) /\ Len(<<NL>>) = 1 /\ <<NL>>[1] = NL
    BY DEF Field
  <2> QED
    BY <2>1
<1>8. p \in Text /\ Len(p) = Len(l) + 1 /\ p[Len(l) + 1] = NL /\ \A k \in 1 .. Len(l) : p[k] = l[k]
  <2>1. p = l \o q /\ l \in Seq(Field)
    BY <1>2, <1>6, <1>7 DEF Text
  <2>2. /\ p \in Seq(Field) /\ Len(p) = Len(l) + Len(q)
        /\ (\A k \in 1 .. Len(l) : p[k] = l[k]) /\ \A k \in 1 .. Len(q) : p[Len(l) + k] = q[k]
    BY <2>1, ConcatIs
  <2>3. 1 \in 1 .. Len(q)
    BY <1>7
  <2> QED
    BY <1>7, <2>2, <2>3 DEF Text
<1> QED
  BY <1>3, <1>4, <1>6, <1>8 DEF Printed, l, p, x, a, b, c

(* A line of the input, with all its columns, begins with a time. *)
LEMMA LineBeginsWithTime ==
  ASSUME AllPacked, NEW s \in Starts
  PROVE  /\ LineAt(s) \in Lines /\ LineAt(s) \in Text /\ Len(LineAt(s)) \in Nat \ {0} /\ LineAt(s)[1] \in Times
         /\ IsLine(text, s, Len(LineAt(s))) /\ \A i \in 1 .. Len(LineAt(s)) : LineAt(s)[i] = text[s + i - 1]
         /\ \A i \in 1 .. Len(LineAt(s)) : LineAt(s)[i] # NL
<1>1. LineAt(s) \in Lines /\ Complete(LineAt(s)) /\ text \in Text /\ s \in 1 .. Len(text)
  BY DEF AllPacked, TextOfLines, AllComplete, Starts, Text
<1>2. PICK line : line = LineAt(s)
  OBVIOUS
<1>3. line \in Text /\ Len(line) \in Nat \ {0} /\ Proper(line) /\ \A i \in 1 .. Len(line) : line[i] # NL
  BY <1>1, <1>2, LineTyped, CompleteHasText
<1>4. line # <<>>
  BY <1>3
<1>5. line[1] \in Times
  BY <1>3, <1>4 DEF Proper
<1>6. IsLine(text, s, Len(LineAt(s))) /\ \A i \in 1 .. Len(LineAt(s)) : LineAt(s)[i] = text[s + i - 1]
  BY <1>1, LineAtIs
<1> QED
  BY <1>1, <1>2, <1>3, <1>5, <1>6

LEMMA LeftTaken ==
  ASSUME AllPacked, NEW a, NEW r, IsRest(text, a, r), NEW s \in Starts, s = a + 1
  PROVE  /\ LineOf(r) = LineAt(s) /\ r # <<>>
         /\ \E d \in 0 .. Len(text) :
              /\ IsRest(text, d, BehindLine(r)) /\ s <= d /\ (d = Len(text) \/ d + 1 \in Starts)
              /\ \A u \in Starts : u <= d => u <= s
<1> DEFINE line == LineAt(s)
           m == Len(line)
<1>1. /\ line \in Text /\ m \in Nat \ {0} /\ IsLine(text, s, m) /\ (\A i \in 1 .. m : line[i] = text[s + i - 1])
      /\ \A i \in 1 .. m : line[i] # NL
  BY LineBeginsWithTime
<1>2. /\ r \in Text /\ a \in Nat /\ Len(text) \in Nat /\ Len(r) \in Nat /\ Len(r) = Len(text) - a
      /\ (\A i \in 1 .. Len(text) - a : r[i] = text[a + i]) /\ text \in Text /\ DOMAIN text = 1 .. Len(text)
  BY DEF IsRest, Text, AllPacked, TextOfLines
<1>3. s + m <= Len(text) + 1 /\ (s + m <= Len(text) => text[s + m] = NL)
  BY <1>1 DEF IsLine
<1>4. s + m + 1 <= Len(text) => s + m + 1 \in Starts
  <2> SUFFICES ASSUME s + m + 1 <= Len(text) PROVE s + m + 1 \in Starts
    OBVIOUS
  <2> HIDE DEF m
  <2>1. s + m + 1 \in 1 .. Len(text) /\ (s + m + 1) - 1 = s + m /\ s + m <= Len(text)
    BY <1>1, <1>2
  <2> QED
    BY <1>2, <1>3, <2>1 DEF Starts
<1> HIDE DEF line, m
<1>5. m <= Len(r) /\ \A i \in 1 .. m : r[i] = line[i] /\ line[i] # NL
  <2>1. m <= Len(r)
    BY <1>1, <1>2, <1>3
  <2>2. \A i \in 1 .. m : i \in 1 .. Len(text) - a /\ s + i - 1 = a + i
    BY <1>1, <1>2, <2>1
  <2> QED
    BY <1>1, <1>2, <2>1, <2>2
<1>6. ASSUME m < Len(r) PROVE r[m + 1] = NL /\ s + m <= Len(text)
  <2>1. m + 1 \in 1 .. Len(text) - a /\ a + (m + 1) = s + m /\ s + m <= Len(text)
    BY <1>1, <1>2, <1>6
  <2> QED
    BY <1>2, <1>3, <2>1
<1>7. ASSUME m + 1 < Len(r) PROVE r[m + 2] \notin {TAB, NL}
  <2>1. m + 2 \in 1 .. Len(text) - a /\ a + (m + 2) = s + m + 1 /\ s + m + 1 <= Len(text)
    BY <1>1, <1>2, <1>7
  <2>2. PICK u \in Starts : u = s + m + 1
    BY <1>4, <2>1
  <2>3. LineAt(u)[1] \in Times /\ 1 \in 1 .. Len(LineAt(u)) /\ LineAt(u)[1] = text[u + 1 - 1]
    BY LineBeginsWithTime
  <2>4. u + 1 - 1 = s + m + 1
    BY <1>1, <1>2, <2>2
  <2>5. r[m + 2] \in Times
    BY <1>2, <2>1, <2>3, <2>4
  <2> QED
    BY <2>5, TsvAssumption
<1>8. Stands(r, line)
  BY <1>1, <1>2, <1>5, <1>6, <1>7 DEF Stands, m
<1>9. LineOf(r) = line
  BY <1>8, LineTaken
<1>10. PICK k \in 0 .. Len(r) : k = (IF m < Len(r) THEN m + 1 ELSE m) /\ IsRest(r, k, BehindLine(r))
  BY <1>8, LineTaken DEF m
<1>11. IsRest(text, a + k, BehindLine(r))
  BY <1>2, <1>10, RestOfRest
<1>12. a + k \in 0 .. Len(text) /\ s <= a + k
  BY <1>1, <1>2, <1>5, <1>10
<1>13. a + k = Len(text) \/ a + k + 1 \in Starts
  <2>1. CASE ~ m < Len(r)
    <3>1. k = m
      BY <1>10, <2>1
    <3>2. m = Len(r)
      <4>1. m \in Nat /\ Len(r) \in Nat /\ m <= Len(r)
        BY <1>1, <1>2, <1>5
      <4> QED
        BY <2>1, <4>1
    <3> QED
      BY <1>2, <3>1, <3>2
  <2>2. CASE m < Len(r)
    <3>1. a + k = s + m
      BY <1>1, <1>2, <1>10, <2>2
    <3>2. s + m <= Len(text) /\ s + m \in Nat
      BY <1>1, <1>2, <1>6, <2>2
    <3>3. s + m = Len(text) \/ s + m + 1 <= Len(text)
      BY <1>2, <3>2
    <3> QED
      BY <1>4, <3>1, <3>3
  <2> QED
    BY <2>1, <2>2
<1>14. \A u \in Starts : u <= a + k => u <= s
  <2> SUFFICES ASSUME NEW u \in Starts, u <= a + k PROVE u <= s
    OBVIOUS
  <2>1. u \in Nat
    BY <1>2 DEF Starts
  <2>2. u <= s + m
    BY <1>1, <1>2, <1>10, <2>1
  <2> QED
    BY <1>1, <1>2, <2>2, NextStart
<1>15. r # <<>>
  BY <1>1, <1>5
<1> QED
  BY <1>9, <1>11, <1>12, <1>13, <1>14, <1>15 DEF line

LEMMA RightTaken ==
  ASSUME AllPacked, NEW t \in Text, NEW off, OffsetsOf(PrintedLines, t, off), NEW j \in 1 .. Len(packed),
         NEW r, IsRest(t, off[j - 1], r)
  PROVE  /\ LineOf(r) = RowLine(packed[j], told[j].value) /\ r # <<>> /\ IsRest(t, off[j], BehindLine(r))
         /\ RowHas(packed[j], told[j].value) /\ Printed(packed[j], told[j].value, PrintedLine(packed[j], told[j].value))
<1> DEFINE n == Len(packed)
           line == RowLine(packed[j], told[j].value)
           m == Len(line)
<1>1. n \in Nat /\ Len(PrintedLines) = n /\ \A i \in 1 .. n : PrintedLines[i] = PrintedLine(packed[i], told[i].value)
  BY DEF AllPacked, PrintedLines
<1>2. \A i \in 1 .. n : RowHas(packed[i], told[i].value) /\ Printed(packed[i], told[i].value, PrintedLine(packed[i], told[i].value))
  BY EachRowHas, RowPrinted
<1>3. PICK p : p = PrintedLine(packed[j], told[j].value)
  OBVIOUS
<1>4. PICK b, e : b = off[j - 1] /\ e = off[j]
  OBVIOUS
<1>5. /\ line \in Text /\ m \in Nat /\ m >= 4 /\ (\A i \in 1 .. m : line[i] # NL)
      /\ Len(p) = m + 1 /\ p[m + 1] = NL /\ \A i \in 1 .. m : p[i] = line[i]
  BY <1>2, <1>3 DEF Printed
<1>6. /\ b \in Nat /\ e \in Nat /\ e <= Len(t) /\ Len(t) \in Nat /\ e = b + m + 1
      /\ \A k \in 1 .. m + 1 : t[b + k] = p[k]
  <2>1. j - 1 \in 0 .. Len(PrintedLines) /\ j \in 0 .. Len(PrintedLines) /\ j \in 1 .. Len(PrintedLines)
    BY <1>1
  <2>2. PrintedLines[j] = p
    BY <1>1, <1>3
  <2>3. Len(t) \in Nat
    BY DEF Text
  <2>4. b \in 0 .. Len(t) /\ e \in 0 .. Len(t)
    BY <1>4, <2>1 DEF OffsetsOf
  <2>5. e = b + Len(p) /\ \A k \in 1 .. Len(p) : t[b + k] = p[k]
    BY <1>4, <2>1, <2>2 DEF OffsetsOf
  <2>6. m \in Nat /\ Len(p) = m + 1
    BY <1>5
  <2>7. b \in Nat /\ e \in Nat /\ e <= Len(t)
    BY <2>3, <2>4
  <2>8. \A k \in 1 .. m + 1 : t[b + k] = p[k]
    BY <2>5, <2>6
  <2>9. e = b + m + 1
    <3>1. e = b + (m + 1)
      BY <2>5, <2>6
    <3> QED
      BY <2>6, <2>7, <3>1
  <2> QED
    BY <2>3, <2>7, <2>8, <2>9
<1>7. /\ r \in Text /\ Len(r) \in Nat /\ Len(r) = Len(t) - b /\ \A i \in 1 .. Len(t) - b : r[i] = t[b + i]
  BY <1>4 DEF IsRest, Text
<1> HIDE DEF line, m
<1>8. m + 1 <= Len(r)
  BY <1>5, <1>6, <1>7
<1>9. \A i \in 1 .. m : r[i] = line[i] /\ line[i] # NL
  <2>1. \A i \in 1 .. m : i \in 1 .. Len(t) - b /\ i \in 1 .. m + 1
    BY <1>5, <1>6, <1>7, <1>8
  <2> QED
    BY <1>5, <1>6, <1>7, <2>1
<1>10. r[m + 1] = NL
  <2>1. m + 1 \in 1 .. Len(t) - b /\ m + 1 \in 1 .. m + 1
    BY <1>5, <1>6, <1>7, <1>8
  <2> QED
    BY <1>5, <1>6, <1>7, <2>1
<1>11. ASSUME m + 1 < Len(r) PROVE r[m + 2] \notin {TAB, NL}
  <2>1. m + 2 \in 1 .. Len(t) - b /\ b + (m + 2) = e + 1 /\ e < Len(t)
    <3>1. m \in Nat /\ b \in Nat /\ Len(t) \in Nat /\ e = b + m + 1 /\ Len(r) = Len(t) - b
      BY <1>5, <1>6, <1>7
    <3> QED
      BY <1>11, <3>1
  <2>2. j # n
    BY <1>1, <1>4, <2>1 DEF OffsetsOf
  <2>3. j + 1 \in 1 .. n /\ (j + 1) - 1 = j /\ j + 1 \in 1 .. Len(PrintedLines)
    BY <1>1, <2>2
  <2>4. PICK i \in 1 .. n, q \in {PrintedLine(packed[j + 1], told[j + 1].value)} : i = j + 1 /\ q = PrintedLine(packed[i], told[i].value)
    BY <2>3
  <2>5. RowHas(packed[i], told[i].value) /\ Printed(packed[i], told[i].value, q)
    BY <1>2, <2>4
  <2>6. Len(q) \in Nat /\ 1 \in 1 .. Len(q) /\ q[1] \in Times
    <3>1. /\ Len(RowLine(packed[i], told[i].value)) \in Nat /\ Len(RowLine(packed[i], told[i].value)) >= 4
          /\ RowLine(packed[i], told[i].value)[1] = Shown[packed[i].time] /\ Shown[packed[i].time] \in Times
          /\ Len(q) = Len(RowLine(packed[i], told[i].value)) + 1
          /\ \A k \in 1 .. Len(RowLine(packed[i], told[i].value)) : q[k] = RowLine(packed[i], told[i].value)[k]
      BY <2>5 DEF Printed, RowHas
    <3>2. 1 \in 1 .. Len(RowLine(packed[i], told[i].value))
      BY <3>1
    <3>3. Len(q) \in Nat /\ 1 \in 1 .. Len(q)
      BY <3>1
    <3>4. q[1] = RowLine(packed[i], told[i].value)[1]
      BY Zenon, <3>1, <3>2
    <3> QED
      BY Zenon, <3>1, <3>3, <3>4
  <2>7. t[e + 1] = q[1]
    <3>1. PrintedLines[i] = q /\ i \in 1 .. Len(PrintedLines) /\ off[i - 1] = e
      BY <1>1, <1>4, <2>3, <2>4
    <3>2. \A k \in 1 .. Len(PrintedLines[i]) : t[off[i - 1] + k] = PrintedLines[i][k]
      BY <3>1 DEF OffsetsOf
    <3> QED
      BY <2>6, <3>1, <3>2
  <2>8. r[m + 2] \in Times
    BY <1>7, <2>1, <2>6, <2>7
  <2> QED
    BY <2>8, TsvAssumption
<1>12. Stands(r, line)
  BY <1>5, <1>7, <1>8, <1>9, <1>10, <1>11 DEF Stands, m
<1>13. LineOf(r) = line
  BY <1>12, LineTaken
<1>14. IsRest(r, m + 1, BehindLine(r))
  <2>1. m < Len(r)
    BY <1>5, <1>7, <1>8
  <2> QED
    BY <1>12, <2>1, LineTaken DEF m
<1>15. IsRest(t, b + (m + 1), BehindLine(r))
  <2>1. PICK k : k = m + 1
    OBVIOUS
  <2> QED
    BY <1>4, <1>14, <2>1, RestOfRest
<1>16. b + (m + 1) = e /\ r # <<>>
  BY <1>5, <1>6, <1>7, <1>8
<1> QED
  BY <1>2, <1>4, <1>13, <1>15, <1>16 DEF line

-----------------------------------------------------------------------------
(* compare's two texts, read line by line. *)

(* How much of the input compare has read. *)
Ahead(l) == Len(text) - Len(l.rest)

HasRow(s) == \E i \in 1 .. Len(packed) : packed[i].from = s

(* The lines that begin among the first a tokens of the input are packed. *)
AllTaken(a) == \A u \in Starts : u <= a => HasRow(u)

(* The first j rows are those of the first a tokens of the input. *)
Lockstep(a, j) == \A i \in 1 .. Len(packed) : packed[i].from <= a <=> i <= j

(* Row j is the first one that is not of a line before s, or the last one, if all are. *)
NextTo(s, j) ==
  \/ \A i \in 1 .. Len(packed) : packed[i].from < s <=> i < j
  \/ j = Len(packed) /\ \A i \in 1 .. Len(packed) : packed[i].from < s

(* Either way a line that is lost shows: this is what the two theorems suppose of the text. *)
Telling == TimesTold \/ Orderly

(* The buffer holds row j, parsed; to parse it again changes nothing. *)
ReadRow(r, j) ==
  /\ Told(r.buf, Shown[packed[j].time]) /\ r.buf[2] = NUL /\ r.cols[1] = 1
  /\ RowRead(r.buf, r.cols, Shown[packed[j].time], packed[j].name, FirstUnit(packed[j].name), told[j].value.text)

(* compare has read j printed lines. *)
At(l, r, t, j) ==
  /\ IsRest(text, Ahead(l), l.rest) /\ (Ahead(l) = Len(text) \/ Ahead(l) + 1 \in Starts)
  /\ \E off : OffsetsOf(PrintedLines, t, off) /\ IsRest(t, off[j], r.rest)

(* Between two lines: what was compared are the lines and their rows. *)
Between(l, r, v, j) ==
  /\ j > 0 => ReadRow(r, j)
  /\ Telling => Lockstep(Ahead(l), j) /\ AllTaken(Ahead(l))
  /\ Orderly => Ahead(l) = 0 \/ v = "equal"

(* The line at s is read and not yet compared. *)
Within(l, j, s) ==
  /\ j > 0 /\ s <= Ahead(l) /\ \A u \in Starts : u <= Ahead(l) => u <= s
  /\ Telling => NextTo(s, j) /\ AllTaken(s - 1)

(* At the end of the printed text the last row stays in the buffer. *)
Parsing(l, r, j, s) ==
  HoldsAlone(l.buf, LineAt(s)) /\ (HoldsAlone(r.buf, RowLine(packed[j], told[j].value)) \/ ReadRow(r, j))

Judging(l, r, j, s) == LineRead(l.buf, l.cols, LineAt(s)) /\ ReadRow(r, j)

Comparing(ph, l, r, v, t) ==
  /\ Len(packed) > 0
  /\ \E j \in 0 .. Len(packed) :
       /\ At(l, r, t, j)
       /\ \/ ph = "compare" /\ Between(l, r, v, j)
          \/ ph = "parse" /\ \E s \in Starts : Within(l, j, s) /\ Parsing(l, r, j, s)
          \/ ph = "judge" /\ \E s \in Starts : Within(l, j, s) /\ Judging(l, r, j, s)

LEMMA LineOrRow ==
  ASSUME AllPacked, NEW s \in Starts, ~ HasRow(s)
  PROVE  LateAt(s) \/ LongAt(s)
<1>1. AsRow(s) /\ DOMAIN packed = 1 .. Len(packed)
  BY DEF AllPacked
<1>2. RowsAt(s) = {}
  BY <1>1 DEF RowsAt, HasRow
<1>3. Cardinality(RowsAt(s)) = 0
  BY <1>2, FS_EmptySet
<1> QED
  BY <1>1, <1>3 DEF AsRow

LEMMA OrderlyRows ==
  ASSUME AllPacked, Orderly, NEW s \in Starts
  PROVE  HasRow(s)
<1>1. \A u \in Starts : u \in Nat /\ TimeAt(u) \in Nat
  BY TimeTyped DEF TimeAt, Starts, AllPacked, TextOfLines, Text
<1>2. ~ LateAt(s)
  <2> SUFFICES ASSUME NEW u \in Starts, u < s, TimeAt(u) > TimeAt(s) PROVE FALSE
    BY DEF LateAt
  <2>1. TimeAt(u) <= TimeAt(s)
    BY DEF Orderly
  <2> QED
    BY <1>1, <2>1
<1>3. ~ LongAt(s)
  BY DEF LongAt, Orderly
<1> QED
  BY <1>2, <1>3, LineOrRow

LEMMA FirstStart ==
  ASSUME TextOfLines
  PROVE  1 \in Starts /\ text \in Text /\ Len(text) \in Nat \ {0} /\ Starts \subseteq Nat \ {0}
BY DEF TextOfLines, Starts, Text

(* The row of the line at s is the one that was read. *)
LEMMA RowInStep ==
  ASSUME AllPacked, NEW s \in Starts, HasRow(s), NEW k \in 1 .. Len(packed), NextTo(s, k),
         NEW d \in Nat, s <= d, \A u \in Starts : u <= d => u <= s
  PROVE  packed[k].from = s /\ Lockstep(d, k)
<1>1. PICK n \in Nat : n = Len(packed)
  BY DEF AllPacked
<1>2. s \in Nat /\ \A i \in 1 .. n : packed[i].from \in Starts /\ packed[i].from \in Nat
  BY <1>1, FirstStart DEF AllPacked
<1>3. \A i, m \in 1 .. n : i < m => packed[i].from < packed[m].from
  BY <1>1 DEF AllPacked
<1>4. PICK i \in 1 .. n : packed[i].from = s
  BY <1>1 DEF HasRow
<1>5. \A m \in 1 .. n : packed[m].from < s <=> m < k
  <2>1. ~ packed[i].from < s
    BY <1>2, <1>4
  <2> QED
    BY <1>1, <1>4, <2>1 DEF NextTo
<1>6. k \in 1 .. n
  BY <1>1
<1>7. packed[k].from = s
  <2>1. ~ packed[k].from < s /\ ~ i < k
    BY <1>2, <1>4, <1>5, <1>6
  <2>2. CASE i = k
    BY <1>4, <2>2
  <2>3. CASE i # k
    <3>1. k < i
      BY <1>6, <2>1, <2>3
    <3>2. packed[k].from < packed[i].from
      BY <1>3, <1>6, <3>1
    <3> QED
      BY <1>4, <2>1, <3>2
  <2> QED
    BY <2>2, <2>3
<1>8. ASSUME NEW m \in 1 .. n PROVE packed[m].from <= d <=> m <= k
  <2>1. packed[m].from \in Starts /\ packed[m].from \in Nat
    BY <1>2
  <2>2. packed[m].from <= d <=> packed[m].from < s \/ packed[m].from = s
    BY <1>2, <2>1
  <2>3. packed[m].from = s <=> m = k
    <3>1. ASSUME m # k PROVE packed[m].from # s
      <4>1. m < k \/ k < m
        BY <1>6, <3>1
      <4>2. packed[m].from < packed[k].from \/ packed[k].from < packed[m].from
        BY <1>3, <1>6, <4>1
      <4> QED
        BY <1>2, <1>7, <2>1, <4>2
    <3> QED
      BY <1>7, <3>1
  <2>4. packed[m].from < s <=> m < k
    BY <1>5
  <2> QED
    BY <1>6, <2>2, <2>3, <2>4
<1> QED
  BY <1>1, <1>7, <1>8 DEF Lockstep

-----------------------------------------------------------------------------
(* compare reads and parses. *)

(* A buffer a row's line was read to begins with the row's time. *)
LEMMA HeldTold ==
  ASSUME NEW row, NEW v, RowHas(row, v), NEW buf, HoldsAlone(buf, RowLine(row, v))
  PROVE  Told(buf, Shown[row.time])
<1>1. PICK line, x : line = RowLine(row, v) /\ x = Shown[row.time]
  OBVIOUS
<1>2. Len(line) \in Nat /\ Len(line) >= 4 /\ line[1] = x /\ line[2] = TAB /\ x \in Times
  BY <1>1, RowPrinted DEF Printed, RowHas
<1>3. /\ IsBuffer(buf) /\ Len(buf) \in Nat /\ 1 + Len(line) <= Len(buf)
      /\ \A i \in 1 .. Len(line) : buf[1 + i - 1] = line[i]
  BY <1>1 DEF HoldsAlone, Holds, IsBuffer
<1>4. 1 \in 1 .. Len(line) /\ 2 \in 1 .. Len(line) /\ Len(buf) >= 2
  BY <1>2, <1>3
<1>5. ASSUME NEW i \in 1 .. Len(line) PROVE buf[i] = line[i]
  <2>1. buf[1 + i - 1] = line[i]
    BY <1>3
  <2>2. 1 + i - 1 = i
    OBVIOUS
  <2> QED
    BY <2>1, <2>2
<1>6. buf[1] = line[1] /\ buf[2] = line[2]
  BY <1>4, <1>5
<1> QED
  BY <1>1, <1>2, <1>3, <1>4, <1>6 DEF Told

LEMMA RightReads ==
  ASSUME AllPacked, NEW r \in Side, IsBuffer(r.buf), NEW t \in Text, NEW off, OffsetsOf(PrintedLines, t, off),
         Len(packed) > 0, NEW j \in 0 .. Len(packed), IsRest(t, off[j], r.rest), j > 0 => ReadRow(r, j),
         NEW k, k = IF j < Len(packed) THEN j + 1 ELSE j
  PROVE  /\ k \in 1 .. Len(packed) /\ IsRest(t, off[k], WithLine(r).rest)
         /\ HoldsAlone(WithLine(r).buf, RowLine(packed[k], told[k].value)) \/ ReadRow(WithLine(r), k)
<1>1. Len(packed) \in Nat \ {0}
  BY DEF AllPacked
<1>2. k \in 1 .. Len(packed)
  BY <1>1
<1>3. /\ WithLine(r).rest = BehindLine(r.rest)
      /\ WithLine(r).buf = IF r.rest = <<>> THEN r.buf ELSE Filled(r.buf, LineOf(r.rest))
      /\ WithLine(r).cols = r.cols
  BY WithLineIs
<1>4. CASE j < Len(packed)
  <2>1. k - 1 = j
    BY <1>1, <1>4
  <2>2. PICK line, q : line = RowLine(packed[k], told[k].value) /\ q = r.rest
    OBVIOUS
  <2>3. LineOf(q) = line /\ q # <<>> /\ IsRest(t, off[k], BehindLine(q))
    <3>1. IsRest(t, off[k - 1], q)
      BY <2>1, <2>2
    <3> QED
      BY <1>2, <2>2, <3>1, RightTaken
  <2>4. line \in Text /\ \A i \in 1 .. Len(line) : line[i] # NL
    <3>1. RowHas(packed[k], told[k].value)
      BY <1>2, EachRowHas
    <3> QED
      BY <2>2, <3>1, RowPrinted DEF Printed
  <2>5. PICK buf : buf = Filled(r.buf, line)
    OBVIOUS
  <2>6. HoldsAlone(buf, line)
    BY <2>4, <2>5, FilledHolds
  <2> QED
    BY <1>2, <1>3, <2>2, <2>3, <2>5, <2>6
<1>5. CASE ~ j < Len(packed)
  <2>1. j = Len(packed) /\ k = j /\ j > 0
    BY <1>1, <1>5
  <2>2. Len(PrintedLines) = Len(packed)
    BY DEF AllPacked, PrintedLines
  <2>3. off[j] = Len(t) /\ Len(t) \in Nat
    BY <2>1, <2>2 DEF OffsetsOf, Text
  <2>4. r.rest = <<>>
    <3>1. PICK q, e : q = r.rest /\ e = off[j]
      OBVIOUS
    <3>2. q \in Text /\ Len(q) = 0
      BY <2>3, <3>1 DEF IsRest
    <3> QED
      BY <3>1, <3>2, EmptySeq DEF Text
  <2>5. IsRest(t, off[k], BehindLine(r.rest))
    BY <2>1, <2>4, NothingTaken
  <2>6. ReadRow(WithLine(r), k)
    BY <1>3, <2>1, <2>4 DEF ReadRow
  <2> QED
    BY <1>2, <1>3, <2>5, <2>6
<1> QED
  BY <1>4, <1>5

(* The next line has the next row, if it has one. *)
LEMMA RowsAhead ==
  ASSUME AllPacked, NEW a \in Nat, NEW j \in 0 .. Len(packed), Lockstep(a, j), NEW s, s = a + 1,
         Len(packed) > 0, NEW k, k = IF j < Len(packed) THEN j + 1 ELSE j
  PROVE  NextTo(s, k)
<1>1. PICK n \in Nat \ {0} : n = Len(packed)
  BY DEF AllPacked
<1>2. \A i \in 1 .. n : packed[i].from \in Nat
  BY <1>1, FirstStart DEF AllPacked
<1>3. \A i \in 1 .. n : packed[i].from < s <=> i <= j
  BY <1>1, <1>2 DEF Lockstep
<1>4. CASE j < n
  BY <1>1, <1>3, <1>4 DEF NextTo
<1>5. CASE ~ j < n
  BY <1>1, <1>3, <1>5 DEF NextTo
<1> QED
  BY <1>4, <1>5

LEMMA ReadGoes ==
  ASSUME AllPacked, NEW l \in Side, NEW r \in Side, IsBuffer(l.buf), IsBuffer(r.buf), NEW v, NEW t \in Text,
         l.rest # <<>>, Comparing("compare", l, r, v, t)
  PROVE  Comparing("parse", WithLine(l), WithLine(r), v, t)
<1>1. PICK n, a, L, R : n = Len(packed) /\ a = Ahead(l) /\ L = WithLine(l) /\ R = WithLine(r)
  OBVIOUS
<1>2. PICK j \in 0 .. n : At(l, r, t, j) /\ Between(l, r, v, j)
  BY <1>1 DEF Comparing
<1>3. n \in Nat \ {0} /\ text \in Text /\ Len(text) \in Nat /\ Len(packed) > 0
  BY <1>1 DEF AllPacked, TextOfLines, Text, Comparing
<1>4. PICK off : OffsetsOf(PrintedLines, t, off) /\ IsRest(t, off[j], r.rest)
  BY <1>2 DEF At
<1>5. IsRest(text, a, l.rest) /\ (a = Len(text) \/ a + 1 \in Starts)
  BY <1>1, <1>2 DEF At
<1>6. (j > 0 => ReadRow(r, j)) /\ (Telling => Lockstep(a, j) /\ AllTaken(a))
  BY <1>1, <1>2 DEF Between
<1>7. a \in Nat /\ a # Len(text)
  <2>1. a \in Nat /\ l.rest \in Text /\ Len(l.rest) = Len(text) - a
    BY <1>3, <1>5 DEF IsRest
  <2>2. Len(l.rest) # 0
    BY <2>1, EmptySeq DEF Text
  <2> QED
    BY <1>3, <2>1, <2>2
<1>8. PICK s \in Starts : s = a + 1
  BY <1>5, <1>7
<1>9. LineOf(l.rest) = LineAt(s) /\ l.rest # <<>>
  BY <1>5, <1>8, LeftTaken
<1>10. PICK d \in 0 .. Len(text) :
         /\ IsRest(text, d, BehindLine(l.rest)) /\ s <= d /\ (d = Len(text) \/ d + 1 \in Starts)
         /\ \A u \in Starts : u <= d => u <= s
  BY <1>5, <1>8, LeftTaken
<1>11. L.rest = BehindLine(l.rest) /\ L.buf = Filled(l.buf, LineAt(s))
  BY <1>1, <1>9, WithLineIs
<1>12. HoldsAlone(L.buf, LineAt(s))
  BY <1>11, LineBeginsWithTime, FilledHolds
<1>13. Ahead(L) = d
  <2>1. Len(L.rest) = Len(text) - d
    BY <1>10, <1>11 DEF IsRest
  <2> QED
    BY <1>3, <2>1 DEF Ahead
<1>14. PICK k : k = IF j < n THEN j + 1 ELSE j
  OBVIOUS
<1>15. /\ k \in 1 .. n /\ IsRest(t, off[k], R.rest)
       /\ HoldsAlone(R.buf, RowLine(packed[k], told[k].value)) \/ ReadRow(R, k)
  BY <1>1, <1>3, <1>4, <1>6, <1>14, RightReads
<1>16. At(L, R, t, k)
  <2>1. IsRest(text, Ahead(L), L.rest) /\ (Ahead(L) = Len(text) \/ Ahead(L) + 1 \in Starts)
    BY <1>10, <1>11, <1>13
  <2> QED
    BY <1>4, <1>15, <2>1 DEF At
<1>17. ASSUME Telling PROVE NextTo(s, k) /\ AllTaken(s - 1)
  <2>1. NextTo(s, k)
    BY <1>1, <1>3, <1>6, <1>7, <1>8, <1>14, <1>17, RowsAhead
  <2>2. s - 1 = a
    BY <1>7, <1>8
  <2> QED
    BY <1>6, <1>17, <2>1, <2>2
<1>18. Within(L, k, s)
  <2>1. k > 0
    BY <1>15
  <2> QED
    BY <1>10, <1>13, <1>17, <2>1 DEF Within
<1>19. Parsing(L, R, k, s)
  BY <1>12, <1>15 DEF Parsing
<1>20. k \in 0 .. n
  BY <1>3, <1>15
<1> QED
  BY <1>1, <1>3, <1>16, <1>18, <1>19, <1>20 DEF Comparing

LEMMA RowParsed ==
  ASSUME AllPacked, NEW r \in Side, NEW j \in 1 .. Len(packed), NEW R, R = WithColumns(r),
         HoldsAlone(r.buf, RowLine(packed[j], told[j].value)) \/ ReadRow(r, j)
  PROVE  ReadRow(R, j)
<1>1. R.buf = ParsedBuffer(r.buf, 1) /\ R.cols = ParsedColumns(r.cols, r.buf, 1)
  BY WithColumnsIs
<1>2. CASE HoldsAlone(r.buf, RowLine(packed[j], told[j].value))
  <2>1. RowHas(packed[j], told[j].value)
    BY EachRowHas
  <2>2. Printed(packed[j], told[j].value, PrintedLine(packed[j], told[j].value))
    BY <2>1, RowPrinted
  <2>3. PICK x, a, b, c, line : /\ x = Shown[packed[j].time] /\ a = packed[j].name
                                /\ b = FirstUnit(packed[j].name) /\ c = told[j].value.text
                                /\ line = RowLine(packed[j], told[j].value)
    OBVIOUS
  <2>4. x \in Times /\ Word(a) /\ Word(b) /\ Word(c) /\ a # <<>> /\ Four(line, x, a, b, c) /\ HoldsAlone(r.buf, line)
    BY <1>2, <2>1, <2>2, <2>3 DEF RowHas, Printed
  <2>5. RowRead(R.buf, R.cols, x, a, b, c)
    BY <1>1, <2>4, FourColumns
  <2>6. Told(r.buf, x)
    BY <1>2, <2>1, <2>3, HeldTold
  <2>7. Told(R.buf, x) /\ R.buf[2] = NUL /\ R.cols[1] = 1
    BY <1>1, <2>6, ToldParsed
  <2> QED
    BY <2>3, <2>5, <2>7 DEF ReadRow
<1>3. CASE ReadRow(r, j)
  <2>1. R.buf = r.buf /\ R.cols = r.cols
    <3>1. r.cols \in Columns
      BY DEF Side
    <3> QED
      BY <1>1, <1>3, <3>1, ParsedAgain DEF ReadRow
  <2> QED
    BY <1>3, <2>1 DEF ReadRow
<1> QED
  BY <1>2, <1>3

LEMMA ParseGoes ==
  ASSUME AllPacked, NEW l \in Side, NEW r \in Side, NEW v, NEW t \in Text,
         Comparing("parse", l, r, v, t)
  PROVE  Comparing("judge", WithColumns(l), WithColumns(r), v, t)
<1>1. PICK n, L, R : n = Len(packed) /\ L = WithColumns(l) /\ R = WithColumns(r)
  OBVIOUS
<1>2. PICK j \in 0 .. n, s \in Starts : At(l, r, t, j) /\ Within(l, j, s) /\ Parsing(l, r, j, s)
  BY <1>1 DEF Comparing
<1>3. /\ L.rest = l.rest /\ L.buf = ParsedBuffer(l.buf, 1) /\ L.cols = ParsedColumns(l.cols, l.buf, 1)
      /\ R.rest = r.rest
  BY <1>1, WithColumnsIs
<1>4. Ahead(L) = Ahead(l)
  BY <1>3 DEF Ahead
<1>5. j \in 1 .. n /\ Len(packed) > 0
  <2>1. n \in Nat /\ Len(packed) > 0
    BY <1>1 DEF AllPacked, Comparing
  <2>2. j > 0
    BY <1>2 DEF Within
  <2> QED
    BY <2>1, <2>2
<1>6. At(L, R, t, j) /\ Within(L, j, s)
  BY <1>2, <1>3, <1>4 DEF At, Within
<1>7. LineRead(L.buf, L.cols, LineAt(s))
  <2>1. LineAt(s) \in Lines /\ Complete(LineAt(s))
    BY DEF AllPacked, TextOfLines, AllComplete
  <2>2. HoldsAlone(l.buf, LineAt(s))
    BY <1>2 DEF Parsing
  <2> QED
    BY <1>3, <2>1, <2>2, LineColumns
<1>8. ReadRow(R, j)
  BY <1>1, <1>2, <1>5, RowParsed DEF Parsing
<1> QED
  BY <1>1, <1>2, <1>5, <1>6, <1>7, <1>8 DEF Comparing, Judging

-----------------------------------------------------------------------------
(* compare judges a line. *)

LEMMA ValuesAgree ==
  ASSUME NEW line \in Lines, Complete(line), NEW s, NEW c, c = ExpectedValue(s, line).text,
         NEW v, v = Part(line, 5)
  PROVE  IF IsNumeric(v) THEN Integer(v) = Integer(c) ELSE v = c
<1>1. /\ Zero \in ValueTexts => Whole[Zero] = 0
      /\ \A x \in ValueTexts : \E y \in ValueTexts : /\ Reading[x].text = <<y>> /\ Whole[x] = Whole[y]
                                                     /\ (Reading[x].type = "STRING" => y = x)
  BY TsvAssumption
<1>2. \A x : <<x>> # <<>> /\ <<x>>[1] = x /\ Len(<<x>>) = 1
  OBVIOUS
<1>3. CASE v = <<>>
  <2>1. c = <<Zero>> \/ c = <<>>
    BY <1>3 DEF ExpectedValue
  <2>2. IsNumeric(v) /\ Integer(v) = 0
    BY <1>3 DEF IsNumeric, Integer
  <2>3. Integer(c) = 0
    BY <1>1, <1>2, <2>1 DEF Integer
  <2> QED
    BY <2>2, <2>3
<1>4. CASE v # <<>> /\ Len(v) = 1 /\ v[1] \in ValueTexts
  <2>1. PICK x \in ValueTexts : x = v[1]
    BY <1>4
  <2>2. PICK y \in ValueTexts : /\ Reading[x].text = <<y>> /\ Whole[x] = Whole[y]
                                /\ (Reading[x].type = "STRING" => y = x)
    BY <1>1
  <2>3. c = <<y>>
    BY <1>4, <2>1, <2>2 DEF ExpectedValue
  <2>4. Integer(v) = Whole[y]
    BY <1>2, <1>4, <2>1, <2>2 DEF Integer
  <2>5. Integer(c) = Whole[y]
    BY <1>2, <2>2, <2>3 DEF Integer
  <2>6. IsNumeric(v) <=> Reading[x].type # "STRING"
    BY <1>4, <2>1 DEF IsNumeric
  <2>7. v = <<x>>
    <3>1. Part(line, 5) \in Text
      BY PartWord DEF Word, ColumnCount
    <3>2. v \in Seq(Field)
      BY <3>1 DEF Text
    <3> QED
      BY <1>4, <2>1, <3>2
  <2> QED
    BY <2>2, <2>3, <2>4, <2>5, <2>6, <2>7
<1> QED
  BY <1>3, <1>4, FifthPart

LEMMA UnitsAgree ==
  ASSUME AllPacked, Orderly, NEW j \in 1 .. Len(packed), NEW s \in Starts, packed[j].from = s
  PROVE  FirstUnit(packed[j].name) = Part(LineAt(s), 4)
<1>1. /\ packed \in Seq(Row) /\ Len(packed) \in Nat
      /\ (\A i \in 1 .. Len(packed) : packed[i].from \in Starts /\ packed[i] = RowFor(packed[i].from))
      /\ \A i, k \in 1 .. Len(packed) : i < k => packed[i].from < packed[k].from
  BY DEF AllPacked
<1>2. PICK k \in 1 .. j : packed[k].name = packed[j].name /\ FirstUnit(packed[j].name) = packed[k].unit
  BY <1>1, FirstUnitTyped
<1>3. PICK u \in Starts : u = packed[k].from
  BY <1>1, <1>2
<1>4. packed[k] = RowFor(u) /\ packed[j] = RowFor(s)
  BY <1>1, <1>2, <1>3
<1>5. packed[k].unit = Part(LineAt(u), 4) /\ Part(LineAt(u), 2) = Part(LineAt(s), 2)
  BY <1>2, <1>4 DEF RowFor
<1>6. CASE k = j
  BY <1>2, <1>3, <1>5, <1>6
<1>7. CASE k # j
  <2>1. k < j
    BY <1>1, <1>2, <1>7
  <2>2. u < s
    BY <1>1, <1>2, <1>3, <2>1
  <2> QED
    BY <1>2, <1>5, <2>2 DEF Orderly
<1> QED
  BY <1>6, <1>7

(* What is told of a row of an orderly text is its value. *)
LEMMA ValuesTold ==
  ASSUME AllPacked, Orderly, NEW j \in 1 .. Len(packed)
  PROVE  told[j].value = packed[j].value
<1>1. PICK k \in 1 .. j : /\ packed[k].name = packed[j].name /\ told[j].value = packed[k].value
                          /\ told[j].value = packed[j].value \/ Alike(told[j].value, packed[j].value)
  BY DEF AllPacked, DictInv, Tells
<1>2. Len(packed) \in Nat /\ k \in 1 .. Len(packed)
  BY <1>1 DEF AllPacked
<1>3. PICK s \in Starts, u \in Starts : s = packed[k].from /\ u = packed[j].from
  BY <1>2 DEF AllPacked
<1>4. packed[k] = RowFor(s) /\ packed[j] = RowFor(u)
  BY <1>2, <1>3 DEF AllPacked
<1>5. /\ packed[k].name = Part(LineAt(s), 2) /\ packed[k].value = ExpectedValue(s, LineAt(s))
      /\ packed[j].name = Part(LineAt(u), 2) /\ packed[j].value = ExpectedValue(u, LineAt(u))
  BY <1>4 DEF RowFor
<1>6. CASE k = j
  BY <1>1, <1>6
<1>7. CASE k # j
  <2>1. k < j
    BY <1>1, <1>2, <1>7
  <2>2. s < u
    BY <1>2, <1>3, <2>1 DEF AllPacked
  <2>3. Part(LineAt(s), 2) = Part(LineAt(u), 2)
    BY <1>1, <1>5
  <2>4. ~ Alike(ExpectedValue(s, LineAt(s)), ExpectedValue(u, LineAt(u)))
    BY <2>2, <2>3 DEF Orderly
  <2> QED
    BY <1>1, <1>5, <2>4
<1> QED
  BY <1>6, <1>7

(* The first unit of a sensor stands with its name in a row that was taken. *)
LEMMA UnitFits ==
  ASSUME AllPacked, NEW j \in 1 .. Len(packed)
  PROVE  <<packed[j].name, FirstUnit(packed[j].name)>> \notin Long
<1>1. packed \in Seq(Row) /\ Len(packed) \in Nat /\ DictInv
  BY DEF AllPacked
<1>2. PICK k \in 1 .. j : /\ packed[k].name = packed[j].name /\ FirstUnit(packed[j].name) = packed[k].unit
                          /\ \A i \in 1 .. k - 1 : packed[i].name # packed[j].name
  BY <1>1, FirstUnitTyped
<1>3. k \in 1 .. Len(packed)
  BY <1>1, <1>2
<1>4. FirstFits(k)
  BY <1>1, <1>3 DEF DictInv
<1> QED
  BY <1>2, <1>4 DEF FirstFits

LEMMA CutRead ==
  ASSUME NEW x \in Times
  PROVE  CutOf(<<x>>) = Cut[x]
<1>1. <<x>> # <<>> /\ <<x>>[1] = x
  OBVIOUS
<1> QED
  BY <1>1 DEF CutOf

(* What a line's columns and a row's show. *)
LEMMA ColumnsShow ==
  ASSUME AllPacked, NEW j \in 1 .. Len(packed), NEW s,
         NEW l, LineRead(l.buf, l.cols, LineAt(s)), NEW r, ReadRow(r, j),
         NEW line, line = LineAt(s), NEW row, row = packed[j], NEW c, c = told[j].value.text
  PROVE  /\ In(l, 1) = Part(line, 1) /\ ~ IsNull(l, 2) /\ In(l, 2) = Part(line, 2)
         /\ (IsNull(l, 4) <=> Part(line, 4) = <<>>) /\ (Part(line, 4) # <<>> => In(l, 4) = Part(line, 4))
         /\ ~ IsNull(l, 5) /\ In(l, 5) = Part(line, 5)
         /\ CutOf(In(r, 1)) = Cut[Shown[row.time]] /\ ~ IsNull(r, 2) /\ In(r, 2) = row.name
         /\ (IsNull(r, 3) <=> FirstUnit(row.name) = <<>>)
         /\ (FirstUnit(row.name) # <<>> => In(r, 3) = FirstUnit(row.name))
         /\ ~ IsNull(r, 4) /\ In(r, 4) = c
<1>1. /\ In(l, 1) = Part(line, 1) /\ ~ IsNull(l, 2) /\ In(l, 2) = Part(line, 2)
      /\ (IsNull(l, 4) <=> Part(line, 4) = <<>>) /\ (Part(line, 4) # <<>> => In(l, 4) = Part(line, 4))
      /\ ~ IsNull(l, 5) /\ In(l, 5) = Part(line, 5)
  BY DEF In, IsNull, LineRead
<1>2. RowRead(r.buf, r.cols, Shown[row.time], row.name, FirstUnit(row.name), c)
  BY DEF ReadRow
<1>3. /\ In(r, 1) = <<Shown[row.time]>> /\ ~ IsNull(r, 2) /\ In(r, 2) = row.name
      /\ (IsNull(r, 3) <=> FirstUnit(row.name) = <<>>)
      /\ (FirstUnit(row.name) # <<>> => In(r, 3) = FirstUnit(row.name))
      /\ ~ IsNull(r, 4) /\ In(r, 4) = c
  BY <1>2 DEF In, IsNull, RowRead
<1>4. Shown[row.time] \in Times
  BY EachRowHas DEF RowHas
<1>5. CutOf(In(r, 1)) = Cut[Shown[row.time]]
  BY <1>3, <1>4, CutRead
<1> QED
  BY <1>1, <1>3, <1>5

LEMMA FoundEqual ==
  ASSUME AllPacked, Orderly, NEW j \in 1 .. Len(packed), NEW s \in Starts, packed[j].from = s,
         NEW l, LineRead(l.buf, l.cols, LineAt(s)), NEW r, ReadRow(r, j)
  PROVE  Found(l, r) = "equal"
<1>1. PICK line, row, c : line = LineAt(s) /\ row = packed[j] /\ c = told[j].value.text
  OBVIOUS
<1>2. row = RowFor(s) /\ line \in Lines /\ Complete(line)
  BY <1>1 DEF AllPacked, TextOfLines, AllComplete
<1>3. row.time = TimeAt(s) /\ row.name = Part(line, 2) /\ c = ExpectedValue(s, line).text
  <2>1. told[j].value = packed[j].value
    BY ValuesTold
  <2>2. row.time = TimeAt(s) /\ row.name = Part(line, 2) /\ row.value = ExpectedValue(s, line)
    BY <1>1, <1>2 DEF RowFor
  <2> QED
    BY <1>1, <2>1, <2>2
<1>4. FirstUnit(row.name) = Part(line, 4)
  BY <1>1, UnitsAgree
<1>5. /\ In(l, 1) = Part(line, 1) /\ ~ IsNull(l, 2) /\ In(l, 2) = Part(line, 2)
      /\ (IsNull(l, 4) <=> Part(line, 4) = <<>>) /\ (Part(line, 4) # <<>> => In(l, 4) = Part(line, 4))
      /\ ~ IsNull(l, 5) /\ In(l, 5) = Part(line, 5)
      /\ CutOf(In(r, 1)) = Cut[Shown[row.time]] /\ ~ IsNull(r, 2) /\ In(r, 2) = row.name
      /\ (IsNull(r, 3) <=> FirstUnit(row.name) = <<>>)
      /\ (FirstUnit(row.name) # <<>> => In(r, 3) = FirstUnit(row.name))
      /\ ~ IsNull(r, 4) /\ In(r, 4) = c
  BY <1>1, ColumnsShow
<1>6. ~ TimesDiffer(l, r)
  <2>1. CutOf(Part(line, 1)) = Cut[Shown[TimeAt(s)]]
    BY <1>1 DEF Orderly
  <2> QED
    BY <1>3, <1>5, <2>1 DEF TimesDiffer
<1>7. In(l, 2) = In(r, 2)
  BY <1>3, <1>5
<1>8. (IsNull(l, 4) <=> IsNull(r, 3)) /\ (~ IsNull(l, 4) => In(l, 4) = In(r, 3))
  BY <1>4, <1>5
<1>9. IF IsNumeric(In(l, 5)) THEN Integer(In(l, 5)) = Integer(In(r, 4)) ELSE In(l, 5) = In(r, 4)
  BY <1>2, <1>3, <1>5, ValuesAgree
<1> QED
  BY <1>5, <1>6, <1>7, <1>8, <1>9 DEF Found

(***************************************************************************)
(* A line that was not packed is not found equal: if it came too late, the *)
(* row compared with it is of a later time, and if name and unit are too   *)
(* long, they are not those of a row.                                      *)
(***************************************************************************)
LEMMA LostShows ==
  ASSUME AllPacked, TimesTold, NEW s \in Starts, NEW k \in 1 .. Len(packed), NextTo(s, k), AllTaken(s - 1),
         NEW l, LineRead(l.buf, l.cols, LineAt(s)), NEW r, ReadRow(r, k), Found(l, r) = "equal"
  PROVE  HasRow(s)
<1>1. PICK line, row, c : line = LineAt(s) /\ row = packed[k] /\ c = told[k].value.text
  OBVIOUS
<1>2. /\ In(l, 1) = Part(line, 1) /\ In(l, 2) = Part(line, 2)
      /\ (IsNull(l, 4) <=> Part(line, 4) = <<>>) /\ (Part(line, 4) # <<>> => In(l, 4) = Part(line, 4))
      /\ CutOf(In(r, 1)) = Cut[Shown[row.time]] /\ In(r, 2) = row.name
      /\ (IsNull(r, 3) <=> FirstUnit(row.name) = <<>>)
      /\ (FirstUnit(row.name) # <<>> => In(r, 3) = FirstUnit(row.name))
  BY <1>1, ColumnsShow
<1>3. /\ ~ TimesDiffer(l, r) /\ In(l, 2) = In(r, 2)
      /\ (IsNull(l, 4) <=> IsNull(r, 3)) /\ (~ IsNull(l, 4) => In(l, 4) = In(r, 3))
  BY DEF Found
<1>4. \A u \in Starts : u \in Nat /\ TimeAt(u) \in Nat
  BY TimeTyped DEF TimeAt, Starts, AllPacked, TextOfLines, Text
<1>5. PICK n \in Nat : n = Len(packed)
  BY DEF AllPacked
<1>6. ASSUME LateAt(s) PROVE FALSE
  <2>1. PICK u \in Starts : u < s /\ TimeAt(u) > TimeAt(s)
    BY <1>6 DEF LateAt
  <2>2. u <= s - 1
    BY <1>4, <2>1
  <2>3. PICK i \in 1 .. n : packed[i].from = u
    BY <1>5, <2>2 DEF AllTaken, HasRow
  <2>4. i <= k
    BY <1>5, <2>1, <2>3 DEF NextTo
  <2>5. PICK w \in Starts : w = row.from
    BY <1>1 DEF AllPacked
  <2>6. packed[i] = RowFor(u) /\ row = RowFor(w)
    BY <1>1, <1>5, <2>3, <2>5 DEF AllPacked
  <2>7. packed[i].time = TimeAt(u) /\ row.time = TimeAt(w)
    BY <2>6 DEF RowFor
  <2>8. TimeAt(u) <= TimeAt(w)
    <3>1. CASE i = k
      BY <1>1, <1>4, <2>7, <3>1
    <3>2. CASE i # k
      <4>1. i < k /\ k \in 1 .. n
        BY <1>5, <2>4, <3>2
      <4>2. packed[i].time <= packed[k].time
        BY <1>5, <4>1 DEF AllPacked
      <4> QED
        BY <1>1, <2>7, <4>2
    <3> QED
      BY <3>1, <3>2
  <2>9. CutOf(Part(LineAt(s), 1)) = Cut[Shown[TimeAt(w)]]
    BY <1>1, <1>2, <1>3, <2>7 DEF TimesDiffer
  <2>10. TimeAt(s) = TimeAt(w)
    BY <2>9 DEF TimesTold
  <2> QED
    BY <1>4, <2>1, <2>8, <2>10
<1>7. ASSUME LongAt(s) PROVE FALSE
  <2>1. <<Part(line, 2), Part(line, 4)>> \in Long
    BY <1>1, <1>7 DEF LongAt
  <2>2. Part(line, 2) = row.name
    BY <1>2, <1>3
  <2>3. Part(line, 4) = FirstUnit(row.name)
    BY <1>2, <1>3
  <2> QED
    BY <1>1, <2>1, <2>2, <2>3, UnitFits
<1> QED
  BY <1>6, <1>7, LineOrRow

LEMMA JudgeGoes ==
  ASSUME AllPacked, NEW l \in Side, NEW r \in Side, NEW v, NEW t \in Text, Comparing("judge", l, r, v, t),
         NEW w, w = Found(l, r)
  PROVE  (w = "equal" => Comparing("compare", l, r, w, t)) /\ (Orderly => w = "equal")
<1>1. PICK n, d : n = Len(packed) /\ d = Ahead(l)
  OBVIOUS
<1>2. PICK j \in 0 .. n, s \in Starts : At(l, r, t, j) /\ Within(l, j, s) /\ Judging(l, r, j, s)
  BY <1>1 DEF Comparing
<1>3. /\ j > 0 /\ s <= d /\ (\A u \in Starts : u <= d => u <= s)
      /\ (Telling => NextTo(s, j) /\ AllTaken(s - 1))
  BY <1>1, <1>2 DEF Within
<1>4. LineRead(l.buf, l.cols, LineAt(s)) /\ ReadRow(r, j)
  BY <1>2 DEF Judging
<1>5. n \in Nat /\ j \in 1 .. n /\ Len(packed) > 0 /\ d \in Nat /\ \A u \in Starts : u \in Nat
  <2>1. n \in Nat /\ Len(packed) > 0 /\ \A u \in Starts : u \in Nat
    BY <1>1, FirstStart DEF AllPacked, Comparing
  <2>2. IsRest(text, d, l.rest)
    BY <1>1, <1>2 DEF At
  <2> QED
    BY <1>3, <2>1, <2>2 DEF IsRest
<1>6. ASSUME Orderly PROVE HasRow(s) /\ w = "equal"
  <2>1. HasRow(s)
    BY <1>6, OrderlyRows
  <2>2. packed[j].from = s
    BY <1>1, <1>3, <1>5, <1>6, <2>1, RowInStep DEF Telling
  <2> QED
    BY <1>1, <1>4, <1>5, <1>6, <2>1, <2>2, FoundEqual
<1>7. ASSUME w = "equal" PROVE Comparing("compare", l, r, w, t)
  <2>1. ASSUME Telling PROVE Lockstep(d, j) /\ AllTaken(d)
    <3>1. HasRow(s)
      <4>1. CASE TimesTold
        BY <1>1, <1>3, <1>4, <1>5, <1>7, <2>1, <4>1, LostShows
      <4>2. CASE Orderly
        BY <1>6, <4>2
      <4> QED
        BY <2>1, <4>1, <4>2 DEF Telling
    <3>2. Lockstep(d, j)
      BY <1>1, <1>3, <1>5, <2>1, <3>1, RowInStep
    <3>3. ASSUME NEW u \in Starts, u <= d PROVE HasRow(u)
      <4>1. u = s \/ u <= s - 1
        BY <1>3, <1>5, <3>3
      <4> QED
        BY <1>3, <2>1, <3>1, <4>1 DEF AllTaken
    <3> QED
      BY <3>2, <3>3 DEF AllTaken
  <2>2. Between(l, r, w, j)
    BY <1>1, <1>4, <1>7, <2>1 DEF Between
  <2> QED
    BY <1>1, <1>2, <1>5, <2>2 DEF Comparing
<1> QED
  BY <1>6, <1>7

LEMMA EndReached ==
  ASSUME AllPacked, NEW l \in Side, NEW r, NEW v, NEW t, Comparing("compare", l, r, v, t), l.rest = <<>>
  PROVE  (Telling => AllTaken(Len(text))) /\ (Orderly => v = "equal")
<1>1. PICK j \in 0 .. Len(packed) : Between(l, r, v, j)
  BY DEF Comparing
<1>2. text \in Text /\ Len(text) \in Nat \ {0}
  BY DEF AllPacked, TextOfLines, Text
<1>3. Ahead(l) = Len(text)
  <2>1. Len(l.rest) = 0
    OBVIOUS
  <2> QED
    BY <1>2, <2>1 DEF Ahead
<1> QED
  BY <1>1, <1>2, <1>3 DEF Between

LEMMA ComparisonBegins ==
  ASSUME AllPacked, Len(packed) > 0, NEW l \in Side, NEW r \in Side, NEW t \in Text, t = FlattenSeq(PrintedLines),
         NEW v, l.rest = text, r.rest = t
  PROVE  Comparing("compare", l, r, v, t)
<1>1. text \in Text /\ Len(text) \in Nat \ {0} /\ 1 \in Starts /\ Len(packed) \in Nat \ {0}
  BY FirstStart DEF AllPacked
<1>2. Ahead(l) = 0
  BY <1>1 DEF Ahead
<1>3. \A k \in Text : IsRest(k, 0, k)
  BY DEF IsRest, Text
<1>4. \A u \in Starts : u \in Nat /\ ~ u <= 0
  BY <1>1 DEF Starts, Text
<1>5. PrintedLines \in Seq(Seq(Field))
  <2>1. \A i \in 1 .. Len(packed) : PrintedLine(packed[i], told[i].value) \in Seq(Field)
    <3> TAKE i \in 1 .. Len(packed)
    <3>1. Printed(packed[i], told[i].value, PrintedLine(packed[i], told[i].value))
      BY EachRowHas, RowPrinted
    <3> QED
      BY <3>1 DEF Printed, Text
  <2>2. PrintedLines \in [1 .. Len(packed) -> Seq(Field)]
    <3>1. DOMAIN packed = 1 .. Len(packed)
      BY DEF AllPacked
    <3> QED
      BY <2>1, <3>1 DEF PrintedLines
  <2> QED
    BY <1>1, <2>2
<1>6. PICK off : OffsetsOf(PrintedLines, t, off)
  BY <1>5, FlattenOffsets
<1>7. IsRest(t, off[0], r.rest)
  <2>1. off[0] = 0
    BY <1>6 DEF OffsetsOf
  <2> QED
    BY <1>3, <2>1
<1>8. Lockstep(0, 0)
  <2> SUFFICES ASSUME NEW i \in 1 .. Len(packed) PROVE ~ packed[i].from <= 0 /\ ~ i <= 0
    BY DEF Lockstep
  <2>1. packed[i].from \in Starts
    BY DEF AllPacked
  <2> QED
    BY <1>1, <1>4, <2>1
<1>9. At(l, r, t, 0)
  <2>1. IsRest(text, 0, l.rest) /\ 0 + 1 \in Starts
    BY <1>1, <1>3
  <2> QED
    BY <1>2, <1>6, <1>7, <2>1 DEF At
<1>10. Between(l, r, v, 0)
  <2>1. AllTaken(0)
    BY <1>4 DEF AllTaken
  <2> QED
    BY <1>2, <1>8, <2>1 DEF Between
<1>11. 0 \in 0 .. Len(packed)
  BY <1>1
<1> QED
  BY <1>9, <1>10, <1>11 DEF Comparing

-----------------------------------------------------------------------------
(* The comparison, from its begin to its end. *)

(* The input is packed before it is unpacked, and each row stands for a line. *)
AllRead ==
  /\ phase \notin {"read", "inject"} => rest = <<>> /\ pointer > size
  /\ \A i \in 1 .. Len(packed) : packed[i].from \in Starts

LEMMA AllReadInit ==
  ASSUME TsvInit
  PROVE  AllRead
<1>1. packed = <<>> /\ phase = "read" /\ Len(packed) = 0
  BY DEF TsvInit
<1> QED
  BY <1>1 DEF AllRead

LEMMA AllReadStep ==
  ASSUME ToolInv, RowInv, AllRead, [TsvNext]_tvars
  PROVE  AllRead'
<1>1. packed \in Seq(Row)
  BY DEF ToolInv, Outcome
<1>2. CASE ReadChunk \/ ParseLine
  <2>1. phase' \in {"read", "inject"} /\ packed' = packed /\ text' = text
    BY <1>2 DEF ReadChunk, ParseLine, channel
  <2> QED
    BY <2>1 DEF AllRead, Starts
<1>3. CASE InjectLine
  <2>1. PICK row : row = RowInHand
    OBVIOUS
  <2>2. /\ phase = "inject" /\ phase' = "read" /\ UNCHANGED <<text, reading>> /\ row \in Row /\ row.from = from
        /\ Late(row) \/ Refused(row) \/ \E m \in Memory : Taken(row, m)
    BY <1>3, <2>1, Injected DEF ToolInv, Outcome
  <2>3. row.from \in Starts /\ Starts' = Starts
    BY <2>2 DEF RowInv, LineInHand, Starts
  <2>4. packed' = packed \/ packed' = Append(packed, row)
    BY <2>2 DEF Late, Refused, Taken
  <2>5. \A i \in 1 .. Len(packed') : packed'[i].from \in Starts
    <3>1. CASE packed' = packed
      BY <3>1 DEF AllRead
    <3>2. CASE packed' = Append(packed, row)
      <4>1. /\ Len(packed') = Len(packed) + 1 /\ packed'[Len(packed) + 1] = row /\ Len(packed) \in Nat
            /\ \A i \in 1 .. Len(packed) : packed'[i] = packed[i]
        BY <1>1, <2>2, <3>2, AppendProperties
      <4>2. \A i \in 1 .. Len(packed) + 1 : i = Len(packed) + 1 \/ i \in 1 .. Len(packed)
        BY <4>1
      <4> QED
        BY <2>3, <4>1, <4>2 DEF AllRead
    <3> QED
      BY <2>4, <3>1, <3>2
  <2> QED
    BY <2>2, <2>3, <2>5 DEF AllRead
<1>4. CASE PackEnd
  <2>1. rest' = rest /\ pointer' = pointer /\ size' = size /\ packed' = packed /\ text' = text
        /\ pointer > size /\ rest = <<>>
    BY <1>4 DEF PackEnd, reading, channel
  <2> QED
    BY <2>1 DEF AllRead, Starts
<1>5. CASE UNCHANGED tvars
  <2>1. rest' = rest /\ pointer' = pointer /\ size' = size /\ packed' = packed /\ text' = text /\ phase' = phase
    BY <1>5 DEF tvars, reading
  <2> QED
    BY <2>1 DEF AllRead, Starts
<1>6. CASE Unpack \/ CompareRead \/ CompareParse \/ CompareColumns \/ CompareEnd
  <2>1. /\ rest' = rest /\ pointer' = pointer /\ size' = size /\ packed' = packed /\ text' = text
        /\ phase \notin {"read", "inject"}
    BY <1>6 DEF Unpack, CompareRead, CompareParse, CompareColumns, CompareEnd, reading, channel
  <2> QED
    BY <2>1 DEF AllRead, Starts
<1> QED
  BY <1>2, <1>3, <1>4, <1>5, <1>6 DEF TsvNext

LEMMA AllPackedIs ==
  ASSUME ToolInv, RowInv, DictInv, AllRead, AllComplete, phase \notin {"read", "inject"}
  PROVE  AllPacked
<1>1. /\ TextOfLines /\ Chunked /\ packed \in Seq(Row) /\ Len(packed) \in Nat /\ DOMAIN packed = 1 .. Len(packed)
      /\ \A i \in 1 .. Len(packed) : packed[i] \in Row /\ packed[i].time \in Ticks
  BY DEF ToolInv, Outcome
<1>2. /\ base \in Nat /\ size \in Nat /\ pointer \in Nat \ {0} /\ base + size <= Used
      /\ (\A i \in base + size + 1 .. Used : text[i] = NL) /\ (size = 0 => Used = 0)
      /\ text \in Text /\ Len(text) \in Nat /\ Len(text) # 0
  BY <1>1 DEF Chunked, TextOfLines, Text
<1>3. Used = Len(text) /\ pointer > size /\ PackedUpTo = base + pointer
  <2>1. Len(rest) = 0 /\ pointer > size
    BY DEF AllRead
  <2> QED
    BY <1>2, <2>1 DEF Used, PackedUpTo
<1>4. ASSUME NEW s \in Starts PROVE AsRow(s)
  <2>1. s \in 1 .. Len(text) /\ LineAt(s) \in Lines /\ Complete(LineAt(s))
    BY <1>1, <1>2 DEF TextOfLines, AllComplete, Starts, Text
  <2>2. Len(LineAt(s)) \in Nat \ {0} /\ IsLine(text, s, Len(LineAt(s)))
    BY <1>2, <2>1, CompleteHasText, LineAtIs
  <2>3. text[s] # NL
    <3>1. s \in s .. s + Len(LineAt(s)) - 1
      BY <2>1, <2>2
    <3> QED
      BY <2>2, <3>1 DEF IsLine
  <2>4. s <= base + size
    BY <1>2, <1>3, <2>1, <2>3
  <2>5. s < base + pointer /\ size # 0
    BY <1>2, <1>3, <2>1, <2>4
  <2> QED
    BY <1>3, <2>1, <2>5 DEF RowInv, RowsSoFar
<1>5. ASSUME NEW i \in 1 .. Len(packed) PROVE packed[i].from \in Starts /\ packed[i] = RowFor(packed[i].from)
  <2>1. PICK s \in Starts : s = packed[i].from
    BY DEF AllRead
  <2>2. i \in RowsAt(s) /\ AsRow(s)
    BY <1>1, <1>4, <2>1 DEF RowsAt
  <2> QED
    BY <2>1, <2>2 DEF AsRow
<1>6. \A i, j \in 1 .. Len(packed) : i < j => packed[i].from < packed[j].from /\ packed[i].time <= packed[j].time
  BY DEF RowInv, RowsInOrder
<1> QED
  BY <1>1, <1>4, <1>5, <1>6 DEF AllPacked

(***************************************************************************)
(* Where the comparison stands; once it ended with equal texts, the lines  *)
(* of a text whose times tell are packed.                                  *)
(***************************************************************************)
Compared(ph, l, r, v, t) ==
  /\ ph \in {"read", "inject", "unpack"} => v = "none"
  /\ ph \in {"compare", "parse", "judge"} => AllComplete /\ Comparing(ph, l, r, v, t)
  /\ ph = "done" => /\ v = "equal" /\ Telling => AllTaken(Len(text))
                    /\ AllComplete /\ Orderly => v = "equal"

CompareInv ==
  \A ph, l, r, v, t :
    ph = phase /\ l = left /\ r = right /\ v = verdict /\ t = printed => Compared(ph, l, r, v, t)

LEMMA ComparedStays ==
  ASSUME text' = text, ends' = ends, packed' = packed, told' = told,
         NEW ph, NEW l, NEW r, NEW v, NEW t, Compared(ph, l, r, v, t)
  PROVE  Compared(ph, l, r, v, t)'
<1>1. Starts' = Starts /\ \A s : LineAt(s)' = LineAt(s)
  BY DEF Starts, LineAt
<1>2. (AllComplete' <=> AllComplete) /\ (Telling' <=> Telling) /\ (Orderly' <=> Orderly)
  <2>1. \A s : TimeAt(s)' = TimeAt(s) /\ ExpectedValue(s, LineAt(s))' = ExpectedValue(s, LineAt(s))
    BY <1>1 DEF TimeAt, ExpectedValue
  <2>2. Orderly' <=> Orderly
    BY <1>1, <2>1 DEF Orderly, Alike
  <2>3. TimesTold' <=> TimesTold
    BY <1>1, <2>1 DEF TimesTold
  <2> QED
    BY <1>1, <2>2, <2>3 DEF AllComplete, Telling
<1>3. /\ \A name : FirstUnit(name)' = FirstUnit(name)
      /\ \A row, w : RowLine(row, w)' = RowLine(row, w) /\ PrintedLine(row, w)' = PrintedLine(row, w)
  BY DEF FirstUnit, RowLine, PrintedLine
<1>4. PrintedLines' = PrintedLines
  BY <1>3 DEF PrintedLines
<1>5. /\ Ahead(l)' = Ahead(l)
      /\ \A a : AllTaken(a)' <=> AllTaken(a)
      /\ \A a, j : (Lockstep(a, j)' <=> Lockstep(a, j)) /\ (NextTo(a, j)' <=> NextTo(a, j))
  BY <1>1 DEF Ahead, AllTaken, HasRow, Lockstep, NextTo
<1>6. ASSUME NEW j PROVE At(l, r, t, j)' <=> At(l, r, t, j)
  BY <1>1, <1>4, <1>5 DEF At
<1>12. ASSUME NEW j PROVE ReadRow(r, j)' <=> ReadRow(r, j)
  BY <1>3 DEF ReadRow
<1>7. ASSUME NEW j PROVE Between(l, r, v, j)' <=> Between(l, r, v, j)
  BY <1>1, <1>2, <1>5, <1>12 DEF Between
<1>8. ASSUME NEW j, NEW s PROVE Within(l, j, s)' <=> Within(l, j, s)
  BY <1>1, <1>2, <1>5 DEF Within
<1>9. ASSUME NEW j, NEW s PROVE Parsing(l, r, j, s)' <=> Parsing(l, r, j, s)
  BY <1>1, <1>3, <1>12 DEF Parsing
<1>10. ASSUME NEW j, NEW s PROVE Judging(l, r, j, s)' <=> Judging(l, r, j, s)
  BY <1>1, <1>12 DEF Judging
<1>11. Comparing(ph, l, r, v, t)' <=> Comparing(ph, l, r, v, t)
  BY <1>1, <1>6, <1>7, <1>8, <1>9, <1>10 DEF Comparing
<1> QED
  BY <1>2, <1>5, <1>11 DEF Compared

LEMMA CompareInit ==
  ASSUME TsvInit
  PROVE  CompareInv
<1>1. phase = "read" /\ verdict = "none"
  BY DEF TsvInit
<1> QED
  BY <1>1 DEF CompareInv, Compared

LEMMA CompareStep ==
  ASSUME ToolInv, RowInv, DictInv, AllRead, CompareInv, [TsvNext]_tvars
  PROVE  CompareInv'
<1>1. PICK ph, l, r, v, t : ph = phase /\ l = left /\ r = right /\ v = verdict /\ t = printed
  OBVIOUS
<1>2. PICK Ph, L, R, V, T : Ph = phase' /\ L = left' /\ R = right' /\ V = verdict' /\ T = printed'
  OBVIOUS
<1>3. Compared(ph, l, r, v, t)
  BY <1>1 DEF CompareInv
<1>4. l \in Side /\ r \in Side /\ IsBuffer(l.buf) /\ IsBuffer(r.buf) /\ t \in Text
  BY <1>1 DEF ToolInv, Outcome
<1>5. L \in Side /\ R \in Side /\ T \in Text
  <2>1. ToolInv'
    BY ToolStep
  <2> QED
    BY <1>2, <2>1 DEF ToolInv, Outcome
<1>6. SUFFICES Compared(Ph, L, R, V, T)'
  BY <1>2 DEF CompareInv
<1>7. CASE ReadChunk \/ ParseLine \/ InjectLine \/ PackEnd
  <2>1. ph \in {"read", "inject"} /\ Ph \in {"read", "inject", "unpack"} /\ V = v
    BY <1>1, <1>2, <1>7 DEF ReadChunk, ParseLine, InjectLine, PackEnd
  <2>2. V = "none"
    BY <1>3, <2>1 DEF Compared
  <2> QED
    BY <2>1, <2>2 DEF Compared
<1>8. CASE UNCHANGED tvars
  <2>1. Ph = ph /\ L = l /\ R = r /\ V = v /\ T = t /\ text' = text /\ ends' = ends /\ packed' = packed /\ told' = told
    BY <1>1, <1>2, <1>8 DEF tvars
  <2> QED
    BY <1>3, <2>1, ComparedStays
<1>9. ASSUME UNCHANGED <<text, reading, channel>>, Compared(Ph, L, R, V, T) PROVE Compared(Ph, L, R, V, T)'
  <2>1. text' = text /\ ends' = ends /\ packed' = packed /\ told' = told
    BY <1>9 DEF reading, channel
  <2> QED
    BY <1>9, <2>1, ComparedStays
<1>10. CASE Unpack
  <2>1. /\ ph = "unpack" /\ UNCHANGED <<text, reading, channel>> /\ V = v
        /\ Ph = IF AllComplete /\ packed # <<>> THEN "compare" ELSE "done"
        /\ L = [l EXCEPT !.rest = text] /\ R = [r EXCEPT !.rest = T] /\ T = FlattenSeq(PrintedLines)
    BY <1>1, <1>2, <1>10 DEF Unpack, PrintedLines
  <2>2. V = "none"
    BY <1>3, <2>1 DEF Compared
  <2>3. CASE ~ AllComplete
    BY <1>9, <2>1, <2>2, <2>3 DEF Compared
  <2>4. CASE AllComplete
    <3>1. AllPacked
      BY <1>1, <2>1, <2>4, AllPackedIs
    <3>2. packed \in Seq(Row) /\ Len(packed) \in Nat
      BY <3>1 DEF AllPacked
    <3>3. CASE packed # <<>>
      <4>1. L.rest = text /\ R.rest = T
        BY <1>4, <2>1 DEF Side
      <4>2. Len(packed) > 0
        BY <3>2, <3>3, EmptySeq
      <4>3. Comparing("compare", L, R, V, T)
        BY <1>5, <2>1, <3>1, <4>1, <4>2, ComparisonBegins
      <4> QED
        BY <1>9, <2>1, <2>4, <3>3, <4>3 DEF Compared
    <3>4. CASE packed = <<>>
      <4>1. ~ Orderly
        <5> SUFFICES ASSUME Orderly PROVE FALSE
          OBVIOUS
        <5>1. 1 \in Starts
          BY <3>1, FirstStart DEF AllPacked
        <5>2. HasRow(1)
          BY <3>1, <5>1, OrderlyRows
        <5>3. Len(packed) = 0
          BY <3>4
        <5> QED
          BY <5>2, <5>3 DEF HasRow
      <4> QED
        BY <1>9, <2>1, <2>2, <3>4, <4>1 DEF Compared
    <3> QED
      BY <3>3, <3>4
  <2> QED
    BY <2>3, <2>4
<1>11. CASE CompareRead
  <2>1. /\ ph = "compare" /\ Ph = "parse" /\ UNCHANGED <<text, reading, channel>> /\ V = v /\ T = t
        /\ L = WithLine(l) /\ R = WithLine(r) /\ l.rest # <<>>
    BY <1>1, <1>2, <1>11 DEF CompareRead
  <2>2. AllComplete /\ Comparing("compare", l, r, v, t)
    BY <1>3, <2>1 DEF Compared
  <2>3. AllPacked
    BY <1>1, <2>1, <2>2, AllPackedIs
  <2>4. Comparing("parse", L, R, V, T)
    BY <1>4, <2>1, <2>2, <2>3, ReadGoes
  <2> QED
    BY <1>9, <2>1, <2>2, <2>4 DEF Compared
<1>12. CASE CompareParse
  <2>1. /\ ph = "parse" /\ Ph = "judge" /\ UNCHANGED <<text, reading, channel>> /\ V = v /\ T = t
        /\ L = WithColumns(l) /\ R = WithColumns(r)
    BY <1>1, <1>2, <1>12 DEF CompareParse
  <2>2. AllComplete /\ Comparing("parse", l, r, v, t)
    BY <1>3, <2>1 DEF Compared
  <2>3. AllPacked
    BY <1>1, <2>1, <2>2, AllPackedIs
  <2>4. Comparing("judge", L, R, V, T)
    BY <1>4, <2>1, <2>2, <2>3, ParseGoes
  <2> QED
    BY <1>9, <2>1, <2>2, <2>4 DEF Compared
<1>13. CASE CompareColumns
  <2>1. /\ ph = "judge" /\ UNCHANGED <<text, reading, channel>> /\ V = Found(l, r) /\ T = t /\ L = l /\ R = r
        /\ Ph = IF V = "equal" THEN "compare" ELSE "done"
    BY <1>1, <1>2, <1>13 DEF CompareColumns
  <2>2. AllComplete /\ Comparing("judge", l, r, v, t)
    BY <1>3, <2>1 DEF Compared
  <2>3. AllPacked
    BY <1>1, <2>1, <2>2, AllPackedIs
  <2>4. (V = "equal" => Comparing("compare", L, R, V, T)) /\ (Orderly => V = "equal")
    BY <1>4, <2>1, <2>2, <2>3, JudgeGoes
  <2> QED
    BY <1>9, <2>1, <2>2, <2>4 DEF Compared
<1>14. CASE CompareEnd
  <2>1. /\ ph = "compare" /\ Ph = "done" /\ UNCHANGED <<text, reading, channel>> /\ V = v /\ l.rest = <<>>
    BY <1>1, <1>2, <1>14 DEF CompareEnd
  <2>2. AllComplete /\ Comparing("compare", l, r, v, t)
    BY <1>3, <2>1 DEF Compared
  <2>3. AllPacked
    BY <1>1, <2>1, <2>2, AllPackedIs
  <2>4. (Telling => AllTaken(Len(text))) /\ (Orderly => V = "equal")
    BY <1>4, <2>1, <2>2, <2>3, EndReached
  <2> QED
    BY <1>9, <2>1, <2>2, <2>4 DEF Compared
<1> QED
  BY <1>7, <1>8, <1>10, <1>11, <1>12, <1>13, <1>14 DEF TsvNext

(* What is known of a run of the tool. *)
WholeInv == ToolInv /\ RowInv /\ DictInv /\ AllRead /\ CompareInv

LEMMA WholeInvHolds == TsvSpec => []WholeInv
<1>1. TsvInit => WholeInv
  BY ToolInit, RowsInit, DictInit, AllReadInit, CompareInit DEF WholeInv
<1>2. WholeInv /\ [TsvNext]_tvars => WholeInv'
  BY ToolStep, RowsStep, DictStep, AllReadStep, CompareStep DEF WholeInv
<1> QED
  BY <1>1, <1>2, PTL DEF TsvSpec

(***************************************************************************)
(* A text in the order of time that gives each sensor one unit, not too    *)
(* long, and no two values the dictionary takes for the same, with times   *)
(* that are printed as they begin, is found equal to what decompress       *)
(* prints of what compress packed of it: the two texts are read in step,   *)
(* no column that compare_compareLineValues looks at is missing, and what  *)
(* is printed of a number begins with the integer the number begins with.  *)
(***************************************************************************)
THEOREM OrderlyTextsAgree == TsvSpec => []OrderlyAgrees
<1>1. WholeInv => OrderlyAgrees
  <2> SUFFICES ASSUME WholeInv, phase = "done", AllComplete, Orderly PROVE verdict = "equal"
    BY DEF OrderlyAgrees
  <2>1. PICK ph, l, r, v, t : ph = phase /\ l = left /\ r = right /\ v = verdict /\ t = printed
    OBVIOUS
  <2>2. Compared(ph, l, r, v, t)
    BY <2>1 DEF WholeInv, CompareInv
  <2> QED
    BY <2>1, <2>2 DEF Compared
<1> QED
  BY <1>1, WholeInvHolds, PTL

(***************************************************************************)
(* A text that compare_compareLineValues finds equal, line by line, was    *)
(* packed without a loss, if the first fifteen characters of its times and *)
(* of what is printed of them tell one time from another: a line that came *)
(* too late is compared with the row of a later time, and one whose name   *)
(* and unit are too long with a row of others.  That holds although the    *)
(* printed text may end first: its last line stays in the buffer then.     *)
(***************************************************************************)
THEOREM EqualTextsLostNothing == TsvSpec => []EqualLostNothing
<1>1. WholeInv => EqualLostNothing
  <2> SUFFICES ASSUME WholeInv, phase = "done", verdict = "equal", TimesTold, NEW s \in Starts
               PROVE  \E i \in DOMAIN packed : packed[i].from = s
    BY DEF EqualLostNothing
  <2>1. PICK ph, l, r, v, t : ph = phase /\ l = left /\ r = right /\ v = verdict /\ t = printed
    OBVIOUS
  <2>2. Compared(ph, l, r, v, t)
    BY <2>1 DEF WholeInv, CompareInv
  <2>3. AllTaken(Len(text))
    BY <2>1, <2>2 DEF Compared, Telling
  <2>4. s <= Len(text) /\ DOMAIN packed = 1 .. Len(packed)
    <3>1. text \in Text /\ packed \in Seq(Row)
      BY DEF WholeInv, ToolInv, Outcome, TextOfLines
    <3> QED
      BY <3>1 DEF Starts, Text
  <2> QED
    BY <2>3, <2>4 DEF AllTaken, HasRow
<1> QED
  BY <1>1, WholeInvHolds, PTL

=============================================================================
