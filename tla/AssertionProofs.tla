---------------------------- MODULE AssertionProofs ----------------------------
(***************************************************************************)
(* Proofs about JsonAssertions, for any documents, pointers and values: a  *)
(* pointer finds the value whose place it names and no other, and what the *)
(* comparison says of it is right.  Behind it is that to unescape a token  *)
(* is the inverse of escaping a name, for names of any characters.         *)
(***************************************************************************)
EXTENDS JsonAssertions, SequenceTheorems, FiniteSetTheorems, WellFoundedInduction, TLAPS

---------------------------------------------------------------------------
(* Induction.  What is shown for all numbers or sequences is that they are *)
(* in a set, since the smallest number outside of it cannot be.            *)

\* Induction over numbers, for a set: the numbers outside of it have no least one.
LEMMA NumbersBySteps ==
    ASSUME NEW T, 0 \in T, \A n \in Nat : n \in T => n + 1 \in T
    PROVE  \A n \in Nat : n \in T
  <1> SUFFICES ASSUME NEW m \in Nat, m \notin T PROVE FALSE
    OBVIOUS
  <1> DEFINE R == {pair \in Nat \X Nat : pair[1] < pair[2]}
             Rest == {n \in Nat : n \notin T}
  <1>1. PICK least \in Rest : \A n \in Rest : <<n, least>> \notin R
    <2>1. IsWellFoundedOn(R, Nat)
      BY NatLessThanWellFounded DEF OpToRel
    <2>2. Rest \subseteq Nat /\ Rest # {}
      OBVIOUS
    <2> HIDE DEF R, Rest
    <2> QED
      BY <2>1, <2>2, WFMin
  <1>2. least - 1 \in Nat /\ least - 1 < least /\ least = (least - 1) + 1
    OBVIOUS
  <1>3. least - 1 \in T
    BY <1>1, <1>2
  <1> QED
    BY <1>2, <1>3

\* Induction over sequences.
LEMMA SequencesBySteps ==
    ASSUME NEW S, NEW T, <<>> \in T, \A s \in Seq(S), x \in S : s \in T => Append(s, x) \in T
    PROVE  \A s \in Seq(S) : s \in T
  <1> DEFINE N == {n \in Nat : \A s \in Seq(S) : Len(s) = n => s \in T}
  <1>1. 0 \in N
    <2> SUFFICES ASSUME NEW s \in Seq(S), Len(s) = 0 PROVE s \in T
      OBVIOUS
    <2> QED
      BY EmptySeq
  <1>2. ASSUME NEW n \in Nat, n \in N PROVE n + 1 \in N
    <2> SUFFICES ASSUME NEW s \in Seq(S), Len(s) = n + 1 PROVE s \in T
      OBVIOUS
    <2>1. s # <<>>
      BY EmptySeq
    <2>2. PICK r \in Seq(S), x \in S : s = Append(r, x)
      BY <2>1, SequenceEmptyOrAppend
    <2>3. Len(r) \in Nat /\ Len(s) = Len(r) + 1
      BY <2>2, AppendProperties, LenProperties
    <2>4. r \in T
      BY <1>2, <2>3
    <2> QED
      BY <2>2, <2>4
  <1> HIDE DEF N
  <1>3. \A n \in Nat : n \in N
    BY <1>1, <1>2, NumbersBySteps
  <1> QED
    BY <1>3, LenProperties DEF N

---------------------------------------------------------------------------
(* Replace and Escape build their results from left to right: the i-th one *)
(* is one before it, add[i] longer.                                        *)

Builds(f, back, add, m) ==
    /\ DOMAIN f = 0..m
    /\ f[0] = <<>>
    /\ \A i \in 1..m : f[i] = f[i - back[i]] \o add[i]

\* What is built of a beginning does not depend on the rest.
LEMMA BuiltOnce ==
    ASSUME NEW m \in Nat, NEW k \in Nat, m <= k, NEW f, NEW g, NEW back, NEW add, NEW more, NEW plus,
           \A i \in 1..m : back[i] \in 1..i /\ more[i] = back[i] /\ plus[i] = add[i],
           Builds(f, back, add, m), Builds(g, more, plus, k)
    PROVE  f[m] = g[m]
  <1> DEFINE K == {i \in Nat : i <= m => \A j \in 0..i : f[j] = g[j]}
  <1>1. 0 \in K
    BY DEF Builds
  <1>2. ASSUME NEW i \in Nat, i \in K PROVE i + 1 \in K
    <2> SUFFICES ASSUME i + 1 <= m PROVE f[i + 1] = g[i + 1]
      BY <1>2
    <2>1. i + 1 \in 1..m /\ i + 1 \in 1..k
      OBVIOUS
    <2>2. PICK d \in 1..(i + 1) : back[i + 1] = d /\ more[i + 1] = d
      BY <2>1
    <2>3. PICK j \in 0..i : j = (i + 1) - d
      OBVIOUS
    <2>4. f[i + 1] = f[j] \o add[i + 1] /\ g[i + 1] = g[j] \o add[i + 1]
      BY <2>1, <2>2, <2>3 DEF Builds
    <2>5. f[j] = g[j]
      BY <1>2, <2>3
    <2> QED
      BY <2>4, <2>5
  <1> HIDE DEF K
  <1>3. m \in K
    BY <1>1, <1>2, NumbersBySteps
  <1> QED
    BY <1>3 DEF K

LEMMA BuiltOneMore ==
    ASSUME NEW m \in Nat, NEW back, NEW add, NEW f, Builds(f, back, add, m), \A i \in 1..(m + 1) : back[i] \in 1..i
    PROVE  \E g : Builds(g, back, add, m + 1)
  <1> DEFINE g == [i \in 0..(m + 1) |-> IF i = m + 1 THEN f[(m + 1) - back[m + 1]] \o add[m + 1] ELSE f[i]]
  <1>1. DOMAIN g = 0..(m + 1)
    OBVIOUS
  <1>2. \A i \in 0..m : g[i] = f[i]
    OBVIOUS
  <1>3. g[m + 1] = f[(m + 1) - back[m + 1]] \o add[m + 1]
    OBVIOUS
  <1> HIDE DEF g
  <1>4. ASSUME NEW i \in 1..(m + 1) PROVE g[i] = g[i - back[i]] \o add[i]
    <2>1. PICK d \in 1..i : d = back[i]
      OBVIOUS
    <2>2. i - d \in 0..m
      OBVIOUS
    <2>3. CASE i = m + 1
      BY <1>2, <1>3, <2>1, <2>2, <2>3
    <2>4. CASE i # m + 1
      <3>1. i \in 1..m /\ i \in 0..m
        BY <2>4
      <3>2. f[i] = f[i - d] \o add[i]
        BY <2>1, <3>1 DEF Builds
      <3> QED
        BY <1>2, <2>1, <2>2, <3>1, <3>2
    <2> QED
      BY <2>3, <2>4
  <1>5. g[0] = <<>>
    BY <1>2 DEF Builds
  <1>6. Builds(g, back, add, m + 1)
    BY <1>1, <1>4, <1>5 DEF Builds
  <1> QED
    BY <1>6

LEMMA Building ==
    ASSUME NEW m \in Nat, NEW back, NEW add, \A i \in 1..m : back[i] \in 1..i
    PROVE  \E f : Builds(f, back, add, m)
  <1> DEFINE M == {k \in Nat : k <= m => \E f : Builds(f, back, add, k)}
  <1>1. 0 \in M
    <2> DEFINE f == [i \in 0..0 |-> <<>>]
    <2>1. Builds(f, back, add, 0)
      BY DEF Builds
    <2> QED
      BY <2>1
  <1>2. ASSUME NEW k \in Nat, k \in M PROVE k + 1 \in M
    <2> SUFFICES ASSUME k + 1 <= m PROVE \E f : Builds(f, back, add, k + 1)
      OBVIOUS
    <2>1. PICK f : Builds(f, back, add, k)
      BY <1>2
    <2>2. \A i \in 1..(k + 1) : back[i] \in 1..i
      OBVIOUS
    <2> QED
      BY <2>1, <2>2, BuiltOneMore
  <1> HIDE DEF M
  <1>3. m \in M
    BY <1>1, <1>2, NumbersBySteps
  <1> QED
    BY <1>3 DEF M

---------------------------------------------------------------------------
(* Replace *)

\* A pair a, b ends at i.
PairAt(s, a, b, i) == i > 1 /\ s[i - 1] = a /\ s[i] = b

Back(s, a, b) == [i \in 1..Len(s) |-> IF PairAt(s, a, b, i) THEN 2 ELSE 1]
Add(s, a, b, new) == [i \in 1..Len(s) |-> IF PairAt(s, a, b, i) THEN <<new>> ELSE <<s[i]>>]

LEMMA BackFits ==
    ASSUME NEW s, Len(s) \in Nat, NEW a, NEW b
    PROVE  \A i \in 1..Len(s) : Back(s, a, b)[i] \in 1..i
  BY DEF Back, PairAt

LEMMA ReplaceBuilds ==
    ASSUME NEW s, Len(s) \in Nat, NEW a, NEW b, NEW new
    PROVE  \E f : Builds(f, Back(s, a, b), Add(s, a, b, new), Len(s)) /\ Replace(s, a, b, new) = f[Len(s)]
  <1>1. PICK n \in Nat : n = Len(s)
    OBVIOUS
  <1>2. PICK back : back = Back(s, a, b)
    OBVIOUS
  <1>3. PICK add : add = Add(s, a, b, new)
    OBVIOUS
  <1>4. PICK f : Builds(f, back, add, n)
    BY <1>1, <1>2, BackFits, Building
  <1> DEFINE e(h, i) == IF i = 0 THEN <<>>
                        ELSE IF i > 1 /\ s[i - 1] = a /\ s[i] = b THEN h[i - 2] \o <<new>>
                        ELSE h[i - 1] \o <<s[i]>>
             Is(h) == h = [i \in 0..n |-> e(h, i)]
             done == CHOOSE h : Is(h)
  <1>5. ASSUME NEW h, NEW i \in 1..n PROVE e(h, i) = h[i - back[i]] \o add[i]
    <2>1. /\ back[i] = IF PairAt(s, a, b, i) THEN 2 ELSE 1
          /\ add[i] = IF PairAt(s, a, b, i) THEN <<new>> ELSE <<s[i]>>
      BY <1>1, <1>2, <1>3 DEF Back, Add
    <2>2. i # 0
      OBVIOUS
    <2> QED
      BY <2>1, <2>2 DEF PairAt
  <1>6. \A h : e(h, 0) = <<>>
    OBVIOUS
  <1>7. Replace(s, a, b, new) = done[n]
    BY <1>1 DEF Replace
  <1> HIDE DEF e
  <1>8. Is(f)
    <2>1. ASSUME NEW i \in 0..n PROVE f[i] = e(f, i)
      <3>1. CASE i = 0
        BY <1>4, <1>6, <3>1 DEF Builds
      <3>2. CASE i # 0
        <4>1. i \in 1..n
          BY <3>2
        <4> QED
          BY <1>4, <1>5, <4>1 DEF Builds
      <3> QED
        BY <3>1, <3>2
    <2>2. DOMAIN f = 0..n /\ f = [i \in DOMAIN f |-> f[i]]
      <3>1. PICK d : d = 0..n
        OBVIOUS
      <3> QED
        BY <1>4 DEF Builds
    <2> QED
      BY <2>1, <2>2
  <1>9. Is(done)
    <2> HIDE DEF Is
    <2> QED
      BY <1>8
  <1>10. done = [i \in 0..n |-> e(done, i)]
    BY <1>9
  <1> HIDE DEF Is, done
  <1>11. DOMAIN done = 0..n /\ \A i \in 0..n : done[i] = e(done, i)
    BY <1>10
  <1>12. Builds(done, back, add, n)
    <2>1. \A i \in 1..n : done[i] = done[i - back[i]] \o add[i]
      BY <1>5, <1>11
    <2>2. done[0] = <<>>
      BY <1>6, <1>11
    <2> QED
      BY <1>11, <2>1, <2>2 DEF Builds
  <1> QED
    BY <1>1, <1>2, <1>3, <1>7, <1>12

LEMMA ReplaceEmpty ==
    ASSUME NEW a, NEW b, NEW new
    PROVE  Replace(<<>>, a, b, new) = <<>>
  <1>1. PICK s : s = <<>>
    OBVIOUS
  <1>2. Len(s) = 0
    BY <1>1
  <1>3. PICK f : Builds(f, Back(s, a, b), Add(s, a, b, new), Len(s)) /\ Replace(s, a, b, new) = f[Len(s)]
    BY <1>2, ReplaceBuilds
  <1> QED
    BY <1>1, <1>2, <1>3 DEF Builds

\* One character more, which ends no pair.
LEMMA ReplaceAppend ==
    ASSUME NEW S, NEW s \in Seq(S), NEW x \in S, NEW a, NEW b, NEW new, ~(s # <<>> /\ Last(s) = a /\ x = b)
    PROVE  Replace(Append(s, x), a, b, new) = Replace(s, a, b, new) \o <<x>>
  <1>1. PICK n \in Nat : n = Len(s)
    OBVIOUS
  <1>2. PICK t : t = Append(s, x)
    OBVIOUS
  <1>3. t \in Seq(S) /\ Len(t) = n + 1 /\ t[n + 1] = x /\ \A i \in 1..n : t[i] = s[i]
    BY <1>1, <1>2, AppendProperties
  <1>4. \A i \in 1..n : PairAt(t, a, b, i) <=> PairAt(s, a, b, i)
    BY <1>3 DEF PairAt
  <1>5. ~PairAt(t, a, b, n + 1)
    <2> SUFFICES ASSUME n + 1 > 1, t[(n + 1) - 1] = a, x = b PROVE FALSE
      BY <1>3 DEF PairAt
    <2>1. n \in 1..n /\ (n + 1) - 1 = n
      OBVIOUS
    <2>2. s # <<>> /\ Last(s) = a
      BY <1>1, <1>3, <2>1, EmptySeq DEF Last
    <2> QED
      BY <2>2
  <1>6. PICK f : Builds(f, Back(s, a, b), Add(s, a, b, new), n) /\ Replace(s, a, b, new) = f[n]
    BY <1>1, ReplaceBuilds
  <1>7. PICK g : Builds(g, Back(t, a, b), Add(t, a, b, new), n + 1) /\ Replace(t, a, b, new) = g[n + 1]
    BY <1>3, ReplaceBuilds
  <1>8. g[n + 1] = g[n] \o <<x>>
    <2>1. n + 1 \in 1..(n + 1) /\ (n + 1) - 1 = n
      OBVIOUS
    <2>2. Back(t, a, b)[n + 1] = 1 /\ Add(t, a, b, new)[n + 1] = <<x>>
      BY <1>3, <1>5, <2>1 DEF Back, Add
    <2> QED
      BY <1>7, <2>1, <2>2 DEF Builds
  <1>9. f[n] = g[n]
    <2>1. \A i \in 1..n : Back(s, a, b)[i] \in 1..i
      BY <1>1, BackFits
    <2>2. \A i \in 1..n : Back(t, a, b)[i] = Back(s, a, b)[i] /\ Add(t, a, b, new)[i] = Add(s, a, b, new)[i]
      BY <1>1, <1>3, <1>4 DEF Back, Add
    <2>3. n + 1 \in Nat /\ n <= n + 1
      OBVIOUS
    <2> QED
      BY <1>6, <1>7, <2>1, <2>2, <2>3, BuiltOnce
  <1> QED
    BY <1>2, <1>6, <1>7, <1>8, <1>9

\* A pair more
LEMMA ReplacePair ==
    ASSUME NEW S, NEW s \in Seq(S), NEW a \in S, NEW b \in S, NEW new
    PROVE  Replace(Append(Append(s, a), b), a, b, new) = Replace(s, a, b, new) \o <<new>>
  <1>1. PICK n \in Nat : n = Len(s)
    OBVIOUS
  <1>2. PICK t : t = Append(Append(s, a), b)
    OBVIOUS
  <1>3. t \in Seq(S) /\ Len(t) = n + 2 /\ t[n + 1] = a /\ t[n + 2] = b /\ \A i \in 1..n : t[i] = s[i]
    <2>1. PICK r : r = Append(s, a)
      OBVIOUS
    <2>2. r \in Seq(S) /\ Len(r) = n + 1 /\ r[n + 1] = a /\ \A i \in 1..n : r[i] = s[i]
      BY <1>1, <2>1, AppendProperties
    <2>3. t = Append(r, b)
      BY <1>2, <2>1
    <2>4. t \in Seq(S) /\ Len(t) = (n + 1) + 1 /\ t[(n + 1) + 1] = b /\ \A i \in 1..(n + 1) : t[i] = r[i]
      BY <2>2, <2>3, AppendProperties
    <2>5. (n + 1) + 1 = n + 2 /\ n + 1 \in 1..(n + 1) /\ 1..n \subseteq 1..(n + 1)
      OBVIOUS
    <2> QED
      BY <2>2, <2>4, <2>5
  <1>4. \A i \in 1..n : PairAt(t, a, b, i) <=> PairAt(s, a, b, i)
    BY <1>3 DEF PairAt
  <1>5. PairAt(t, a, b, n + 2)
    <2>1. n + 2 > 1 /\ (n + 2) - 1 = n + 1
      OBVIOUS
    <2> QED
      BY <1>3, <2>1 DEF PairAt
  <1>6. PICK f : Builds(f, Back(s, a, b), Add(s, a, b, new), n) /\ Replace(s, a, b, new) = f[n]
    BY <1>1, ReplaceBuilds
  <1>7. PICK g : Builds(g, Back(t, a, b), Add(t, a, b, new), n + 2) /\ Replace(t, a, b, new) = g[n + 2]
    BY <1>3, ReplaceBuilds
  <1>8. g[n + 2] = g[n] \o <<new>>
    <2>1. n + 2 \in 1..(n + 2) /\ (n + 2) - 2 = n
      OBVIOUS
    <2>2. Back(t, a, b)[n + 2] = 2 /\ Add(t, a, b, new)[n + 2] = <<new>>
      BY <1>3, <1>5, <2>1 DEF Back, Add
    <2> QED
      BY <1>7, <2>1, <2>2 DEF Builds
  <1>9. f[n] = g[n]
    <2>1. \A i \in 1..n : Back(s, a, b)[i] \in 1..i
      BY <1>1, BackFits
    <2>2. \A i \in 1..n : Back(t, a, b)[i] = Back(s, a, b)[i] /\ Add(t, a, b, new)[i] = Add(s, a, b, new)[i]
      BY <1>1, <1>3, <1>4 DEF Back, Add
    <2>3. n + 2 \in Nat /\ n <= n + 2
      OBVIOUS
    <2> QED
      BY <1>6, <1>7, <2>1, <2>2, <2>3, BuiltOnce
  <1> QED
    BY <1>2, <1>6, <1>7, <1>8, <1>9

---------------------------------------------------------------------------
(* Escape *)

Single(name) == [i \in 1..Len(name) |-> 1]
Codes(name) == [i \in 1..Len(name) |-> Escaped(name[i])]

LEMMA EscapeBuilds ==
    ASSUME NEW s, Len(s) \in Nat
    PROVE  \E f : Builds(f, Single(s), Codes(s), Len(s)) /\ Escape(s) = f[Len(s)]
  <1>1. PICK n \in Nat : n = Len(s)
    OBVIOUS
  <1>2. PICK back : back = Single(s)
    OBVIOUS
  <1>3. PICK add : add = Codes(s)
    OBVIOUS
  <1>4. \A i \in 1..n : back[i] = 1 /\ add[i] = Escaped(s[i])
    BY <1>1, <1>2, <1>3 DEF Single, Codes
  <1>5. PICK f : Builds(f, back, add, n)
    <2>1. \A i \in 1..n : back[i] \in 1..i
      BY <1>4
    <2> QED
      BY <2>1, Building
  <1> DEFINE e(h, i) == IF i = 0 THEN <<>> ELSE h[i - 1] \o Escaped(s[i])
             Is(h) == h = [i \in 0..n |-> e(h, i)]
             escaped == CHOOSE h : Is(h)
  <1>6. ASSUME NEW h, NEW i \in 1..n PROVE e(h, i) = h[i - back[i]] \o add[i]
    <2>1. i # 0
      OBVIOUS
    <2> QED
      BY <1>4, <2>1
  <1>7. \A h : e(h, 0) = <<>>
    OBVIOUS
  <1>8. Escape(s) = escaped[n]
    BY <1>1 DEF Escape
  <1> HIDE DEF e
  <1>9. Is(f)
    <2>1. ASSUME NEW i \in 0..n PROVE f[i] = e(f, i)
      <3>1. CASE i = 0
        BY <1>5, <1>7, <3>1 DEF Builds
      <3>2. CASE i # 0
        <4>1. i \in 1..n
          BY <3>2
        <4> QED
          BY <1>5, <1>6, <4>1 DEF Builds
      <3> QED
        BY <3>1, <3>2
    <2>2. DOMAIN f = 0..n /\ f = [i \in DOMAIN f |-> f[i]]
      <3>1. PICK d : d = 0..n
        OBVIOUS
      <3> QED
        BY <1>5 DEF Builds
    <2> QED
      BY <2>1, <2>2
  <1>10. Is(escaped)
    <2> HIDE DEF Is
    <2> QED
      BY <1>9
  <1>11. escaped = [i \in 0..n |-> e(escaped, i)]
    BY <1>10
  <1> HIDE DEF Is, escaped
  <1>12. DOMAIN escaped = 0..n /\ \A i \in 0..n : escaped[i] = e(escaped, i)
    BY <1>11
  <1>13. Builds(escaped, back, add, n)
    <2>1. \A i \in 1..n : escaped[i] = escaped[i - back[i]] \o add[i]
      BY <1>6, <1>12
    <2>2. escaped[0] = <<>>
      BY <1>7, <1>12
    <2> QED
      BY <1>12, <2>1, <2>2 DEF Builds
  <1> QED
    BY <1>1, <1>2, <1>3, <1>8, <1>13

LEMMA EscapeEmpty == Escape(<<>>) = <<>>
  <1>1. Len(<<>>) = 0
    OBVIOUS
  <1> QED
    BY <1>1, EscapeBuilds DEF Builds

LEMMA EscapeAppend ==
    ASSUME NEW S, NEW s \in Seq(S), NEW x \in S
    PROVE  Escape(Append(s, x)) = Escape(s) \o Escaped(x)
  <1>1. PICK n \in Nat : n = Len(s)
    OBVIOUS
  <1>2. PICK t : t = Append(s, x)
    OBVIOUS
  <1>3. t \in Seq(S) /\ Len(t) = n + 1 /\ t[n + 1] = x /\ \A i \in 1..n : t[i] = s[i]
    BY <1>1, <1>2, AppendProperties
  <1>4. PICK f : Builds(f, Single(s), Codes(s), n) /\ Escape(s) = f[n]
    BY <1>1, EscapeBuilds
  <1>5. PICK g : Builds(g, Single(t), Codes(t), n + 1) /\ Escape(t) = g[n + 1]
    BY <1>3, EscapeBuilds
  <1>6. g[n + 1] = g[n] \o Escaped(x)
    <2>1. n + 1 \in 1..(n + 1) /\ (n + 1) - 1 = n
      OBVIOUS
    <2>2. Single(t)[n + 1] = 1 /\ Codes(t)[n + 1] = Escaped(x)
      BY <1>3, <2>1 DEF Single, Codes
    <2> QED
      BY <1>5, <2>1, <2>2 DEF Builds
  <1>7. f[n] = g[n]
    <2>1. \A i \in 1..n : Single(s)[i] \in 1..i
      BY <1>1 DEF Single
    <2>2. \A i \in 1..n : Single(t)[i] = Single(s)[i] /\ Codes(t)[i] = Codes(s)[i]
      BY <1>1, <1>3 DEF Single, Codes
    <2>3. n + 1 \in Nat /\ n <= n + 1
      OBVIOUS
    <2> QED
      BY <1>4, <1>5, <2>1, <2>2, <2>3, BuiltOnce
  <1> QED
    BY <1>2, <1>4, <1>5, <1>6, <1>7

---------------------------------------------------------------------------
(* To unescape is the inverse of to escape. *)

\* No pair begins with the last character.
Closed(s) == s # <<>> => Last(s) # "~"

\* What becomes of a name on the way to its token and back
Returns(name) ==
    LET token == Escape(name)
        half == Replace(token, "~", "1", "/")
    IN  /\ token \in Strings /\ Closed(token)
        /\ half \in Strings /\ Closed(half)
        /\ Replace(half, "~", "0", "~") = name

LEMMA OneMore ==
    ASSUME NEW S, NEW s \in Seq(S), NEW x \in S
    PROVE  /\ s \o <<x>> = Append(s, x)
           /\ Append(s, x) \in Seq(S) /\ Append(s, x) # <<>> /\ Last(Append(s, x)) = x
  <1>1. /\ Append(s, x) \in Seq(S) /\ Len(Append(s, x)) = Len(s) + 1
        /\ Append(s, x)[Len(s) + 1] = x
    BY AppendProperties
  <1>2. Len(s) \in Nat
    OBVIOUS
  <1>3. Append(s, x) # <<>>
    BY <1>1, <1>2, EmptySeq
  <1>4. s \o <<x>> = Append(s, x)
    BY AppendIsConcat
  <1> QED
    BY <1>1, <1>3, <1>4 DEF Last

LEMMA ClosedMore ==
    ASSUME NEW S, NEW s \in Seq(S), NEW x \in S, x # "~"
    PROVE  Append(s, x) \in Seq(S) /\ Closed(Append(s, x))
  BY OneMore DEF Closed

LEMMA ReplaceNext ==
    ASSUME NEW S, NEW s \in Seq(S), NEW x \in S, NEW a, NEW b, NEW new, ~(s # <<>> /\ Last(s) = a /\ x = b),
           NEW done \in Seq(S), Replace(s, a, b, new) = done
    PROVE  Replace(Append(s, x), a, b, new) = Append(done, x)
  <1>1. Replace(Append(s, x), a, b, new) = done \o <<x>>
    BY ReplaceAppend
  <1> QED
    BY <1>1, OneMore

\* A pair of characters, one after the other
LEMMA TwoMore ==
    ASSUME NEW S, NEW s \in Seq(S), NEW x \in S, NEW y \in S
    PROVE  s \o <<x, y>> = Append(Append(s, x), y)
  <1>1. <<x, y>> \in Seq(S) /\ <<x>> \in Seq(S) /\ <<y>> \in Seq(S) /\ <<x, y>> = Append(<<x>>, y)
    OBVIOUS
  <1>4. <<x, y>> = <<x>> \o <<y>>
    BY <1>1, AppendIsConcat
  <1>2. s \o (<<x>> \o <<y>>) = (s \o <<x>>) \o <<y>>
    BY <1>1, ConcatAssociative
  <1>3. Append(s, x) \in Seq(S)
    BY OneMore
  <1> QED
    BY <1>2, <1>3, <1>4, OneMore

LEMMA ReturnsOneMore ==
    ASSUME {"~", "/", "0", "1"} \subseteq Characters, NEW name \in Strings, NEW c \in Characters, Returns(name)
    PROVE  Returns(Append(name, c))
  <1>1. PICK token : token = Escape(name)
    OBVIOUS
  <1>2. PICK half : half = Replace(token, "~", "1", "/")
    OBVIOUS
  <1>3. /\ token \in Seq(Characters) /\ Closed(token)
        /\ half \in Seq(Characters) /\ Closed(half)
        /\ Replace(half, "~", "0", "~") = name
    BY <1>1, <1>2 DEF Returns, Strings
  <1>4. name \in Seq(Characters) /\ Append(name, c) \in Seq(Characters)
    BY OneMore DEF Strings
  <1>5. PICK longer : longer = Escape(Append(name, c))
    OBVIOUS
  <1>6. longer = token \o Escaped(c)
    BY <1>1, <1>4, <1>5, EscapeAppend
  <1>7. ASSUME NEW more, longer \in Seq(Characters), Closed(longer), more = Replace(longer, "~", "1", "/"),
               more \in Seq(Characters), Closed(more), Replace(more, "~", "0", "~") = Append(name, c)
        PROVE  Returns(Append(name, c))
    BY <1>5, <1>7 DEF Returns, Strings
  <1>8. CASE c = "~"
    <2>1. longer = Append(Append(token, "~"), "0")
      BY <1>3, <1>6, <1>8, TwoMore DEF Escaped
    <2>2. Append(token, "~") \in Seq(Characters) /\ Append(half, "~") \in Seq(Characters)
      BY <1>3, OneMore
    <2>3. Replace(Append(token, "~"), "~", "1", "/") = Append(half, "~")
      BY <1>2, <1>3, ReplaceNext
    <2>4. Replace(longer, "~", "1", "/") = Append(Append(half, "~"), "0")
      <3>1. PICK s \in Seq(Characters), done \in Seq(Characters) : s = Append(token, "~") /\ done = Append(half, "~")
        BY <2>2
      <3>2. Replace(s, "~", "1", "/") = done /\ "0" # "1"
        BY <2>3, <3>1
      <3>3. Replace(Append(s, "0"), "~", "1", "/") = Append(done, "0")
        BY <3>2, ReplaceNext
      <3> QED
        BY <2>1, <3>1, <3>3
    <2>5. Replace(Append(Append(half, "~"), "0"), "~", "0", "~") = Append(name, c)
      <3>1. Replace(Append(Append(half, "~"), "0"), "~", "0", "~") = name \o <<"~">>
        BY <1>3, ReplacePair
      <3> QED
        BY <1>4, <1>8, <3>1, OneMore
    <2>6. /\ longer \in Seq(Characters) /\ Closed(longer)
          /\ Append(Append(half, "~"), "0") \in Seq(Characters) /\ Closed(Append(Append(half, "~"), "0"))
      BY <2>1, <2>2, ClosedMore
    <2> QED
      BY <1>7, <2>4, <2>5, <2>6
  <1>9. CASE c = "/"
    <2>1. longer = Append(Append(token, "~"), "1")
      BY <1>3, <1>6, <1>9, TwoMore DEF Escaped
    <2>2. Replace(longer, "~", "1", "/") = Append(half, "/")
      <3>1. Replace(longer, "~", "1", "/") = half \o <<"/">>
        BY <1>2, <1>3, <2>1, ReplacePair
      <3> QED
        BY <1>3, <3>1, OneMore
    <2>3. Replace(Append(half, "/"), "~", "0", "~") = Append(name, c)
      BY <1>3, <1>4, <1>9, ReplaceNext
    <2>4. longer \in Seq(Characters) /\ Closed(longer)
      <3>1. Append(token, "~") \in Seq(Characters)
        BY <1>3, OneMore
      <3> QED
        BY <2>1, <3>1, ClosedMore
    <2>5. Append(half, "/") \in Seq(Characters) /\ Closed(Append(half, "/"))
      BY <1>3, ClosedMore
    <2> QED
      BY <1>7, <2>2, <2>3, <2>4, <2>5
  <1>10. CASE c # "~" /\ c # "/"
    <2>1. longer = Append(token, c)
      BY <1>3, <1>6, <1>10, OneMore DEF Escaped
    <2>2. Replace(longer, "~", "1", "/") = Append(half, c)
      BY <1>2, <1>3, <1>10, <2>1, ReplaceNext DEF Closed
    <2>3. Replace(Append(half, c), "~", "0", "~") = Append(name, c)
      BY <1>3, <1>4, <1>10, ReplaceNext DEF Closed
    <2>4. longer \in Seq(Characters) /\ Closed(longer) /\ Append(half, c) \in Seq(Characters) /\ Closed(Append(half, c))
      BY <1>3, <1>10, <2>1, ClosedMore
    <2> QED
      BY <1>7, <2>2, <2>3, <2>4
  <1> QED
    BY <1>8, <1>9, <1>10

\* Whatever the characters of a name, its token is read as that name (pointer's replacements).
THEOREM EscapedReturns ==
    ASSUME {"~", "/", "0", "1"} \subseteq Characters, NEW name \in Strings
    PROVE  Escape(name) \in Strings /\ Unescape(Escape(name)) = name
  <1> DEFINE T == {s \in Seq(Characters) : Returns(s)}
  <1>1. <<>> \in T
    BY EscapeEmpty, ReplaceEmpty, EmptySeq DEF Returns, Closed, Strings
  <1>2. ASSUME NEW s \in Seq(Characters), NEW c \in Characters, s \in T PROVE Append(s, c) \in T
    <2>1. Append(s, c) \in Seq(Characters)
      BY OneMore
    <2>2. Returns(Append(s, c))
      BY <1>2, ReturnsOneMore DEF Strings
    <2> QED
      BY <2>1, <2>2
  <1> HIDE DEF T
  <1>3. \A s \in Seq(Characters) : s \in T
    BY <1>1, <1>2, SequencesBySteps
  <1> QED
    BY <1>3 DEF T, Returns, Unescape, Strings

LEMMA WellFormedShorter ==
    ASSUME NEW S, NEW s \in Seq(S), NEW x \in S, WellFormed(Append(s, x)), Closed(s) \/ x \notin {"0", "1"}
    PROVE  x # "~" /\ Closed(s) /\ WellFormed(s)
  <1>1. PICK n \in Nat : n = Len(s)
    OBVIOUS
  <1>2. PICK t \in Seq(S) : t = Append(s, x)
    BY OneMore
  <1>3. Len(t) = n + 1 /\ DOMAIN t = 1..(n + 1) /\ t[n + 1] = x /\ (\A i \in 1..n : t[i] = s[i]) /\ DOMAIN s = 1..n
    BY <1>1, <1>2, AppendProperties, LenProperties
  <1>4. \A i \in 1..(n + 1) : t[i] = "~" => i < n + 1 /\ t[i + 1] \in {"0", "1"}
    BY <1>2, <1>3 DEF WellFormed
  <1>5. x # "~"
    BY <1>3, <1>4
  <1>6. Closed(s)
    <2> SUFFICES ASSUME s # <<>>, s[n] = "~", x \notin {"0", "1"} PROVE FALSE
      BY <1>1 DEF Closed, Last
    <2>1. n \in 1..n
      BY <1>1, EmptySeq
    <2> QED
      BY <1>3, <1>4, <2>1
  <1>7. ASSUME NEW i \in 1..n, s[i] = "~" PROVE i < n /\ s[i + 1] \in {"0", "1"}
    <2>1. t[i] = "~" /\ i \in 1..(n + 1)
      BY <1>3, <1>7
    <2>2. t[i + 1] \in {"0", "1"}
      BY <1>4, <2>1
    <2>3. i # n
      <3> SUFFICES ASSUME i = n PROVE FALSE
        OBVIOUS
      <3>1. s # <<>> /\ s[n] = "~"
        BY <1>1, <1>7, EmptySeq
      <3> QED
        BY <1>1, <1>6, <3>1 DEF Closed, Last
    <2>4. i < n /\ i + 1 \in 1..n
      BY <2>3
    <2> QED
      BY <1>3, <2>2, <2>4
  <1> QED
    BY <1>1, <1>3, <1>5, <1>6, <1>7 DEF WellFormed

\* A token that ends with ~0 or ~1
LEMMA WellFormedPair ==
    ASSUME NEW S, NEW s \in Seq(S), NEW x \in S, "~" \in S, WellFormed(Append(Append(s, "~"), x))
    PROVE  x \in {"0", "1"} /\ WellFormed(s)
  <1>1. PICK n \in Nat : n = Len(s)
    OBVIOUS
  <1>2. PICK r \in Seq(S) : r = Append(s, "~")
    BY OneMore
  <1>3. Len(r) = n + 1 /\ r[n + 1] = "~" /\ \A i \in 1..n : r[i] = s[i]
    BY <1>1, <1>2, AppendProperties
  <1>4. PICK t \in Seq(S) : t = Append(r, x)
    BY OneMore
  <1>5. Len(t) = n + 2 /\ t[n + 2] = x /\ \A i \in 1..(n + 1) : t[i] = r[i]
    <2>1. Len(t) = (n + 1) + 1 /\ t[(n + 1) + 1] = x /\ \A i \in 1..(n + 1) : t[i] = r[i]
      BY <1>3, <1>4, AppendProperties
    <2>2. (n + 1) + 1 = n + 2
      OBVIOUS
    <2> QED
      BY <2>1, <2>2
  <1>6. DOMAIN t = 1..(n + 2) /\ DOMAIN s = 1..n
    BY <1>1, <1>5, LenProperties
  <1>7. \A i \in 1..(n + 2) : t[i] = "~" => t[i + 1] \in {"0", "1"}
    BY <1>2, <1>4, <1>6 DEF WellFormed
  <1>8. x \in {"0", "1"}
    <2>1. n + 1 \in 1..(n + 2) /\ n + 1 \in 1..(n + 1) /\ (n + 1) + 1 = n + 2
      OBVIOUS
    <2> QED
      BY <1>3, <1>5, <1>7, <2>1
  <1>9. ASSUME NEW i \in 1..n, s[i] = "~" PROVE i < n /\ s[i + 1] \in {"0", "1"}
    <2>1. i \in 1..(n + 1) /\ i \in 1..(n + 2) /\ i + 1 \in 1..(n + 1)
      OBVIOUS
    <2>2. t[i] = "~" /\ t[i + 1] = r[i + 1]
      BY <1>3, <1>5, <1>9, <2>1
    <2>3. r[i + 1] \in {"0", "1"}
      BY <1>7, <2>1, <2>2
    <2>4. i # n
      BY <1>3, <2>3
    <2>5. i + 1 \in 1..n
      BY <2>4
    <2> QED
      BY <1>3, <2>3, <2>5
  <1> QED
    BY <1>1, <1>6, <1>8, <1>9 DEF WellFormed

LEMMA RangeAppend ==
    ASSUME NEW S, NEW s \in Seq(S), NEW x \in S, NEW c, c \notin Range(Append(s, x))
    PROVE  x # c /\ c \notin Range(s)
  <1>1. PICK n \in Nat : n = Len(s)
    OBVIOUS
  <1>2. PICK t \in Seq(S) : t = Append(s, x)
    BY OneMore
  <1>3. Len(t) = n + 1 /\ DOMAIN t = 1..(n + 1) /\ t[n + 1] = x /\ (\A i \in 1..n : t[i] = s[i]) /\ DOMAIN s = 1..n
    BY <1>1, <1>2, AppendProperties, LenProperties
  <1>4. \A i \in 1..(n + 1) : t[i] # c
    BY <1>2, <1>3 DEF Range
  <1> QED
    BY <1>3, <1>4 DEF Range

\* Every token that a pointer may have is that of a name.
LEMMA HasName ==
    ASSUME {"~", "/", "0", "1"} \subseteq Characters, NEW token \in Strings, WellFormed(token), "/" \notin Range(token)
    PROVE  \E name \in Strings : token = Escape(name)
  <1> DEFINE Named(t) == \E name \in Seq(Characters) : t = Escape(name)
             N == {n \in Nat : \A t \in Seq(Characters) : Len(t) <= n /\ WellFormed(t) /\ "/" \notin Range(t) => Named(t)}
  <1>1. 0 \in N
    <2> SUFFICES ASSUME NEW t \in Seq(Characters), Len(t) <= 0 PROVE Named(t)
      OBVIOUS
    <2>1. t = <<>>
      BY EmptySeq
    <2> QED
      BY <2>1, EscapeEmpty, EmptySeq
  <1>2. ASSUME NEW n \in Nat, n \in N PROVE n + 1 \in N
    <2> SUFFICES ASSUME NEW t \in Seq(Characters), Len(t) <= n + 1, WellFormed(t), "/" \notin Range(t) PROVE Named(t)
      OBVIOUS
    <2>1. ASSUME NEW s \in Seq(Characters), Len(s) <= n, WellFormed(s), "/" \notin Range(s) PROVE Named(s)
      BY <1>2, <2>1
    <2> HIDE DEF N
    <2>2. CASE t = <<>>
      BY <2>2, EscapeEmpty, EmptySeq
    <2>3. CASE t # <<>>
      <3>1. PICK s \in Seq(Characters), x \in Characters : t = Append(s, x)
        BY <2>3, SequenceEmptyOrAppend
      <3>2. Len(s) \in Nat /\ Len(t) = Len(s) + 1
        BY <3>1, AppendProperties, LenProperties
      <3>3. Len(s) <= n /\ x # "/" /\ "/" \notin Range(s)
        BY <3>1, <3>2, RangeAppend
      <3>4. CASE Closed(s) \/ x \notin {"0", "1"}
        <4>1. x # "~" /\ WellFormed(s)
          BY <3>1, <3>4, WellFormedShorter
        <4>2. PICK name \in Seq(Characters) : s = Escape(name)
          BY <2>1, <3>3, <4>1
        <4>3. Escape(Append(name, x)) = s \o <<x>>
          BY <3>3, <4>1, <4>2, EscapeAppend DEF Escaped
        <4>4. t = Escape(Append(name, x)) /\ Append(name, x) \in Seq(Characters)
          BY <3>1, <4>3, OneMore
        <4> QED
          BY <4>4
      <3>5. CASE ~Closed(s)
        <4>1. s # <<>> /\ Last(s) = "~"
          BY <3>5 DEF Closed
        <4>2. PICK r \in Seq(Characters), y \in Characters : s = Append(r, y)
          BY <4>1, SequenceEmptyOrAppend
        <4>3. y = "~"
          BY <4>1, <4>2, OneMore
        <4>4. Len(r) \in Nat /\ Len(s) = Len(r) + 1
          BY <4>2, AppendProperties, LenProperties
        <4>5. Len(r) <= n /\ "/" \notin Range(r)
          BY <3>2, <3>3, <4>2, <4>4, RangeAppend
        <4>6. t = Append(Append(r, "~"), x)
          BY <3>1, <4>2, <4>3
        <4>7. x \in {"0", "1"} /\ WellFormed(r)
          BY <4>6, WellFormedPair
        <4>8. PICK name \in Seq(Characters) : r = Escape(name)
          BY <2>1, <4>5, <4>7
        <4>9. r \o <<"~", x>> = t
          BY <4>6, TwoMore
        <4>10. CASE x = "0"
          <5>1. Escape(Append(name, "~")) = t /\ Append(name, "~") \in Seq(Characters)
            BY <4>8, <4>9, <4>10, EscapeAppend, OneMore DEF Escaped
          <5> QED
            BY <5>1
        <4>11. CASE x = "1"
          <5>1. Escape(Append(name, "/")) = t /\ Append(name, "/") \in Seq(Characters)
            BY <4>8, <4>9, <4>11, EscapeAppend, OneMore DEF Escaped
          <5> QED
            BY <5>1
        <4> QED
          BY <4>7, <4>10, <4>11
      <3> QED
        BY <3>4, <3>5
    <2> QED
      BY <2>2, <2>3
  <1> HIDE DEF N
  <1>3. \A n \in Nat : n \in N
    BY <1>1, <1>2, NumbersBySteps
  <1>4. PICK n \in Nat : n = Len(token)
    BY DEF Strings
  <1>5. n \in N
    BY <1>3
  <1> QED
    BY <1>4, <1>5 DEF N, Strings

\* The name that pointer() reads is the one the token is for.
LEMMA UnescapeInverts ==
    ASSUME {"~", "/", "0", "1"} \subseteq Characters, NEW token \in Strings, WellFormed(token), "/" \notin Range(token)
    PROVE  Unescape(token) \in Strings /\ Escape(Unescape(token)) = token
  BY HasName, EscapedReturns

LEMMA IndexIsName ==
    ASSUME NEW token \in Strings, IsIndex(token)
    PROVE  IndexOf(token) = token
  <1>1. PICK zeros : zeros = {i \in 1..(Len(token) - 1) : \A j \in 1..i : token[j] = "0"}
    OBVIOUS
  <1>2. zeros = {}
    <2>1. CASE token = <<"0">>
      <3> SUFFICES ASSUME NEW i \in zeros PROVE FALSE
        OBVIOUS
      <3>1. Len(token) = 1
        BY <2>1
      <3>2. i \in 1..(1 - 1)
        BY <1>1, <3>1
      <3> QED
        BY <3>2
    <2>2. CASE token[1] # "0"
      <3> SUFFICES ASSUME NEW i \in zeros PROVE FALSE
        OBVIOUS
      <3>1. Len(token) \in Nat
        BY DEF Strings
      <3>2. 1 \in 1..i
        BY <1>1, <3>1
      <3> QED
        BY <1>1, <2>2, <3>2
    <2> QED
      BY <2>1, <2>2 DEF IsIndex
  <1>3. Cardinality(zeros) = 0
    BY <1>2, FS_EmptySet
  <1>4. IndexOf(token) = SubSeq(token, 1, Len(token))
    <2>1. IndexOf(token) = SubSeq(token, 1 + Cardinality(zeros), Len(token))
      BY <1>1 DEF IndexOf
    <2>2. 1 + Cardinality(zeros) = 1
      BY <1>3
    <2> QED
      BY <2>1, <2>2
  <1> QED
    BY <1>4, SubSeqFull DEF Strings

---------------------------------------------------------------------------
(* Places and what they are in a pointer *)

LEMMA Beginning ==
    ASSUME NEW S, NEW p \in Seq(S), NEW k \in 0..Len(p)
    PROVE  SubSeq(p, 1, k) \in Seq(S) /\ Len(SubSeq(p, 1, k)) = k /\ \A i \in 1..k : SubSeq(p, 1, k)[i] = p[i]
  <1>1. Len(p) \in Nat /\ \A i \in 1..k : p[i] \in S
    BY LenProperties, ElementOfSeq
  <1>2. /\ SubSeq(p, 1, k) \in Seq(S) /\ Len(SubSeq(p, 1, k)) = IF 1 <= k THEN k - 1 + 1 ELSE 0
        /\ \A i \in 1..(k - 1 + 1) : SubSeq(p, 1, k)[i] = p[1 + i - 1]
    BY <1>1, SubSeqProperties
  <1> QED
    BY <1>1, <1>2

LEMMA WithoutLast ==
    ASSUME NEW S, NEW s \in Seq(S), NEW x \in S
    PROVE  Front(Append(s, x)) = s
  <1>1. PICK n \in Nat : n = Len(s)
    OBVIOUS
  <1>2. PICK t \in Seq(S) : t = Append(s, x)
    BY OneMore
  <1>3. Len(t) = n + 1 /\ \A i \in 1..n : t[i] = s[i]
    BY <1>1, <1>2, AppendProperties
  <1>4. n \in 0..Len(t)
    BY <1>3
  <1>5. SubSeq(t, 1, n) \in Seq(S) /\ Len(SubSeq(t, 1, n)) = n /\ \A i \in 1..n : SubSeq(t, 1, n)[i] = t[i]
    BY <1>4, Beginning
  <1>6. SubSeq(t, 1, n) = s
    BY <1>1, <1>3, <1>5, SeqEqual
  <1>7. Len(t) - 1 = n
    BY <1>3
  <1> QED
    BY <1>2, <1>6, <1>7 DEF Front

\* What is on the way to a place is a place.
LEMMA WayThere ==
    ASSUME NEW v, Json(v), NEW p \in DOMAIN v, NEW k \in 0..Len(p)
    PROVE  SubSeq(p, 1, k) \in DOMAIN v
  <1>1. p \in Seq(Strings)
    BY DEF Json
  <1>2. PICK n \in Nat : n = Len(p)
    BY <1>1
  <1> DEFINE D == {d \in Nat : d <= n => SubSeq(p, 1, n - d) \in DOMAIN v}
  <1>3. 0 \in D
    <2>1. SubSeq(p, 1, n) = p
      BY <1>1, <1>2, SubSeqFull
    <2>2. n - 0 = n
      OBVIOUS
    <2> QED
      BY <2>1, <2>2
  <1>4. ASSUME NEW d \in Nat, d \in D PROVE d + 1 \in D
    <2> SUFFICES ASSUME d + 1 <= n PROVE SubSeq(p, 1, n - (d + 1)) \in DOMAIN v
      OBVIOUS
    <2>1. PICK m \in Nat : n - d = m + 1 /\ n - (d + 1) = m /\ m + 1 \in 0..n /\ m \in 0..n
      <3>1. /\ n - (d + 1) \in Nat /\ n - d = (n - (d + 1)) + 1
            /\ (n - (d + 1)) + 1 \in 0..n /\ n - (d + 1) \in 0..n
        OBVIOUS
      <3> QED
        BY <3>1
    <2>2. PICK r : r = SubSeq(p, 1, m + 1)
      OBVIOUS
    <2>3. r \in DOMAIN v
      BY <1>4, <2>1, <2>2
    <2> HIDE DEF D
    <2>4. r \in Seq(Strings) /\ Len(r) = m + 1 /\ \A i \in 1..(m + 1) : r[i] = p[i]
      BY <1>1, <1>2, <2>1, <2>2, Beginning
    <2>5. Front(r) \in DOMAIN v
      <3>1. r # <<>>
        BY <2>4, EmptySeq
      <3> QED
        BY <2>3, <3>1 DEF Json
    <2>6. Front(r) = SubSeq(r, 1, m)
      <3>1. Len(r) - 1 = m
        BY <2>4
      <3> QED
        BY <3>1 DEF Front
    <2>7. SubSeq(r, 1, m) = SubSeq(p, 1, m)
      <3>1. m \in 0..Len(r) /\ m \in 0..Len(p)
        BY <1>2, <2>1, <2>4
      <3>2. SubSeq(r, 1, m) \in Seq(Strings) /\ Len(SubSeq(r, 1, m)) = m /\ \A i \in 1..m : SubSeq(r, 1, m)[i] = r[i]
        BY <2>4, <3>1, Beginning
      <3>3. SubSeq(p, 1, m) \in Seq(Strings) /\ Len(SubSeq(p, 1, m)) = m /\ \A i \in 1..m : SubSeq(p, 1, m)[i] = p[i]
        BY <1>1, <3>1, Beginning
      <3>4. \A i \in 1..m : r[i] = p[i]
        BY <2>4
      <3> QED
        BY <3>2, <3>3, <3>4, SeqEqual
    <2> QED
      BY <2>1, <2>5, <2>6, <2>7
  <1> HIDE DEF D
  <1>5. n - k \in D
    <2>1. n - k \in Nat
      BY <1>2
    <2> QED
      BY <1>3, <1>4, <2>1, NumbersBySteps
  <1>6. n - k \in Nat /\ n - k <= n /\ n - (n - k) = k
    BY <1>2
  <1> QED
    BY <1>5, <1>6 DEF D

\* A step leads to the place of that name, wherever it is taken from.
LEMMA TargetNamed ==
    ASSUME Json(body), current \in DOMAIN body, NEW token \in Strings
    PROVE  Target(token) = {p \in {Append(current, token)} : p \in DOMAIN body}
  <1>1. CASE body[current].t # "list"
    BY <1>1 DEF Target
  <1>2. CASE body[current].t = "list" /\ IsIndex(token)
    BY <1>2, IndexIsName DEF Target
  <1>3. CASE body[current].t = "list" /\ ~IsIndex(token)
    <2>1. current \in Seq(Strings)
      BY DEF Json
    <2>2. PICK p : p = Append(current, token)
      OBVIOUS
    <2>3. p # <<>> /\ Last(p) = token /\ Front(p) = current
      BY <2>1, <2>2, OneMore, WithoutLast
    <2>4. p \notin DOMAIN body
      BY <1>3, <2>3 DEF Json
    <2>5. Target(token) = {}
      BY <1>3 DEF Target
    <2> QED
      BY <2>2, <2>4, <2>5
  <1> QED
    BY <1>1, <1>2, <1>3

LEMMA TokensTyped ==
    ASSUME {"~", "/", "0", "1"} \subseteq Characters, NEW p \in Seq(Strings)
    PROVE  Tokens(p) \in Seq(Strings) /\ Len(Tokens(p)) = Len(p) /\ \A i \in 1..Len(p) : Tokens(p)[i] = Escape(p[i])
  <1>1. PICK n \in Nat : n = Len(p)
    OBVIOUS
  <1>2. PICK t : t = Tokens(p)
    OBVIOUS
  <1>3. DOMAIN p = 1..n
    BY <1>1, LenProperties
  <1>4. t = [i \in 1..n |-> Escape(p[i])]
    BY <1>2, <1>3 DEF Tokens
  <1>5. \A i \in 1..n : Escape(p[i]) \in Strings
    BY <1>1, ElementOfSeq, EscapedReturns
  <1>6. t \in [1..n -> Strings]
    BY <1>4, <1>5
  <1>7. t \in Seq(Strings) /\ Len(t) = n
    BY <1>6
  <1> QED
    BY <1>1, <1>2, <1>4, <1>7

\* No two places have the same tokens.
LEMMA TokensTell ==
    ASSUME {"~", "/", "0", "1"} \subseteq Characters, NEW p \in Seq(Strings), NEW q \in Seq(Strings), Tokens(p) = Tokens(q)
    PROVE  p = q
  <1>1. Len(p) = Len(q)
    BY TokensTyped
  <1>2. ASSUME NEW i \in 1..Len(p) PROVE p[i] = q[i]
    <2>1. Escape(p[i]) = Escape(q[i])
      BY <1>1, TokensTyped
    <2>2. p[i] \in Strings /\ q[i] \in Strings
      BY <1>1, ElementOfSeq
    <2> QED
      BY <2>1, <2>2, EscapedReturns
  <1> QED
    BY <1>1, <1>2, SeqEqual

LEMMA TokensConcat ==
    ASSUME {"~", "/", "0", "1"} \subseteq Characters, NEW p \in Seq(Strings), NEW q \in Seq(Strings)
    PROVE  p \o q \in Seq(Strings) /\ Tokens(p \o q) = Tokens(p) \o Tokens(q)
  <1>1. PICK n, k \in Nat : n = Len(p) /\ k = Len(q)
    OBVIOUS
  <1>2. PICK r : r = p \o q
    OBVIOUS
  <1>3. r \in Seq(Strings) /\ Len(r) = n + k /\ \A i \in 1..(n + k) : r[i] = IF i <= n THEN p[i] ELSE q[i - n]
    BY <1>1, <1>2, ConcatProperties
  <1>4. PICK a, b \in Seq(Strings) : a = Tokens(p) /\ b = Tokens(q)
    BY TokensTyped
  <1>5. /\ Len(a) = n /\ \A i \in 1..n : a[i] = Escape(p[i])
        /\ Len(b) = k /\ \A i \in 1..k : b[i] = Escape(q[i])
    BY <1>1, <1>4, TokensTyped
  <1>6. a \o b \in Seq(Strings) /\ Len(a \o b) = n + k /\ \A i \in 1..(n + k) : (a \o b)[i] = IF i <= n THEN a[i] ELSE b[i - n]
    BY <1>5, ConcatProperties
  <1>7. Tokens(r) \in Seq(Strings) /\ Len(Tokens(r)) = n + k /\ \A i \in 1..(n + k) : Tokens(r)[i] = Escape(r[i])
    BY <1>3, TokensTyped
  <1>8. ASSUME NEW i \in 1..(n + k) PROVE Tokens(r)[i] = (a \o b)[i]
    <2>1. CASE i <= n
      <3>1. i \in 1..n
        BY <2>1
      <3> QED
        BY <1>3, <1>5, <1>6, <1>7, <2>1, <3>1
    <2>2. CASE ~(i <= n)
      <3>1. i - n \in 1..k
        BY <2>2
      <3> QED
        BY <1>3, <1>5, <1>6, <1>7, <2>2, <3>1
    <2> QED
      BY <2>1, <2>2
  <1>9. Tokens(r) = a \o b
    BY <1>6, <1>7, <1>8, SeqEqual
  <1> QED
    BY <1>2, <1>3, <1>4, <1>9

\* What a longer pointer than that of a place names is below the place.
LEMMA BelowPlace ==
    ASSUME {"~", "/", "0", "1"} \subseteq Characters, NEW c \in Seq(Strings), NEW p \in Seq(Strings),
           IsPrefix(Tokens(c), Tokens(p))
    PROVE  \E q \in Seq(Strings) : p = c \o q
  <1>1. PICK n, k \in Nat : n = Len(c) /\ k = Len(p)
    OBVIOUS
  <1>2. PICK a, b \in Seq(Strings) : a = Tokens(c) /\ b = Tokens(p)
    BY TokensTyped
  <1>3. /\ Len(a) = n /\ \A i \in 1..n : a[i] = Escape(c[i])
        /\ Len(b) = k /\ \A i \in 1..k : b[i] = Escape(p[i])
    BY <1>1, <1>2, TokensTyped
  <1>4. n <= k /\ SubSeq(a, 1, n) = SubSeq(b, 1, n)
    BY <1>2, <1>3 DEF IsPrefix
  <1>5. \A i \in 1..n : a[i] = b[i]
    <2>1. n \in 0..Len(a) /\ n \in 0..Len(b)
      BY <1>3, <1>4
    <2>2. \A i \in 1..n : SubSeq(a, 1, n)[i] = a[i]
      BY <2>1, Beginning
    <2>3. \A i \in 1..n : SubSeq(b, 1, n)[i] = b[i]
      BY <2>1, Beginning
    <2> QED
      BY <1>4, <2>2, <2>3
  <1>6. SubSeq(p, 1, n) = c
    <2>1. ASSUME NEW i \in 1..n PROVE p[i] = c[i]
      <3>1. i \in 1..k
        BY <1>4
      <3>2. p[i] \in Strings /\ c[i] \in Strings
        BY <1>1, <3>1, ElementOfSeq
      <3>3. Escape(p[i]) = Escape(c[i])
        BY <1>3, <1>5, <3>1
      <3> QED
        BY <3>2, <3>3, EscapedReturns
    <2>2. n \in 0..Len(p)
      BY <1>1, <1>4
    <2>3. SubSeq(p, 1, n) \in Seq(Strings) /\ Len(SubSeq(p, 1, n)) = n /\ \A i \in 1..n : SubSeq(p, 1, n)[i] = p[i]
      BY <2>2, Beginning
    <2> QED
      BY <1>1, <2>1, <2>3, SeqEqual
  <1>7. SubSeq(p, 1, n) \o SubSeq(p, n + 1, k) = p
    <2>1. 1 \in 1..(Len(p) + 1) /\ n \in (1 - 1)..Len(p) /\ k \in n..Len(p)
      BY <1>1, <1>4
    <2>2. SubSeq(p, 1, n) \o SubSeq(p, n + 1, k) = SubSeq(p, 1, k)
      BY <2>1, ConcatAdjacentSubSeq
    <2> QED
      BY <1>1, <2>2, SubSeqFull
  <1>8. SubSeq(p, n + 1, k) \in Seq(Strings)
    <2>1. \A i \in (n + 1)..k : p[i] \in Strings
      BY <1>1, ElementOfSeq
    <2>2. n + 1 \in Int /\ k \in Int
      OBVIOUS
    <2> QED
      BY <2>1, <2>2, SubSeqProperties
  <1> QED
    BY <1>6, <1>7, <1>8

LEMMA PrefixOfConcat ==
    ASSUME {"~", "/", "0", "1"} \subseteq Characters, NEW c \in Seq(Strings), NEW q \in Seq(Strings)
    PROVE  IsPrefix(Tokens(c), Tokens(c \o q))
  <1>1. PICK a, b \in Seq(Strings) : a = Tokens(c) /\ b = Tokens(q)
    BY TokensTyped
  <1>2. PICK n, k \in Nat : n = Len(a) /\ k = Len(b)
    OBVIOUS
  <1>3. PICK t \in Seq(Strings) : t = a \o b
    BY ConcatProperties
  <1>4. Len(t) = n + k /\ \A i \in 1..(n + k) : i <= n => t[i] = a[i]
    BY <1>2, <1>3, ConcatProperties
  <1>5. n \in 0..Len(a) /\ n \in 0..Len(t)
    BY <1>2, <1>4
  <1>6. SubSeq(a, 1, n) \in Seq(Strings) /\ Len(SubSeq(a, 1, n)) = n /\ \A i \in 1..n : SubSeq(a, 1, n)[i] = a[i]
    BY <1>5, Beginning
  <1>7. SubSeq(t, 1, n) \in Seq(Strings) /\ Len(SubSeq(t, 1, n)) = n /\ \A i \in 1..n : SubSeq(t, 1, n)[i] = t[i]
    BY <1>5, Beginning
  <1>8. \A i \in 1..n : t[i] = a[i]
    BY <1>4
  <1>9. SubSeq(a, 1, n) = SubSeq(t, 1, n)
    BY <1>6, <1>7, <1>8, SeqEqual
  <1>10. IsPrefix(a, t)
    BY <1>2, <1>4, <1>9 DEF IsPrefix
  <1> QED
    BY <1>1, <1>3, <1>10, TokensConcat

\* The value at the current place: what is below it, from there.
LEMMA ActualIs ==
    ASSUME Json(body), current \in DOMAIN body
    PROVE  /\ \A q : q \in DOMAIN Actual <=> q \in Seq(Strings) /\ current \o q \in DOMAIN body
           /\ \A q \in DOMAIN Actual : Actual[q] = body[current \o q]
  <1>1. current \in Seq(Strings) /\ \A p \in DOMAIN body : p \in Seq(Strings)
    BY DEF Json
  <1>2. PICK n \in Nat : n = Len(current)
    BY <1>1
  <1> DEFINE below == {p \in DOMAIN body : Len(p) >= n /\ SubSeq(p, 1, n) = current}
             rests == {SubSeq(p, n + 1, Len(p)) : p \in below}
  <1>3. DOMAIN Actual = rests /\ \A q \in rests : Actual[q] = body[current \o q]
    BY <1>2 DEF Actual
  <1>4. ASSUME NEW q \in rests PROVE q \in Seq(Strings) /\ current \o q \in DOMAIN body
    <2>1. PICK p \in below : q = SubSeq(p, n + 1, Len(p))
      OBVIOUS
    <2>2. p \in DOMAIN body /\ p \in Seq(Strings) /\ Len(p) >= n /\ SubSeq(p, 1, n) = current
      BY <1>1
    <2>3. PICK k \in Nat : k = Len(p)
      BY <2>2
    <2>4. q \in Seq(Strings)
      <3>1. \A i \in (n + 1)..k : p[i] \in Strings
        BY <2>2, <2>3, ElementOfSeq
      <3>2. n + 1 \in Int /\ k \in Int
        OBVIOUS
      <3> QED
        BY <2>1, <2>3, <3>1, <3>2, SubSeqProperties
    <2>5. SubSeq(p, 1, n) \o SubSeq(p, n + 1, k) = p
      <3>1. 1 \in 1..(Len(p) + 1) /\ n \in (1 - 1)..Len(p) /\ k \in n..Len(p)
        BY <2>2, <2>3
      <3>2. SubSeq(p, 1, n) \o SubSeq(p, n + 1, k) = SubSeq(p, 1, k)
        BY <2>2, <3>1, ConcatAdjacentSubSeq
      <3> QED
        BY <2>2, <2>3, <3>2, SubSeqFull
    <2> QED
      BY <2>1, <2>2, <2>3, <2>4, <2>5
  <1>5. ASSUME NEW q \in Seq(Strings), current \o q \in DOMAIN body PROVE q \in rests
    <2>1. PICK p \in Seq(Strings) : p = current \o q
      BY <1>1, <1>5
    <2>2. PICK k \in Nat : k = Len(q)
      OBVIOUS
    <2>3. Len(p) = n + k /\ \A i \in 1..(n + k) : p[i] = IF i <= n THEN current[i] ELSE q[i - n]
      BY <1>1, <1>2, <2>1, <2>2, ConcatProperties
    <2>4. SubSeq(p, 1, n) = current
      <3>1. n \in 0..Len(p)
        BY <2>3
      <3>2. SubSeq(p, 1, n) \in Seq(Strings) /\ Len(SubSeq(p, 1, n)) = n /\ \A i \in 1..n : SubSeq(p, 1, n)[i] = p[i]
        BY <3>1, Beginning
      <3>3. \A i \in 1..n : p[i] = current[i]
        BY <2>3
      <3> QED
        BY <1>1, <1>2, <3>2, <3>3, SeqEqual
    <2>5. SubSeq(p, n + 1, n + k) = q
      <3>1. \A i \in (n + 1)..(n + k) : p[i] \in Strings
        BY <2>3, ElementOfSeq
      <3>2. n + 1 \in Int /\ n + k \in Int
        OBVIOUS
      <3>3. PICK r : r = SubSeq(p, n + 1, n + k)
        OBVIOUS
      <3>4. /\ r \in Seq(Strings) /\ Len(r) = IF n + 1 <= n + k THEN (n + k) - (n + 1) + 1 ELSE 0
            /\ \A i \in 1..((n + k) - (n + 1) + 1) : r[i] = p[(n + 1) + i - 1]
        BY <3>1, <3>2, <3>3, SubSeqProperties
      <3>5. Len(r) = k
        BY <3>4
      <3>6. ASSUME NEW i \in 1..k PROVE r[i] = q[i]
        <4>1. i \in 1..((n + k) - (n + 1) + 1) /\ (n + 1) + i - 1 = n + i
          OBVIOUS
        <4>2. n + i \in 1..(n + k) /\ ~(n + i <= n) /\ (n + i) - n = i
          OBVIOUS
        <4> QED
          BY <2>3, <3>4, <4>1, <4>2
      <3> QED
        BY <2>2, <3>3, <3>4, <3>5, <3>6, SeqEqual
    <2>6. p \in below
      <3>1. p \in DOMAIN body /\ Len(p) >= n
        BY <1>5, <2>1, <2>3
      <3> QED
        BY <2>4, <3>1
    <2> QED
      BY <2>3, <2>5, <2>6
  <1> HIDE DEF rests
  <1> QED
    BY <1>3, <1>4, <1>5

---------------------------------------------------------------------------
(* The invariant: as long as a well-formed pointer is followed, the names  *)
(* so far are those of its tokens so far.                                  *)

OnTheWay ==
    /\ Len(current) <= Len(pointer.tokens)
    /\ \A i \in 1..Len(current) : pointer.tokens[i] = Escape(current[i])

AInv ==
    /\ body \in Documents /\ pointer \in Pointers /\ expected \in Values
    /\ current \in DOMAIN body
    /\ assertion = "walking" /\ Wanted => OnTheWay
    /\ AssertionsSound

LEMMA Given ==
    ASSUME PointerAssumption, AInv
    PROVE  /\ {"~", "/", "0", "1"} \subseteq Characters
           /\ Json(body) /\ Json(expected)
           /\ current \in Seq(Strings) /\ pointer.tokens \in Seq(Strings)
           /\ \A i \in DOMAIN pointer.tokens : "/" \notin Range(pointer.tokens[i])
  <1>1. Json(body) /\ Json(expected)
    BY DEF PointerAssumption, AInv
  <1>2. current \in Seq(Strings)
    BY <1>1 DEF AInv, Json
  <1>3. {"~", "/", "0", "1"} \subseteq Characters
    BY DEF PointerAssumption, Digits
  <1> QED
    BY <1>1, <1>2, <1>3 DEF PointerAssumption, AInv

\* The token at hand names the only place that the pointer can still lead to.
LEMMA StepNamed ==
    ASSUME PointerAssumption, AInv, assertion = "walking", Wanted, Len(current) < Len(pointer.tokens),
           NEW name, name = Unescape(pointer.tokens[Len(current) + 1])
    PROVE  /\ name \in Strings /\ Escape(name) = pointer.tokens[Len(current) + 1]
           /\ Target(name) = {p \in {Append(current, name)} : p \in DOMAIN body}
           /\ OnTheWay
  <1>1. /\ {"~", "/", "0", "1"} \subseteq Characters
        /\ Json(body) /\ current \in Seq(Strings) /\ pointer.tokens \in Seq(Strings)
        /\ \A i \in DOMAIN pointer.tokens : "/" \notin Range(pointer.tokens[i])
    BY Given
  <1>2. PICK k \in Nat : k = Len(current)
    BY <1>1
  <1>3. PICK t : t = pointer.tokens[k + 1]
    OBVIOUS
  <1>4. k + 1 \in 1..Len(pointer.tokens) /\ 1..Len(pointer.tokens) = DOMAIN pointer.tokens
    BY <1>1, <1>2, LenProperties
  <1>5. t \in Strings /\ WellFormed(t) /\ "/" \notin Range(t)
    BY <1>1, <1>3, <1>4, ElementOfSeq DEF Wanted
  <1>6. name \in Strings /\ Escape(name) = t
    BY <1>1, <1>2, <1>3, <1>5, UnescapeInverts
  <1>7. current \in DOMAIN body /\ OnTheWay
    BY DEF AInv
  <1> QED
    BY <1>1, <1>2, <1>3, <1>6, <1>7, TargetNamed

LEMMA MissingRight ==
    ASSUME PointerAssumption, AInv, assertion = "walking", Wanted, Len(current) < Len(pointer.tokens),
           Target(Unescape(pointer.tokens[Len(current) + 1])) = {}
    PROVE  Places = {}
  <1> SUFFICES ASSUME NEW p \in DOMAIN body, Tokens(p) = pointer.tokens PROVE FALSE
    BY DEF Places
  <1>1. PICK name : name = Unescape(pointer.tokens[Len(current) + 1])
    OBVIOUS
  <1>2. /\ name \in Strings /\ Escape(name) = pointer.tokens[Len(current) + 1] /\ OnTheWay
        /\ Append(current, name) \notin DOMAIN body
    BY <1>1, StepNamed
  <1>3. /\ {"~", "/", "0", "1"} \subseteq Characters
        /\ Json(body) /\ current \in Seq(Strings) /\ pointer.tokens \in Seq(Strings)
    BY Given
  <1>4. PICK k, n \in Nat : k = Len(current) /\ n = Len(pointer.tokens)
    BY <1>3
  <1>5. p \in Seq(Strings)
    BY <1>3 DEF Json
  <1>6. Len(p) = n /\ \A i \in 1..n : pointer.tokens[i] = Escape(p[i])
    BY <1>3, <1>4, <1>5, TokensTyped
  <1>7. k + 1 \in 1..n /\ k + 1 \in 0..Len(p)
    BY <1>4, <1>6
  <1>8. /\ SubSeq(p, 1, k + 1) \in Seq(Strings) /\ Len(SubSeq(p, 1, k + 1)) = k + 1
        /\ \A i \in 1..(k + 1) : SubSeq(p, 1, k + 1)[i] = p[i]
    BY <1>5, <1>7, Beginning
  <1>9. PICK r \in Seq(Strings) : r = Append(current, name)
    BY <1>2, <1>3, OneMore
  <1>10. Len(r) = k + 1 /\ r[k + 1] = name /\ \A i \in 1..k : r[i] = current[i]
    BY <1>2, <1>3, <1>4, <1>9, AppendProperties
  <1>11. ASSUME NEW i \in 1..(k + 1) PROVE r[i] = p[i]
    <2>1. Escape(r[i]) = pointer.tokens[i]
      <3>1. CASE i = k + 1
        BY <1>2, <1>4, <1>10, <3>1
      <3>2. CASE i # k + 1
        <4>1. i \in 1..k
          BY <3>2
        <4> QED
          BY <1>2, <1>4, <1>10, <4>1 DEF OnTheWay
      <3> QED
        BY <3>1, <3>2
    <2>2. i \in 1..n /\ i \in 1..Len(r)
      BY <1>7, <1>10
    <2>3. Escape(r[i]) = Escape(p[i])
      BY <1>6, <2>1, <2>2
    <2>4. r[i] \in Strings /\ p[i] \in Strings
      BY <1>5, <1>6, <2>2, ElementOfSeq
    <2> QED
      BY <1>3, <2>3, <2>4, EscapedReturns
  <1>12. SubSeq(p, 1, k + 1) = r
    BY <1>8, <1>10, <1>11, SeqEqual
  <1>13. SubSeq(p, 1, k + 1) \in DOMAIN body
    BY <1>3, <1>7, WayThere
  <1> QED
    BY <1>2, <1>9, <1>12, <1>13

LEMMA WalkKeeps ==
    ASSUME PointerAssumption, AInv, Walk
    PROVE  AInv'
  <1>1. /\ assertion = "walking" /\ pointer.rooted /\ Len(current) < Len(pointer.tokens)
        /\ UNCHANGED <<body, pointer, expected>>
    BY DEF Walk
  <1>2. PICK name : name = Unescape(pointer.tokens[Len(current) + 1])
    OBVIOUS
  <1>3. \/ current' \in Target(name) /\ UNCHANGED assertion
        \/ Target(name) = {} /\ assertion' = "missing" /\ UNCHANGED current
    BY <1>2 DEF Walk
  <1>4. (Wanted' <=> Wanted) /\ Places' = Places
    BY <1>1 DEF Wanted, Places, Tokens
  <1>5. CASE current' \in Target(name) /\ UNCHANGED assertion
    <2>1. current' \in DOMAIN body
      BY <1>5 DEF Target
    <2>2. ASSUME Wanted PROVE OnTheWay'
      <3>1. /\ name \in Strings /\ Escape(name) = pointer.tokens[Len(current) + 1] /\ OnTheWay
            /\ Target(name) = {p \in {Append(current, name)} : p \in DOMAIN body}
        BY <1>1, <1>2, <2>2, StepNamed
      <3>2. current' = Append(current, name)
        BY <1>5, <3>1
      <3>3. current \in Seq(Strings) /\ pointer.tokens \in Seq(Strings)
        BY Given
      <3>4. PICK k \in Nat : k = Len(current)
        BY <3>3
      <3>5. Len(current') = k + 1 /\ current'[k + 1] = name /\ \A i \in 1..k : current'[i] = current[i]
        BY <3>1, <3>2, <3>3, <3>4, AppendProperties
      <3>6. k + 1 <= Len(pointer.tokens)
        BY <1>1, <3>3, <3>4
      <3>7. ASSUME NEW i \in 1..(k + 1) PROVE pointer.tokens[i] = Escape(current'[i])
        <4>1. CASE i = k + 1
          BY <3>1, <3>4, <3>5, <4>1
        <4>2. CASE i # k + 1
          <5>1. i \in 1..k
            BY <4>2
          <5> QED
            BY <3>1, <3>4, <3>5, <5>1 DEF OnTheWay
        <4> QED
          BY <4>1, <4>2
      <3>8. Len(current') <= Len(pointer.tokens) /\ \A i \in 1..Len(current') : pointer.tokens[i] = Escape(current'[i])
        BY <3>5, <3>6, <3>7
      <3> QED
        BY <1>1, <3>8 DEF OnTheWay
    <2>3. AssertionsSound'
      BY <1>1, <1>5 DEF AssertionsSound
    <2> QED
      BY <1>1, <1>4, <2>1, <2>2, <2>3 DEF AInv
  <1>6. CASE Target(name) = {} /\ assertion' = "missing" /\ UNCHANGED current
    <2>1. Wanted => Places = {}
      BY <1>1, <1>2, <1>6, MissingRight
    <2>2. AssertionsSound'
      BY <1>4, <1>6, <2>1 DEF AssertionsSound
    <2> QED
      BY <1>1, <1>6, <2>2 DEF AInv
  <1> QED
    BY <1>3, <1>5, <1>6

---------------------------------------------------------------------------
(* The comparison, at the end of the pointer *)

\* The pointer names the place where pointer() is.
LEMMA Arrived ==
    ASSUME PointerAssumption, AInv, assertion = "walking", Wanted, Len(current) = Len(pointer.tokens)
    PROVE  pointer.tokens = Tokens(current)
  <1>1. {"~", "/", "0", "1"} \subseteq Characters /\ current \in Seq(Strings) /\ pointer.tokens \in Seq(Strings)
    BY Given
  <1>2. \A i \in 1..Len(current) : pointer.tokens[i] = Escape(current[i])
    BY DEF AInv, OnTheWay
  <1>3. PICK t \in Seq(Strings) : t = Tokens(current)
    BY <1>1, TokensTyped
  <1>4. Len(t) = Len(current) /\ \A i \in 1..Len(current) : t[i] = Escape(current[i])
    BY <1>1, <1>3, TokensTyped
  <1> QED
    BY <1>1, <1>2, <1>3, <1>4, SeqEqual

\* What a pointer to a place below the current one means, in the body and from the current place
LEMMA NamesBelow ==
    ASSUME PointerAssumption, AInv, assertion = "walking", Wanted, Len(current) = Len(pointer.tokens)
    PROVE  /\ current \in DOMAIN body /\ Tokens(current) = pointer.tokens
           /\ <<>> \in DOMAIN Actual /\ Actual[<<>>] = body[current]
           /\ <<>> \in DOMAIN expected /\ current \o <<>> = current
           /\ \A q \in DOMAIN expected : q \in Seq(Strings)
           /\ \A q \in DOMAIN Actual : q \in Seq(Strings) /\ current \o q \in DOMAIN body /\ Actual[q] = body[current \o q]
           /\ \A q \in Seq(Strings) : current \o q \in DOMAIN body => q \in DOMAIN Actual
           /\ \A q \in Seq(Strings), p \in DOMAIN body : Tokens(p) = pointer.tokens \o Tokens(q) <=> p = current \o q
           /\ \A p \in DOMAIN body : IsPrefix(pointer.tokens, Tokens(p)) => \E q \in Seq(Strings) : p = current \o q
           /\ \A q \in Seq(Strings) : IsPrefix(pointer.tokens, Tokens(current \o q))
  <1>1. /\ {"~", "/", "0", "1"} \subseteq Characters
        /\ Json(body) /\ Json(expected) /\ current \in Seq(Strings) /\ pointer.tokens \in Seq(Strings)
    BY Given
  <1>2. pointer.tokens = Tokens(current) /\ current \in DOMAIN body
    BY Arrived DEF AInv
  <1>3. /\ \A q : q \in DOMAIN Actual <=> q \in Seq(Strings) /\ current \o q \in DOMAIN body
        /\ \A q \in DOMAIN Actual : Actual[q] = body[current \o q]
    BY <1>1, <1>2, ActualIs
  <1>4. current \o <<>> = current /\ <<>> \in Seq(Strings)
    BY <1>1, ConcatEmptySeq, EmptySeq
  <1>5. <<>> \in DOMAIN Actual /\ Actual[<<>>] = body[current]
    BY <1>2, <1>3, <1>4
  <1>6. <<>> \in DOMAIN expected /\ (\A q \in DOMAIN expected : q \in Seq(Strings)) /\ \A p \in DOMAIN body : p \in Seq(Strings)
    BY <1>1 DEF Json
  <1>7. ASSUME NEW q \in Seq(Strings), NEW p \in DOMAIN body
        PROVE  Tokens(p) = pointer.tokens \o Tokens(q) <=> p = current \o q
    <2>1. current \o q \in Seq(Strings) /\ Tokens(current \o q) = pointer.tokens \o Tokens(q)
      BY <1>1, <1>2, TokensConcat
    <2>2. p \in Seq(Strings)
      BY <1>6
    <2> QED
      BY <1>1, <2>1, <2>2, TokensTell
  <1>8. \A p \in DOMAIN body : IsPrefix(pointer.tokens, Tokens(p)) => \E q \in Seq(Strings) : p = current \o q
    BY <1>1, <1>2, <1>6, BelowPlace
  <1>9. \A q \in Seq(Strings) : IsPrefix(pointer.tokens, Tokens(current \o q))
    BY <1>1, <1>2, PrefixOfConcat
  <1> QED
    BY <1>2, <1>3, <1>4, <1>5, <1>6, <1>7, <1>8, <1>9

LEMMA EqualAlike ==
    ASSUME NEW a, NEW b
    PROVE  (NodesEqual(a, b) => Alike(a, b)) /\ (Same(a, b) => NodesEqual(a, b))
  BY DEF NodesEqual, Alike, Same, IsNumber

LEMMA HoldsRight ==
    ASSUME PointerAssumption, AInv, assertion = "walking", Wanted, Len(current) = Len(pointer.tokens), Matches(Actual, expected)
    PROVE  /\ \E p \in Places : body[p].t = expected[<<>>].t
           /\ \A q \in DOMAIN expected : \E p \in DOMAIN body :
                  Tokens(p) = pointer.tokens \o Tokens(q) /\ Alike(body[p], expected[q])
           /\ \A p \in DOMAIN body : IsPrefix(pointer.tokens, Tokens(p)) =>
                  \E q \in DOMAIN expected : Tokens(p) = pointer.tokens \o Tokens(q)
  <1>1. /\ current \in DOMAIN body /\ Tokens(current) = pointer.tokens
        /\ Actual[<<>>] = body[current]
        /\ \A q \in DOMAIN Actual : q \in Seq(Strings) /\ current \o q \in DOMAIN body /\ Actual[q] = body[current \o q]
        /\ \A q \in Seq(Strings) : current \o q \in DOMAIN body => q \in DOMAIN Actual
        /\ \A q \in Seq(Strings), p \in DOMAIN body : Tokens(p) = pointer.tokens \o Tokens(q) <=> p = current \o q
        /\ \A p \in DOMAIN body : IsPrefix(pointer.tokens, Tokens(p)) => \E q \in Seq(Strings) : p = current \o q
    BY NamesBelow
  <1>2. /\ Actual[<<>>].t = expected[<<>>].t /\ DOMAIN Actual = DOMAIN expected
        /\ \A q \in DOMAIN expected : NodesEqual(Actual[q], expected[q])
    BY DEF Matches, PyEqual
  <1>3. \E p \in Places : body[p].t = expected[<<>>].t
    BY <1>1, <1>2 DEF Places
  <1>4. ASSUME NEW q \in DOMAIN expected
        PROVE  \E p \in DOMAIN body : Tokens(p) = pointer.tokens \o Tokens(q) /\ Alike(body[p], expected[q])
    <2>1. PICK p \in DOMAIN body : p = current \o q
      BY <1>1, <1>2
    <2>2. Alike(Actual[q], expected[q])
      BY <1>2, EqualAlike
    <2>3. Tokens(p) = pointer.tokens \o Tokens(q) /\ Actual[q] = body[p]
      BY <1>1, <1>2, <2>1
    <2> QED
      BY <2>2, <2>3
  <1>5. ASSUME NEW p \in DOMAIN body, IsPrefix(pointer.tokens, Tokens(p))
        PROVE  \E q \in DOMAIN expected : Tokens(p) = pointer.tokens \o Tokens(q)
    <2>1. PICK q \in Seq(Strings) : p = current \o q
      BY <1>1, <1>5
    <2> QED
      BY <1>1, <1>2, <2>1
  <1> QED
    BY <1>3, <1>4, <1>5

LEMMA MismatchRight ==
    ASSUME PointerAssumption, AInv, assertion = "walking", Wanted, Len(current) = Len(pointer.tokens), ~Matches(Actual, expected)
    PROVE  /\ Places # {}
           /\ \/ \E q \in DOMAIN expected : \A p \in DOMAIN body :
                     Tokens(p) = pointer.tokens \o Tokens(q) => ~Same(body[p], expected[q])
              \/ \E p \in DOMAIN body : IsPrefix(pointer.tokens, Tokens(p)) /\
                     \A q \in DOMAIN expected : Tokens(p) # pointer.tokens \o Tokens(q)
  <1>1. /\ current \in DOMAIN body /\ Tokens(current) = pointer.tokens
        /\ Actual[<<>>] = body[current]
        /\ <<>> \in DOMAIN expected /\ current \o <<>> = current
        /\ \A q \in DOMAIN expected : q \in Seq(Strings)
        /\ \A q \in DOMAIN Actual : q \in Seq(Strings) /\ current \o q \in DOMAIN body /\ Actual[q] = body[current \o q]
        /\ \A q \in Seq(Strings) : current \o q \in DOMAIN body => q \in DOMAIN Actual
        /\ \A q \in Seq(Strings), p \in DOMAIN body : Tokens(p) = pointer.tokens \o Tokens(q) <=> p = current \o q
        /\ \A q \in Seq(Strings) : IsPrefix(pointer.tokens, Tokens(current \o q))
    BY NamesBelow
  <1>2. Places # {}
    BY <1>1 DEF Places
  <1>3. \/ Actual[<<>>].t # expected[<<>>].t
        \/ \E q \in DOMAIN expected : q \notin DOMAIN Actual
        \/ \E q \in DOMAIN Actual : q \notin DOMAIN expected
        \/ \E q \in DOMAIN Actual \cap DOMAIN expected : ~NodesEqual(Actual[q], expected[q])
    BY DEF Matches, PyEqual
  <1>4. CASE Actual[<<>>].t # expected[<<>>].t
    <2>1. \A p \in DOMAIN body : Tokens(p) = pointer.tokens \o Tokens(<<>>) => ~Same(body[p], expected[<<>>])
      BY <1>1, <1>4 DEF Same
    <2> QED
      BY <1>1, <1>2, <2>1
  <1>5. CASE \E q \in DOMAIN expected : q \notin DOMAIN Actual
    BY <1>1, <1>2, <1>5
  <1>6. CASE \E q \in DOMAIN Actual : q \notin DOMAIN expected
    <2>1. PICK q \in DOMAIN Actual : q \notin DOMAIN expected
      BY <1>6
    <2>2. PICK p \in DOMAIN body : p = current \o q
      BY <1>1
    <2>3. current \in Seq(Strings)
      BY Given
    <2>4. ASSUME NEW r \in DOMAIN expected PROVE Tokens(p) # pointer.tokens \o Tokens(r)
      <3> SUFFICES ASSUME p = current \o r PROVE FALSE
        BY <1>1
      <3>1. q \in Seq(Strings) /\ r \in Seq(Strings)
        BY <1>1
      <3>2. current \o q = current \o r
        BY <2>2
      <3>3. q = r
        BY <2>3, <3>1, <3>2, ConcatSimplifications
      <3> QED
        BY <2>1, <3>3
    <2> QED
      BY <1>1, <1>2, <2>2, <2>4
  <1>7. CASE \E q \in DOMAIN Actual \cap DOMAIN expected : ~NodesEqual(Actual[q], expected[q])
    <2>1. PICK q \in DOMAIN Actual \cap DOMAIN expected : ~NodesEqual(Actual[q], expected[q])
      BY <1>7
    <2>2. ~Same(Actual[q], expected[q])
      BY <2>1, EqualAlike
    <2>3. \A p \in DOMAIN body : Tokens(p) = pointer.tokens \o Tokens(q) => ~Same(body[p], expected[q])
      BY <1>1, <2>1, <2>2
    <2> QED
      BY <1>2, <2>1, <2>3
  <1> QED
    BY <1>3, <1>4, <1>5, <1>6, <1>7

LEMMA CompareKeeps ==
    ASSUME PointerAssumption, AInv, Compare
    PROVE  AInv'
  <1>1. /\ assertion = "walking" /\ Len(current) = Len(pointer.tokens)
        /\ assertion' = IF Matches(Actual, expected) THEN "holds" ELSE "mismatch"
        /\ UNCHANGED <<body, pointer, expected, current>>
    BY DEF Compare
  <1>2. (Wanted' <=> Wanted) /\ Places' = Places
    BY <1>1 DEF Wanted, Places, Tokens
  <1>3. AssertionsSound'
    <2>1. CASE ~Wanted
      BY <1>2, <2>1 DEF AssertionsSound
    <2>2. CASE Wanted /\ Matches(Actual, expected)
      <3>1. assertion' = "holds"
        BY <1>1, <2>2
      <3> QED
        BY <1>1, <1>2, <2>2, <3>1, HoldsRight DEF AssertionsSound
    <2>3. CASE Wanted /\ ~Matches(Actual, expected)
      <3>1. assertion' = "mismatch"
        BY <1>1, <2>3
      <3> QED
        BY <1>1, <1>2, <2>3, <3>1, MismatchRight DEF AssertionsSound
    <2> QED
      BY <2>1, <2>2, <2>3
  <1> QED
    BY <1>1, <1>3 DEF AInv

LEMMA AStart ==
    ASSUME PointerAssumption, AInit
    PROVE  AInv
  <1>1. Json(body) /\ pointer.tokens \in Seq(Strings)
    BY DEF AInit, PointerAssumption
  <1>2. current \in DOMAIN body
    BY <1>1 DEF AInit, Json
  <1>3. Len(current) = 0 /\ Len(pointer.tokens) \in Nat
    BY <1>1 DEF AInit
  <1>4. OnTheWay
    BY <1>3 DEF OnTheWay
  <1> QED
    BY <1>2, <1>4 DEF AInit, AInv, AssertionsSound

LEMMA AStep ==
    ASSUME PointerAssumption, AInv, [ANext]_avars
    PROVE  AInv'
  <1>1. CASE Unrooted
    <2>1. assertion' = "missing" /\ UNCHANGED <<body, pointer, expected, current>> /\ ~pointer.rooted
      BY <1>1 DEF Unrooted
    <2>2. ~Wanted'
      BY <2>1 DEF Wanted
    <2> QED
      BY <2>1, <2>2 DEF AInv, AssertionsSound
  <1>2. CASE UNCHANGED avars
    <2>1. UNCHANGED <<body, pointer, expected, current, assertion>>
      BY <1>2 DEF avars
    <2> QED
      BY <2>1 DEF AInv, OnTheWay, AssertionsSound, Wanted, Places, Tokens
  <1> QED
    BY <1>1, <1>2, WalkKeeps, CompareKeeps DEF ANext

\* For any documents, pointers and values: an assertion that holds is right about all that
\* the pointer names, one that does not hold is wrong about something, and a place that is
\* there is found (pointer, the comparison in response_errors).
THEOREM AssertionsAreSound ==
    ASSUME PointerAssumption
    PROVE  ASpec => []AssertionsSound
  <1>1. AInv /\ [ANext]_avars => AInv'
    BY AStep
  <1>2. AInit => AInv
    BY AStart
  <1>3. AInv => AssertionsSound
    BY DEF AInv
  <1> QED
    BY <1>1, <1>2, <1>3, PTL DEF ASpec
================================================================================
