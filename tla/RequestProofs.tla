----------------------------- MODULE RequestProofs -----------------------------
(***************************************************************************)
(* Proofs about RequestContract, for any operations, steps and variables:  *)
(* the errors of a step are those of the parameters that were looked at,   *)
(* and these are the ones its operation demands; and the values of a path  *)
(* come to stand where their placeholders stood, in whatever order they    *)
(* are put there.                                                          *)
(***************************************************************************)
EXTENDS RequestContract, SequenceTheorems, WellFoundedInduction, TLAPS

---------------------------------------------------------------------------
(* Which parameters are in effect, and what is checked of each *)

\* What CheckParameter finds nothing wrong with.
Sound(p) ==
    /\ p.required => Given(p) # {}
    /\ \A v \in Given(p) : Admits(p.type, ValueType(p, v))

LEMMA Declared ==
    ASSUME OperationAssumption, op \in Operations
    PROVE  InEffect = {op.own[i] : i \in DOMAIN op.own} \cup
                      {op.shared[i] : i \in {j \in DOMAIN op.shared : Demands(op.shared[j])}}
  <1>1. op.shared \in Seq(Parameter) /\ op.own \in Seq(Parameter)
    BY DEF OperationAssumption
  <1>2. PICK D : D = op.shared \o op.own
    OBVIOUS
  <1>3. PICK n, k \in Nat :
          /\ DOMAIN op.shared = 1..n /\ DOMAIN op.own = 1..k /\ DOMAIN D = 1..(n + k)
          /\ \A i \in 1..n : D[i] = op.shared[i]
          /\ \A i \in 1..k : D[n + i] = op.own[i]
          /\ \A i \in 1..(n + k) : i \in 1..n \/ \E j \in 1..k : i = n + j
    <2>1. PICK n, k : n = Len(op.shared) /\ k = Len(op.own)
      OBVIOUS
    <2>2. n \in Nat /\ k \in Nat
      BY <1>1, <2>1
    <2>3. DOMAIN op.shared = 1..n /\ DOMAIN op.own = 1..k /\ DOMAIN D = 1..(n + k)
      <3>1. DOMAIN op.shared = 1..n /\ DOMAIN op.own = 1..k
        BY <1>1, <2>1, LenProperties
      <3>2. D \in Seq(Parameter) /\ Len(D) = n + k
        BY <1>1, <1>2, <2>1, ConcatProperties
      <3>3. DOMAIN D = 1..Len(D)
        BY <3>2, LenProperties
      <3> QED
        BY <3>1, <3>2, <3>3
    <2>4. ASSUME NEW i \in 1..n PROVE D[i] = op.shared[i]
      <3>1. i \in 1..(n + k) /\ i <= n
        BY <2>2
      <3>2. \A j \in 1..(Len(op.shared) + Len(op.own)) :
              (op.shared \o op.own)[j] = IF j <= Len(op.shared) THEN op.shared[j] ELSE op.own[j - Len(op.shared)]
        BY <1>1, ConcatProperties
      <3> QED
        BY <1>2, <2>1, <3>1, <3>2
    <2>5. ASSUME NEW i \in 1..k PROVE D[n + i] = op.own[i]
      <3>1. n + i \in 1..(n + k) /\ n + i > n /\ (n + i) - n = i
        BY <2>2
      <3> QED
        BY <1>1, <1>2, <2>1, <2>2, <3>1
    <2>6. ASSUME NEW i \in 1..(n + k), i \notin 1..n PROVE \E j \in 1..k : i = n + j
      <3>1. (i - n) \in 1..k /\ i = n + (i - n)
        BY <2>2, <2>6
      <3> QED
        BY <3>1
    <2> QED
      BY <2>2, <2>3, <2>4, <2>5, <2>6
  <1>4. /\ \A i, j \in 1..n : Key(op.shared[i]) = Key(op.shared[j]) => i = j
        /\ \A i, j \in 1..k : Key(op.own[i]) = Key(op.own[j]) => i = j
    BY <1>3 DEF OperationAssumption, Key
  <1> DEFINE Latest(i) == \A l \in 1..(n + k) : l > i => Key(D[l]) # Key(D[i])
  <1>5. \A i \in 1..k : Latest(n + i)
    <2> SUFFICES ASSUME NEW i \in 1..k, NEW l \in 1..(n + k), l > n + i, Key(D[l]) = Key(D[n + i]) PROVE FALSE
      OBVIOUS
    <2>1. PICK j \in 1..k : l = n + j
      BY <1>3
    <2>2. j = i
      BY <1>3, <1>4, <2>1
    <2> QED
      BY <1>3, <2>1, <2>2
  <1>6. \A i \in 1..n : Latest(i) <=> ~\E j \in 1..k : Key(op.own[j]) = Key(op.shared[i])
    <2> SUFFICES ASSUME NEW i \in 1..n PROVE Latest(i) <=> ~\E j \in 1..k : Key(op.own[j]) = Key(op.shared[i])
      OBVIOUS
    <2>1. ASSUME NEW j \in 1..k, Key(op.own[j]) = Key(op.shared[i]) PROVE ~Latest(i)
      <3>1. n + j \in 1..(n + k) /\ n + j > i
        BY <1>3
      <3>2. Key(D[n + j]) = Key(D[i])
        BY <1>3, <2>1
      <3> QED
        BY <3>1, <3>2
    <2>2. ASSUME NEW l \in 1..(n + k), l > i, Key(D[l]) = Key(D[i])
          PROVE  \E j \in 1..k : Key(op.own[j]) = Key(op.shared[i])
      <3>1. l \notin 1..n
        BY <1>3, <1>4, <2>2
      <3>2. PICK j \in 1..k : l = n + j
        BY <1>3, <3>1
      <3> QED
        BY <1>3, <2>2, <3>2
    <2> QED
      BY <2>1, <2>2
  <1>7. InEffect = {D[i] : i \in {j \in 1..(n + k) : Latest(j)}}
    BY <1>2, <1>3 DEF InEffect, Declarations
  <1>8. \A i \in 1..n : Demands(op.shared[i]) <=> \/ \E j \in 1..k : op.own[j] = op.shared[i]
                                                  \/ ~\E j \in 1..k : Key(op.own[j]) = Key(op.shared[i])
    BY <1>3 DEF Demands
  <1> HIDE DEF Latest
  <1>9. ASSUME NEW p \in InEffect
        PROVE  \/ \E j \in 1..k : p = op.own[j]
               \/ \E i \in 1..n : p = op.shared[i] /\ Demands(op.shared[i])
    <2>1. PICK i \in 1..(n + k) : Latest(i) /\ p = D[i]
      BY <1>7
    <2>2. CASE i \in 1..n
      BY <1>3, <1>6, <1>8, <2>1, <2>2
    <2>3. CASE \E j \in 1..k : i = n + j
      BY <1>3, <2>1, <2>3
    <2> QED
      BY <1>3, <2>2, <2>3
  <1>10. ASSUME NEW j \in 1..k PROVE op.own[j] \in InEffect
    <2>1. n + j \in 1..(n + k)
      BY <1>3
    <2> QED
      BY <1>3, <1>5, <1>7, <2>1
  <1>11. ASSUME NEW i \in 1..n, Demands(op.shared[i]) PROVE op.shared[i] \in InEffect
    <2>1. i \in 1..(n + k)
      BY <1>3
    <2>2. CASE \E j \in 1..k : op.own[j] = op.shared[i]
      BY <1>10, <2>2
    <2>3. CASE ~\E j \in 1..k : Key(op.own[j]) = Key(op.shared[i])
      BY <1>3, <1>6, <1>7, <2>1, <2>3
    <2> QED
      BY <1>8, <1>11, <2>2, <2>3
  <1> QED
    BY <1>3, <1>9, <1>10, <1>11

LEMMA SoundMeets ==
    ASSUME NEW p
    PROVE  Sound(p) <=> Meets(p)
  <1> DEFINE given == {n \in DOMAIN step[p.in] : n = p.name \/ (p.in = "header" /\ LowerCase[n] = LowerCase[p.name])}
  <1>1. Given(p) = {step[p.in][n] : n \in given}
    BY DEF Given
  <1>2. ASSUME NEW v
        PROVE  Admits(p.type, ValueType(p, v)) <=>
                 IF p.in = "header" THEN p.type = "string" \/ (p.type \in DOMAIN Reads /\ v.text \in Reads[p.type])
                 ELSE HasType(v.t, p.type)
    BY DEF Admits, ValueType, Coerce, HasType
  <1>3. Meets(p) <=> /\ p.required => given # {}
                     /\ \A n \in given : IF p.in = "header"
                          THEN p.type = "string" \/ (p.type \in DOMAIN Reads /\ step[p.in][n].text \in Reads[p.type])
                          ELSE HasType(step[p.in][n].t, p.type)
    BY DEF Meets
  <1> HIDE DEF given
  <1>4. Given(p) # {} <=> given # {}
    BY <1>1
  <1> QED
    BY <1>1, <1>2, <1>3, <1>4 DEF Sound

\* A step is valid exactly if no check of its parameters and its body fails.
LEMMA ValidChecks ==
    ASSUME OperationAssumption, op \in Operations
    PROVE  Valid <=> (\A p \in InEffect : Sound(p)) /\ BodyErrors = {}
  <1>1. (\A p \in InEffect : Sound(p)) <=>
          /\ \A i \in DOMAIN op.shared : Demands(op.shared[i]) => Meets(op.shared[i])
          /\ \A i \in DOMAIN op.own : Meets(op.own[i])
    BY Declared, SoundMeets
  <1>2. BodyErrors = {} <=> IF step.body = {} THEN ~op.body.required
                            ELSE op.body.schema # {} /\ \A b \in step.body, kind \in op.body.schema : HasType(b.t, kind)
    <2>1. \A kind, t : Admits(kind, t) <=> HasType(t, kind)
      BY DEF Admits, HasType
    <2>2. BodyErrors = {} <=> /\ ~\E b \in step.body, kind \in op.body.schema : ~Admits(kind, b.t)
                              /\ ~(step.body # {} /\ op.body.schema = {})
                              /\ ~(step.body = {} /\ op.body.required)
      BY DEF BodyErrors
    <2> QED
      BY <2>1, <2>2
  <1> QED
    BY <1>1, <1>2 DEF Valid

---------------------------------------------------------------------------
(* What renders has values for its variables. *)

LEMMA Rendered ==
    ASSUME NEW values, ~Fails(values), NEW v \in Names(values)
    PROVE  IF v.env THEN v.name \in DOMAIN Environment ELSE v.name \in DOMAIN Variables
  <1>1. PICK n \in DOMAIN values : "parts" \in DOMAIN values[n]
                                   /\ \E i \in DOMAIN values[n].parts : v = values[n].parts[i] /\ "name" \in DOMAIN v
    BY DEF Names
  <1>2. PICK i \in DOMAIN values[n].parts : v = values[n].parts[i] /\ "name" \in DOMAIN v
    BY <1>1
  <1>3. Render(values[n]) # {}
    BY DEF Fails
  <1>4. Resolve(v) # {}
    <2>1. CASE Whole(values[n].parts)
      <3>1. i = 1
        BY <1>2, <2>1 DEF Whole
      <3> QED
        BY <1>1, <1>2, <1>3, <2>1, <3>1 DEF Render
    <2>2. CASE ~Whole(values[n].parts)
      <3>1. PartText(values[n].parts[i]) # {}
        BY <1>1, <1>2, <1>3, <2>2 DEF Render
      <3> QED
        BY <1>2, <3>1 DEF PartText
    <2> QED
      BY <2>1, <2>2
  <1> QED
    BY <1>4 DEF Resolve

LEMMA UsableResolved == ~Unusable => Resolved
  <1> SUFFICES ASSUME ~Unusable,
                      NEW v \in Names(raw.path) \cup Names(raw.query) \cup Names(raw.header) \cup Names([b \in raw.body |-> b])
               PROVE  IF v.env THEN v.name \in DOMAIN Environment ELSE v.name \in DOMAIN Variables
    BY DEF Resolved
  <1>1. ~Fails(raw.path) /\ ~Fails(raw.query)
    BY DEF Unusable
  <1>2. ~Fails(raw.header)
    BY DEF Unusable, Fails
  <1>3. ~Fails([b \in raw.body |-> b])
    BY DEF Unusable, Fails
  <1> QED
    BY <1>1, <1>2, <1>3, Rendered

---------------------------------------------------------------------------
(* The invariant *)

Looked(ps) == errors = {} <=> \A p \in ps : Sound(p)

QInv ==
    /\ stage \in {"load", "preflight", "render", "params", "path", "done"}
    /\ stage = "done" <=> outcome # "open"
    /\ op \in Operations
    /\ stage \in {"load", "preflight", "render"} => errors = {}
    /\ stage \in {"preflight", "render"} => params = InEffect
    /\ stage = "params" => Resolved /\ todo \subseteq InEffect /\ Looked(InEffect \ todo)
    /\ stage = "path" => Resolved /\ (errors = {} <=> Valid)
    /\ SentMeansValid

LEMMA QStart == QInit => QInv
  BY DEF QInit, QInv, SentMeansValid

LEMMA Unchanging ==
    ASSUME UNCHANGED <<op, raw>>
    PROVE  InEffect' = InEffect /\ (Resolved' <=> Resolved)
  BY DEF InEffect, Declarations, Resolved, Names

LEMMA Judging ==
    ASSUME UNCHANGED <<op, raw, step>>
    PROVE  /\ \A p : Sound(p)' <=> Sound(p)
           /\ Valid' <=> Valid
  BY DEF Sound, Given, ValueType, Valid, Meets, Demands

LEMMA QStep ==
    ASSUME OperationAssumption, QInv, [QNext]_qvars
    PROVE  QInv'
  <1>1. CASE Load
    <2>1. stage = "load" /\ UNCHANGED <<op, raw, step, errors>>
      BY <1>1 DEF Load
    <2>2. \/ params' = InEffect /\ stage' = "preflight" /\ outcome' = outcome
          \/ stage' = "done" /\ outcome' = "refused"
      BY <1>1 DEF Load, Stop
    <2> QED
      BY <2>1, <2>2, Unchanging DEF QInv, SentMeansValid
  <1>2. CASE Preflight
    <2>1. stage = "preflight" /\ UNCHANGED <<op, raw, step, errors, params>>
      BY <1>2 DEF Preflight
    <2>2. (stage' = "render" /\ outcome' = outcome) \/ (stage' = "done" /\ outcome' = "refused")
      BY <1>2 DEF Preflight, Stop
    <2> QED
      BY <2>1, <2>2, Unchanging DEF QInv, SentMeansValid
  <1>3. CASE RenderStep
    <2>1. stage = "render" /\ UNCHANGED <<op, raw, errors, params>>
      BY <1>3 DEF RenderStep
    <2>2. CASE Unusable
      <3>1. stage' = "done" /\ outcome' = "error"
        BY <1>3, <2>2 DEF RenderStep, Stop
      <3> QED
        BY <2>1, <3>1, Unchanging DEF QInv, SentMeansValid
    <2>3. CASE ~Unusable
      <3>1. stage' = "params" /\ outcome' = outcome /\ todo' = InEffect /\ errors' = {}
        BY <1>3, <2>1, <2>3 DEF RenderStep, QInv
      <3>2. Resolved'
        BY <2>1, <2>3, UsableResolved, Unchanging
      <3>3. Looked(InEffect \ todo)'
        BY <2>1, <3>1, Unchanging DEF Looked
      <3> QED
        BY <2>1, <3>1, <3>2, <3>3, Unchanging DEF QInv, SentMeansValid
    <2> QED
      BY <2>2, <2>3
  <1>4. CASE CheckParameter
    <2>1. PICK p \in todo :
            /\ todo' = todo \ {p}
            /\ errors' = errors \cup {e \in {"missing"} : Given(p) = {} /\ p.required}
                                \cup {e \in {"schema"} : \E v \in Given(p) : ~Admits(p.type, ValueType(p, v))}
      BY <1>4 DEF CheckParameter
    <2>2. stage = "params" /\ UNCHANGED <<op, raw, stage, params, step, outcome>>
      BY <1>4 DEF CheckParameter
    <2>3. errors' = {} <=> errors = {} /\ Sound(p)
      BY <2>1 DEF Sound
    <2>4. todo \subseteq InEffect /\ (errors = {} <=> \A q \in InEffect \ todo : Sound(q))
      BY <2>2 DEF QInv, Looked
    <2>5. InEffect \ todo' = (InEffect \ todo) \cup {p}
      BY <2>1, <2>4
    <2>6. errors' = {} <=> \A q \in InEffect \ todo' : Sound(q)
      BY <2>3, <2>4, <2>5
    <2>7. Looked(InEffect \ todo)'
      BY <2>2, <2>6, Unchanging, Judging DEF Looked
    <2> QED
      BY <2>1, <2>2, <2>4, <2>7, Unchanging DEF QInv, SentMeansValid
  <1>5. CASE CheckBody
    <2>1. /\ stage = "params" /\ todo = {} /\ errors' = errors \cup BodyErrors /\ stage' = "path"
          /\ UNCHANGED <<op, raw, params, step, outcome>>
      BY <1>5 DEF CheckBody
    <2>2. errors' = {} <=> Valid
      BY <2>1, ValidChecks DEF QInv, Looked
    <2> QED
      BY <2>1, <2>2, Unchanging, Judging DEF QInv, SentMeansValid
  <1>6. CASE Substitute
    <2>1. stage = "path" /\ UNCHANGED <<op, raw, params, step, errors>>
      BY <1>6 DEF Substitute
    <2>2. (stage' = "done" /\ outcome' = "error") \/ (stage' = stage /\ outcome' = outcome)
      BY <1>6 DEF Substitute, Stop
    <2> QED
      BY <2>1, <2>2, Unchanging, Judging DEF QInv, SentMeansValid
  <1>7. CASE Return
    <2>1. /\ stage = "path" /\ stage' = "done" /\ outcome' = IF step.allow \/ errors = {} THEN "sent" ELSE "failed"
          /\ UNCHANGED <<op, raw, params, step, errors>>
      BY <1>7 DEF Return, Stop
    <2>2. SentMeansValid'
      BY <2>1, Unchanging, Judging DEF QInv, SentMeansValid
    <2> QED
      BY <2>1, <2>2 DEF QInv
  <1>8. CASE UNCHANGED qvars
    <2>1. UNCHANGED <<op, raw, stage, params, step, todo, errors, outcome>>
      BY <1>8 DEF qvars
    <2> QED
      BY <2>1, Unchanging, Judging DEF QInv, SentMeansValid, Looked
  <1> QED
    BY <1>1, <1>2, <1>3, <1>4, <1>5, <1>6, <1>7, <1>8 DEF QNext

\* For any operation and any step: what is sent is valid unless the step asks for an
\* exception, what fails is not, and nothing is sent with a variable that has no value,
\* in whatever order the parameters are checked (Contract.request, render).
THEOREM SentIsValid ==
    ASSUME OperationAssumption
    PROVE  QSpec => []SentMeansValid
  <1>1. QInv /\ [QNext]_qvars => QInv'
    BY QStep
  <1>2. QInv => SentMeansValid
    BY DEF QInv
  <1> QED
    BY <1>1, <1>2, QStart, PTL DEF QSpec

---------------------------------------------------------------------------
(* FlattenSeq, by induction.  What is shown for all numbers or sequences   *)
(* is that they are in a set, since the smallest number outside of it      *)
(* cannot be.                                                              *)

\* Induction over numbers, for a set: the numbers outside of it have no least one.
LEMMA NumbersBySteps ==
    ASSUME NEW T, 0 \in T, \A n \in Nat : n \in T => n + 1 \in T
    PROVE  \A n \in Nat : n \in T
  <1> SUFFICES ASSUME NEW m \in Nat, m \notin T PROVE FALSE
    OBVIOUS
  <1> DEFINE R == {pair \in Nat \X Nat : pair[1] < pair[2]}
             Rest == {n \in Nat : n \notin T}
  <1>1. PICK least \in Rest : \A n \in Rest : <<n, least>> \notin R
    <2>1. IsWellFoundedOn(R, Nat)
      BY NatLessThanWellFounded DEF OpToRel
    <2>2. Rest \subseteq Nat /\ Rest # {}
      OBVIOUS
    <2> HIDE DEF R, Rest
    <2> QED
      BY <2>1, <2>2, WFMin
  <1>2. least - 1 \in Nat /\ least - 1 < least /\ least = (least - 1) + 1
    OBVIOUS
  <1>3. least - 1 \in T
    BY <1>1, <1>2
  <1> QED
    BY <1>2, <1>3

\* Induction over sequences.
LEMMA SequencesBySteps ==
    ASSUME NEW S, NEW T, <<>> \in T, \A s \in Seq(S), x \in S : s \in T => Append(s, x) \in T
    PROVE  \A s \in Seq(S) : s \in T
  <1> DEFINE N == {n \in Nat : \A s \in Seq(S) : Len(s) = n => s \in T}
  <1>1. 0 \in N
    <2> SUFFICES ASSUME NEW s \in Seq(S), Len(s) = 0 PROVE s \in T
      OBVIOUS
    <2> QED
      BY EmptySeq
  <1>2. ASSUME NEW n \in Nat, n \in N PROVE n + 1 \in N
    <2> SUFFICES ASSUME NEW s \in Seq(S), Len(s) = n + 1 PROVE s \in T
      OBVIOUS
    <2>1. s # <<>>
      BY EmptySeq
    <2>2. PICK r \in Seq(S), x \in S : s = Append(r, x)
      BY <2>1, SequenceEmptyOrAppend
    <2>3. Len(r) \in Nat /\ Len(s) = Len(r) + 1
      BY <2>2, AppendProperties, LenProperties
    <2>4. r \in T
      BY <1>2, <2>3
    <2> QED
      BY <2>2, <2>4
  <1> HIDE DEF N
  <1>3. \A n \in Nat : n \in N
    BY <1>1, <1>2, NumbersBySteps
  <1> QED
    BY <1>3, LenProperties DEF N

\* Concatenation prefix by prefix: f[i] is that of the first i elements of s.
Accumulates(f, s, m) ==
    /\ DOMAIN f = 0..m
    /\ f[0] = <<>>
    /\ \A i \in 1..m : f[i] = f[i - 1] \o s[i]

LEMMA AccumulatesOnce ==
    ASSUME NEW s, NEW m \in Nat, NEW f, Accumulates(f, s, m), NEW g, Accumulates(g, s, m)
    PROVE  \A i \in 0..m : f[i] = g[i]
  <1> DEFINE K == {i \in Nat : i <= m => f[i] = g[i]}
  <1>1. 0 \in K
    BY DEF Accumulates
  <1>2. ASSUME NEW i \in Nat, i \in K PROVE i + 1 \in K
    <2> SUFFICES ASSUME i + 1 <= m PROVE f[i + 1] = g[i + 1]
      OBVIOUS
    <2>1. f[i] = g[i]
      BY <1>2
    <2>2. i + 1 \in 1..m /\ (i + 1) - 1 = i
      OBVIOUS
    <2>3. f[i + 1] = f[i] \o s[i + 1] /\ g[i + 1] = g[i] \o s[i + 1]
      BY <2>2 DEF Accumulates
    <2> QED
      BY <2>1, <2>3
  <1> HIDE DEF K
  <1>3. \A i \in Nat : i \in K
    BY <1>1, <1>2, NumbersBySteps
  <1> QED
    BY <1>3 DEF K

LEMMA AccumulatesTyped ==
    ASSUME NEW S, NEW m \in Nat, NEW s, \A i \in 1..m : s[i] \in Seq(S), NEW f, Accumulates(f, s, m)
    PROVE  \A i \in 0..m : f[i] \in Seq(S)
  <1> DEFINE K == {i \in Nat : i <= m => f[i] \in Seq(S)}
  <1>1. 0 \in K
    BY EmptySeq DEF Accumulates
  <1>2. ASSUME NEW i \in Nat, i \in K PROVE i + 1 \in K
    <2> SUFFICES ASSUME i + 1 <= m PROVE f[i + 1] \in Seq(S)
      OBVIOUS
    <2>1. f[i] \in Seq(S)
      BY <1>2
    <2>2. i + 1 \in 1..m /\ (i + 1) - 1 = i
      OBVIOUS
    <2>3. f[i + 1] = f[i] \o s[i + 1] /\ s[i + 1] \in Seq(S)
      BY <2>2 DEF Accumulates
    <2> QED
      BY <2>1, <2>3, ConcatProperties
  <1> HIDE DEF K
  <1>3. \A i \in Nat : i \in K
    BY <1>1, <1>2, NumbersBySteps
  <1> QED
    BY <1>3 DEF K

\* One element more.
LEMMA AccumulatesOneMore ==
    ASSUME NEW m \in Nat, NEW s, NEW f, Accumulates(f, s, m)
    PROVE  \E g : Accumulates(g, s, m + 1)
  <1> DEFINE g == [i \in 0..(m + 1) |-> IF i = m + 1 THEN f[m] \o s[m + 1] ELSE f[i]]
  <1>1. DOMAIN g = 0..(m + 1)
    OBVIOUS
  <1>2. \A i \in 0..m : g[i] = f[i]
    OBVIOUS
  <1>3. g[m + 1] = f[m] \o s[m + 1]
    OBVIOUS
  <1> HIDE DEF g
  <1>4. ASSUME NEW i \in 1..(m + 1) PROVE g[i] = g[i - 1] \o s[i]
    <2>1. CASE i = m + 1
      <3>1. i - 1 = m /\ m \in 0..m
        BY <2>1
      <3> QED
        BY <1>2, <1>3, <2>1, <3>1
    <2>2. CASE i # m + 1
      <3>1. i \in 1..m /\ i \in 0..m /\ i - 1 \in 0..m
        BY <2>2
      <3>2. f[i] = f[i - 1] \o s[i]
        BY <3>1 DEF Accumulates
      <3> QED
        BY <1>2, <3>1, <3>2
    <2> QED
      BY <2>1, <2>2
  <1>5. g[0] = <<>>
    BY <1>2 DEF Accumulates
  <1>6. Accumulates(g, s, m + 1)
    BY <1>1, <1>4, <1>5 DEF Accumulates
  <1> QED
    BY <1>6

LEMMA Accumulating ==
    ASSUME NEW s
    PROVE  \A m \in Nat : \E f : Accumulates(f, s, m)
  <1> DEFINE M == {m \in Nat : \E f : Accumulates(f, s, m)}
  <1>1. 0 \in M
    <2> DEFINE f == [i \in 0..0 |-> <<>>]
    <2>1. Accumulates(f, s, 0)
      BY DEF Accumulates
    <2> QED
      BY <2>1
  <1>2. \A m \in Nat : m \in M => m + 1 \in M
    BY AccumulatesOneMore
  <1> HIDE DEF M
  <1>3. \A m \in Nat : m \in M
    BY <1>1, <1>2, NumbersBySteps
  <1> QED
    BY <1>3 DEF M

LEMMA FlattenAccumulates ==
    ASSUME NEW S, NEW s \in Seq(Seq(S)), NEW f, Accumulates(f, s, Len(s))
    PROVE  FlattenSeq(s) = f[Len(s)] /\ FlattenSeq(s) \in Seq(S)
  <1>1. PICK n \in Nat : n = Len(s)
    OBVIOUS
  <1>2. \A i \in 1..n : s[i] \in Seq(S)
    BY <1>1, ElementOfSeq
  <1>3. \A i \in 0..n : f[i] \in Seq(S)
    BY <1>1, <1>2, AccumulatesTyped
  <1>4. f[0] = <<>> /\ \A i \in 1..n : f[i] = f[i - 1] \o s[i]
    BY <1>1 DEF Accumulates
  <1>5. CASE n = 0
    <2>1. s = <<>> /\ FlattenSeq(s) = s
      BY <1>1, <1>5, EmptySeq DEF FlattenSeq
    <2> QED
      BY <1>1, <1>4, <1>5, <2>1, EmptySeq
  <1>6. CASE n # 0
    <2> DEFINE Is(h) == h = [i \in 1..n |-> IF i = 1 THEN s[i] ELSE h[i - 1] \o s[i]]
               part == [i \in 1..n |-> f[i]]
               flat == CHOOSE h : Is(h)
               all == [i \in 0..n |-> IF i = 0 THEN <<>> ELSE flat[i]]
    <2>1. Is(part)
      <3>1. ASSUME NEW i \in 1..n PROVE part[i] = IF i = 1 THEN s[i] ELSE part[i - 1] \o s[i]
        <4>1. part[i] = f[i - 1] \o s[i]
          BY <1>4
        <4>2. CASE i = 1
          <5>1. i - 1 = 0 /\ f[i - 1] = <<>> /\ s[i] \in Seq(S)
            BY <1>2, <1>4, <4>2
          <5> QED
            BY <4>1, <4>2, <5>1, ConcatEmptySeq
        <4>3. CASE i # 1
          <5>1. i - 1 \in 1..n
            BY <4>3
          <5>2. part[i - 1] = f[i - 1]
            BY <5>1
          <5> HIDE DEF part
          <5> QED
            BY <4>1, <4>3, <5>2
        <4> QED
          BY <4>2, <4>3
      <3>2. part = [i \in 1..n |-> IF i = 1 THEN s[i] ELSE part[i - 1] \o s[i]]
        <4>1. DOMAIN part = 1..n /\ part = [i \in 1..n |-> part[i]]
          OBVIOUS
        <4> HIDE DEF part
        <4> QED
          BY <3>1, <4>1
      <3> HIDE DEF part
      <3> QED
        BY <3>2
    <2>2. Is(flat)
      <3> HIDE DEF Is, part
      <3> QED
        BY <2>1
    <2>3. FlattenSeq(s) = flat[n]
      BY <1>1, <1>6 DEF FlattenSeq
    <2>4. flat = [i \in 1..n |-> IF i = 1 THEN s[i] ELSE flat[i - 1] \o s[i]]
      BY <2>2
    <2> HIDE DEF flat, Is, part
    <2>5. \A i \in 1..n : flat[i] = IF i = 1 THEN s[i] ELSE flat[i - 1] \o s[i]
      <3> DEFINE e(i) == IF i = 1 THEN s[i] ELSE flat[i - 1] \o s[i]
      <3>1. flat = [i \in 1..n |-> e(i)]
        BY <2>4
      <3> HIDE DEF e
      <3>2. \A i \in 1..n : flat[i] = e(i)
        BY <3>1
      <3> QED
        BY <3>2 DEF e
    <2>6. Accumulates(all, s, n)
      <3>1. DOMAIN all = 0..n /\ all[0] = <<>> /\ \A i \in 1..n : all[i] = flat[i]
        OBVIOUS
      <3> HIDE DEF all
      <3>2. ASSUME NEW i \in 1..n PROVE all[i] = all[i - 1] \o s[i]
        <4>1. CASE i = 1
          <5>1. all[i - 1] = <<>> /\ all[i] = s[i] /\ s[i] \in Seq(S)
            BY <1>2, <2>5, <3>1, <4>1
          <5> QED
            BY <5>1, ConcatEmptySeq
        <4>2. CASE i # 1
          <5>1. i - 1 \in 1..n
            BY <4>2
          <5>2. all[i - 1] = flat[i - 1] /\ all[i] = flat[i]
            BY <3>1, <5>1
          <5> QED
            BY <2>5, <4>2, <5>2
        <4> QED
          BY <4>1, <4>2
      <3> QED
        BY <3>1, <3>2 DEF Accumulates
    <2>7. all[n] = flat[n]
      BY <1>6
    <2> HIDE DEF all
    <2>8. all[n] = f[n]
      <3>1. Accumulates(f, s, n)
        BY <1>1
      <3>2. \A i \in 0..n : all[i] = f[i]
        BY <2>6, <3>1, AccumulatesOnce
      <3> QED
        BY <3>2
    <2> QED
      BY <1>1, <1>3, <2>3, <2>7, <2>8
  <1> QED
    BY <1>5, <1>6

\* FlattenSeq by the last of its sequences.
LEMMA FlattenAppend ==
    ASSUME NEW S, NEW s \in Seq(Seq(S)), NEW x \in Seq(S)
    PROVE  /\ FlattenSeq(s) \in Seq(S)
           /\ FlattenSeq(Append(s, x)) = FlattenSeq(s) \o x
  <1>1. PICK n \in Nat : n = Len(s)
    OBVIOUS
  <1>2. PICK t : t = Append(s, x)
    OBVIOUS
  <1>3. t \in Seq(Seq(S)) /\ Len(t) = n + 1 /\ t[n + 1] = x /\ \A i \in 1..n : t[i] = s[i]
    BY <1>1, <1>2, AppendProperties
  <1>4. PICK f : Accumulates(f, s, n)
    BY Accumulating
  <1>5. PICK g : Accumulates(g, t, n + 1)
    <2>1. n + 1 \in Nat
      OBVIOUS
    <2>2. \A m \in Nat : \E g : Accumulates(g, t, m)
      BY Accumulating
    <2> QED
      BY <2>1, <2>2, Zenon
  <1> DEFINE h == [i \in 0..n |-> g[i]]
  <1>6. \A i \in 0..n : h[i] = g[i]
    OBVIOUS
  <1>7. DOMAIN h = 0..n
    OBVIOUS
  <1> HIDE DEF h
  <1>8. Accumulates(h, s, n)
    <2>1. h[0] = <<>>
      BY <1>5, <1>6 DEF Accumulates
    <2>2. ASSUME NEW i \in 1..n PROVE h[i] = h[i - 1] \o s[i]
      <3>1. i \in 1..(n + 1) /\ i \in 0..n /\ i - 1 \in 0..n
        OBVIOUS
      <3>2. g[i] = g[i - 1] \o t[i]
        BY <1>5, <3>1 DEF Accumulates
      <3> QED
        BY <1>3, <1>6, <3>1, <3>2
    <2> QED
      BY <1>7, <2>1, <2>2 DEF Accumulates
  <1>9. h[n] = f[n] /\ h[n] = g[n]
    <2>1. \A i \in 0..n : h[i] = f[i]
      BY <1>4, <1>8, AccumulatesOnce
    <2> QED
      BY <1>6, <2>1
  <1>10. g[n + 1] = g[n] \o x
    <2>1. n + 1 \in 1..(n + 1) /\ (n + 1) - 1 = n
      OBVIOUS
    <2> QED
      BY <1>3, <1>5, <2>1 DEF Accumulates
  <1>11. FlattenSeq(s) = f[n] /\ FlattenSeq(s) \in Seq(S)
    <2>1. Accumulates(f, s, Len(s))
      BY <1>1, <1>4
    <2> QED
      BY <1>1, <2>1, FlattenAccumulates
  <1>12. FlattenSeq(t) = g[n + 1]
    <2>1. Accumulates(g, t, Len(t))
      BY <1>3, <1>5
    <2> QED
      BY <1>3, <2>1, FlattenAccumulates
  <1> QED
    BY <1>2, <1>9, <1>10, <1>11, <1>12

LEMMA FlattenEmpty == FlattenSeq(<<>>) = <<>>
  BY EmptySeq DEF FlattenSeq

---------------------------------------------------------------------------
\* What becomes of a sequence when each of its elements is replaced by a sequence.
Replacing(h, u) == FlattenSeq([p \in DOMAIN u |-> h[u[p]]])

Maps(h, P, Q) == h \in [P -> Seq(Q)]
Renames(h, q, P, Q) == q \in [P -> Q] /\ \A x \in P : h[x] = <<q[x]>>

LEMMA ReplacingTyped ==
    ASSUME NEW P, NEW Q, NEW h, Maps(h, P, Q), NEW u \in Seq(P)
    PROVE  [p \in DOMAIN u |-> h[u[p]]] \in Seq(Seq(Q))
  <1> USE DEF Maps
  <1>1. PICK n \in Nat : n = Len(u)
    OBVIOUS
  <1>2. DOMAIN u = 1..n
    BY <1>1, LenProperties
  <1>3. \A p \in 1..n : h[u[p]] \in Seq(Q)
    BY <1>1, ElementOfSeq
  <1> DEFINE w == [p \in 1..n |-> h[u[p]]]
  <1>4. w \in [1..n -> Seq(Q)]
    BY <1>3
  <1>5. w \in Seq(Seq(Q))
    BY <1>4, SeqDef
  <1> QED
    BY <1>2, <1>5

LEMMA ReplacingIn ==
    ASSUME NEW P, NEW Q, NEW h, Maps(h, P, Q), NEW u \in Seq(P)
    PROVE  Replacing(h, u) \in Seq(Q)
  <1> USE DEF Maps
  <1>1. PICK w : w = [p \in DOMAIN u |-> h[u[p]]]
    OBVIOUS
  <1>2. w \in Seq(Seq(Q)) /\ <<>> \in Seq(Q)
    <2>1. w \in Seq(Seq(Q))
      BY <1>1, ReplacingTyped
    <2> QED
      BY <2>1, EmptySeq
  <1>3. FlattenSeq(w) \in Seq(Q)
    BY <1>2, FlattenAppend
  <1> QED
    BY <1>1, <1>3 DEF Replacing

LEMMA ReplacingAppend ==
    ASSUME NEW P, NEW Q, NEW h, Maps(h, P, Q), NEW u \in Seq(P), NEW x \in P
    PROVE  Replacing(h, Append(u, x)) = Replacing(h, u) \o h[x]
  <1> USE DEF Maps
  <1> DEFINE v == [p \in DOMAIN u |-> h[u[p]]]
             ux == Append(u, x)
             w == [p \in DOMAIN ux |-> h[ux[p]]]
  <1>1. PICK n \in Nat : n = Len(u)
    OBVIOUS
  <1>2. DOMAIN u = 1..n
    BY <1>1, LenProperties
  <1>3. ux \in Seq(P) /\ Len(ux) = n + 1 /\ ux[n + 1] = x /\ \A p \in 1..n : ux[p] = u[p]
    BY <1>1, AppendProperties
  <1> HIDE DEF ux
  <1>4. DOMAIN ux = 1..(n + 1)
    BY <1>3, LenProperties
  <1>5. v \in Seq(Seq(Q)) /\ w \in Seq(Seq(Q)) /\ h[x] \in Seq(Q)
    BY <1>3, ReplacingTyped
  <1>6. DOMAIN v = 1..n /\ Len(v) = n
    BY <1>2, <1>5, LenProperties
  <1>7. DOMAIN w = 1..(n + 1) /\ w[n + 1] = h[x] /\ \A p \in 1..n : w[p] = v[p]
    BY <1>2, <1>3, <1>4
  <1> HIDE DEF v, w
  <1>8. Len(w) = n + 1
    BY <1>5, <1>7, LenProperties
  <1> DEFINE z == Append(v, h[x])
  <1>9. z \in Seq(Seq(Q)) /\ Len(z) = n + 1 /\ z[n + 1] = h[x] /\ \A p \in 1..n : z[p] = v[p]
    BY <1>5, <1>6, AppendProperties
  <1>10. w = z
    <2>1. \A p \in 1..(n + 1) : w[p] = z[p]
      BY <1>7, <1>9
    <2> HIDE DEF z
    <2>2. Len(w) = Len(z) /\ \A p \in 1..Len(w) : w[p] = z[p]
      BY <1>8, <1>9, <2>1
    <2> QED
      BY <1>5, <1>9, <2>2, SeqEqual
  <1>11. FlattenSeq(v) \in Seq(Q) /\ FlattenSeq(w) = FlattenSeq(v) \o h[x]
    BY <1>5, <1>10, FlattenAppend
  <1> QED
    BY <1>11 DEF Replacing, v, w, ux

LEMMA ReplacingEmpty == ASSUME NEW h PROVE Replacing(h, <<>>) = <<>>
  <1>1. [p \in DOMAIN <<>> |-> h[<<>>[p]]] = <<>>
    OBVIOUS
  <1> QED
    BY <1>1, FlattenEmpty DEF Replacing

Joined(u, v) == u \o v

LEMMA JoinedAssociative ==
    ASSUME NEW S, NEW u \in Seq(S), NEW v \in Seq(S), NEW w \in Seq(S)
    PROVE  Joined(Joined(u, v), w) = Joined(u, Joined(v, w))
  <1>1. (u \o v) \o w = u \o (v \o w)
    BY ConcatAssociative
  <1> QED
    BY <1>1 DEF Joined

LEMMA JoinedAppend ==
    ASSUME NEW S, NEW u \in Seq(S), NEW v \in Seq(S), NEW w \in Seq(S), NEW x \in S
    PROVE  /\ Joined(u, v) \in Seq(S)
           /\ Joined(u, <<>>) = u
           /\ Joined(u, Append(v, x)) = Append(Joined(u, v), x)
           /\ Joined(Joined(u, v), w) = Joined(u, Joined(v, w))
  <1>1. u \o v \in Seq(S)
    BY ConcatProperties
  <1>2. u \o <<>> = u
    BY ConcatEmptySeq
  <1>3. u \o Append(v, x) = Append(u \o v, x)
    <2>1. Append(v, x) = v \o <<x>> /\ Append(u \o v, x) = (u \o v) \o <<x>> /\ <<x>> \in Seq(S)
      BY <1>1, AppendIsConcat
    <2> QED
      BY <2>1, ConcatAssociative
  <1>4. Joined(Joined(u, v), w) = Joined(u, Joined(v, w))
    BY JoinedAssociative
  <1> QED
    BY <1>1, <1>2, <1>3, <1>4 DEF Joined

LEMMA ReplacingJoined ==
    ASSUME NEW P, NEW Q, NEW h, Maps(h, P, Q), NEW u \in Seq(P), NEW v \in Seq(P)
    PROVE  Replacing(h, Joined(u, v)) = Joined(Replacing(h, u), Replacing(h, v))
  <1> DEFINE T == {w \in Seq(P) : Replacing(h, Joined(u, w)) = Joined(Replacing(h, u), Replacing(h, w))}
  <1>1. /\ \A w \in Seq(P) : Replacing(h, w) \in Seq(Q)
        /\ \A w \in Seq(P), x \in P : Replacing(h, Append(w, x)) = Joined(Replacing(h, w), h[x])
    BY ReplacingIn, ReplacingAppend DEF Joined
  <1>2. <<>> \in T
    <2>1. <<>> \in Seq(P) /\ Joined(u, <<>>) = u /\ Joined(Replacing(h, u), <<>>) = Replacing(h, u)
      BY <1>1, EmptySeq, ConcatEmptySeq DEF Joined
    <2> QED
      BY <2>1, ReplacingEmpty
  <1>3. ASSUME NEW w \in Seq(P), NEW x \in P, w \in T PROVE Append(w, x) \in T
    <2>1. Joined(u, w) \in Seq(P) /\ Joined(u, Append(w, x)) = Append(Joined(u, w), x)
      BY JoinedAppend
    <2>2. Append(w, x) \in Seq(P)
      BY AppendProperties
    <2>3. Replacing(h, Append(Joined(u, w), x)) = Joined(Replacing(h, Joined(u, w)), h[x])
      BY <1>1, <2>1
    <2>4. Replacing(h, Append(w, x)) = Joined(Replacing(h, w), h[x])
      BY <1>1
    <2>5. Replacing(h, Joined(u, w)) = Joined(Replacing(h, u), Replacing(h, w))
      BY <1>3
    <2>6. Joined(Joined(Replacing(h, u), Replacing(h, w)), h[x]) = Joined(Replacing(h, u), Joined(Replacing(h, w), h[x]))
      <3>1. Replacing(h, u) \in Seq(Q) /\ Replacing(h, w) \in Seq(Q) /\ h[x] \in Seq(Q)
        BY <1>1 DEF Maps
      <3> QED
        BY <3>1, JoinedAssociative
    <2> QED
      BY <2>1, <2>2, <2>3, <2>4, <2>5, <2>6
  <1> HIDE DEF T
  <1>4. \A w \in Seq(P) : w \in T
    BY <1>2, <1>3, SequencesBySteps
  <1> QED
    BY <1>4 DEF T

\* Replacing twice.
LEMMA ReplacingTwice ==
    ASSUME NEW P, NEW Q, NEW R, NEW k, Maps(k, P, Q), NEW h, Maps(h, Q, R)
    PROVE  \A u \in Seq(P) : Replacing(h, Replacing(k, u)) = Replacing([x \in P |-> Replacing(h, k[x])], u)
  <1>1. /\ \A u \in Seq(P) : Replacing(k, u) \in Seq(Q)
        /\ \A u \in Seq(P), x \in P : Replacing(k, Append(u, x)) = Joined(Replacing(k, u), k[x])
    BY ReplacingIn, ReplacingAppend DEF Joined
  <1>2. \A v \in Seq(Q), w \in Seq(Q) : Replacing(h, Joined(v, w)) = Joined(Replacing(h, v), Replacing(h, w))
    BY ReplacingJoined
  <1>3. \A x \in P : Replacing(h, k[x]) \in Seq(R)
    BY ReplacingIn DEF Maps
  <1> DEFINE hk == [x \in P |-> Replacing(h, k[x])]
  <1>4. Maps(hk, P, R) /\ \A x \in P : hk[x] = Replacing(h, k[x])
    BY <1>3 DEF Maps
  <1> HIDE DEF hk
  <1>5. \A u \in Seq(P), x \in P : Replacing(hk, Append(u, x)) = Joined(Replacing(hk, u), hk[x])
    BY <1>4, ReplacingAppend DEF Joined
  <1> DEFINE T == {u \in Seq(P) : Replacing(h, Replacing(k, u)) = Replacing(hk, u)}
  <1>6. <<>> \in T
    BY EmptySeq, ReplacingEmpty
  <1>7. ASSUME NEW u \in Seq(P), NEW x \in P, u \in T PROVE Append(u, x) \in T
    <2>1. Append(u, x) \in Seq(P)
      BY AppendProperties
    <2>2. Replacing(h, Joined(Replacing(k, u), k[x])) = Joined(Replacing(h, Replacing(k, u)), Replacing(h, k[x]))
      <3>1. Replacing(k, u) \in Seq(Q) /\ k[x] \in Seq(Q)
        BY <1>1 DEF Maps
      <3> QED
        BY <1>2, <3>1
    <2>3. Replacing(h, Replacing(k, u)) = Replacing(hk, u)
      BY <1>7
    <2> QED
      BY <1>1, <1>4, <1>5, <2>1, <2>2, <2>3
  <1> HIDE DEF T
  <1>8. \A u \in Seq(P) : u \in T
    BY <1>6, <1>7, SequencesBySteps
  <1> QED
    BY <1>8 DEF T, hk

\* Replacing each element by one other.
LEMMA ReplacingEach ==
    ASSUME NEW P, NEW Q, NEW q, NEW h, Maps(h, P, Q), Renames(h, q, P, Q)
    PROVE  \A u \in Seq(P) : Replacing(h, u) = [p \in DOMAIN u |-> q[u[p]]]
  <1> USE DEF Maps, Renames
  <1> DEFINE Each(u) == [p \in DOMAIN u |-> q[u[p]]]
             T == {u \in Seq(P) : Replacing(h, u) = Each(u)}
  <1>1. <<>> \in T
    <2>1. Each(<<>>) = <<>>
      OBVIOUS
    <2> QED
      BY <2>1, EmptySeq, ReplacingEmpty
  <1>2. ASSUME NEW u \in Seq(P), NEW x \in P, u \in T PROVE Append(u, x) \in T
    <2> DEFINE ux == Append(u, x)
    <2>1. PICK n \in Nat : n = Len(u)
      OBVIOUS
    <2>2. DOMAIN u = 1..n /\ \A p \in 1..n : u[p] \in P
      BY <2>1, LenProperties, ElementOfSeq
    <2>3. ux \in Seq(P) /\ Len(ux) = n + 1 /\ ux[n + 1] = x /\ \A p \in 1..n : ux[p] = u[p]
      BY <2>1, AppendProperties
    <2> HIDE DEF ux
    <2>4. DOMAIN ux = 1..(n + 1)
      BY <2>3, LenProperties
    <2>5. PICK e : e = Each(u)
      OBVIOUS
    <2>6. DOMAIN e = 1..n /\ \A p \in 1..n : e[p] = q[u[p]]
      BY <2>2, <2>5
    <2>7. e \in Seq(Q) /\ Len(e) = n
      <3>1. e \in [1..n -> Q]
        BY <2>2, <2>5
      <3>2. e \in Seq(Q)
        BY <3>1, SeqDef
      <3> QED
        BY <2>6, <3>2, LenProperties
    <2>8. q[x] \in Q
      OBVIOUS
    <2> DEFINE ex == Append(e, q[x])
    <2>9. ex \in Seq(Q) /\ Len(ex) = n + 1 /\ ex[n + 1] = q[x] /\ \A p \in 1..n : ex[p] = e[p]
      BY <2>7, <2>8, AppendProperties
    <2>10. ex = e \o <<q[x]>>
      BY <2>7, <2>8, AppendIsConcat
    <2> HIDE DEF ex
    <2>11. PICK f : f = Each(ux)
      OBVIOUS
    <2>12. DOMAIN f = 1..(n + 1) /\ \A p \in 1..(n + 1) : f[p] = q[ux[p]]
      BY <2>4, <2>11
    <2>13. DOMAIN ex = 1..(n + 1)
      BY <2>9, LenProperties
    <2>14. ASSUME NEW p \in 1..(n + 1) PROVE f[p] = ex[p]
      <3>1. CASE p = n + 1
        BY <2>3, <2>9, <2>12, <3>1
      <3>2. CASE p # n + 1
        <4>1. p \in 1..n
          BY <3>2
        <4>2. f[p] = q[ux[p]]
          BY <2>12
        <4>3. ux[p] = u[p] /\ ex[p] = e[p] /\ e[p] = q[u[p]]
          BY <2>3, <2>6, <2>9, <4>1
        <4> QED
          BY <4>2, <4>3
      <3> QED
        BY <3>1, <3>2
    <2>15. f = ex
      <3>1. f = [p \in 1..(n + 1) |-> f[p]]
        BY <2>4, <2>11
      <3>2. ex = [p \in 1..(n + 1) |-> ex[p]]
        BY <2>9, <2>13, LenProperties
      <3> QED
        BY <2>14, <3>1, <3>2
    <2>16. Replacing(h, ux) = e \o <<q[x]>>
      <3>1. Replacing(h, ux) = Replacing(h, u) \o h[x]
        BY ReplacingAppend DEF ux
      <3> QED
        BY <1>2, <2>5, <3>1
    <2> QED
      BY <2>3, <2>10, <2>11, <2>15, <2>16 DEF ux
  <1> HIDE DEF T
  <1>3. \A u \in Seq(P) : u \in T
    BY <1>1, <1>2, SequencesBySteps
  <1> QED
    BY <1>3 DEF T

\* What holds no x stays what it is when only x is replaced.
LEMMA ReplacingNone ==
    ASSUME NEW P, NEW h, Maps(h, P, P), NEW u \in Seq(P), \A p \in DOMAIN u : h[u[p]] = <<u[p]>>
    PROVE  Replacing(h, u) = u
  <1> DEFINE O == {x \in P : h[x] = <<x>>}
             q == [x \in O |-> x]
             g == [x \in O |-> h[x]]
  <1>1. PICK n \in Nat : n = Len(u) /\ DOMAIN u = 1..n
    BY LenProperties
  <1>2. \A p \in 1..n : u[p] \in O
    BY <1>1, ElementOfSeq
  <1>3. u \in Seq(O)
    <2>1. u \in [1..n -> O]
      BY <1>1, <1>2, LenProperties
    <2> HIDE DEF O
    <2> QED
      BY <2>1, SeqDef
  <1>4. Maps(g, O, O) /\ Renames(g, q, O, O)
    <2>1. \A x \in O : <<x>> \in Seq(O)
      OBVIOUS
    <2> QED
      BY <2>1 DEF Maps, Renames
  <1>5. [p \in DOMAIN u |-> g[u[p]]] = [p \in DOMAIN u |-> h[u[p]]]
    BY <1>1, <1>2
  <1>6. [p \in DOMAIN u |-> q[u[p]]] = u
    <2>1. u = [p \in DOMAIN u |-> u[p]]
      BY <1>1, LenProperties
    <2>2. \A p \in DOMAIN u : q[u[p]] = u[p]
      BY <1>1, <1>2
    <2> HIDE DEF q
    <2> QED
      BY <2>1, <2>2
  <1> HIDE DEF O, q, g
  <1>7. Replacing(g, u) = [p \in DOMAIN u |-> q[u[p]]]
    BY <1>3, <1>4, ReplacingEach
  <1> QED
    BY <1>5, <1>6, <1>7 DEF Replacing

LEMMA ReplacingOne ==
    ASSUME NEW P, NEW Q, NEW h, Maps(h, P, Q), NEW x \in P
    PROVE  Replacing(h, <<x>>) = h[x]
  <1>1. <<>> \in Seq(P) /\ Append(<<>>, x) = <<x>>
    BY EmptySeq
  <1>2. Replacing(h, Append(<<>>, x)) = Replacing(h, <<>>) \o h[x]
    BY <1>1, ReplacingAppend
  <1>3. <<>> \o h[x] = h[x]
    BY ConcatEmptySeq
  <1> QED
    BY <1>1, <1>2, <1>3, ReplacingEmpty

---------------------------------------------------------------------------
(* The path of a request.  Pieces of a path that is being built are raw or encoded. *)

RawPiece == {"char", "hole"} \X STRING
Piece == {"char", "hole", "%char", "%hole"} \X STRING

ReadPiece ==
    [piece \in Piece |-> CASE piece = Slash -> Separator
                           [] piece[1] = "%char" -> <<"char", piece[2]>>
                           [] piece[1] = "%hole" -> <<"hole", piece[2]>>
                           [] OTHER -> piece]

\* One value in its place, and all values in theirs but those of the rest.
Putting(key) == [piece \in Piece |-> IF piece = <<"hole", key>> THEN Quote(step.path[key].text) ELSE <<piece>>]

Filling(rest) ==
    [piece \in Piece |-> IF piece[1] = "hole" /\ piece[2] \in Holes(op.path) \ rest
                         THEN Quote(step.path[piece[2]].text) ELSE <<piece>>]

\* quote of a text: no slash is left and no placeholder, and it can be read back.
LEMMA Quoted ==
    ASSUME NEW text \in Text
    PROVE  /\ Quote(text) \in Seq(Piece)
           /\ \A i \in DOMAIN Quote(text) : Quote(text)[i] # Slash /\ Quote(text)[i][1] # "hole"
           /\ Read(Quote(text)) = text
           /\ text \in Dots => Quote(text) = text
  <1>1. PICK n \in Nat : n = Len(text) /\ DOMAIN text = 1..n
    BY LenProperties DEF Text
  <1>2. \A i \in 1..n : text[i] \in RawPiece
    BY <1>1, ElementOfSeq DEF Text, RawPiece
  <1>3. PICK quoted : quoted = Quote(text)
    OBVIOUS
  <1>4. /\ DOMAIN quoted = 1..n
        /\ \A i \in 1..n : quoted[i] = IF text[i][1] = "char" /\ text[i][2] \in Unreserved THEN text[i] ELSE Percent(text[i])
    BY <1>1, <1>3 DEF Quote
  <1>5. ASSUME NEW i \in 1..n
        PROVE  /\ quoted[i] \in Piece /\ quoted[i] # Slash /\ quoted[i][1] # "hole"
               /\ text[i] = CASE quoted[i] = Slash -> Separator
                              [] quoted[i][1] = "%char" -> <<"char", quoted[i][2]>>
                              [] quoted[i][1] = "%hole" -> <<"hole", quoted[i][2]>>
                              [] OTHER -> quoted[i]
    <2>1. PICK kind \in {"char", "hole"}, c \in STRING : text[i] = <<kind, c>>
      BY <1>2 DEF RawPiece
    <2>2. CASE kind = "char" /\ c \in Unreserved
      <3>1. quoted[i] = <<"char", c>> /\ c # "/"
        BY <1>4, <2>1, <2>2 DEF Unreserved
      <3> QED
        BY <2>1, <2>2, <3>1 DEF Piece, Slash
    <2>3. CASE kind = "char" /\ c \notin Unreserved
      <3>1. quoted[i] = <<"%char", c>>
        BY <1>4, <2>1, <2>3 DEF Percent
      <3> QED
        BY <2>1, <2>3, <3>1 DEF Piece, Slash
    <2>4. CASE kind = "hole"
      <3>1. quoted[i] = <<"%hole", c>>
        BY <1>4, <2>1, <2>4 DEF Percent
      <3> QED
        BY <2>1, <2>4, <3>1 DEF Piece, Slash
    <2> QED
      BY <2>1, <2>2, <2>3, <2>4
  <1>6. quoted \in Seq(Piece)
    <2>1. quoted \in [1..n -> Piece]
      <3>1. quoted = [i \in 1..n |-> quoted[i]]
        BY <1>1, <1>3 DEF Quote
      <3> QED
        BY <1>5, <3>1
    <2> QED
      BY <2>1, SeqDef
  <1>7. Read(quoted) = text
    <2>1. Read(quoted) = [i \in 1..n |-> text[i]]
      BY <1>4, <1>5 DEF Read
    <2>2. text = [i \in 1..n |-> text[i]]
      BY <1>1, LenProperties DEF Text
    <2> QED
      BY <2>1, <2>2
  <1>8. ASSUME text \in Dots PROVE quoted = text
    <2>1. \A i \in DOMAIN text : text[i] = <<"char", ".">>
      BY <1>8 DEF Dots
    <2>2. \A i \in 1..n : quoted[i] = text[i]
      BY <1>1, <1>4, <2>1 DEF Unreserved
    <2>3. text = [i \in 1..n |-> text[i]] /\ quoted = [i \in 1..n |-> quoted[i]]
      BY <1>1, <1>3, LenProperties DEF Quote, Text
    <2> QED
      BY <2>2, <2>3
  <1> QED
    BY <1>3, <1>4, <1>5, <1>6, <1>7, <1>8

PathTyped ==
    /\ op.path \in Text
    /\ \A n \in Holes(op.path) : step.path[n].text \in Text

LEMMA Typed ==
    ASSUME PathTyped
    PROVE  /\ op.path \in Seq(Piece)
           /\ \A key \in Holes(op.path) : Maps(Putting(key), Piece, Piece)
           /\ \A rest : Maps(Filling(rest), Piece, Piece)
           /\ ReadPiece \in [Piece -> RawPiece \cup {Separator}]
  <1>1. \A piece \in Piece : <<piece>> \in Seq(Piece)
    OBVIOUS
  <1>2. \A n \in Holes(op.path) : Quote(step.path[n].text) \in Seq(Piece)
    BY Quoted DEF PathTyped
  <1>3. op.path \in Seq(Piece)
    <2>1. op.path \in Seq(RawPiece) /\ RawPiece \subseteq Piece
      BY DEF PathTyped, Text, RawPiece, Piece
    <2>2. PICK n \in Nat : op.path \in [1..n -> RawPiece]
      BY <2>1, SeqDef
    <2>3. op.path \in [1..n -> Piece]
      BY <2>1, <2>2
    <2> QED
      BY <2>3, SeqDef
  <1>4. \A key \in Holes(op.path) : Maps(Putting(key), Piece, Piece)
    BY <1>1, <1>2 DEF Putting, Maps
  <1>5. \A rest : Maps(Filling(rest), Piece, Piece)
    BY <1>1, <1>2 DEF Filling, Maps
  <1>6. ASSUME NEW piece \in Piece PROVE ReadPiece[piece] \in RawPiece \cup {Separator}
    <2>1. PICK kind \in {"char", "hole", "%char", "%hole"}, c \in STRING : piece = <<kind, c>>
      <3>1. piece = <<piece[1], piece[2]>> /\ piece[1] \in {"char", "hole", "%char", "%hole"} /\ piece[2] \in STRING
        BY DEF Piece
      <3> QED
        BY <3>1
    <2>2. piece[1] = kind /\ piece[2] = c
      BY <2>1
    <2>3. ReadPiece[piece] = CASE piece = Slash -> Separator
                               [] kind = "%char" -> <<"char", c>>
                               [] kind = "%hole" -> <<"hole", c>>
                               [] OTHER -> <<kind, c>>
      BY <2>1, <2>2 DEF ReadPiece
    <2>4. ReadPiece[piece] = Separator \/ ReadPiece[piece] \in {<<"char", c>>, <<"hole", c>>}
      BY <2>3
    <2> QED
      BY <2>4 DEF RawPiece
  <1>7. ReadPiece \in [Piece -> RawPiece \cup {Separator}]
    BY <1>6 DEF ReadPiece
  <1> QED
    BY <1>3, <1>4, <1>5, <1>7

\* One replacement more: it finds its placeholder and nothing of a value.
LEMMA FillingMore ==
    ASSUME PathTyped, NEW rest, NEW key \in rest, rest \subseteq Holes(op.path)
    PROVE  Replacing(Putting(key), Replacing(Filling(rest), op.path)) = Replacing(Filling(rest \ {key}), op.path)
  <1>1. PICK put, some, more : put = Putting(key) /\ some = Filling(rest) /\ more = Filling(rest \ {key})
    OBVIOUS
  <1>2. Maps(put, Piece, Piece) /\ Maps(some, Piece, Piece) /\ op.path \in Seq(Piece)
    BY <1>1, Typed
  <1>3. ASSUME NEW piece \in Piece PROVE Replacing(put, some[piece]) = more[piece]
    <2>1. CASE piece[1] = "hole" /\ piece[2] \in Holes(op.path) \ rest
      <3>1. PICK text \in Text : text = step.path[piece[2]].text
        BY <2>1 DEF PathTyped
      <3>2. some[piece] = Quote(text) /\ more[piece] = Quote(text)
        BY <1>1, <2>1, <3>1 DEF Filling
      <3>3. PICK quoted \in Seq(Piece) : quoted = Quote(text) /\ \A p \in DOMAIN quoted : quoted[p][1] # "hole"
        BY Quoted
      <3>4. \A p \in DOMAIN quoted : put[quoted[p]] = <<quoted[p]>>
        <4> SUFFICES ASSUME NEW p \in DOMAIN quoted PROVE put[quoted[p]] = <<quoted[p]>>
          OBVIOUS
        <4>1. quoted[p] \in Piece
          BY <3>3, ElementOfSeq, LenProperties
        <4>2. quoted[p] # <<"hole", key>>
          BY <3>3
        <4> QED
          BY <1>1, <4>1, <4>2 DEF Putting
      <3>5. Replacing(put, quoted) = quoted
        BY <1>2, <3>4, ReplacingNone
      <3> QED
        BY <3>2, <3>3, <3>5
    <2>2. CASE piece = <<"hole", key>>
      <3>1. some[piece] = <<piece>> /\ more[piece] = put[piece]
        BY <1>1, <2>2 DEF Filling, Putting
      <3>2. Replacing(put, <<piece>>) = put[piece]
        BY <1>2, ReplacingOne
      <3> QED
        BY <3>1, <3>2
    <2>3. CASE ~(piece[1] = "hole" /\ piece[2] \in Holes(op.path) \ rest) /\ piece # <<"hole", key>>
      <3>1. piece[1] = "hole" => piece[2] # key
        BY <2>3 DEF Piece
      <3>2. some[piece] = <<piece>> /\ more[piece] = <<piece>> /\ put[piece] = <<piece>>
        BY <1>1, <2>3, <3>1 DEF Filling, Putting
      <3>3. Replacing(put, <<piece>>) = put[piece]
        BY <1>2, ReplacingOne
      <3> QED
        BY <3>2, <3>3
    <2> QED
      BY <2>1, <2>2, <2>3
  <1>4. more = [piece \in Piece |-> more[piece]]
    BY <1>1 DEF Filling
  <1>5. [piece \in Piece |-> Replacing(put, some[piece])] = more
    BY <1>3, <1>4
  <1>6. Replacing(put, Replacing(some, op.path)) = Replacing([piece \in Piece |-> Replacing(put, some[piece])], op.path)
    BY <1>2, ReplacingTwice
  <1> QED
    BY <1>1, <1>5, <1>6

\* With all values in their places, the path reads as the contract means it.
LEMMA FilledReads ==
    ASSUME PathTyped
    PROVE  Read(Replacing(Filling({}), op.path)) = FlattenSeq([i \in DOMAIN op.path |-> Meant(op.path[i])])
  <1>1. PICK full : full = Filling({})
    OBVIOUS
  <1> DEFINE Out == RawPiece \cup {Separator}
             one == [piece \in Piece |-> <<ReadPiece[piece]>>]
             Each(u) == [p \in DOMAIN u |-> ReadPiece[u[p]]]
  <1>2. Maps(full, Piece, Piece) /\ op.path \in Seq(Piece) /\ ReadPiece \in [Piece -> Out]
    BY <1>1, Typed
  <1> HIDE DEF Out
  <1>3. Maps(one, Piece, Out) /\ Renames(one, ReadPiece, Piece, Out) /\ \A piece \in Piece : one[piece] = <<ReadPiece[piece]>>
    BY <1>2 DEF Maps, Renames
  <1> HIDE DEF one
  <1>4. \A u \in Seq(Piece) : Replacing(one, u) = Each(u)
    BY <1>2, <1>3, ReplacingEach
  <1>5. ASSUME NEW u \in Seq(Piece) PROVE Read(u) = Each(u)
    <2>1. \A p \in DOMAIN u : u[p] \in Piece
      BY ElementOfSeq, LenProperties
    <2> QED
      BY <2>1 DEF Read, ReadPiece
  <1> HIDE DEF Each
  <1>6. Replacing(full, op.path) \in Seq(Piece)
    BY <1>2, ReplacingIn
  <1>7. Read(Replacing(full, op.path)) = Replacing(one, Replacing(full, op.path))
    BY <1>4, <1>5, <1>6
  <1> DEFINE all == [piece \in Piece |-> Replacing(one, full[piece])]
  <1>8. Replacing(one, Replacing(full, op.path)) = Replacing(all, op.path)
    BY <1>2, <1>3, ReplacingTwice
  <1>9. ASSUME NEW i \in DOMAIN op.path PROVE all[op.path[i]] = Meant(op.path[i])
    <2>1. PICK piece \in RawPiece : piece = op.path[i]
      BY ElementOfSeq, LenProperties DEF PathTyped, Text, RawPiece
    <2>2. piece \in Piece /\ full[piece] \in Seq(Piece)
      BY <1>2, <2>1 DEF RawPiece, Piece, Maps
    <2>3. all[piece] = Read(full[piece])
      BY <1>4, <1>5, <2>2
    <2>4. CASE piece[1] = "hole"
      <3>1. piece[2] \in Holes(op.path)
        BY <2>1, <2>4 DEF Holes
      <3>2. full[piece] = Quote(step.path[piece[2]].text)
        BY <1>1, <2>2, <2>4, <3>1 DEF Filling
      <3>3. Read(Quote(step.path[piece[2]].text)) = step.path[piece[2]].text
        BY <3>1, Quoted DEF PathTyped
      <3>4. piece # Slash
        BY <2>4 DEF Slash
      <3> QED
        BY <2>1, <2>3, <2>4, <3>2, <3>3, <3>4 DEF Meant
    <2>5. CASE piece[1] # "hole"
      <3>1. full[piece] = <<piece>>
        BY <1>1, <2>2, <2>5 DEF Filling
      <3>2. Replacing(one, <<piece>>) = one[piece]
        BY <1>3, <2>2, ReplacingOne
      <3>3. all[piece] = <<ReadPiece[piece]>>
        BY <1>3, <2>2, <3>1, <3>2
      <3>4. ReadPiece[piece] = IF piece = Slash THEN Separator ELSE piece
        <4>1. PICK c \in STRING : piece = <<"char", c>>
          <5>1. piece = <<piece[1], piece[2]>> /\ piece[1] \in {"char", "hole"} /\ piece[2] \in STRING
            BY DEF RawPiece
          <5> QED
            BY <2>5, <5>1
        <4>2. piece[1] # "%char" /\ piece[1] # "%hole"
          BY <4>1
        <4> QED
          BY <2>2, <4>2 DEF ReadPiece
      <3> QED
        BY <2>1, <2>5, <3>3, <3>4 DEF Meant
    <2> QED
      BY <2>1, <2>4, <2>5
  <1>10. Replacing(all, op.path) = FlattenSeq([i \in DOMAIN op.path |-> Meant(op.path[i])])
    <2> HIDE DEF all
    <2>1. [i \in DOMAIN op.path |-> all[op.path[i]]] = [i \in DOMAIN op.path |-> Meant(op.path[i])]
      BY <1>9
    <2> QED
      BY <2>1 DEF Replacing
  <1> QED
    BY <1>1, <1>7, <1>8, <1>10

LEMMA ResolvedText ==
    ASSUME TextAssumption, NEW variable, NEW v \in Resolve(variable)
    PROVE  v.text \in Text
  <1>1. CASE variable.env
    BY <1>1 DEF Resolve, String, TextAssumption
  <1>2. CASE ~variable.env
    BY <1>2 DEF Resolve, TextAssumption, Value
  <1> QED
    BY <1>1, <1>2

LEMMA RenderedText ==
    ASSUME TextAssumption, NEW value \in Value \cup Template, NEW v \in Render(value)
    PROVE  v.text \in Text
  <1>1. CASE "parts" \notin DOMAIN value
    <2>1. value \in Value /\ v = value
      BY <1>1 DEF Render, Template
    <2> QED
      BY <2>1 DEF Value
  <1>2. CASE "parts" \in DOMAIN value
    <2>1. value \in Template
      BY <1>2 DEF Value
    <2>2. PICK parts : parts = value.parts
      OBVIOUS
    <2>3. parts \in Seq([text : Text] \cup [name : STRING, env : BOOLEAN])
      BY <2>1, <2>2 DEF Template
    <2>4. PICK n \in Nat : DOMAIN parts = 1..n /\ \A i \in 1..n : parts[i] \in [text : Text] \cup [name : STRING, env : BOOLEAN]
      BY <2>3, LenProperties, ElementOfSeq
    <2>5. CASE Whole(parts)
      <3>1. v \in Resolve(parts[1])
        BY <1>2, <2>2, <2>5 DEF Render
      <3> QED
        BY <3>1, ResolvedText
    <2>6. CASE ~Whole(parts)
      <3> DEFINE chosen(i) == CHOOSE text \in PartText(parts[i]) : TRUE
                 texts == [i \in DOMAIN parts |-> chosen(i)]
      <3>1. (\A i \in DOMAIN parts : PartText(parts[i]) # {}) /\ v = String(FlattenSeq(texts))
        BY <1>2, <2>2, <2>6 DEF Render
      <3>2. ASSUME NEW i \in 1..n PROVE chosen(i) \in Text
        <4>1. chosen(i) \in PartText(parts[i])
          BY <2>4, <3>1
        <4> HIDE DEF chosen
        <4>2. CASE "name" \in DOMAIN parts[i]
          <5>1. PICK r \in Resolve(parts[i]) : chosen(i) = r.text
            BY <4>1, <4>2 DEF PartText
          <5> QED
            BY <5>1, ResolvedText
        <4>3. CASE "name" \notin DOMAIN parts[i]
          <5>1. parts[i] \in [text : Text]
            BY <2>4, <4>3
          <5> QED
            BY <4>1, <4>3, <5>1 DEF PartText
        <4> QED
          BY <4>2, <4>3
      <3> HIDE DEF chosen
      <3>3. texts \in Seq(Text)
        <4>1. texts \in [1..n -> Text]
          BY <2>4, <3>2
        <4> HIDE DEF texts
        <4> QED
          BY <4>1, SeqDef
      <3> HIDE DEF texts
      <3>4. FlattenSeq(texts) \in Text
        BY <3>3, FlattenAppend, EmptySeq DEF Text
      <3> QED
        BY <3>1, <3>4 DEF String
    <2> QED
      BY <2>5, <2>6
  <1> QED
    BY <1>1, <1>2

\* What is replaced so far, in whatever order.
PathInv ==
    /\ stage \in {"load", "preflight", "render", "params", "path", "done"}
    /\ stage # "done" => outcome = "open"
    /\ op \in Operations /\ raw \in RawSteps
    /\ stage = "render" => SameHoles
    /\ stage \in {"params", "path"} => PathTyped /\ DOMAIN step.path = Holes(op.path)
    /\ stage = "params" => path = op.path
    /\ stage = "path" =>
         /\ todo \subseteq Holes(op.path)
         /\ path = Replacing(Filling(todo), op.path)
         /\ \A n \in Holes(op.path) \ todo : step.path[n].text \notin Dots
    /\ PathIntact

LEMMA PathInit == QInit => PathInv
  BY DEF QInit, PathInv, PathIntact

LEMMA PathKeeps ==
    ASSUME UNCHANGED <<op, step>>
    PROVE  /\ PathTyped' <=> PathTyped
           /\ Holes(op.path)' = Holes(op.path)
           /\ \A rest : Filling(rest)' = Filling(rest)
           /\ \A piece : Meant(piece)' = Meant(piece)
  BY DEF PathTyped, Holes, Filling, Meant

\* At first nothing is replaced.
LEMMA FillingNothing ==
    ASSUME PathTyped
    PROVE  op.path = Replacing(Filling(Holes(op.path)), op.path)
  <1>1. PICK none : none = Filling(Holes(op.path))
    OBVIOUS
  <1>2. Maps(none, Piece, Piece) /\ op.path \in Seq(Piece)
    BY <1>1, Typed
  <1>3. ASSUME NEW p \in DOMAIN op.path PROVE none[op.path[p]] = <<op.path[p]>>
    <2>1. op.path[p] \in Piece
      BY <1>2, ElementOfSeq, LenProperties
    <2> QED
      BY <1>1, <2>1 DEF Filling
  <1> QED
    BY <1>1, <1>2, <1>3, ReplacingNone

LEMMA PathStep ==
    ASSUME TextAssumption, PathInv, [QNext]_qvars
    PROVE  PathInv'
  <1>1. CASE Load
    <2>1. /\ stage = "load" /\ UNCHANGED <<op, raw>>
          /\ (stage' = "preflight" /\ outcome' = outcome) \/ (stage' = "done" /\ outcome' = "refused")
      BY <1>1 DEF Load, Stop
    <2> QED
      BY <2>1 DEF PathInv, PathIntact
  <1>2. CASE Preflight
    <2>1. /\ stage = "preflight" /\ UNCHANGED <<op, raw>>
          /\ (stage' = "render" /\ SameHoles /\ outcome' = outcome) \/ (stage' = "done" /\ outcome' = "refused")
      BY <1>2 DEF Preflight, Stop
    <2>2. SameHoles' <=> SameHoles
      BY <2>1 DEF SameHoles, Holes
    <2> QED
      BY <2>1, <2>2 DEF PathInv, PathIntact
  <1>3. CASE RenderStep
    <2>1. stage = "render" /\ UNCHANGED <<op, raw>>
      BY <1>3 DEF RenderStep
    <2>2. CASE Unusable
      <3>1. stage' = "done" /\ outcome' = "error"
        BY <1>3, <2>2 DEF RenderStep, Stop
      <3> QED
        BY <2>1, <3>1 DEF PathInv, PathIntact
    <2>3. CASE ~Unusable
      <3>1. /\ step' = [raw EXCEPT !.path = RenderAll(@), !.query = RenderAll(@), !.header = RenderAll(@),
                                   !.body = UNION {Render(b) : b \in @}]
            /\ path' = op.path /\ stage' = "params" /\ outcome' = outcome
        BY <1>3, <2>3 DEF RenderStep
      <3>2. "path" \in DOMAIN raw /\ (\A n \in DOMAIN raw.path : raw.path[n] \in Value \cup Template) /\ op.path \in Text
        BY DEF PathInv, TextAssumption
      <3>3. step'.path = RenderAll(raw.path)
        BY <3>1, <3>2
      <3>4. DOMAIN step'.path = Holes(op.path)
        BY <2>1, <3>3 DEF PathInv, SameHoles, RenderAll
      <3>5. ASSUME NEW n \in Holes(op.path) PROVE step'.path[n].text \in Text
        <4>1. n \in DOMAIN raw.path
          BY <2>1 DEF PathInv, SameHoles
        <4>2. Render(raw.path[n]) # {}
          BY <2>3, <4>1 DEF Unusable, Fails
        <4>3. step'.path[n] \in Render(raw.path[n])
          BY <3>3, <4>1, <4>2 DEF RenderAll
        <4> QED
          BY <3>2, <4>1, <4>3, RenderedText
      <3>6. Holes(op.path)' = Holes(op.path)
        BY <2>1 DEF Holes
      <3>7. PathTyped'
        BY <2>1, <3>2, <3>5, <3>6 DEF PathTyped
      <3> QED
        BY <2>1, <3>1, <3>4, <3>6, <3>7 DEF PathInv, PathIntact
    <2> QED
      BY <2>2, <2>3
  <1>4. CASE CheckParameter
    <2>1. stage = "params" /\ UNCHANGED <<op, raw, stage, step, path, outcome>>
      BY <1>4 DEF CheckParameter
    <2> QED
      BY <2>1, PathKeeps DEF PathInv, PathIntact
  <1>5. CASE CheckBody
    <2>1. /\ stage = "params" /\ stage' = "path" /\ todo' = DOMAIN step.path
          /\ UNCHANGED <<op, raw, step, path, outcome>>
      BY <1>5 DEF CheckBody
    <2>2. PathTyped /\ todo' = Holes(op.path) /\ path' = op.path /\ outcome = "open"
      BY <2>1 DEF PathInv
    <2>3. path' = Replacing(Filling(todo'), op.path)
      BY <2>2, FillingNothing
    <2>4. (path = Replacing(Filling(todo), op.path))'
      BY <2>1, <2>3, PathKeeps
    <2> QED
      BY <2>1, <2>2, <2>4, PathKeeps DEF PathInv, PathIntact
  <1>6. CASE Substitute
    <2>1. stage = "path" /\ UNCHANGED <<op, raw, step>>
      BY <1>6 DEF Substitute
    <2>2. PICK key \in todo :
            /\ todo' = todo \ {key}
            /\ IF Quote(step.path[key].text) \in Dots
               THEN Stop("error") /\ UNCHANGED path
               ELSE /\ path' = FlattenSeq([i \in DOMAIN path |->
                           IF path[i] = <<"hole", key>> THEN Quote(step.path[key].text) ELSE <<path[i]>>])
                    /\ UNCHANGED <<stage, outcome>>
      BY <1>6 DEF Substitute
    <2>3. /\ PathTyped /\ DOMAIN step.path = Holes(op.path) /\ todo \subseteq Holes(op.path)
          /\ path = Replacing(Filling(todo), op.path) /\ outcome = "open"
          /\ \A n \in Holes(op.path) \ todo : step.path[n].text \notin Dots
      BY <2>1 DEF PathInv
    <2>4. CASE Quote(step.path[key].text) \in Dots
      <3>1. stage' = "done" /\ outcome' = "error"
        BY <2>2, <2>4 DEF Stop
      <3> QED
        BY <2>1, <3>1 DEF PathInv, PathIntact
    <2>5. CASE Quote(step.path[key].text) \notin Dots
      <3>1. stage' = "path" /\ outcome' = "open"
        BY <2>1, <2>2, <2>3, <2>5
      <3>2. path \in Seq(Piece)
        BY <2>3, Typed, ReplacingIn
      <3>3. path' = Replacing(Putting(key), path)
        <4>1. \A i \in DOMAIN path : path[i] \in Piece
          BY <3>2, ElementOfSeq, LenProperties
        <4>2. [i \in DOMAIN path |-> IF path[i] = <<"hole", key>> THEN Quote(step.path[key].text) ELSE <<path[i]>>]
              = [i \in DOMAIN path |-> Putting(key)[path[i]]]
          BY <4>1 DEF Putting
        <4> QED
          BY <2>2, <2>5, <4>2 DEF Replacing
      <3>4. path' = Replacing(Filling(todo'), op.path)
        BY <2>2, <2>3, <3>3, FillingMore
      <3>5. (path = Replacing(Filling(todo), op.path))'
        BY <2>1, <3>4, PathKeeps
      <3>6. step.path[key].text \notin Dots
        <4>1. step.path[key].text \in Text
          BY <2>3 DEF PathTyped
        <4> QED
          BY <2>5, <4>1, Quoted
      <3>7. todo' \subseteq Holes(op.path) /\ \A n \in Holes(op.path) \ todo' : step.path[n].text \notin Dots
        BY <2>2, <2>3, <3>6
      <3> QED
        BY <2>1, <2>3, <3>1, <3>5, <3>7, PathKeeps DEF PathInv, PathIntact
    <2> QED
      BY <2>4, <2>5
  <1>7. CASE Return
    <2>1. stage = "path" /\ todo = {} /\ stage' = "done" /\ UNCHANGED <<op, raw, step, path>>
      BY <1>7 DEF Return, Stop
    <2>2. /\ PathTyped /\ path = Replacing(Filling({}), op.path)
          /\ \A n \in Holes(op.path) : step.path[n].text \notin Dots
      BY <2>1 DEF PathInv
    <2>3. Read(path) = FlattenSeq([i \in DOMAIN op.path |-> Meant(op.path[i])])
      BY <2>2, FilledReads
    <2>4. (Read(path) = FlattenSeq([i \in DOMAIN op.path |-> Meant(op.path[i])]))'
      <3>1. Read(path)' = Read(path)
        BY <2>1 DEF Read
      <3>2. [i \in DOMAIN op.path |-> Meant(op.path[i])]' = [i \in DOMAIN op.path |-> Meant(op.path[i])]
        BY <2>1, PathKeeps
      <3> QED
        BY <2>3, <3>1, <3>2
    <2> QED
      BY <2>1, <2>2, <2>4, PathKeeps DEF PathInv, PathIntact
  <1>8. CASE UNCHANGED qvars
    <2>1. UNCHANGED <<op, raw, stage, step, todo, path, outcome>>
      BY <1>8 DEF qvars
    <2>2. (SameHoles' <=> SameHoles) /\ (PathIntact' <=> PathIntact)
      BY <2>1 DEF SameHoles, PathIntact, Holes, Read, Meant
    <2>3. (path = Replacing(Filling(todo), op.path))' <=> path = Replacing(Filling(todo), op.path)
      BY <2>1, PathKeeps
    <2> QED
      BY <2>1, <2>2, <2>3, PathKeeps DEF PathInv
  <1> QED
    BY <1>1, <1>2, <1>3, <1>4, <1>5, <1>6, <1>7, <1>8 DEF QNext

\* For any path, any values and any order in which they are replaced: what is sent reads as
\* the contract's path with the text of each value in the place of its name, no value has
\* added a segment or a placeholder, and none is a segment of dots (Contract.request).
THEOREM PathIsIntact ==
    ASSUME TextAssumption
    PROVE  QSpec => []PathIntact
  <1>1. PathInv /\ [QNext]_qvars => PathInv'
    BY PathStep
  <1>2. PathInv => PathIntact
    BY DEF PathInv
  <1> QED
    BY <1>1, <1>2, PathInit, PTL DEF QSpec
===============================================================================
