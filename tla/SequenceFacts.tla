----------------------------- MODULE SequenceFacts -----------------------------
(***************************************************************************)
(* Facts about the operators on sequences the models are built from.       *)
(* FlattenSeq is a recursive function; what it returns is shown by         *)
(* induction over a set of numbers, which needs no operator parameter.     *)
(* Count says how often something occurs, which is how references that are *)
(* still to be given up are counted.                                       *)
(***************************************************************************)
EXTENDS SequencesExt, SequenceTheorems, FiniteSetTheorems, WellFoundedInduction, TLAPS

-------------------------------------------------------------------------------
(* Induction. *)

\* A set of numbers has a least one.
LEMMA LeastNat ==
  ASSUME NEW T, T \subseteq Nat, T # {}
  PROVE  \E x \in T : \A y \in T : x <= y
<1>1. IsWellFoundedOn(OpToRel(<, Nat), Nat)
  BY NatLessThanWellFounded, Zenon
<1>2. PICK x \in T : \A y \in T : ~(<<y, x>> \in OpToRel(<, Nat))
  BY <1>1, WFMin, Zenon
<1>3. \A y \in T : ~(y < x)
  BY <1>2 DEF OpToRel
<1> QED BY <1>3

LEMMA NatSetInduction ==
  ASSUME NEW S, 0 \in S, \A n \in Nat : n \in S => n + 1 \in S
  PROVE  Nat \subseteq S
<1> SUFFICES ASSUME Nat \ S # {} PROVE FALSE
  OBVIOUS
<1>1. PICK x \in Nat \ S : \A y \in Nat \ S : x <= y
  <2>1. Nat \ S \subseteq Nat OBVIOUS
  <2> QED BY <2>1, LeastNat
<1>2. x # 0 OBVIOUS
<1>3. x - 1 \in Nat BY <1>2
<1>4. x - 1 \in S BY <1>1, <1>3
<1> QED BY <1>3, <1>4

-------------------------------------------------------------------------------
(* A function on 1 .. n is a sequence. *)
LEMMA FunctionIsSeq ==
  ASSUME NEW S, NEW n \in Nat, NEW f \in [1 .. n -> S]
  PROVE  f \in Seq(S) /\ Len(f) = n
  OBVIOUS

-------------------------------------------------------------------------------
(* FlattenSeq. *)

\* f is the recursive function of FlattenSeq(ss).
Flattens(f, ss) ==
  f = [i \in 1 .. Len(ss) |-> IF i = 1 THEN ss[i] ELSE f[i - 1] \o ss[i]]

LEMMA FlattenExists ==
  ASSUME NEW ss, NEW n \in Nat
  PROVE  \E f : f = [i \in 1 .. n |-> IF i = 1 THEN ss[i] ELSE f[i - 1] \o ss[i]]
<1> DEFINE Is(f, m) == f = [i \in 1 .. m |-> IF i = 1 THEN ss[i] ELSE f[i - 1] \o ss[i]]
           N == {m \in Nat : \E f : Is(f, m)}
<1>1. 0 \in N
  <2>1. Is([i \in 1 .. 0 |-> 0], 0) OBVIOUS
  <2> QED BY <2>1
<1>2. ASSUME NEW m \in Nat, m \in N PROVE m + 1 \in N
  <2>1. PICK f : Is(f, m) BY <1>2
  <2> DEFINE g == [i \in 1 .. m + 1 |-> IF i = 1 THEN ss[i] ELSE f[i - 1] \o ss[i]]
  <2>2. ASSUME NEW i \in 1 .. m PROVE g[i] = f[i]
    <3>1. i \in 1 .. m + 1 OBVIOUS
    <3> QED BY <2>1, <3>1
  <2>3. ASSUME NEW i \in 1 .. m + 1
        PROVE  g[i] = IF i = 1 THEN ss[i] ELSE g[i - 1] \o ss[i]
    <3>1. CASE i = 1 BY <3>1
    <3>2. CASE i # 1
      <4>1. i - 1 \in 1 .. m BY <3>2
      <4> QED BY <2>2, <3>2, <4>1
    <3> QED BY <3>1, <3>2
  <2> HIDE DEF g
  <2>4. g = [i \in 1 .. m + 1 |-> g[i]] BY DEF g
  <2>5. Is(g, m + 1) BY <2>3, <2>4
  <2>6. \E h : Is(h, m + 1) BY <2>5
  <2> HIDE DEF Is
  <2> QED BY <2>6
<1>3. n \in N
  <2> HIDE DEF N
  <2>1. Nat \subseteq N BY <1>1, <1>2, NatSetInduction
  <2> QED BY <2>1
<1> QED BY <1>3

LEMMA FlattenIs ==
  ASSUME NEW ss, Len(ss) \in Nat, Len(ss) # 0
  PROVE  \E f : Flattens(f, ss) /\ FlattenSeq(ss) = f[Len(ss)]
<1> DEFINE f == CHOOSE f : Flattens(f, ss)
<1>1. \E g : Flattens(g, ss)
  BY FlattenExists DEF Flattens
<1>2. Flattens(f, ss)
  BY <1>1
<1>3. FlattenSeq(ss) = f[Len(ss)]
  BY DEF FlattenSeq, Flattens
<1> QED BY <1>2, <1>3

LEMMA FlattenFirst ==
  ASSUME NEW ss, NEW f, Flattens(f, ss), 1 \in 1 .. Len(ss)
  PROVE  f[1] = ss[1]
  BY Zenon DEF Flattens

LEMMA FlattenStep ==
  ASSUME NEW ss, NEW f, Flattens(f, ss), Len(ss) \in Nat, NEW i \in Nat, i # 0, i + 1 \in 1 .. Len(ss)
  PROVE  f[i + 1] = f[i] \o ss[i + 1]
<1>1. i + 1 # 1 /\ (i + 1) - 1 = i OBVIOUS
<1> QED BY <1>1, Zenon DEF Flattens

LEMMA FlattenEmpty == FlattenSeq(<<>>) = <<>>
  BY DEF FlattenSeq

LEMMA FlattenParts ==
  ASSUME NEW S, NEW ss \in Seq(Seq(S)), NEW f, Flattens(f, ss)
  PROVE  \A i \in 1 .. Len(ss) : f[i] \in Seq(S)
<1> DEFINE N == {m \in Nat : m \in 1 .. Len(ss) => f[m] \in Seq(S)}
<1>1. 0 \in N OBVIOUS
<1>2. ASSUME NEW m \in Nat, m \in N PROVE m + 1 \in N
  <2>1. SUFFICES ASSUME m + 1 \in 1 .. Len(ss) PROVE f[m + 1] \in Seq(S)
    OBVIOUS
  <2>2. ss[m + 1] \in Seq(S) BY <2>1
  <2>3. CASE m = 0 BY <2>1, <2>2, <2>3, FlattenFirst
  <2>4. CASE m # 0
    <3>0. Len(ss) \in Nat OBVIOUS
    <3>1. f[m + 1] = f[m] \o ss[m + 1] BY <2>1, <2>4, <3>0, FlattenStep, Zenon
    <3>2. f[m] \in Seq(S) BY <1>2, <2>1, <2>4
    <3> QED BY <2>2, <3>1, <3>2, ConcatProperties
  <2> QED BY <2>3, <2>4
<1> HIDE DEF N
<1>3. Nat \subseteq N BY <1>1, <1>2, NatSetInduction
<1> QED BY <1>3 DEF N

LEMMA FlattenType ==
  ASSUME NEW S, NEW ss \in Seq(Seq(S))
  PROVE  FlattenSeq(ss) \in Seq(S)
<1>1. CASE ss = <<>> BY <1>1, FlattenEmpty, EmptySeq, Zenon
<1>2. CASE ss # <<>>
  <2>1. Len(ss) \in Nat /\ Len(ss) # 0 BY <1>2
  <2>2. PICK f : Flattens(f, ss) /\ FlattenSeq(ss) = f[Len(ss)] BY <2>1, FlattenIs
  <2>3. Len(ss) \in 1 .. Len(ss) BY <2>1
  <2>4. f[Len(ss)] \in Seq(S) BY <2>2, <2>3, FlattenParts, Zenon
  <2> QED BY <2>2, <2>4
<1> QED BY <1>1, <1>2

LEMMA FlattenAppend ==
  ASSUME NEW S, NEW ss \in Seq(Seq(S)), NEW x \in Seq(S)
  PROVE  FlattenSeq(Append(ss, x)) = FlattenSeq(ss) \o x
<1> DEFINE tt == Append(ss, x)
           n  == Len(ss)
<1>1. /\ tt \in Seq(Seq(S)) /\ Len(tt) = n + 1 /\ n \in Nat
      /\ tt[n + 1] = x /\ \A i \in 1 .. n : tt[i] = ss[i]
  OBVIOUS
<1>2. PICK g : Flattens(g, tt) /\ FlattenSeq(tt) = g[n + 1]
  <2>1. Len(tt) \in Nat /\ Len(tt) # 0 BY <1>1
  <2>2. \E g : Flattens(g, tt) /\ FlattenSeq(tt) = g[Len(tt)] BY <2>1, FlattenIs, Zenon
  <2> QED BY <1>1, <2>2
<1>3. CASE n = 0
  <2>1. ss = <<>> BY <1>3
  <2>2. g[n + 1] = x BY <1>1, <1>2, <1>3, FlattenFirst
  <2> QED BY <1>2, <2>1, <2>2, FlattenEmpty, ConcatEmptySeq
<1>4. CASE n # 0
  <2>1. PICK f : Flattens(f, ss) /\ FlattenSeq(ss) = f[n]
    BY <1>1, <1>4, FlattenIs
  <2> HIDE DEF tt
  <2> DEFINE N == {m \in Nat : m \in 1 .. n => g[m] = f[m]}
  <2>2. 0 \in N OBVIOUS
  <2>3. ASSUME NEW m \in Nat, m \in N PROVE m + 1 \in N
    <3>1. SUFFICES ASSUME m + 1 \in 1 .. n PROVE g[m + 1] = f[m + 1]
      OBVIOUS
    <3>2. m + 1 \in 1 .. Len(ss) /\ m + 1 \in 1 .. Len(tt) /\ tt[m + 1] = ss[m + 1]
          /\ 1 \in 1 .. Len(ss) /\ 1 \in 1 .. Len(tt) /\ tt[1] = ss[1]
      BY <1>1, <1>4, <3>1
    <3>3. CASE m = 0
      <4>1. f[1] = ss[1] /\ g[1] = tt[1] BY <1>2, <2>1, <3>2, FlattenFirst
      <4> QED BY <3>2, <3>3, <4>1
    <3>4. CASE m # 0
      <4>1. f[m + 1] = f[m] \o ss[m + 1] BY <1>1, <2>1, <3>2, <3>4, FlattenStep, Zenon
      <4>2. g[m + 1] = g[m] \o tt[m + 1]
        <5>1. Len(tt) \in Nat BY <1>1
        <5> QED BY <1>2, <3>2, <3>4, <5>1, FlattenStep, Zenon
      <4>3. g[m] = f[m] BY <1>1, <2>3, <3>1, <3>4
      <4> QED BY <3>2, <4>1, <4>2, <4>3, Zenon
    <3> QED BY <3>3, <3>4
  <2> HIDE DEF N
  <2>4. Nat \subseteq N BY <2>2, <2>3, NatSetInduction
  <2>5. g[n] = f[n] BY <1>1, <1>4, <2>4 DEF N
  <2>6. g[n + 1] = g[n] \o x
    <3>1. Len(tt) \in Nat /\ n + 1 \in 1 .. Len(tt) BY <1>1
    <3>2. g[n + 1] = g[n] \o tt[n + 1] BY <1>1, <1>2, <1>4, <3>1, FlattenStep, Zenon
    <3> QED BY <1>1, <3>2, Zenon
  <2> QED BY <1>2, <2>1, <2>5, <2>6 DEF tt
<1> QED BY <1>3, <1>4

LEMMA FlattenHeadTail ==
  ASSUME NEW S, NEW ss \in Seq(Seq(S)), ss # <<>>
  PROVE  FlattenSeq(ss) = Head(ss) \o FlattenSeq(Tail(ss))
<1> DEFINE tt == Tail(ss)
           n  == Len(tt)
<1>1. /\ tt \in Seq(Seq(S)) /\ Len(ss) = n + 1 /\ n \in Nat
      /\ Head(ss) = ss[1] /\ ss[1] \in Seq(S)
      /\ \A i \in 1 .. n : tt[i] = ss[i + 1]
  OBVIOUS
<1>b. n = Len(tt) OBVIOUS
<1>a. n = 0 => tt = <<>>
  <2> HIDE DEF tt
  <2> QED BY <1>1
<1>c. \A a, b, c \in Seq(S) : (a \o b) \o c = a \o (b \o c)
  BY ConcatAssociative, SMTT(30)
<1> HIDE DEF tt, n
<1>2. PICK g : Flattens(g, ss) /\ FlattenSeq(ss) = g[n + 1]
  <2>1. Len(ss) \in Nat /\ Len(ss) # 0 BY <1>1
  <2> QED BY <1>1, <2>1, FlattenIs
<1>3. g[1] = ss[1] BY <1>1, <1>2, FlattenFirst
<1>4. CASE n = 0
  <2>1. tt = <<>> BY <1>4, <1>a
  <2>2. FlattenSeq(Tail(ss)) = <<>> BY <2>1, FlattenEmpty, Zenon DEF tt
  <2>3. FlattenSeq(ss) = Head(ss) BY <1>1, <1>2, <1>3, <1>4
  <2>4. Head(ss) \in Seq(S) BY <1>1
  <2> QED BY <2>2, <2>3, <2>4, ConcatEmptySeq
<1>5. CASE n # 0
  <2>1. PICK f : Flattens(f, tt) /\ FlattenSeq(tt) = f[n]
    BY <1>1, <1>5, <1>b, FlattenIs
  <2>2. \A i \in 1 .. n : f[i] \in Seq(S) BY <1>1, <1>b, <2>1, FlattenParts
  <2> DEFINE Split(m) == g[m + 1] = ss[1] \o f[m]
             N == {m \in Nat : m \in 1 .. n => Split(m)}
  <2>3. ASSUME NEW m \in Nat, m \in 1 .. n => Split(m), m + 1 \in 1 .. n
        PROVE  Split(m + 1)
    <3>0. m + 1 \in 1 .. n /\ n \in Nat /\ m \in Nat BY <1>1, <2>3
    <3>1. /\ g[(m + 1) + 1] = g[m + 1] \o ss[(m + 1) + 1]
          /\ f[m + 1] = IF m = 0 THEN tt[m + 1] ELSE f[m] \o tt[m + 1]
          /\ tt[m + 1] = ss[(m + 1) + 1]
      <4>1. /\ (m + 1) + 1 \in 1 .. Len(ss) /\ Len(ss) \in Nat /\ m + 1 # 0 /\ m + 1 \in Nat
            /\ m + 1 \in 1 .. Len(tt) /\ 1 \in 1 .. Len(tt)
        BY <1>1, <1>b, <3>0
      <4>2. g[(m + 1) + 1] = g[m + 1] \o ss[(m + 1) + 1] BY <1>2, <4>1, FlattenStep
      <4>3. CASE m = 0 BY <1>1, <2>1, <3>0, <4>1, <4>2, <4>3, FlattenFirst
      <4>4. CASE m # 0
        <5>1. f[m + 1] = f[m] \o tt[m + 1] BY <1>1, <1>b, <2>1, <4>1, <4>4, FlattenStep
        <5>2. tt[m + 1] = ss[(m + 1) + 1] BY <1>1, <3>0
        <5> QED BY <4>2, <4>4, <5>1, <5>2, Zenon
      <4> QED BY <4>3, <4>4
    <3>2. CASE m = 0
      <4>1. g[m + 1] = ss[1] /\ f[m + 1] = ss[(m + 1) + 1] BY <1>3, <3>1, <3>2
      <4> QED BY <3>1, <4>1, Zenon
    <3>3. CASE m # 0
      <4>1. m \in 1 .. n /\ m + 1 \in 1 .. n BY <3>0, <3>3
      <4>2. g[m + 1] = ss[1] \o f[m] BY <2>3, <4>1, Zenon
      <4>3. f[m] \in Seq(S) /\ tt[m + 1] \in Seq(S) /\ ss[1] \in Seq(S) BY <1>1, <1>b, <2>2, <4>1
      <4>4. f[m + 1] = f[m] \o tt[m + 1] BY <3>1, <3>3, Zenon
      <4>5. (ss[1] \o f[m]) \o tt[m + 1] = ss[1] \o (f[m] \o tt[m + 1])
        BY <1>c, <4>3, Zenon
      <4> QED BY <3>1, <4>2, <4>4, <4>5, Zenon
    <3> QED BY <3>2, <3>3
  <2> HIDE DEF Split
  <2>4. 0 \in N OBVIOUS
  <2>5. ASSUME NEW m \in Nat, m \in N PROVE m + 1 \in N
    BY <2>3, <2>5
  <2> HIDE DEF N
  <2>6. Nat \subseteq N BY <2>4, <2>5, NatSetInduction
  <2>7. Split(n) BY <1>1, <1>5, <2>6 DEF N
  <2>8. g[n + 1] = ss[1] \o f[n] BY <2>7, Zenon DEF Split
  <2> QED BY <1>1, <1>2, <2>1, <2>8, Zenon DEF tt
<1> QED BY <1>4, <1>5

-------------------------------------------------------------------------------
(* Prefixes. *)
LEMMA ConcatPrefix ==
  ASSUME NEW S, NEW s \in Seq(S), NEW t \in Seq(S)
  PROVE  IsPrefix(s, s \o t)
<1>1. /\ s \o t \in Seq(S) /\ Len(s \o t) = Len(s) + Len(t)
      /\ \A i \in 1 .. Len(s) + Len(t) : (s \o t)[i] = IF i <= Len(s) THEN s[i] ELSE t[i - Len(s)]
  BY ConcatProperties
<1>2. Len(s) \in Nat /\ Len(t) \in Nat OBVIOUS
<1>3. \A i \in 1 .. Len(s) : (s \o t)[i] = s[i] BY <1>1, <1>2
<1>4. SubSeq(s, 1, Len(s)) = SubSeq(s \o t, 1, Len(s))
  BY <1>1, <1>2, <1>3
<1> QED BY <1>1, <1>2, <1>4 DEF IsPrefix

\* The first element behind a prefix.
LEMMA BehindPrefix ==
  ASSUME NEW S, NEW s \in Seq(S), NEW t \in Seq(S), t # <<>>
  PROVE  Len(s) < Len(s \o t) /\ (s \o t)[Len(s) + 1] = Head(t)
<1>1. /\ Len(s \o t) = Len(s) + Len(t)
      /\ \A i \in 1 .. Len(s) + Len(t) : (s \o t)[i] = IF i <= Len(s) THEN s[i] ELSE t[i - Len(s)]
  BY ConcatProperties
<1>2. Len(s) \in Nat /\ Len(t) \in Nat \ {0} /\ Head(t) = t[1] BY EmptySeq
<1>3. Len(s) + 1 \in 1 .. Len(s) + Len(t) /\ ~(Len(s) + 1 <= Len(s)) /\ (Len(s) + 1) - Len(s) = 1
  BY <1>2
<1> QED BY <1>1, <1>2, <1>3

-------------------------------------------------------------------------------
\* f of each element of s; all that f finds in the elements of s.
Map(s, f)     == [i \in DOMAIN s |-> f[s[i]]]
Collect(s, f) == FlattenSeq(Map(s, f))

LEMMA MapType ==
  ASSUME NEW S, NEW T, NEW s \in Seq(S), NEW f \in [S -> T]
  PROVE  Map(s, f) \in Seq(T)
<1>1. DOMAIN s = 1 .. Len(s) /\ Len(s) \in Nat /\ s \in [1 .. Len(s) -> S]
  BY LenProperties
<1>2. Map(s, f) \in [1 .. Len(s) -> T]
  BY <1>1 DEF Map
<1> QED BY <1>1, <1>2, FunctionIsSeq

LEMMA MapAt ==
  ASSUME NEW S, NEW s \in Seq(S), NEW f
  PROVE  /\ Len(Map(s, f)) = Len(s) /\ Len(s) \in Nat
         /\ \A i \in 1 .. Len(s) : Map(s, f)[i] = f[s[i]]
<1>1. DOMAIN s = 1 .. Len(s) /\ Len(s) \in Nat
  BY LenProperties
<1>2. Map(s, f) = [i \in 1 .. Len(s) |-> f[s[i]]]
  BY <1>1 DEF Map
<1> QED BY <1>1, <1>2

LEMMA CollectType ==
  ASSUME NEW S, NEW T, NEW s \in Seq(S), NEW f \in [S -> Seq(T)]
  PROVE  Collect(s, f) \in Seq(T)
<1>1. Map(s, f) \in Seq(Seq(T)) BY MapType
<1> QED BY <1>1, FlattenType DEF Collect

LEMMA CollectEmpty ==
  ASSUME NEW f
  PROVE  Collect(<<>>, f) = <<>>
<1>1. Map(<<>>, f) = <<>> BY DEF Map
<1> QED BY <1>1, FlattenEmpty DEF Collect

LEMMA CollectAppend ==
  ASSUME NEW S, NEW T, NEW s \in Seq(S), NEW x \in S, NEW f \in [S -> Seq(T)]
  PROVE  Collect(Append(s, x), f) = Collect(s, f) \o f[x]
<1> DEFINE t == Append(s, x)
<1>1. /\ t \in Seq(S) /\ Len(t) = Len(s) + 1 /\ t[Len(s) + 1] = x
      /\ \A i \in 1 .. Len(s) : t[i] = s[i]
  BY AppendProperties
<1> HIDE DEF t
<1>2. /\ Map(s, f) \in Seq(Seq(T)) /\ Len(Map(s, f)) = Len(s) /\ Len(s) \in Nat
      /\ \A i \in 1 .. Len(s) : Map(s, f)[i] = f[s[i]]
  <2>1. Map(s, f) \in Seq(Seq(T)) BY MapType
  <2> QED BY <2>1, MapAt
<1>3. /\ Map(t, f) \in Seq(Seq(T)) /\ Len(Map(t, f)) = Len(t)
      /\ \A i \in 1 .. Len(t) : Map(t, f)[i] = f[t[i]]
  <2>1. Map(t, f) \in Seq(Seq(T)) BY <1>1, MapType
  <2> QED BY <1>1, <2>1, MapAt
<1>4. f[x] \in Seq(T) OBVIOUS
<1> DEFINE a == Append(Map(s, f), f[x])
<1>5. /\ a \in Seq(Seq(T)) /\ Len(a) = Len(s) + 1 /\ a[Len(s) + 1] = f[x]
      /\ \A i \in 1 .. Len(s) : a[i] = Map(s, f)[i]
  <2> DEFINE m == Map(s, f)
             y == f[x]
  <2>1. m \in Seq(Seq(T)) /\ y \in Seq(T) /\ Len(m) = Len(s) BY <1>2, <1>4
  <2> HIDE DEF m, y
  <2>2. /\ Append(m, y) \in Seq(Seq(T)) /\ Len(Append(m, y)) = Len(m) + 1
        /\ Append(m, y)[Len(m) + 1] = y /\ \A i \in 1 .. Len(m) : Append(m, y)[i] = m[i]
    BY <2>1, AppendProperties
  <2> QED BY <2>1, <2>2 DEF m, y
<1> HIDE DEF a
<1>6. ASSUME NEW i \in 1 .. Len(t) PROVE Map(t, f)[i] = a[i]
  <2>1. Map(t, f)[i] = f[t[i]] BY <1>3
  <2>2. CASE i = Len(s) + 1 BY <1>1, <1>5, <2>1, <2>2
  <2>3. CASE i # Len(s) + 1
    <3>1. i \in 1 .. Len(s) BY <1>1, <1>2, <2>3
    <3> QED BY <1>1, <1>2, <1>5, <2>1, <3>1
  <2> QED BY <2>2, <2>3
<1>7. Map(t, f) = a
  BY <1>1, <1>3, <1>5, <1>6, SeqEqual
<1>8. FlattenSeq(Append(Map(s, f), f[x])) = FlattenSeq(Map(s, f)) \o f[x]
  BY <1>2, <1>4, FlattenAppend
<1> QED BY <1>7, <1>8, Zenon DEF Collect, a, t

LEMMA CollectHeadTail ==
  ASSUME NEW S, NEW T, NEW s \in Seq(S), s # <<>>, NEW f \in [S -> Seq(T)]
  PROVE  Collect(s, f) = f[Head(s)] \o Collect(Tail(s), f)
<1> DEFINE t == Tail(s)
<1>1. /\ t \in Seq(S) /\ Len(t) = Len(s) - 1 /\ Len(s) \in Nat \ {0} /\ Head(s) = s[1]
      /\ \A i \in 1 .. Len(t) : t[i] = s[i + 1]
  BY HeadTailProperties, EmptySeq
<1> HIDE DEF t
<1>2. /\ Map(s, f) \in Seq(Seq(T)) /\ Len(Map(s, f)) = Len(s)
      /\ \A i \in 1 .. Len(s) : Map(s, f)[i] = f[s[i]]
  <2>1. Map(s, f) \in Seq(Seq(T)) BY MapType
  <2> QED BY <2>1, MapAt
<1>3. /\ Map(t, f) \in Seq(Seq(T)) /\ Len(Map(t, f)) = Len(t)
      /\ \A i \in 1 .. Len(t) : Map(t, f)[i] = f[t[i]]
  <2>1. Map(t, f) \in Seq(Seq(T)) BY <1>1, MapType
  <2> QED BY <1>1, <2>1, MapAt
<1>4. Map(s, f) # <<>> BY <1>1, <1>2
<1> DEFINE a == Tail(Map(s, f))
<1>5. /\ a \in Seq(Seq(T)) /\ Len(a) = Len(Map(s, f)) - 1
      /\ \A i \in 1 .. Len(a) : a[i] = Map(s, f)[i + 1]
  BY <1>2, <1>4, HeadTailProperties
<1>6. Head(Map(s, f)) = f[Head(s)] BY <1>1, <1>2, <1>4
<1> HIDE DEF a
<1>7. Map(t, f) = a
  <2>1. Len(Map(t, f)) = Len(a) BY <1>1, <1>2, <1>3, <1>5
  <2>2. ASSUME NEW i \in 1 .. Len(a) PROVE Map(t, f)[i] = a[i]
    <3>1. i \in 1 .. Len(t) /\ i + 1 \in 1 .. Len(s) BY <1>1, <1>2, <1>5
    <3>2. Map(t, f)[i] = f[t[i]] /\ a[i] = Map(s, f)[i + 1] BY <1>3, <1>5, <3>1
    <3>3. t[i] = s[i + 1] /\ Map(s, f)[i + 1] = f[s[i + 1]] BY <1>1, <1>2, <3>1
    <3> QED BY <3>2, <3>3
  <2> QED BY <1>3, <1>5, <2>1, <2>2, SeqEqual
<1>8. FlattenSeq(Map(s, f)) = Head(Map(s, f)) \o FlattenSeq(Tail(Map(s, f)))
  BY <1>2, <1>4, FlattenHeadTail
<1> QED BY <1>6, <1>7, <1>8, Zenon DEF Collect, a, t

-------------------------------------------------------------------------------
(* How often something is in a sequence. *)
Count(s, x) == Cardinality({i \in 1 .. Len(s) : s[i] = x})

LEMMA SameSize ==
  ASSUME NEW S, NEW T, IsFiniteSet(S), NEW f \in [S -> T],
         \A a, b \in S : f[a] = f[b] => a = b,
         \A t \in T : \E a \in S : f[a] = t
  PROVE  IsFiniteSet(T) /\ Cardinality(T) = Cardinality(S)
<1>1. f \in Bijection(S, T)
  BY DEF Bijection, Injection, Surjection, IsInjective
<1>2. ExistsBijection(S, T)
  BY <1>1 DEF ExistsBijection
<1> QED BY <1>2, FS_Bijection

LEMMA FiniteIndexes ==
  ASSUME NEW n \in Nat, NEW S, S \subseteq 1 .. n
  PROVE  IsFiniteSet(S) /\ Cardinality(S) \in Nat
<1>1. IsFiniteSet(1 .. n) BY FS_Interval
<1>2. S \in SUBSET (1 .. n) OBVIOUS
<1>3. IsFiniteSet(S) BY <1>1, <1>2, FS_Subset
<1> QED BY <1>3, FS_CardinalityType

LEMMA DisjointUnion ==
  ASSUME NEW S, IsFiniteSet(S), NEW T, IsFiniteSet(T), S \cap T = {}
  PROVE  IsFiniteSet(S \cup T) /\ Cardinality(S \cup T) = Cardinality(S) + Cardinality(T)
<1>1. Cardinality(S \cup T) = Cardinality(S) + Cardinality(T) - Cardinality(S \cap T)
  BY FS_Union
<1>2. Cardinality(S \cap T) = 0 BY FS_EmptySet
<1>3. Cardinality(S) \in Nat /\ Cardinality(T) \in Nat BY FS_CardinalityType
<1>4. IsFiniteSet(S \cup T) BY FS_Union
<1> QED BY <1>1, <1>2, <1>3, <1>4

LEMMA CountType ==
  ASSUME NEW S, NEW s \in Seq(S), NEW x
  PROVE  Count(s, x) \in Nat
<1>1. Len(s) \in Nat OBVIOUS
<1>2. {i \in 1 .. Len(s) : s[i] = x} \subseteq 1 .. Len(s) OBVIOUS
<1> QED BY <1>1, <1>2, FiniteIndexes DEF Count

LEMMA CountEmpty ==
  ASSUME NEW x
  PROVE  Count(<<>>, x) = 0
<1>1. {i \in 1 .. Len(<<>>) : <<>>[i] = x} = {} OBVIOUS
<1> QED BY <1>1, FS_EmptySet DEF Count

LEMMA CountOne ==
  ASSUME NEW x, NEW y
  PROVE  Count(<<y>>, x) = IF y = x THEN 1 ELSE 0
<1>1. CASE y = x
  <2>1. {i \in 1 .. Len(<<y>>) : <<y>>[i] = x} = {1} BY <1>1
  <2> QED BY <1>1, <2>1, FS_Singleton DEF Count
<1>2. CASE y # x
  <2>1. {i \in 1 .. Len(<<y>>) : <<y>>[i] = x} = {} BY <1>2
  <2> QED BY <1>2, <2>1, FS_EmptySet DEF Count
<1> QED BY <1>1, <1>2

LEMMA CountConcat ==
  ASSUME NEW S, NEW s \in Seq(S), NEW t \in Seq(S), NEW x
  PROVE  Count(s \o t, x) = Count(s, x) + Count(t, x)
<1> DEFINE n == Len(s)
           m == Len(t)
           A == {i \in 1 .. n : s[i] = x}
           B == {i \in 1 .. m : t[i] = x}
           C == {i \in n + 1 .. n + m : t[i - n] = x}
<1>1. /\ n \in Nat /\ m \in Nat /\ Len(s \o t) = n + m
      /\ \A i \in 1 .. n + m : (s \o t)[i] = IF i <= n THEN s[i] ELSE t[i - n]
  BY ConcatProperties
<1>2. {i \in 1 .. Len(s \o t) : (s \o t)[i] = x} = A \cup C
  <2> HIDE DEF n, m
  <2> QED BY <1>1
<1>3. IsFiniteSet(A) /\ IsFiniteSet(B)
  <2>1. A \subseteq 1 .. n /\ B \subseteq 1 .. m OBVIOUS
  <2> HIDE DEF n, m, A, B
  <2> QED BY <1>1, <2>1, FiniteIndexes
<1>4. IsFiniteSet(C) /\ Cardinality(C) = Cardinality(B)
  <2> DEFINE f == [i \in B |-> i + n]
  <2> HIDE DEF n, m
  <2>1. f \in [B -> C] BY <1>1
  <2>2. \A a, b \in B : f[a] = f[b] => a = b BY <1>1
  <2>3. \A c \in C : \E a \in B : f[a] = c
    <3> TAKE c \in C
    <3>1. c - n \in B /\ (c - n) + n = c BY <1>1
    <3> QED BY <3>1
  <2> HIDE DEF f, B, C
  <2> QED BY <1>3, <2>1, <2>2, <2>3, SameSize
<1>5. A \cap C = {}
  <2> HIDE DEF n, m
  <2> QED BY <1>1
<1>6. Cardinality(A \cup C) = Cardinality(A) + Cardinality(C)
  <2> HIDE DEF A, C
  <2> QED BY <1>3, <1>4, <1>5, DisjointUnion
<1>7. Count(s \o t, x) = Cardinality(A) + Cardinality(B)
  <2> HIDE DEF A, B, C
  <2> QED BY <1>2, <1>4, <1>6 DEF Count
<1> QED BY <1>7 DEF Count

LEMMA CountHeadTail ==
  ASSUME NEW S, NEW s \in Seq(S), s # <<>>, NEW x
  PROVE  Count(s, x) = (IF Head(s) = x THEN 1 ELSE 0) + Count(Tail(s), x)
<1>1. /\ <<Head(s)>> \in Seq(S) /\ Tail(s) \in Seq(S) /\ s = <<Head(s)>> \o Tail(s)
      /\ Len(Tail(s)) = Len(s) - 1
  OBVIOUS
<1>2. Count(<<Head(s)>> \o Tail(s), x) = Count(<<Head(s)>>, x) + Count(Tail(s), x)
  BY <1>1, CountConcat
<1> QED BY <1>1, <1>2, CountOne, Zenon

LEMMA CountAppend ==
  ASSUME NEW S, NEW s \in Seq(S), NEW y \in S, NEW x
  PROVE  Count(Append(s, y), x) = Count(s, x) + (IF y = x THEN 1 ELSE 0)
<1>1. <<y>> \in Seq(S) /\ Append(s, y) = s \o <<y>>
  OBVIOUS
<1>2. Count(s \o <<y>>, x) = Count(s, x) + Count(<<y>>, x)
  BY <1>1, CountConcat
<1> QED BY <1>1, <1>2, CountOne, Zenon

LEMMA CountRemoved ==
  ASSUME NEW S, NEW s \in Seq(S), NEW k \in 1 .. Len(s), NEW x
  PROVE  /\ RemoveAt(s, k) \in Seq(S) /\ Len(RemoveAt(s, k)) = Len(s) - 1
         /\ Count(s, x) = Count(RemoveAt(s, k), x) + (IF s[k] = x THEN 1 ELSE 0)
<1> DEFINE a == SubSeq(s, 1, k - 1)
           b == SubSeq(s, k + 1, Len(s))
<1>1. /\ a \in Seq(S) /\ b \in Seq(S) /\ RemoveAt(s, k) = a \o b /\ <<s[k]>> \in Seq(S)
      /\ Len(a) = k - 1 /\ Len(b) = Len(s) - k
      /\ \A i \in 1 .. k - 1 : a[i] = s[i]
      /\ \A i \in 1 .. Len(s) - k : b[i] = s[k + i]
  BY DEF RemoveAt
<1>2. s = (a \o <<s[k]>>) \o b
  <2> HIDE DEF a, b
  <2> DEFINE c == a \o <<s[k]>>
  <2>1. c \in Seq(S) /\ Len(c) = k /\ \A i \in 1 .. k : c[i] = s[i]
    BY <1>1
  <2> HIDE DEF c
  <2>2. Len(c \o b) = Len(s) /\ c \o b \in Seq(S) /\ \A i \in 1 .. Len(s) : (c \o b)[i] = s[i]
    <3>1. /\ c \o b \in Seq(S) /\ Len(c \o b) = Len(c) + Len(b)
          /\ \A i \in 1 .. Len(c) + Len(b) : (c \o b)[i] = IF i <= Len(c) THEN c[i] ELSE b[i - Len(c)]
      BY <1>1, <2>1, ConcatProperties
    <3>2. Len(c) + Len(b) = Len(s) BY <1>1, <2>1
    <3>3. ASSUME NEW i \in 1 .. Len(s) PROVE (c \o b)[i] = s[i]
      <4>1. CASE i <= k BY <2>1, <3>1, <3>2, <4>1
      <4>2. CASE ~(i <= k)
        <5>1. i - k \in 1 .. Len(s) - k /\ k + (i - k) = i BY <4>2
        <5>2. b[i - k] = s[i] BY <1>1, <5>1
        <5> QED BY <2>1, <3>1, <3>2, <4>2, <5>2
      <4> QED BY <4>1, <4>2
    <3> QED BY <3>1, <3>2, <3>3
  <2>3. c \o b = s BY <2>2, SeqEqual
  <2> QED BY <2>3 DEF c
<1> HIDE DEF a, b
<1>c. \A u, w \in Seq(S) : Count(u \o w, x) = Count(u, x) + Count(w, x)
  BY CountConcat
<1>3. Count((a \o <<s[k]>>) \o b, x) = Count(a \o <<s[k]>>, x) + Count(b, x)
  <2>1. a \o <<s[k]>> \in Seq(S) BY <1>1
  <2> QED BY <1>1, <1>c, <2>1, Zenon
<1>4. Count(a \o <<s[k]>>, x) = Count(a, x) + Count(<<s[k]>>, x)
  BY <1>1, <1>c, Zenon
<1>5. Count(a \o b, x) = Count(a, x) + Count(b, x)
  BY <1>1, <1>c, Zenon
<1>6. Count(a, x) \in Nat /\ Count(b, x) \in Nat
  BY <1>1, CountType
<1>7. Count(<<s[k]>>, x) = IF s[k] = x THEN 1 ELSE 0
  BY CountOne, Zenon
<1>8. RemoveAt(s, k) \in Seq(S) /\ Len(RemoveAt(s, k)) = Len(s) - 1
  BY <1>1, ConcatProperties
<1>9. Count(s, x) = Count(a, x) + Count(<<s[k]>>, x) + Count(b, x)
  BY <1>2, <1>3, <1>4
<1> QED BY <1>1, <1>5, <1>6, <1>7, <1>8, <1>9

LEMMA ElementOf ==
  ASSUME NEW S, NEW s \in Seq(S), NEW i \in 1 .. Len(s)
  PROVE  s[i] \in S
  OBVIOUS

LEMMA AppendAt ==
  ASSUME NEW S, NEW s \in Seq(S), NEW y \in S
  PROVE  /\ Append(s, y) \in Seq(S) /\ Len(Append(s, y)) = Len(s) + 1 /\ Len(s) \in Nat
         /\ Append(s, y)[Len(s) + 1] = y
         /\ \A i \in 1 .. Len(s) : Append(s, y)[i] = s[i]
  OBVIOUS

LEMMA RemovedFrom ==
  ASSUME NEW S, NEW s \in Seq(S), NEW k \in 1 .. Len(s), NEW j \in 1 .. Len(RemoveAt(s, k))
  PROVE  \E i \in 1 .. Len(s) : RemoveAt(s, k)[j] = s[i]
<1> DEFINE a == SubSeq(s, 1, k - 1)
           b == SubSeq(s, k + 1, Len(s))
<1>1. /\ a \in Seq(S) /\ b \in Seq(S) /\ RemoveAt(s, k) = a \o b
      /\ Len(a) = k - 1 /\ Len(b) = Len(s) - k /\ Len(s) \in Nat
      /\ \A i \in 1 .. k - 1 : a[i] = s[i]
      /\ \A i \in 1 .. Len(s) - k : b[i] = s[k + i]
  BY DEF RemoveAt
<1> HIDE DEF a, b
<1>2. j \in 1 .. Len(a) + Len(b) BY <1>1
<1>3. CASE j <= k - 1
  <2>1. j \in 1 .. Len(s) /\ (a \o b)[j] = a[j] /\ a[j] = s[j] BY <1>1, <1>2, <1>3
  <2> QED BY <1>1, <2>1
<1>4. CASE j > k - 1
  <2>1. (a \o b)[j] = b[j - (k - 1)] /\ j - (k - 1) \in 1 .. Len(s) - k BY <1>1, <1>2, <1>4
  <2>2. b[j - (k - 1)] = s[k + (j - (k - 1))] /\ k + (j - (k - 1)) \in 1 .. Len(s) BY <1>1, <2>1
  <2> QED BY <1>1, <2>1, <2>2
<1> QED BY <1>1, <1>2, <1>3, <1>4

LEMMA ReverseAt ==
  ASSUME NEW S, NEW s \in Seq(S)
  PROVE  /\ Reverse(s) \in Seq(S) /\ Len(Reverse(s)) = Len(s)
         /\ \A i \in 1 .. Len(s) : Len(s) - i + 1 \in 1 .. Len(s) /\ Reverse(s)[i] = s[Len(s) - i + 1]
<1>1. ASSUME NEW i \in 1 .. Len(s) PROVE Len(s) - i + 1 \in 1 .. Len(s) /\ s[Len(s) - i + 1] \in S
  OBVIOUS
<1>2. Reverse(s) = [i \in 1 .. Len(s) |-> s[Len(s) - i + 1]] BY <1>1 DEF Reverse
<1>3. Len(s) \in Nat OBVIOUS
<1>4. Reverse(s) \in [1 .. Len(s) -> S] BY <1>1, <1>2
<1> QED BY <1>1, <1>2, <1>3, <1>4, FunctionIsSeq

===============================================================================
