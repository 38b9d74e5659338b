------------------------- MODULE EnvironmentsProofs -------------------------
(***************************************************************************)
(* The reference counts of environments, proved: the resolver opens and    *)
(* closes environments in pairs, so that each one it makes is inside one   *)
(* it made before, and in a running script every count is the number of    *)
(* holders.  In the middle of a delRef() that frees environments on its    *)
(* way out, a count is the number of holders and of the references still   *)
(* due to be given up (Owing); giving up the first of them keeps that, and *)
(* takes at most as many turns as there are environments that live and     *)
(* references due (Toil).                                                  *)
(***************************************************************************)
EXTENDS EnvironmentsProperties, SequenceFacts

-------------------------------------------------------------------------------
(* The environments of a run.  A holds what the counts do not depend on.   *)
Env(A) == [of : A, outer : Nat, refs : Nat, maker : A, sound : A]

EnvsOK(es, A) ==
  /\ es \in Seq(Env(A))
  /\ \A e \in 1 .. Len(es) : es[e].outer <= Len(es)

\* The environments that count for e as their outer one.
Children(es, e) == {x \in DOMAIN es : es[x].refs > 0 /\ es[x].outer = e}
Living(es) == {x \in 1 .. Len(es) : es[x].refs > 0}

\* Every count is what hold says, the environments inside, and what is due.
Owing(es, hold, due) ==
  \A e \in 1 .. Len(es) : es[e].refs = hold[e] + Cardinality(Children(es, e)) + Count(due, e)

\* k is es with other counts.
Recounted(es, k) ==
  Len(k) = Len(es) /\ \A x \in 1 .. Len(es) : k[x].outer = es[x].outer

LEMMA EnvsFacts ==
  ASSUME NEW A, NEW es, EnvsOK(es, A)
  PROVE  /\ Len(es) \in Nat /\ DOMAIN es = 1 .. Len(es)
         /\ \A e \in 1 .. Len(es) : es[e] \in Env(A) /\ es[e].refs \in Nat /\ es[e].outer \in 0 .. Len(es)
<1>1. es \in Seq(Env(A)) BY DEF EnvsOK
<1>2. \A e \in 1 .. Len(es) : es[e] \in Env(A) BY <1>1
<1>3. \A e \in 1 .. Len(es) : es[e].refs \in Nat /\ es[e].outer \in Nat BY <1>2 DEF Env
<1>4. \A e \in 1 .. Len(es) : es[e].outer <= Len(es) BY DEF EnvsOK
<1>5. Len(es) \in Nat /\ DOMAIN es = 1 .. Len(es) BY <1>1
<1> QED BY <1>2, <1>3, <1>4, <1>5

WithRefs(es, e, r) == [es EXCEPT ![e].refs = r]

LEMMA RefsWritten ==
  ASSUME NEW A, NEW es, EnvsOK(es, A), NEW e \in 1 .. Len(es), NEW r \in Nat
  PROVE  /\ EnvsOK(WithRefs(es, e, r), A) /\ Recounted(es, WithRefs(es, e, r))
         /\ \A x \in 1 .. Len(es) : WithRefs(es, e, r)[x].refs = IF x = e THEN r ELSE es[x].refs
<1> DEFINE new == [es[e] EXCEPT !.refs = r]
           k == [es EXCEPT ![e] = new]
<1>1. WithRefs(es, e, r) = k BY DEF WithRefs
<1>2. es \in Seq(Env(A)) /\ es[e] \in Env(A) BY EnvsFacts DEF EnvsOK
<1>3. new \in Env(A) /\ new.refs = r /\ new.outer = es[e].outer BY <1>2 DEF Env
<1> HIDE DEF new
<1>4. k \in Seq(Env(A)) /\ Len(k) = Len(es) /\ \A x \in 1 .. Len(es) : k[x] = IF x = e THEN new ELSE es[x]
  BY <1>2, <1>3
<1> HIDE DEF k
<1>5. \A x \in 1 .. Len(es) : k[x].outer = es[x].outer BY <1>3, <1>4
<1>6. \A x \in 1 .. Len(es) : k[x].refs = IF x = e THEN r ELSE es[x].refs BY <1>3, <1>4
<1>7. EnvsOK(k, A) BY <1>4, <1>5 DEF EnvsOK
<1> QED BY <1>1, <1>4, <1>5, <1>6, <1>7 DEF Recounted

LEMMA ChildrenFinite ==
  ASSUME NEW A, NEW es, EnvsOK(es, A), NEW e
  PROVE  /\ IsFiniteSet(Children(es, e)) /\ Cardinality(Children(es, e)) \in Nat
         /\ IsFiniteSet(Living(es)) /\ Cardinality(Living(es)) \in Nat
         /\ Cardinality(Living(es)) <= Len(es)
<1>1. Len(es) \in Nat /\ DOMAIN es = 1 .. Len(es) BY EnvsFacts
<1>2. Children(es, e) \subseteq 1 .. Len(es) BY <1>1 DEF Children
<1>3. Living(es) \subseteq 1 .. Len(es) BY DEF Living
<1>4. IsFiniteSet(1 .. Len(es)) /\ Cardinality(1 .. Len(es)) = Len(es)
  <2> DEFINE n == Len(es)
  <2>1. n \in Nat BY <1>1
  <2> HIDE DEF n
  <2>2. IsFiniteSet(1 .. n) /\ Cardinality(1 .. n) = IF 1 > n THEN 0 ELSE n - 1 + 1 BY <2>1, FS_Interval
  <2>3. Cardinality(1 .. n) = n BY <2>1, <2>2
  <2> QED BY <2>2, <2>3 DEF n
<1>5. Cardinality(Living(es)) <= Cardinality(1 .. Len(es)) BY <1>3, <1>4, FS_Subset
<1>6. /\ IsFiniteSet(Children(es, e)) /\ Cardinality(Children(es, e)) \in Nat
  BY <1>1, <1>2, FiniteIndexes
<1>7. IsFiniteSet(Living(es)) /\ Cardinality(Living(es)) \in Nat
  BY <1>1, <1>3, FiniteIndexes
<1> QED BY <1>4, <1>5, <1>6, <1>7

\* A child of o keeps it alive.
LEMMA ChildHolds ==
  ASSUME NEW A, NEW es, EnvsOK(es, A), NEW x \in 1 .. Len(es), es[x].refs > 0, es[x].outer # 0
  PROVE  Cardinality(Children(es, es[x].outer)) >= 1 /\ es[x].outer \in 1 .. Len(es)
<1> DEFINE C == Children(es, es[x].outer)
<1>1. x \in C BY EnvsFacts DEF Children
<1>2. IsFiniteSet(C) /\ Cardinality(C) \in Nat BY ChildrenFinite
<1>3. C # {} BY <1>1
<1> HIDE DEF C
<1>4. Cardinality(C) # 0 BY <1>2, <1>3, FS_EmptySet
<1>5. es[x].outer \in 0 .. Len(es) BY EnvsFacts
<1> QED BY <1>2, <1>4, <1>5 DEF C

\* A count that stays above 0, or below, changes nobody's children.
LEMMA SameChildren ==
  ASSUME NEW A, NEW B, NEW es, EnvsOK(es, A), NEW k, EnvsOK(k, B), Recounted(es, k),
         \A x \in 1 .. Len(es) : k[x].refs > 0 <=> es[x].refs > 0
  PROVE  Living(k) = Living(es) /\ \A e : Children(k, e) = Children(es, e)
<1>1. Len(k) = Len(es) /\ DOMAIN es = 1 .. Len(es) /\ DOMAIN k = 1 .. Len(es) BY EnvsFacts DEF Recounted
<1>2. Living(k) = Living(es) BY <1>1 DEF Living
<1>3. \A x \in 1 .. Len(es) : k[x].outer = es[x].outer BY DEF Recounted
<1>4. ASSUME NEW e PROVE Children(k, e) = Children(es, e)
  BY <1>1, <1>3 DEF Children
<1> QED BY <1>2, <1>4

\* The last reference to x goes: x is nobody's child any more.
LEMMA ChildGone ==
  ASSUME NEW A, NEW es, EnvsOK(es, A), NEW k, EnvsOK(k, A), Recounted(es, k),
         NEW x \in 1 .. Len(es), es[x].refs > 0, k[x].refs = 0,
         \A y \in 1 .. Len(es) : y # x => k[y].refs = es[y].refs,
         NEW e \in 1 .. Len(es)
  PROVE  /\ Cardinality(Living(k)) = Cardinality(Living(es)) - 1
         /\ Cardinality(Children(k, e)) =
              Cardinality(Children(es, e)) - (IF es[x].outer = e THEN 1 ELSE 0)
<1>1. Len(k) = Len(es) /\ DOMAIN es = 1 .. Len(es) /\ DOMAIN k = 1 .. Len(es) BY EnvsFacts DEF Recounted
<1>2. \A y \in 1 .. Len(es) : k[y].outer = es[y].outer BY DEF Recounted
<1>3. Living(k) = Living(es) \ {x} /\ x \in Living(es) BY <1>1 DEF Living
<1>4. IsFiniteSet(Living(es)) /\ IsFiniteSet(Children(es, e)) /\ Cardinality(Children(es, e)) \in Nat
  BY ChildrenFinite
<1>5. Cardinality(Living(k)) = Cardinality(Living(es)) - 1 BY <1>3, <1>4, FS_RemoveElement
<1>6. CASE es[x].outer = e
  <2>1. x \in Children(es, e) /\ Children(k, e) = Children(es, e) \ {x} BY <1>1, <1>2, <1>6 DEF Children
  <2>2. Cardinality(Children(k, e)) = Cardinality(Children(es, e)) - 1 BY <1>4, <2>1, FS_RemoveElement
  <2> QED BY <1>5, <1>6, <2>2
<1>7. CASE es[x].outer # e
  <2>1. Children(k, e) = Children(es, e) BY <1>1, <1>2, <1>7 DEF Children
  <2> QED BY <1>4, <1>5, <1>7, <2>1
<1> QED BY <1>6, <1>7

-------------------------------------------------------------------------------
(* Giving up references. *)
DueOK(es, due) == due \in Seq(0 .. Len(es))

Toil(s) == Cardinality(Living(s.envs)) + Len(s.due)

\* Giving up what was due in es has come to s.
Underway(es, s, A, hold) ==
  /\ EnvsOK(s.envs, A) /\ Recounted(es, s.envs)
  /\ s.due \in Seq(0 .. Len(es))
  /\ Owing(s.envs, hold, s.due)

\* One reference less to e, which has others.
LEMMA OneLess ==
  ASSUME NEW A, NEW es, EnvsOK(es, A), NEW e \in 1 .. Len(es), es[e].refs >= 2,
         NEW hold, NEW due, DueOK(es, due), NEW rest, DueOK(es, rest),
         \A x : Count(due, x) = (IF e = x THEN 1 ELSE 0) + Count(rest, x),
         \A x \in 1 .. Len(es) : hold[x] \in Nat, Owing(es, hold, due)
  PROVE  LET k == WithRefs(es, e, es[e].refs - 1)
         IN  EnvsOK(k, A) /\ Recounted(es, k) /\ Owing(k, hold, rest)
             /\ Cardinality(Living(k)) = Cardinality(Living(es))
<1> DEFINE r == es[e].refs - 1
           k == WithRefs(es, e, r)
<1>1. r \in Nat /\ r > 0 /\ es[e].refs = r + 1 BY EnvsFacts
<1> HIDE DEF r
<1>2. /\ EnvsOK(k, A) /\ Recounted(es, k)
      /\ \A x \in 1 .. Len(es) : k[x].refs = IF x = e THEN r ELSE es[x].refs
  BY <1>1, RefsWritten
<1> HIDE DEF k
<1>3. \A x \in 1 .. Len(es) : k[x].refs > 0 <=> es[x].refs > 0 BY <1>1, <1>2
<1>4. Living(k) = Living(es) /\ \A x : Children(k, x) = Children(es, x) BY <1>2, <1>3, SameChildren
<1>5. ASSUME NEW x \in 1 .. Len(k)
      PROVE  k[x].refs = hold[x] + Cardinality(Children(k, x)) + Count(rest, x)
  <2>1. x \in 1 .. Len(es) BY <1>2 DEF Recounted
  <2> DEFINE c == Cardinality(Children(es, x))
             n == Count(rest, x)
             h == hold[x]
  <2>2. c \in Nat /\ n \in Nat /\ h \in Nat BY <2>1, ChildrenFinite, CountType DEF DueOK
  <2>3. es[x].refs = h + c + Count(due, x) BY <2>1 DEF Owing
  <2>4. es[x].refs = h + c + ((IF e = x THEN 1 ELSE 0) + n) BY <2>3
  <2>5. Cardinality(Children(k, x)) = c BY <1>4
  <2> HIDE DEF c, n, h
  <2>7. k[x].refs = IF x = e THEN r ELSE es[x].refs BY <1>2, <2>1
  <2>8. CASE x = e
    <3>1. es[e].refs = h + c + (1 + n) BY <2>4, <2>8
    <3>2. k[x].refs = r BY <2>7, <2>8
    <3>3. r = h + c + n BY <1>1, <2>2, <3>1
    <3> QED BY <2>5, <3>2, <3>3 DEF n, h
  <2>9. CASE x # e
    <3>1. es[x].refs = h + c + (0 + n) BY <2>4, <2>9
    <3>2. h + c + (0 + n) = h + c + n BY <2>2
    <3> QED BY <2>5, <2>7, <2>9, <3>1, <3>2 DEF n, h
  <2> QED BY <2>8, <2>9
<1> QED BY <1>2, <1>4, <1>5 DEF Owing, k, r

\* The last reference to e: its outer environment is due.
LEMMA LastLess ==
  ASSUME NEW A, NEW es, EnvsOK(es, A), NEW e \in 1 .. Len(es), es[e].refs = 1,
         NEW hold, NEW due, DueOK(es, due), NEW rest, DueOK(es, rest),
         \A x : Count(due, x) = (IF e = x THEN 1 ELSE 0) + Count(rest, x),
         \A x \in 1 .. Len(es) : hold[x] \in Nat, Owing(es, hold, due)
  PROVE  LET k == WithRefs(es, e, 0)
         IN  EnvsOK(k, A) /\ Recounted(es, k) /\ Owing(k, hold, <<es[e].outer>> \o rest)
             /\ Cardinality(Living(k)) = Cardinality(Living(es)) - 1
             /\ <<es[e].outer>> \o rest \in Seq(0 .. Len(es))
             /\ Len(<<es[e].outer>> \o rest) = Len(rest) + 1
<1> DEFINE k == WithRefs(es, e, 0)
           o == es[e].outer
           left == <<o>> \o rest
<1>1. /\ EnvsOK(k, A) /\ Recounted(es, k)
      /\ \A x \in 1 .. Len(es) : k[x].refs = IF x = e THEN 0 ELSE es[x].refs
  BY RefsWritten
<1> HIDE DEF k
<1>2. o \in 0 .. Len(es) BY EnvsFacts
<1>3. /\ left \in Seq(0 .. Len(es)) /\ Len(left) = Len(rest) + 1
  <2>1. <<o>> \in Seq(0 .. Len(es)) /\ Len(<<o>>) = 1 BY <1>2
  <2>2. rest \in Seq(0 .. Len(es)) BY DEF DueOK
  <2>3. left \in Seq(0 .. Len(es)) /\ Len(left) = 1 + Len(rest) BY <2>1, <2>2
  <2> QED BY <2>2, <2>3
<1>4. ASSUME NEW x PROVE Count(left, x) = (IF o = x THEN 1 ELSE 0) + Count(rest, x)
  <2> DEFINE one == <<o>>
             S == 0 .. Len(es)
  <2>1. one \in Seq(S) /\ rest \in Seq(S) BY <1>2 DEF DueOK
  <2> HIDE DEF S, one
  <2>3. Count(one \o rest, x) = Count(one, x) + Count(rest, x) BY <2>1, CountConcat
  <2>2. Count(left, x) = Count(<<o>>, x) + Count(rest, x) BY <2>3 DEF one
  <2> QED BY <2>2, CountOne
<1>5. ASSUME NEW x \in 1 .. Len(es)
      PROVE  /\ Cardinality(Living(k)) = Cardinality(Living(es)) - 1
             /\ Cardinality(Children(k, x)) = Cardinality(Children(es, x)) - (IF o = x THEN 1 ELSE 0)
  <2>1. es[e].refs > 0 /\ k[e].refs = 0 /\ \A y \in 1 .. Len(es) : y # e => k[y].refs = es[y].refs BY <1>1
  <2> QED BY <1>1, <2>1, ChildGone
<1>6. ASSUME NEW x \in 1 .. Len(k)
      PROVE  k[x].refs = hold[x] + Cardinality(Children(k, x)) + Count(left, x)
  <2>1. x \in 1 .. Len(es) BY <1>1 DEF Recounted
  <2> DEFINE c == Cardinality(Children(es, x))
             d == Cardinality(Children(k, x))
             n == Count(rest, x)
             h == hold[x]
  <2>2. c \in Nat /\ d \in Nat /\ n \in Nat /\ h \in Nat BY <1>1, <2>1, ChildrenFinite, CountType DEF DueOK
  <2>3. es[x].refs = h + c + ((IF e = x THEN 1 ELSE 0) + n) BY <2>1 DEF Owing
  <2>4. d = c - (IF o = x THEN 1 ELSE 0) BY <1>5, <2>1
  <2>5. Count(left, x) = (IF o = x THEN 1 ELSE 0) + n BY <1>4
  <2> HIDE DEF c, d, n, h, o, left
  <2>6. CASE x = e
    <3>1. h + c + (1 + n) = 1 BY <2>3, <2>6
    <3>2. h = 0 /\ c = 0 /\ n = 0 BY <2>2, <3>1
    <3>3. o # x BY <2>2, <2>4, <3>2
    <3>6. d = c - 0 BY <2>4, <3>3
    <3>7. Count(left, x) = 0 + n BY <2>5, <3>3
    <3>4. d = 0 /\ Count(left, x) = 0 BY <3>2, <3>6, <3>7
    <3>5. k[x].refs = 0 BY <1>1, <2>1, <2>6
    <3> QED BY <3>2, <3>4, <3>5 DEF h, d
  <2>7. CASE x # e
    <3> DEFINE m == Count(left, x)
               i == IF o = x THEN 1 ELSE 0
    <3>0. i \in Nat /\ m = i + n /\ d = c - i BY <2>4, <2>5
    <3> HIDE DEF m, i
    <3>1. k[x].refs = h + c + (0 + n) BY <1>1, <2>1, <2>3, <2>7
    <3>4. k[x].refs = h + d + m BY <2>2, <3>0, <3>1
    <3> QED BY <3>4 DEF h, d, m
  <2> QED BY <2>6, <2>7
<1>7. Owing(k, hold, left) BY <1>6 DEF Owing
<1>8. Cardinality(Living(k)) = Cardinality(Living(es)) - 1 BY <1>5
<1> QED BY <1>1, <1>3, <1>7, <1>8 DEF k, left, o

LEMMA DelFirstKeeps ==
  ASSUME NEW A, NEW es, NEW s, NEW hold, \A x \in 1 .. Len(es) : hold[x] \in Nat,
         Underway(es, s, A, hold), s.due # <<>>
  PROVE  Underway(es, DelFirst(s), A, hold) /\ Toil(DelFirst(s)) = Toil(s) - 1
<1> DEFINE k == s.envs
           e == Head(s.due)
           rest == Tail(s.due)
<1>1. EnvsOK(k, A) /\ Len(k) = Len(es) /\ Len(es) \in Nat BY EnvsFacts DEF Underway, Recounted
<1>2. /\ e \in 0 .. Len(es) /\ rest \in Seq(0 .. Len(es)) /\ Len(rest) = Len(s.due) - 1 /\ Len(rest) \in Nat
      /\ Len(s.due) = Len(rest) + 1
  <2> DEFINE S == 0 .. Len(es)
             due == s.due
  <2>1. due \in Seq(S) /\ due # <<>> BY DEF Underway
  <2> HIDE DEF S, due
  <2>2. Head(due) \in S /\ Tail(due) \in Seq(S) /\ Len(Tail(due)) = Len(due) - 1
        /\ Len(due) \in Nat /\ Len(Tail(due)) \in Nat
    BY <2>1
  <2>3. Len(due) = Len(Tail(due)) + 1 BY <2>2
  <2> QED BY <2>2, <2>3 DEF S, due
<1>3. ASSUME NEW x PROVE Count(s.due, x) = (IF e = x THEN 1 ELSE 0) + Count(rest, x)
  <2> DEFINE S == 0 .. Len(es)
             due == s.due
  <2>1. due \in Seq(S) /\ due # <<>> BY DEF Underway
  <2> HIDE DEF S, due
  <2>2. Count(due, x) = (IF Head(due) = x THEN 1 ELSE 0) + Count(Tail(due), x)
    BY <2>1, CountHeadTail
  <2> QED BY <2>2 DEF due
<1>4. Cardinality(Living(k)) \in Nat BY <1>1, ChildrenFinite
<1>5. /\ \A x \in 1 .. Len(k) : hold[x] \in Nat
      /\ Owing(k, hold, s.due) /\ DueOK(k, s.due) /\ DueOK(k, rest)
  BY <1>1, <1>2 DEF Underway, DueOK
<1> HIDE DEF e, rest
<1>6. CASE e = 0
  <2>1. DelFirst(s) = [envs |-> k, due |-> rest] BY <1>6 DEF DelFirst, e, rest
  <2>2. ASSUME NEW x \in 1 .. Len(k) PROVE Count(s.due, x) = Count(rest, x)
    <3>1. e # x /\ Count(rest, x) \in Nat BY <1>2, <1>6, CountType
    <3> QED BY <1>3, <3>1
  <2>3. Owing(k, hold, rest) BY <1>5, <2>2 DEF Owing
  <2>4. Underway(es, [envs |-> k, due |-> rest], A, hold) BY <1>1, <1>2, <2>3 DEF Underway
  <2>5. Toil([envs |-> k, due |-> rest]) = Cardinality(Living(k)) + Len(rest) BY DEF Toil
  <2>6. Toil(s) = Cardinality(Living(k)) + (Len(rest) + 1) BY <1>2 DEF Toil
  <2> QED BY <1>2, <1>4, <2>1, <2>4, <2>5, <2>6
<1>7. CASE e # 0
  <2>1. e \in 1 .. Len(k) BY <1>1, <1>2, <1>7
  <2>2. k[e].refs >= 1
    <3>1. k[e].refs = hold[e] + Cardinality(Children(k, e)) + Count(s.due, e) BY <1>5, <2>1 DEF Owing
    <3>2. Count(s.due, e) = 1 + Count(rest, e) BY <1>3
    <3>3. hold[e] \in Nat /\ Cardinality(Children(k, e)) \in Nat /\ Count(rest, e) \in Nat
      BY <1>1, <1>2, <1>5, <2>1, ChildrenFinite, CountType
    <3> QED BY <3>1, <3>2, <3>3
  <2>3. k[e].refs \in Nat BY <1>1, <2>1, EnvsFacts
  <2>4. DelFirst(s) = [envs |-> WithRefs(k, e, k[e].refs - 1),
                       due |-> (IF k[e].refs = 1 THEN <<k[e].outer>> ELSE <<>>) \o rest]
    BY <1>7 DEF DelFirst, WithRefs, e, rest
  <2>5. CASE k[e].refs >= 2
    <3> DEFINE g == WithRefs(k, e, k[e].refs - 1)
    <3>1. /\ EnvsOK(g, A) /\ Recounted(k, g) /\ Owing(g, hold, rest)
          /\ Cardinality(Living(g)) = Cardinality(Living(k))
      BY <1>1, <1>3, <1>5, <2>1, <2>5, OneLess
    <3> HIDE DEF g
    <3>2. <<>> \o rest = rest BY <1>2
    <3>8. k[e].refs # 1 BY <2>3, <2>5
    <3>3. DelFirst(s) = [envs |-> g, due |-> rest] BY <2>4, <3>2, <3>8 DEF g
    <3>4. Recounted(es, g) BY <1>1, <3>1 DEF Underway, Recounted
    <3>5. Underway(es, [envs |-> g, due |-> rest], A, hold) BY <1>2, <3>1, <3>4 DEF Underway
    <3>6. Toil([envs |-> g, due |-> rest]) = Cardinality(Living(k)) + Len(rest) BY <3>1 DEF Toil
    <3>7. Toil(s) = Cardinality(Living(k)) + (Len(rest) + 1) BY <1>2 DEF Toil
    <3> QED BY <1>2, <1>4, <3>3, <3>5, <3>6, <3>7
  <2>6. CASE k[e].refs = 1
    <3> DEFINE g == WithRefs(k, e, 0)
               left == <<k[e].outer>> \o rest
    <3>1. /\ EnvsOK(g, A) /\ Recounted(k, g) /\ Owing(g, hold, left)
          /\ Cardinality(Living(g)) = Cardinality(Living(k)) - 1
          /\ left \in Seq(0 .. Len(k)) /\ Len(left) = Len(rest) + 1
      BY <1>1, <1>3, <1>5, <2>1, <2>6, LastLess
    <3>3. DelFirst(s) = [envs |-> g, due |-> left] BY <2>4, <2>6
    <3> HIDE DEF g, left
    <3>4. Recounted(es, g) BY <1>1, <3>1 DEF Underway, Recounted
    <3>5. Underway(es, [envs |-> g, due |-> left], A, hold) BY <1>1, <3>1, <3>4 DEF Underway
    <3>6. Toil([envs |-> g, due |-> left]) = (Cardinality(Living(k)) - 1) + (Len(rest) + 1) BY <3>1 DEF Toil
    <3>7. Toil(s) = Cardinality(Living(k)) + (Len(rest) + 1) BY <1>2 DEF Toil
    <3> QED BY <1>2, <1>4, <3>3, <3>5, <3>6, <3>7
  <2> QED BY <2>2, <2>3, <2>5, <2>6
<1> QED BY <1>6, <1>7

\* f is the recursive function of DelRefs(es, due).
DelSteps(f, es, due, n) ==
  f = [m \in 0 .. n |-> IF m = 0 THEN [envs |-> es, due |-> due] ELSE DelFirst(f[m - 1])]

LEMMA DelStepsExist ==
  ASSUME NEW es, NEW due, NEW n \in Nat
  PROVE  \E f : DelSteps(f, es, due, n)
<1> DEFINE N == {m \in Nat : \E f : DelSteps(f, es, due, m)}
<1>1. 0 \in N
  <2>1. DelSteps([m \in 0 .. 0 |-> [envs |-> es, due |-> due]], es, due, 0) BY DEF DelSteps
  <2> QED BY <2>1
<1>2. ASSUME NEW m \in Nat, m \in N PROVE m + 1 \in N
  <2>1. PICK f : DelSteps(f, es, due, m) BY <1>2
  <2> DEFINE g == [k \in 0 .. m + 1 |-> IF k = 0 THEN [envs |-> es, due |-> due] ELSE DelFirst(f[k - 1])]
  <2>2. ASSUME NEW k \in 0 .. m PROVE g[k] = f[k]
    <3>1. k \in 0 .. m + 1 OBVIOUS
    <3> QED BY <2>1, <3>1 DEF DelSteps
  <2>3. ASSUME NEW k \in 0 .. m + 1
        PROVE  g[k] = IF k = 0 THEN [envs |-> es, due |-> due] ELSE DelFirst(g[k - 1])
    <3>1. CASE k = 0 BY <3>1
    <3>2. CASE k # 0
      <4>1. k - 1 \in 0 .. m BY <3>2
      <4>2. g[k - 1] = f[k - 1] BY <2>2, <4>1
      <4>3. g[k] = DelFirst(f[k - 1]) BY <3>2
      <4> HIDE DEF g
      <4> QED BY <3>2, <4>2, <4>3
    <3> QED BY <3>1, <3>2
  <2> HIDE DEF g
  <2>4. g = [k \in 0 .. m + 1 |-> g[k]] BY DEF g
  <2>5. DelSteps(g, es, due, m + 1) BY <2>3, <2>4 DEF DelSteps
  <2> QED BY <2>5
<1> HIDE DEF N
<1>3. n \in N
  <2>1. Nat \subseteq N BY <1>1, <1>2, NatSetInduction
  <2> QED BY <2>1
<1> QED BY <1>3 DEF N

LEMMA DelRefsIs ==
  ASSUME NEW es, NEW due, MaxDels(es, due) \in Nat
  PROVE  \E f : DelSteps(f, es, due, MaxDels(es, due)) /\ DelRefs(es, due) = f[MaxDels(es, due)].envs
<1> DEFINE f == CHOOSE f : DelSteps(f, es, due, MaxDels(es, due))
<1>1. DelSteps(f, es, due, MaxDels(es, due)) BY DelStepsExist
<1>2. DelRefs(es, due) = f[MaxDels(es, due)].envs BY DEF DelRefs, DelSteps
<1> QED BY <1>1, <1>2

\* What is due is given up and nothing else: the counts are right without it.
LEMMA DelRefsKeeps ==
  ASSUME NEW A, NEW es, EnvsOK(es, A), NEW due, DueOK(es, due),
         NEW hold, \A x \in 1 .. Len(es) : hold[x] \in Nat, Owing(es, hold, due)
  PROVE  EnvsOK(DelRefs(es, due), A) /\ Recounted(es, DelRefs(es, due))
         /\ Owing(DelRefs(es, due), hold, <<>>)
<1> DEFINE n == MaxDels(es, due)
           first == [envs |-> es, due |-> due]
<1>1. n \in Nat /\ Toil(first) \in Nat /\ Toil(first) <= n
  <2> DEFINE a == Cardinality(Living(es))
             l == Len(due)
             m == Len(es)
  <2>0. due \in Seq(0 .. Len(es)) BY DEF DueOK
  <2>9. l \in Nat BY <2>0
  <2>8. a \in Nat /\ a <= m BY ChildrenFinite
  <2>1. a \in Nat /\ a <= m /\ l \in Nat /\ m \in Nat BY <2>8, <2>9, EnvsFacts
  <2>2. n = m + l BY DEF MaxDels
  <2>3. Toil(first) = a + l
    <3>1. first.envs = es /\ first.due = due OBVIOUS
    <3> HIDE DEF first
    <3> QED BY <3>1 DEF Toil
  <2> HIDE DEF a, l, m, n, first
  <2> QED BY <2>1, <2>2, <2>3
<1>2. PICK f : DelSteps(f, es, due, n) /\ DelRefs(es, due) = f[n].envs
  BY <1>1, DelRefsIs
<1> HIDE DEF n
<1>f. /\ f[0] = first
      /\ \A k \in 0 .. n : k # 0 => f[k] = DelFirst(f[k - 1])
  <2>1. 0 \in 0 .. n BY <1>1
  <2> QED BY <1>2, <2>1 DEF DelSteps
<1> DEFINE Good(k) == Underway(es, f[k], A, hold) /\ (f[k].due = <<>> \/ Toil(f[k]) + k <= n)
           N == {m \in Nat : m \in 0 .. n => Good(m)}
<1>3. 0 \in N
  <2>1. first.envs = es /\ first.due = due OBVIOUS
  <2>2. Recounted(es, es) BY DEF Recounted
  <2>3. Underway(es, first, A, hold) BY <2>1, <2>2 DEF Underway, DueOK
  <2> HIDE DEF first
  <2>4. Toil(first) + 0 <= n BY <1>1
  <2>5. Good(0) BY <1>f, <2>3, <2>4
  <2> HIDE DEF Good
  <2> QED BY <2>5
<1>4. ASSUME NEW m \in Nat, m \in N PROVE m + 1 \in N
  <2>1. SUFFICES ASSUME m + 1 \in 0 .. n PROVE Good(m + 1)
    OBVIOUS
  <2>2. f[m + 1] = DelFirst(f[m])
    <3>1. m + 1 # 0 /\ (m + 1) - 1 = m OBVIOUS
    <3> QED BY <1>f, <2>1, <3>1
  <2>3. Good(m) BY <1>1, <1>4, <2>1
  <2>4. CASE f[m].due = <<>>
    <3>1. f[m + 1] = f[m] BY <2>2, <2>4 DEF DelFirst
    <3> QED BY <2>3, <2>4, <3>1
  <2>5. CASE f[m].due # <<>>
    <3> DEFINE x == f[m]
               y == f[m + 1]
    <3>1. Underway(es, x, A, hold) /\ Toil(x) + m <= n BY <2>3, <2>5
    <3>2. Underway(es, y, A, hold) /\ Toil(y) = Toil(x) - 1
      BY <2>2, <2>5, <3>1, DelFirstKeeps
    <3>3. Toil(x) \in Nat
      <4>1. Cardinality(Living(x.envs)) \in Nat /\ Len(x.due) \in Nat
        BY <3>1, ChildrenFinite DEF Underway
      <4> QED BY <4>1 DEF Toil
    <3> HIDE DEF x, y
    <3>4. Toil(y) + (m + 1) <= n BY <1>1, <3>1, <3>2, <3>3
    <3> QED BY <3>2, <3>4 DEF y
  <2> QED BY <2>4, <2>5
<1>5. Good(n)
  <2> HIDE DEF Good, N
  <2>1. Nat \subseteq N BY <1>3, <1>4, NatSetInduction
  <2> QED BY <1>1, <2>1 DEF N
<1>6. f[n].due = <<>>
  <2> DEFINE s == f[n]
             c == Cardinality(Living(s.envs))
             l == Len(s.due)
  <2>1. s.due \in Seq(0 .. Len(es)) /\ EnvsOK(s.envs, A) BY <1>5 DEF Underway
  <2>2. c \in Nat /\ l \in Nat BY <2>1, ChildrenFinite
  <2>3. s.due = <<>> \/ Toil(s) + n <= n BY <1>5
  <2>4. Toil(s) = c + l BY DEF Toil
  <2> HIDE DEF c, l
  <2>5. Toil(s) + n <= n => l = 0 BY <1>1, <2>2, <2>4
  <2>6. l = 0 => s.due = <<>> BY <2>1, EmptySeq DEF l
  <2> QED BY <2>3, <2>5, <2>6
<1>7. Underway(es, f[n], A, hold) BY <1>5
<1> QED BY <1>2, <1>6, <1>7 DEF Underway

-------------------------------------------------------------------------------
(* Taking references. *)
LEMMA AddRefAdds ==
  ASSUME NEW A, NEW es, EnvsOK(es, A), NEW e \in 0 .. Len(es), e # 0 => es[e].refs > 0
  PROVE  /\ EnvsOK(AddRef(es, e), A) /\ Recounted(es, AddRef(es, e))
         /\ \A x \in 1 .. Len(es) : AddRef(es, e)[x].refs = es[x].refs + (IF x = e THEN 1 ELSE 0)
         /\ \A x : Children(AddRef(es, e), x) = Children(es, x)
<1> DEFINE k == AddRef(es, e)
<1>0. \A x \in 1 .. Len(es) : es[x].refs \in Nat BY EnvsFacts
<1>1. CASE e = 0
  <2>1. k = es BY <1>1 DEF AddRef
  <2>2. ASSUME NEW x \in 1 .. Len(es) PROVE es[x].refs = es[x].refs + (IF x = e THEN 1 ELSE 0)
    BY <1>0, <1>1
  <2> QED BY <2>1, <2>2 DEF Recounted
<1>2. CASE e # 0
  <2> DEFINE r == es[e].refs + 1
  <2>1. e \in 1 .. Len(es) BY <1>2
  <2>2. k = WithRefs(es, e, r) BY <1>2 DEF AddRef, WithRefs
  <2>3. r \in Nat /\ r > 0 /\ r = es[e].refs + 1 BY <1>0, <2>1
  <2> HIDE DEF r, k
  <2>4. /\ EnvsOK(k, A) /\ Recounted(es, k)
        /\ \A x \in 1 .. Len(es) : k[x].refs = IF x = e THEN r ELSE es[x].refs
    BY <2>1, <2>2, <2>3, RefsWritten
  <2>5. \A x \in 1 .. Len(es) : k[x].refs > 0 <=> es[x].refs > 0 BY <1>2, <2>3, <2>4
  <2>6. \A x : Children(k, x) = Children(es, x) BY <2>4, <2>5, SameChildren
  <2>7. \A x \in 1 .. Len(es) : k[x].refs = es[x].refs + (IF x = e THEN 1 ELSE 0)
    BY <1>0, <2>3, <2>4
  <2> QED BY <2>4, <2>6, <2>7 DEF k
<1> QED BY <1>1, <1>2

LEMMA EnvsMore ==
  ASSUME NEW A, NEW B, A \subseteq B, NEW es, EnvsOK(es, A)
  PROVE  EnvsOK(es, B)
<1>1. Env(A) \subseteq Env(B) BY DEF Env
<1>2. es \in Seq(Env(A)) BY DEF EnvsOK
<1>3. es \in Seq(Env(B)) BY <1>1, <1>2
<1> QED BY <1>3 DEF EnvsOK

\* From es to g another environment is made, inside up.
Made(es, g, up) ==
  /\ Len(g) = Len(es) + 1 /\ g[Len(es) + 1].outer = up /\ g[Len(es) + 1].refs = 1
  /\ \A x \in 1 .. Len(es) : g[x].outer = es[x].outer

LEMMA EnvAppended ==
  ASSUME NEW A, NEW es, EnvsOK(es, A), NEW new \in Env(A), new.refs = 1, new.outer \in 0 .. Len(es)
  PROVE  /\ EnvsOK(Append(es, new), A) /\ Made(es, Append(es, new), new.outer)
         /\ \A x \in 1 .. Len(es) : /\ Append(es, new)[x].refs = es[x].refs
                                    /\ Cardinality(Children(Append(es, new), x)) =
                                         Cardinality(Children(es, x)) + (IF x = new.outer THEN 1 ELSE 0)
         /\ Cardinality(Children(Append(es, new), Len(es) + 1)) = 0
<1> DEFINE n == Len(es)
           g == Append(es, new)
           up == new.outer
<1>1. /\ g \in Seq(Env(A)) /\ Len(g) = n + 1 /\ n \in Nat /\ g[n + 1] = new
      /\ \A x \in 1 .. n : g[x] = es[x]
  <2>1. es \in Seq(Env(A)) BY DEF EnvsOK
  <2> QED BY <2>1, AppendAt
<1>2. up \in 0 .. n OBVIOUS
<1>3. /\ \A x \in 1 .. n : es[x].outer \in 0 .. n /\ DOMAIN es = 1 .. n
  BY EnvsFacts
<1> HIDE DEF g
<1>4. DOMAIN g = 1 .. n + 1 BY <1>1
<1> HIDE DEF n
<1>5. EnvsOK(g, A)
  <2>1. ASSUME NEW x \in 1 .. Len(g) PROVE g[x].outer <= Len(g)
    <3>1. CASE x = n + 1 BY <1>1, <1>2, <3>1
    <3>2. CASE x # n + 1
      <4>1. x \in 1 .. n BY <1>1, <3>2
      <4>2. g[x].outer \in 0 .. n BY <1>1, <1>3, <4>1
      <4> QED BY <1>1, <4>2
    <3> QED BY <3>1, <3>2
  <2> QED BY <1>1, <2>1 DEF EnvsOK
<1>6. Made(es, g, up) BY <1>1 DEF Made, n
<1>7. ASSUME NEW x \in 1 .. n
      PROVE  Cardinality(Children(g, x)) = Cardinality(Children(es, x)) + (IF x = up THEN 1 ELSE 0)
  <2>1. IsFiniteSet(Children(es, x)) /\ Cardinality(Children(es, x)) \in Nat BY ChildrenFinite
  <2>2. n + 1 \notin Children(es, x) BY <1>1, <1>3 DEF Children
  <2>3. CASE x = up
    <3>1. Children(g, x) = Children(es, x) \cup {n + 1} BY <1>1, <1>3, <1>4, <2>3 DEF Children
    <3>2. Cardinality(Children(g, x)) = Cardinality(Children(es, x)) + 1 BY <2>1, <2>2, <3>1, FS_AddElement
    <3> QED BY <2>3, <3>2
  <2>4. CASE x # up
    <3>1. Children(g, x) = Children(es, x) BY <1>1, <1>3, <1>4, <2>4 DEF Children
    <3> QED BY <2>1, <2>4, <3>1
  <2> QED BY <2>3, <2>4
<1>8. Cardinality(Children(g, n + 1)) = 0
  <2>1. ASSUME NEW x \in DOMAIN g, g[x].outer = n + 1 PROVE FALSE
    <3>1. CASE x = n + 1 BY <1>1, <1>2, <2>1, <3>1
    <3>2. CASE x # n + 1
      <4>1. x \in 1 .. n BY <1>1, <1>4, <3>2
      <4> QED BY <1>1, <1>3, <2>1, <4>1
    <3> QED BY <3>1, <3>2
  <2>2. Children(g, n + 1) = {} BY <2>1 DEF Children
  <2> QED BY <2>2, FS_EmptySet
<1>9. \A x \in 1 .. n : g[x].refs = es[x].refs BY <1>1
<1> QED BY <1>5, <1>6, <1>7, <1>8, <1>9 DEF n, g

\* activate() of a living environment, inside a living one.
LEMMA ActivateKeeps ==
  ASSUME NEW A, NEW es, EnvsOK(es, A), NEW e \in 1 .. Len(es), es[e].refs > 0,
         NEW outer \in 0 .. Len(es), outer # 0 => es[outer].refs > 0, NEW maker, NEW sound,
         NEW hold, \A x \in 1 .. Len(es) : hold[x] \in Nat, Owing(es, hold, <<>>),
         NEW more, more[Len(es) + 1] = 1, \A x \in 1 .. Len(es) : more[x] = hold[x]
  PROVE  \E B, up : /\ EnvsOK(Activate(es, e, outer, maker, sound), B)
                    /\ Made(es, Activate(es, e, outer, maker, sound), up)
                    /\ Owing(Activate(es, e, outer, maker, sound), more, <<>>)
<1> DEFINE up == IF outer = 0 THEN es[e].outer ELSE outer
           B == A \cup {maker, sound}
           k == AddRef(es, up)
           new == [of |-> es[e].of, outer |-> up, refs |-> 1, maker |-> maker, sound |-> sound]
           g == Append(k, new)
           n == Len(es)
<1>1. g = Activate(es, e, outer, maker, sound) BY DEF Activate
<1>2. n \in Nat /\ EnvsOK(es, B) /\ es[e] \in Env(A)
  BY EnvsFacts, EnvsMore
<1>3. up \in 0 .. n /\ (up # 0 => es[up].refs > 0)
  <2>1. CASE outer # 0 BY <2>1
  <2>2. CASE outer = 0 /\ es[e].outer = 0 BY <1>2, <2>2
  <2>3. CASE outer = 0 /\ es[e].outer # 0
    <3> DEFINE o == es[e].outer
    <3>1. Cardinality(Children(es, o)) >= 1 /\ o \in 1 .. n BY <2>3, ChildHolds
    <3>2. es[o].refs = hold[o] + Cardinality(Children(es, o)) + 0 BY <3>1, CountEmpty DEF Owing
    <3>3. hold[o] \in Nat /\ Cardinality(Children(es, o)) \in Nat BY <3>1, ChildrenFinite
    <3>4. es[o].refs > 0 BY <3>1, <3>2, <3>3
    <3> QED BY <2>3, <3>1, <3>4
  <2> QED BY <2>1, <2>2, <2>3
<1>4. new \in Env(B) /\ new.refs = 1 /\ new.outer = up
  <2>1. es[e].of \in A BY <1>2 DEF Env
  <2>2. up \in Nat BY <1>2, <1>3
  <2> HIDE DEF up
  <2> QED BY <2>1, <2>2 DEF Env
<1> HIDE DEF up, B, new, k
<1>5. /\ EnvsOK(k, B) /\ Len(k) = n /\ \A x \in 1 .. n : k[x].outer = es[x].outer
      /\ \A x \in 1 .. n : k[x].refs = es[x].refs + (IF x = up THEN 1 ELSE 0)
      /\ \A x : Children(k, x) = Children(es, x)
  BY <1>2, <1>3, AddRefAdds DEF k, Recounted
<1>6. /\ EnvsOK(g, B) /\ Made(k, g, up)
      /\ \A x \in 1 .. n : /\ g[x].refs = k[x].refs
                           /\ Cardinality(Children(g, x)) =
                                Cardinality(Children(k, x)) + (IF x = up THEN 1 ELSE 0)
      /\ Cardinality(Children(g, n + 1)) = 0
  <2>1. new.outer \in 0 .. Len(k) BY <1>3, <1>4, <1>5
  <2>2. EnvsOK(k, B) /\ new \in Env(B) /\ new.refs = 1 BY <1>4, <1>5
  <2>3. /\ EnvsOK(Append(k, new), B) /\ Made(k, Append(k, new), new.outer)
        /\ \A x \in 1 .. Len(k) : /\ Append(k, new)[x].refs = k[x].refs
                                  /\ Cardinality(Children(Append(k, new), x)) =
                                       Cardinality(Children(k, x)) + (IF x = new.outer THEN 1 ELSE 0)
        /\ Cardinality(Children(Append(k, new), Len(k) + 1)) = 0
    BY <2>1, <2>2, EnvAppended
  <2> HIDE DEF g
  <2>4. g = Append(k, new) BY DEF g
  <2> QED BY <1>4, <1>5, <2>3, <2>4
<1> HIDE DEF g
<1>7. Made(es, g, up) BY <1>5, <1>6 DEF Made
<1>8. Owing(g, more, <<>>)
  <2>1. SUFFICES ASSUME NEW x \in 1 .. Len(g)
                 PROVE  g[x].refs = more[x] + Cardinality(Children(g, x)) + Count(<<>>, x)
    BY DEF Owing
  <2>2. Count(<<>>, x) = 0 BY CountEmpty
  <2>3. CASE x = n + 1
    <3>1. g[x].refs = 1 BY <1>7, <2>3 DEF Made
    <3> QED BY <1>6, <2>2, <2>3, <3>1
  <2>4. CASE x # n + 1
    <3>1. x \in 1 .. n BY <1>2, <1>7, <2>4 DEF Made
    <3> DEFINE c == Cardinality(Children(es, x))
               i == IF x = up THEN 1 ELSE 0
               h == hold[x]
    <3>2. c \in Nat /\ i \in Nat /\ h \in Nat BY <3>1, ChildrenFinite
    <3>3. es[x].refs = h + c + 0 BY <3>1, CountEmpty DEF Owing
    <3>4. g[x].refs = es[x].refs + i /\ Cardinality(Children(g, x)) = c + i /\ more[x] = h
      BY <1>5, <1>6, <3>1
    <3> HIDE DEF c, i, h
    <3>5. h + c + 0 + i = h + (c + i) + 0 BY <3>2
    <3> QED BY <2>2, <3>3, <3>4, <3>5
  <2> QED BY <2>3, <2>4
<1> QED BY <1>1, <1>6, <1>7, <1>8

-------------------------------------------------------------------------------
(* setOuter. *)
WithOuter(es, e, o) == [es EXCEPT ![e].outer = o]

LEMMA OuterWritten ==
  ASSUME NEW A, NEW es, EnvsOK(es, A), NEW e \in 1 .. Len(es), es[e].refs > 0, es[e].outer # 0,
         NEW o \in 1 .. Len(es)
  PROVE  /\ EnvsOK(WithOuter(es, e, o), A) /\ Len(WithOuter(es, e, o)) = Len(es)
         /\ WithOuter(es, e, o)[e].outer = o
         /\ \A x \in 1 .. Len(es) :
              /\ WithOuter(es, e, o)[x].refs = es[x].refs
              /\ Cardinality(Children(WithOuter(es, e, o), x)) + (IF x = es[e].outer THEN 1 ELSE 0) =
                   Cardinality(Children(es, x)) + (IF x = o THEN 1 ELSE 0)
<1> DEFINE new == [es[e] EXCEPT !.outer = o]
           k == [es EXCEPT ![e] = new]
           p == es[e].outer
<1>1. WithOuter(es, e, o) = k BY DEF WithOuter
<1>2. es \in Seq(Env(A)) /\ es[e] \in Env(A) /\ Len(es) \in Nat /\ o \in Nat BY EnvsFacts DEF EnvsOK
<1>3. new \in Env(A) /\ new.outer = o /\ new.refs = es[e].refs BY <1>2 DEF Env
<1> HIDE DEF new
<1>4. k \in Seq(Env(A)) /\ Len(k) = Len(es) /\ \A x \in 1 .. Len(es) : k[x] = IF x = e THEN new ELSE es[x]
  BY <1>2, <1>3
<1> HIDE DEF k
<1>5. \A x \in 1 .. Len(es) : k[x].refs = es[x].refs /\ k[x].outer = IF x = e THEN o ELSE es[x].outer
  BY <1>3, <1>4
<1>6. EnvsOK(k, A)
  <2>1. \A x \in 1 .. Len(es) : es[x].outer <= Len(es) BY DEF EnvsOK
  <2>2. ASSUME NEW x \in 1 .. Len(k) PROVE k[x].outer <= Len(k) BY <1>2, <1>4, <1>5, <2>1
  <2> QED BY <1>4, <2>2 DEF EnvsOK
<1>7. DOMAIN es = 1 .. Len(es) /\ DOMAIN k = 1 .. Len(es) BY <1>4, <1>6, EnvsFacts
<1>8. ASSUME NEW x \in 1 .. Len(es)
      PROVE  Cardinality(Children(k, x)) + (IF x = p THEN 1 ELSE 0) =
               Cardinality(Children(es, x)) + (IF x = o THEN 1 ELSE 0)
  <2> DEFINE C == Children(es, x)
             D == Children(k, x)
  <2>1. IsFiniteSet(C) /\ Cardinality(C) \in Nat BY ChildrenFinite
  <2>2. \A y \in 1 .. Len(es) : y # e => (y \in D <=> y \in C) BY <1>5, <1>7 DEF Children
  <2>3. e \in C <=> x = p BY <1>7 DEF Children
  <2>4. e \in D <=> x = o BY <1>5, <1>7 DEF Children
  <2>5. C \subseteq 1 .. Len(es) /\ D \subseteq 1 .. Len(es) BY <1>7 DEF Children
  <2> HIDE DEF C, D, p
  <2>10. ASSUME x = p <=> x = o PROVE C = D
    <3>1. ASSUME NEW y PROVE y \in C <=> y \in D
      <4>1. CASE y = e BY <2>3, <2>4, <2>10, <4>1
      <4>2. CASE y # e BY <2>2, <2>5, <4>2
      <4> QED BY <4>1, <4>2
    <3> QED BY <3>1
  <2>6. CASE x = p /\ x = o
    <3>1. C = D BY <2>6, <2>10
    <3> QED BY <2>6, <3>1 DEF C, D
  <2>7. CASE x = p /\ x # o
    <3>1. D = C \ {e} /\ e \in C BY <2>2, <2>3, <2>4, <2>5, <2>7
    <3>2. Cardinality(D) = Cardinality(C) - 1 BY <2>1, <3>1, FS_RemoveElement
    <3>3. Cardinality(D) + 1 = Cardinality(C) + 0 BY <2>1, <3>2
    <3> QED BY <2>7, <3>3 DEF C, D
  <2>8. CASE x # p /\ x = o
    <3>1. D = C \cup {e} /\ e \notin C BY <2>2, <2>3, <2>4, <2>5, <2>8
    <3>2. Cardinality(D) = Cardinality(C) + 1 BY <2>1, <3>1, FS_AddElement
    <3>3. Cardinality(D) + 0 = Cardinality(C) + 1 BY <2>1, <3>2
    <3> QED BY <2>8, <3>3 DEF C, D
  <2>9. CASE x # p /\ x # o
    <3>1. C = D BY <2>9, <2>10
    <3> QED BY <2>9, <3>1 DEF C, D
  <2> QED BY <2>6, <2>7, <2>8, <2>9
<1>9. k[e].outer = o BY <1>5
<1> QED BY <1>1, <1>4, <1>5, <1>6, <1>8, <1>9

LEMMA SetOuterKeeps ==
  ASSUME NEW A, NEW es, EnvsOK(es, A), NEW e \in 1 .. Len(es), es[e].outer # 0,
         NEW o \in 1 .. Len(es), o # e,
         NEW hold, \A x \in 1 .. Len(es) : hold[x] \in Nat, hold[e] >= 1, hold[o] >= 1,
         Owing(es, hold, <<>>)
  PROVE  LET k == SetOuter(es, e, o)
         IN  EnvsOK(k, A) /\ Len(k) = Len(es) /\ Owing(k, hold, <<>>)
<1> DEFINE p == es[e].outer
           f == WithOuter(es, e, o)
           due == <<p>>
           g == DelRefs(f, due)
           k == AddRef(g, o)
           less == [x \in 1 .. Len(es) |-> hold[x] - (IF x = o THEN 1 ELSE 0)]
<1>1. k = SetOuter(es, e, o) BY DEF SetOuter, DelRef, WithOuter
<1>2. Len(es) \in Nat /\ p \in 1 .. Len(es) BY EnvsFacts
<1>3. ASSUME NEW x \in 1 .. Len(es)
      PROVE  es[x].refs = hold[x] + Cardinality(Children(es, x)) /\ Cardinality(Children(es, x)) \in Nat
  <2>1. es[x].refs = hold[x] + Cardinality(Children(es, x)) + Count(<<>>, x) BY DEF Owing
  <2>2. Cardinality(Children(es, x)) \in Nat BY ChildrenFinite
  <2> QED BY <2>1, <2>2, CountEmpty
<1>4. es[e].refs > 0 BY <1>3
<1> HIDE DEF f, p, less
<1>5. /\ EnvsOK(f, A) /\ Len(f) = Len(es) /\ f[e].outer = o
      /\ \A x \in 1 .. Len(es) :
           /\ f[x].refs = es[x].refs
           /\ Cardinality(Children(f, x)) + (IF x = p THEN 1 ELSE 0) =
                Cardinality(Children(es, x)) + (IF x = o THEN 1 ELSE 0)
  BY <1>4, OuterWritten DEF f, p
<1>6. \A x \in 1 .. Len(es) : less[x] \in Nat /\ hold[x] = less[x] + (IF x = o THEN 1 ELSE 0)
  <2> SUFFICES ASSUME NEW x \in 1 .. Len(es)
               PROVE  less[x] \in Nat /\ hold[x] = less[x] + (IF x = o THEN 1 ELSE 0)
    OBVIOUS
  <2>1. less[x] = hold[x] - (IF x = o THEN 1 ELSE 0) BY DEF less
  <2> QED BY <2>1
<1>7. Owing(f, less, due)
  <2> SUFFICES ASSUME NEW x \in 1 .. Len(f)
               PROVE  f[x].refs = less[x] + Cardinality(Children(f, x)) + Count(due, x)
    BY DEF Owing
  <2>1. x \in 1 .. Len(es) BY <1>5
  <2> DEFINE c == Cardinality(Children(es, x))
             d == Cardinality(Children(f, x))
             i == IF x = p THEN 1 ELSE 0
             j == IF x = o THEN 1 ELSE 0
             l == less[x]
  <2>2. Count(due, x) = i BY CountOne
  <2>3. c \in Nat /\ d \in Nat /\ l \in Nat /\ i \in Nat /\ j \in Nat
    BY <1>5, <1>6, <2>1, ChildrenFinite
  <2>4. f[x].refs = hold[x] + c /\ hold[x] = l + j /\ d + i = c + j BY <1>3, <1>5, <1>6, <2>1
  <2> HIDE DEF c, d, i, j, l, due
  <2>5. f[x].refs = l + d + i BY <2>3, <2>4
  <2> QED BY <2>2, <2>5 DEF d, l
<1>8. DueOK(f, due)
  <2>1. p \in 0 .. Len(es) BY <1>2
  <2> QED BY <1>5, <2>1 DEF DueOK
<1> HIDE DEF due
<1>9. EnvsOK(g, A) /\ Recounted(f, g) /\ Owing(g, less, <<>>)
  BY <1>5, <1>6, <1>7, <1>8, DelRefsKeeps
<1> HIDE DEF g
<1>10. Len(g) = Len(es) /\ g[e].outer = o BY <1>5, <1>9 DEF Recounted
<1>11. ASSUME NEW x \in 1 .. Len(es)
       PROVE  /\ g[x].refs = less[x] + Cardinality(Children(g, x))
              /\ Cardinality(Children(g, x)) \in Nat
  <2>1. g[x].refs = less[x] + Cardinality(Children(g, x)) + Count(<<>>, x) BY <1>9, <1>10 DEF Owing
  <2>2. Cardinality(Children(g, x)) \in Nat BY <1>9, ChildrenFinite
  <2> QED BY <1>6, <2>1, <2>2, CountEmpty
<1>12. g[e].refs > 0
  <2>1. less[e] = hold[e]
    <3>1. less[e] = hold[e] - 0 BY DEF less
    <3> QED BY <3>1
  <2> QED BY <1>11, <2>1
<1>13. g[o].refs > 0
  <2>1. Cardinality(Children(g, o)) >= 1 BY <1>2, <1>9, <1>10, <1>12, ChildHolds
  <2> QED BY <1>6, <1>11, <2>1
<1>14. /\ EnvsOK(k, A) /\ Recounted(g, k)
       /\ \A x \in 1 .. Len(g) : k[x].refs = g[x].refs + (IF x = o THEN 1 ELSE 0)
       /\ \A x : Children(k, x) = Children(g, x)
  <2>1. o \in 0 .. Len(g) BY <1>10
  <2> QED BY <1>9, <1>13, <2>1, AddRefAdds
<1> HIDE DEF k
<1>15. Len(k) = Len(es) BY <1>10, <1>14 DEF Recounted
<1>16. Owing(k, hold, <<>>)
  <2> SUFFICES ASSUME NEW x \in 1 .. Len(k)
               PROVE  k[x].refs = hold[x] + Cardinality(Children(k, x)) + Count(<<>>, x)
    BY DEF Owing
  <2>1. x \in 1 .. Len(es) BY <1>15
  <2> DEFINE c == Cardinality(Children(g, x))
             j == IF x = o THEN 1 ELSE 0
             l == less[x]
  <2>2. c \in Nat /\ l \in Nat /\ j \in Nat BY <1>6, <1>11, <2>1
  <2>3. k[x].refs = (l + c) + j /\ hold[x] = l + j /\ Cardinality(Children(k, x)) = c
    BY <1>6, <1>10, <1>11, <1>14, <2>1
  <2> HIDE DEF c, j, l
  <2>4. Count(<<>>, x) = 0 BY CountEmpty
  <2> QED BY <2>2, <2>3, <2>4
<1> QED BY <1>1, <1>14, <1>15, <1>16

-------------------------------------------------------------------------------
(* Frames and the object store. *)
FramesType == Seq([env : Nat, callback : BOOLEAN])
EnvsIn(fr) == [i \in 1 .. Len(fr) |-> fr[i].env]
InFrames(fr, x) == Cardinality({i \in DOMAIN fr : fr[i].env = x /\ x # 1})

LEMMA InFramesCount ==
  ASSUME NEW fr \in FramesType, NEW x
  PROVE  /\ EnvsIn(fr) \in Seq(Nat) /\ InFrames(fr, x) \in Nat
         /\ InFrames(fr, x) = IF x = 1 THEN 0 ELSE Count(EnvsIn(fr), x)
<1> DEFINE F == [env : Nat, callback : BOOLEAN]
           n == Len(fr)
<1>0. fr \in Seq(F) BY DEF FramesType
<1> HIDE DEF F
<1>1. n \in Nat /\ DOMAIN fr = 1 .. n /\ \A i \in 1 .. n : fr[i] \in F BY <1>0
<1>2. \A i \in 1 .. n : fr[i].env \in Nat BY <1>1 DEF F
<1> HIDE DEF n
<1>3. EnvsIn(fr) \in Seq(Nat) /\ Len(EnvsIn(fr)) = n /\ \A i \in 1 .. n : EnvsIn(fr)[i] = fr[i].env
  BY <1>1, <1>2 DEF EnvsIn, n
<1>4. CASE x = 1
  <2>1. {i \in DOMAIN fr : fr[i].env = x /\ x # 1} = {} BY <1>4
  <2> QED BY <1>3, <1>4, <2>1, FS_EmptySet DEF InFrames
<1>5. CASE x # 1
  <2>1. {i \in DOMAIN fr : fr[i].env = x /\ x # 1} = {i \in 1 .. Len(EnvsIn(fr)) : EnvsIn(fr)[i] = x}
    BY <1>1, <1>3, <1>5
  <2>2. InFrames(fr, x) = Count(EnvsIn(fr), x) BY <2>1 DEF InFrames, Count
  <2>3. Count(EnvsIn(fr), x) \in Nat BY <1>3, CountType
  <2> QED BY <1>3, <1>5, <2>2, <2>3
<1> QED BY <1>4, <1>5

LEMMA FramePopped ==
  ASSUME NEW fr \in FramesType, fr # <<>>, NEW x
  PROVE  /\ Tail(fr) \in FramesType /\ fr[1].env \in Nat
         /\ InFrames(fr, x) = (IF fr[1].env = x /\ x # 1 THEN 1 ELSE 0) + InFrames(Tail(fr), x)
<1> DEFINE s == EnvsIn(fr)
           t == EnvsIn(Tail(fr))
<1>1. /\ Tail(fr) \in FramesType /\ Len(Tail(fr)) = Len(fr) - 1 /\ Len(fr) \in Nat /\ Len(fr) > 0
      /\ \A i \in 1 .. Len(fr) - 1 : Tail(fr)[i] = fr[i + 1]
  BY DEF FramesType
<1>2. s \in Seq(Nat) /\ t \in Seq(Nat) BY <1>1, InFramesCount
<1>3. Len(s) = Len(fr) /\ Len(t) = Len(fr) - 1 BY <1>1 DEF EnvsIn
<1>4. /\ \A i \in 1 .. Len(fr) : s[i] = fr[i].env
      /\ \A i \in 1 .. Len(fr) - 1 : t[i] = fr[i + 1].env
  BY <1>1 DEF EnvsIn
<1> HIDE DEF s, t
<1>5. s # <<>> /\ Head(s) = fr[1].env /\ fr[1].env \in Nat
  <2>1. s[1] = fr[1].env BY <1>1, <1>4
  <2>2. s # <<>> BY <1>1, <1>3
  <2>3. s[1] \in Nat BY <1>1, <1>2, <1>3
  <2> QED BY <1>2, <2>1, <2>2, <2>3
<1>6. Tail(s) = t
  <2>1. Tail(s) \in Seq(Nat) /\ Len(Tail(s)) = Len(t) /\ \A i \in 1 .. Len(t) : Tail(s)[i] = s[i + 1]
    BY <1>2, <1>3, <1>5
  <2>2. \A i \in 1 .. Len(t) : Tail(s)[i] = t[i]
    <3> SUFFICES ASSUME NEW i \in 1 .. Len(t) PROVE Tail(s)[i] = t[i]
      OBVIOUS
    <3>1. i + 1 \in 1 .. Len(fr) /\ i \in 1 .. Len(fr) - 1 BY <1>1, <1>3
    <3> QED BY <1>4, <2>1, <3>1
  <2> QED BY <1>2, <2>1, <2>2, SeqEqual
<1>7. Count(s, x) = (IF fr[1].env = x THEN 1 ELSE 0) + Count(t, x) BY <1>2, <1>5, <1>6, CountHeadTail
<1>8. /\ InFrames(fr, x) = (IF x = 1 THEN 0 ELSE Count(s, x))
      /\ InFrames(Tail(fr), x) = (IF x = 1 THEN 0 ELSE Count(t, x))
  BY <1>1, InFramesCount DEF s, t
<1> QED BY <1>1, <1>5, <1>7, <1>8

LEMMA FramePushed ==
  ASSUME NEW fr \in FramesType, NEW f \in [env : Nat, callback : BOOLEAN], NEW x
  PROVE  /\ <<f>> \o fr \in FramesType /\ Len(<<f>> \o fr) = Len(fr) + 1 /\ (<<f>> \o fr)[1] = f
         /\ \A i \in 1 .. Len(fr) : (<<f>> \o fr)[i + 1] = fr[i]
         /\ InFrames(<<f>> \o fr, x) = (IF f.env = x /\ x # 1 THEN 1 ELSE 0) + InFrames(fr, x)
<1> DEFINE F == [env : Nat, callback : BOOLEAN]
           g == <<f>> \o fr
<1>1. fr \in Seq(F) /\ f \in F BY DEF FramesType
<1> HIDE DEF F
<1>2. /\ g \in Seq(F) /\ Len(g) = Len(fr) + 1 /\ g[1] = f /\ g # <<>> /\ Len(fr) \in Nat
      /\ \A i \in 1 .. Len(fr) : g[i + 1] = fr[i]
  BY <1>1
<1>3. Tail(g) = fr BY <1>1
<1>4. g \in FramesType BY <1>2 DEF F, FramesType
<1> HIDE DEF g
<1>5. InFrames(g, x) = (IF g[1].env = x /\ x # 1 THEN 1 ELSE 0) + InFrames(Tail(g), x)
  BY <1>2, <1>4, FramePopped
<1> QED BY <1>2, <1>3, <1>4, <1>5 DEF g

InStore(st, x) == Count(FlattenSeq(st), x)

LEMMA StoreType ==
  ASSUME NEW S, NEW st \in Seq(Seq(S)), NEW x
  PROVE  InStore(st, x) \in Nat
<1>1. FlattenSeq(st) \in Seq(S) BY FlattenType
<1> QED BY <1>1, CountType DEF InStore

LEMMA StoreFirst ==
  ASSUME NEW S, NEW st \in Seq(Seq(S)), st # <<>>, NEW x
  PROVE  /\ st[1] \in Seq(S) /\ Tail(st) \in Seq(Seq(S))
         /\ InStore(st, x) = Count(st[1], x) + InStore(Tail(st), x)
<1>1. Head(st) = st[1] /\ st[1] \in Seq(S) /\ Tail(st) \in Seq(Seq(S)) OBVIOUS
<1>2. FlattenSeq(st) = Head(st) \o FlattenSeq(Tail(st)) BY FlattenHeadTail
<1>3. FlattenSeq(Tail(st)) \in Seq(S) BY <1>1, FlattenType
<1>4. Count(st[1] \o FlattenSeq(Tail(st)), x) = Count(st[1], x) + Count(FlattenSeq(Tail(st)), x)
  BY <1>1, <1>3, CountConcat
<1> QED BY <1>1, <1>2, <1>4 DEF InStore

LEMMA StoreLevel ==
  ASSUME NEW S, NEW st \in Seq(Seq(S)), NEW l \in Seq(S), NEW x
  PROVE  /\ <<l>> \o st \in Seq(Seq(S))
         /\ InStore(<<l>> \o st, x) = Count(l, x) + InStore(st, x)
<1> DEFINE T == Seq(S)
           t == <<l>> \o st
<1>1. l \in T /\ st \in Seq(T) OBVIOUS
<1> HIDE DEF T
<1>2. t \in Seq(T) /\ t # <<>> /\ t[1] = l /\ Tail(t) = st BY <1>1
<1> HIDE DEF t
<1>3. InStore(t, x) = Count(t[1], x) + InStore(Tail(t), x) BY <1>2, StoreFirst DEF T
<1> QED BY <1>2, <1>3 DEF t, T

LEMMA StoredCount ==
  ASSUME NEW S, store \in Seq(Seq(S)), NEW e \in S, NEW x
  PROVE  /\ Stored(e) \in Seq(Seq(S)) /\ Stored(e) # <<>>
         /\ InStore(Stored(e), x) = InStore(store, x) + (IF e = x THEN 1 ELSE 0)
<1> DEFINE l == IF store = <<>> THEN <<e>> ELSE Append(store[1], e)
           t == IF store = <<>> THEN <<>> ELSE Tail(store)
<1>1. CASE store = <<>>
  <2>1. Stored(e) = <<<<e>>>> BY <1>1 DEF Stored
  <2>2. <<<<e>>>> = <<<<e>>>> \o <<>> OBVIOUS
  <2>3. <<e>> \in Seq(S) /\ <<>> \in Seq(Seq(S)) OBVIOUS
  <2> DEFINE one == <<e>>
  <2>4. Count(one, x) = IF e = x THEN 1 ELSE 0 BY CountOne
  <2>5. one \in Seq(S) BY <2>3
  <2>6. Stored(e) = <<one>> \o <<>> BY <2>1, <2>2
  <2> HIDE DEF one
  <2>7. /\ <<one>> \o <<>> \in Seq(Seq(S))
        /\ InStore(<<one>> \o <<>>, x) = Count(one, x) + InStore(<<>>, x)
    BY <2>3, <2>5, StoreLevel
  <2>8. InStore(<<>>, x) = 0 BY FlattenEmpty, CountEmpty DEF InStore
  <2>9. Stored(e) # <<>> BY <2>1
  <2> QED BY <1>1, <2>4, <2>6, <2>7, <2>8, <2>9
<1>2. CASE store # <<>>
  <2> DEFINE a == Append(store[1], e)
             r == Tail(store)
  <2>1. /\ store[1] \in Seq(S) /\ r \in Seq(Seq(S))
        /\ InStore(store, x) = Count(store[1], x) + InStore(r, x)
    BY <1>2, StoreFirst
  <2>2. Stored(e) = <<a>> \o r BY <1>2 DEF Stored
  <2>3. a \in Seq(S) /\ Count(a, x) = Count(store[1], x) + (IF e = x THEN 1 ELSE 0)
    BY <2>1, CountAppend
  <2>4. Count(store[1], x) \in Nat /\ InStore(r, x) \in Nat BY <2>1, CountType, StoreType
  <2> HIDE DEF a, r
  <2>5. <<a>> \o r \in Seq(Seq(S)) /\ InStore(<<a>> \o r, x) = Count(a, x) + InStore(r, x)
    BY <2>1, <2>3, StoreLevel
  <2>6. <<a>> \o r # <<>> BY <2>1, <2>3
  <2> QED BY <2>1, <2>2, <2>3, <2>4, <2>5, <2>6
<1> QED BY <1>1, <1>2

-------------------------------------------------------------------------------
(* The resolver.  D holds the data of the environments it makes. *)
BlueprintsOK(bs, D) ==
  /\ bs \in Seq([outer : Nat, data : D]) /\ bs # <<>>
  /\ \A b \in 1 .. Len(bs) : bs[b].outer <= Len(bs)

HasEnvironment == {"function", "class"}
Kinds(p, o) == [k \in 1 .. Len(o) |-> IF p[o[k]].op \in HasEnvironment THEN 1 ELSE 0]

\* As many nodes are open as were opened and not closed, and the stack has the
\* environments of those that have one.
NestingOK == open \in Seq(Nat) /\ (phase = "resolving" => Len(open) = Opened(program, at - 1) - Closed(program, at - 1))
StackOK == stack \in Seq(1 .. Len(blueprints)) /\ Len(stack) = 1 + Count(Kinds(program, open), 1)

ResolverInv ==
  /\ program \in Programs /\ at \in Nat \ {0}
  /\ \E D : BlueprintsOK(blueprints, D)
  /\ NestingOK /\ StackOK
  /\ \A f \in functions : f.env \in 2 .. Len(blueprints)

LEMMA IndexesNext ==
  ASSUME NEW i \in Nat \ {0}, NEW S, S \subseteq 1 .. i - 1, NEW U, U \subseteq 1 .. i,
         \A j \in 1 .. i - 1 : j \in U <=> j \in S
  PROVE  Cardinality(U) = Cardinality(S) + (IF i \in U THEN 1 ELSE 0) /\ Cardinality(S) \in Nat
<1>1. i - 1 \in Nat /\ i \notin S /\ \A j \in 1 .. i : j # i => j \in 1 .. i - 1 OBVIOUS
<1>2. IsFiniteSet(S) /\ Cardinality(S) \in Nat BY <1>1, FiniteIndexes
<1>3. CASE i \in U
  <2>1. \A j : j \in U <=> j \in S \cup {i}
    <3> SUFFICES ASSUME NEW j PROVE j \in U <=> j \in S \cup {i}
      OBVIOUS
    <3>1. CASE j = i BY <1>3, <3>1
    <3>2. CASE j # i BY <1>1, <3>2
    <3> QED BY <3>1, <3>2
  <2>2. U = S \cup {i} BY <2>1
  <2>3. Cardinality(U) = Cardinality(S) + 1 BY <1>1, <1>2, <2>2, FS_AddElement
  <2> QED BY <1>2, <1>3, <2>3
<1>4. CASE i \notin U
  <2>1. \A j : j \in U <=> j \in S
    <3> SUFFICES ASSUME NEW j PROVE j \in U <=> j \in S
      OBVIOUS
    <3>1. CASE j = i BY <1>1, <1>4, <3>1
    <3>2. CASE j # i BY <1>1, <3>2
    <3> QED BY <3>1, <3>2
  <2>2. U = S BY <2>1
  <2>3. Cardinality(U) = Cardinality(S) + 0 BY <1>2, <2>2
  <2> QED BY <1>2, <1>4, <2>3
<1> QED BY <1>3, <1>4

LEMMA OpenedNext ==
  ASSUME NEW p, NEW i \in Nat \ {0}
  PROVE  /\ Opened(p, i) = Opened(p, i - 1) + (IF p[i].op \in Openers THEN 1 ELSE 0)
         /\ Closed(p, i) = Closed(p, i - 1) + (IF p[i].op = "end" THEN 1 ELSE 0)
         /\ Opened(p, i - 1) \in Nat /\ Closed(p, i - 1) \in Nat
<1> DEFINE T == {j \in 1 .. i : p[j].op \in Openers}
           U == {j \in 1 .. i : p[j].op = "end"}
           S == {j \in 1 .. i - 1 : p[j].op \in Openers}
           R == {j \in 1 .. i - 1 : p[j].op = "end"}
<1>0. i \in 1 .. i /\ \A j \in 1 .. i - 1 : j \in 1 .. i OBVIOUS
<1>1. /\ S \subseteq 1 .. i - 1 /\ T \subseteq 1 .. i /\ (i \in T <=> p[i].op \in Openers)
      /\ \A j \in 1 .. i - 1 : j \in T <=> j \in S
  BY <1>0
<1>2. /\ R \subseteq 1 .. i - 1 /\ U \subseteq 1 .. i /\ (i \in U <=> p[i].op = "end")
      /\ \A j \in 1 .. i - 1 : j \in U <=> j \in R
  BY <1>0
<1>3. /\ Opened(p, i) = Cardinality(T) /\ Closed(p, i) = Cardinality(U)
      /\ Opened(p, i - 1) = Cardinality(S) /\ Closed(p, i - 1) = Cardinality(R)
  BY DEF Opened, Closed
<1> HIDE DEF S, T, U, R
<1>4. Cardinality(T) = Cardinality(S) + (IF i \in T THEN 1 ELSE 0) /\ Cardinality(S) \in Nat
  BY <1>1, IndexesNext
<1>5. Cardinality(U) = Cardinality(R) + (IF i \in U THEN 1 ELSE 0) /\ Cardinality(R) \in Nat
  BY <1>2, IndexesNext
<1> QED BY <1>1, <1>2, <1>3, <1>4, <1>5

LEMMA KindsFirst ==
  ASSUME NEW p, NEW o \in Seq(Nat), o # <<>>
  PROVE  /\ Tail(o) \in Seq(Nat) /\ Len(Tail(o)) = Len(o) - 1
         /\ Count(Kinds(p, Tail(o)), 1) \in Nat
         /\ Count(Kinds(p, o), 1) =
              (IF p[o[1]].op \in HasEnvironment THEN 1 ELSE 0) + Count(Kinds(p, Tail(o)), 1)
<1> DEFINE N == {0, 1}
           s == Kinds(p, o)
           t == Kinds(p, Tail(o))
           kind(a) == IF p[a].op \in HasEnvironment THEN 1 ELSE 0
<1>1. /\ Tail(o) \in Seq(Nat) /\ Len(Tail(o)) = Len(o) - 1 /\ Len(o) \in Nat /\ Len(o) > 0
      /\ \A k \in 1 .. Len(o) - 1 : Tail(o)[k] = o[k + 1]
  OBVIOUS
<1>2. \A a : kind(a) \in N OBVIOUS
<1>3. /\ s = [k \in 1 .. Len(o) |-> kind(o[k])]
      /\ t = [k \in 1 .. Len(o) - 1 |-> kind(Tail(o)[k])]
  BY <1>1 DEF Kinds
<1> HIDE DEF s, t, kind, N
<1>4. /\ s \in Seq(N) /\ Len(s) = Len(o) /\ \A k \in 1 .. Len(o) : s[k] = kind(o[k])
  BY <1>1, <1>2, <1>3
<1>5. /\ t \in Seq(N) /\ Len(t) = Len(o) - 1 /\ \A k \in 1 .. Len(o) - 1 : t[k] = kind(Tail(o)[k])
  <2> DEFINE m == Len(o) - 1
             q == Tail(o)
  <2>1. m \in Nat BY <1>1
  <2>2. t = [k \in 1 .. m |-> kind(q[k])] BY <1>3
  <2> HIDE DEF m, q
  <2>3. t \in Seq(N) /\ Len(t) = m /\ \A k \in 1 .. m : t[k] = kind(q[k]) BY <1>2, <2>1, <2>2
  <2> QED BY <2>3 DEF m, q
<1>6. s # <<>> /\ Head(s) = kind(o[1])
  <2>1. s # <<>> BY <1>1, <1>4
  <2>2. Head(s) = s[1] BY <1>4, <2>1
  <2>3. 1 \in 1 .. Len(o) BY <1>1
  <2> QED BY <1>4, <2>1, <2>2, <2>3
<1>7. Tail(s) = t
  <2>1. Tail(s) \in Seq(N) /\ Len(Tail(s)) = Len(t) /\ \A k \in 1 .. Len(t) : Tail(s)[k] = s[k + 1]
    BY <1>4, <1>5, <1>6
  <2>2. \A k \in 1 .. Len(t) : Tail(s)[k] = t[k]
    <3> SUFFICES ASSUME NEW k \in 1 .. Len(t) PROVE Tail(s)[k] = t[k]
      OBVIOUS
    <3>1. k + 1 \in 1 .. Len(o) /\ k \in 1 .. Len(o) - 1 BY <1>1, <1>5
    <3>2. t[k] = kind(o[k + 1]) BY <1>1, <1>5, <3>1
    <3>3. s[k + 1] = kind(o[k + 1]) BY <1>4, <3>1
    <3> QED BY <2>1, <3>2, <3>3
  <2> QED BY <1>5, <2>1, <2>2, SeqEqual
<1>8. Count(s, 1) = (IF kind(o[1]) = 1 THEN 1 ELSE 0) + Count(t, 1)
  BY <1>4, <1>6, <1>7, CountHeadTail
<1>9. (IF kind(o[1]) = 1 THEN 1 ELSE 0) = IF p[o[1]].op \in HasEnvironment THEN 1 ELSE 0
  BY DEF kind
<1>10. Count(t, 1) \in Nat BY <1>5, CountType
<1> QED BY <1>1, <1>8, <1>9, <1>10 DEF s, t

LEMMA KindsPushed ==
  ASSUME NEW p, NEW o \in Seq(Nat), NEW a \in Nat
  PROVE  /\ <<a>> \o o \in Seq(Nat) /\ Len(<<a>> \o o) = Len(o) + 1
         /\ Count(Kinds(p, <<a>> \o o), 1) =
              (IF p[a].op \in HasEnvironment THEN 1 ELSE 0) + Count(Kinds(p, o), 1)
<1> DEFINE q == <<a>> \o o
<1>1. q \in Seq(Nat) /\ Len(q) = Len(o) + 1 /\ q # <<>> /\ q[1] = a /\ Tail(q) = o OBVIOUS
<1> HIDE DEF q
<1>2. Count(Kinds(p, q), 1) = (IF p[q[1]].op \in HasEnvironment THEN 1 ELSE 0) + Count(Kinds(p, Tail(q)), 1)
  BY <1>1, KindsFirst
<1> QED BY <1>1, <1>2 DEF q

\* The three ways to pass a node.
LEMMA Opening ==
  ASSUME ResolverInv, NEW word \in Openers, Visiting(word), Passes, open' = <<at>> \o open
  PROVE  /\ NestingOK' /\ program' \in Programs /\ at' \in Nat \ {0}
         /\ Count(Kinds(program, open), 1) \in Nat
         /\ Count(Kinds(program', open'), 1) =
              (IF word \in HasEnvironment THEN 1 ELSE 0) + Count(Kinds(program, open), 1)
<1>1. /\ program' = program /\ phase' = phase /\ at' = at + 1 /\ at \in Nat \ {0} /\ open \in Seq(Nat)
      /\ program[at].op = word /\ phase = "resolving"
  BY DEF Passes, Visiting, Node, ResolverInv, NestingOK
<1>2. /\ open' \in Seq(Nat) /\ Len(open') = Len(open) + 1
      /\ Count(Kinds(program, open'), 1) =
           (IF program[at].op \in HasEnvironment THEN 1 ELSE 0) + Count(Kinds(program, open), 1)
  BY <1>1, KindsPushed
<1>3. Count(Kinds(program, open), 1) \in Nat
  <2>1. Kinds(program, open) \in Seq({0, 1}) BY <1>1 DEF Kinds
  <2> QED BY <2>1, CountType
<1>4. "end" \notin Openers BY DEF Openers
<1> DEFINE a == Opened(program, at - 1)
           b == Closed(program, at - 1)
<1>5. /\ Opened(program, at) = a + 1 /\ Closed(program, at) = b + 0 /\ a \in Nat /\ b \in Nat
  <2>1. /\ Opened(program, at) = a + (IF program[at].op \in Openers THEN 1 ELSE 0)
        /\ Closed(program, at) = b + (IF program[at].op = "end" THEN 1 ELSE 0)
        /\ a \in Nat /\ b \in Nat
    BY <1>1, OpenedNext
  <2> QED BY <1>1, <1>4, <2>1
<1>6. Len(open) = a - b BY <1>1 DEF ResolverInv, NestingOK
<1> HIDE DEF a, b
<1>7. Len(open') = Opened(program', at' - 1) - Closed(program', at' - 1)
  <2>1. at' - 1 = at BY <1>1
  <2>2. Len(open') = (a + 1) - (b + 0) BY <1>2, <1>5, <1>6
  <2> QED BY <1>1, <1>5, <2>1, <2>2
<1>8. NestingOK' BY <1>2, <1>7 DEF NestingOK
<1> QED BY <1>1, <1>2, <1>3, <1>8 DEF ResolverInv

LEMMA Staying ==
  ASSUME ResolverInv, NEW word, word \notin Openers, word # "end", Visiting(word), Passes, open' = open
  PROVE  NestingOK' /\ program' = program /\ program' \in Programs /\ at' \in Nat \ {0}
<1>1. /\ program' = program /\ phase' = phase /\ at' = at + 1 /\ at \in Nat \ {0} /\ open \in Seq(Nat)
      /\ program[at].op = word /\ phase = "resolving"
  BY DEF Passes, Visiting, Node, ResolverInv, NestingOK
<1> DEFINE a == Opened(program, at - 1)
           b == Closed(program, at - 1)
<1>5. /\ Opened(program, at) = a + 0 /\ Closed(program, at) = b + 0 /\ a \in Nat /\ b \in Nat
  <2>1. /\ Opened(program, at) = a + (IF program[at].op \in Openers THEN 1 ELSE 0)
        /\ Closed(program, at) = b + (IF program[at].op = "end" THEN 1 ELSE 0)
        /\ a \in Nat /\ b \in Nat
    BY <1>1, OpenedNext
  <2> QED BY <1>1, <2>1
<1>6. Len(open) = a - b BY <1>1 DEF ResolverInv, NestingOK
<1> HIDE DEF a, b
<1>7. Len(open') = Opened(program', at' - 1) - Closed(program', at' - 1)
  <2>1. at' - 1 = at BY <1>1
  <2>2. Len(open) = (a + 0) - (b + 0) BY <1>5, <1>6
  <2> QED BY <1>1, <1>5, <2>1, <2>2
<1>8. NestingOK' BY <1>1, <1>7 DEF NestingOK
<1> QED BY <1>1, <1>8 DEF ResolverInv

LEMMA Closing ==
  ASSUME ResolverInv, Visiting("end"), Passes, open' = Tail(open)
  PROVE  /\ NestingOK' /\ program' \in Programs /\ at' \in Nat \ {0} /\ open # <<>>
         /\ Count(Kinds(program', open'), 1) \in Nat
         /\ Count(Kinds(program, open), 1) =
              (IF program[open[1]].op \in HasEnvironment THEN 1 ELSE 0) + Count(Kinds(program', open'), 1)
<1>1. /\ program' = program /\ phase' = phase /\ at' = at + 1 /\ at \in Nat \ {0} /\ open \in Seq(Nat)
      /\ program[at].op = "end" /\ phase = "resolving" /\ program \in Programs /\ at <= Len(program)
  BY DEF Passes, Visiting, Node, ResolverInv, NestingOK
<1>2. Closed(program, at) <= Opened(program, at)
  <2>1. Len(program) \in Nat /\ \A i \in 1 .. Len(program) : Closed(program, i) <= Opened(program, i)
    BY <1>1, ProgramsAssumption
  <2> QED BY <1>1, <2>1
<1>4. "end" \notin Openers BY DEF Openers
<1> DEFINE a == Opened(program, at - 1)
           b == Closed(program, at - 1)
<1>5. /\ Opened(program, at) = a + 0 /\ Closed(program, at) = b + 1 /\ a \in Nat /\ b \in Nat
  <2>1. /\ Opened(program, at) = a + (IF program[at].op \in Openers THEN 1 ELSE 0)
        /\ Closed(program, at) = b + (IF program[at].op = "end" THEN 1 ELSE 0)
        /\ a \in Nat /\ b \in Nat
    BY <1>1, OpenedNext
  <2> QED BY <1>1, <1>4, <2>1
<1>6. Len(open) = a - b BY <1>1 DEF ResolverInv, NestingOK
<1> HIDE DEF a, b
<1>7. open # <<>>
  <2>1. Len(open) >= 1 BY <1>2, <1>5, <1>6
  <2> QED BY <2>1
<1>8. /\ open' \in Seq(Nat) /\ Len(open') = Len(open) - 1
      /\ Count(Kinds(program, open'), 1) \in Nat
      /\ Count(Kinds(program, open), 1) =
           (IF program[open[1]].op \in HasEnvironment THEN 1 ELSE 0) + Count(Kinds(program, open'), 1)
  BY <1>1, <1>7, KindsFirst
<1>9. Len(open') = Opened(program', at' - 1) - Closed(program', at' - 1)
  <2>1. at' - 1 = at BY <1>1
  <2>2. Len(open') = (a + 0) - (b + 1) BY <1>5, <1>6, <1>8
  <2> QED BY <1>1, <1>5, <2>1, <2>2
<1>10. NestingOK' BY <1>8, <1>9 DEF NestingOK
<1> QED BY <1>1, <1>7, <1>8, <1>10

\* Entering names in an environment, and making another one.
WithData(bs, x, d) == [bs EXCEPT ![x].data = d]
Another(o, d) == [outer |-> o, data |-> d]

LEMMA DataWritten ==
  ASSUME NEW D, NEW bs, BlueprintsOK(bs, D), NEW x, NEW d
  PROVE  BlueprintsOK(WithData(bs, x, d), D \cup {d}) /\ Len(WithData(bs, x, d)) = Len(bs)
<1> DEFINE R == [outer : Nat, data : D]
           T == [outer : Nat, data : D \cup {d}]
           n == Len(bs)
           k == [bs EXCEPT ![x].data = d]
<1>1. /\ bs \in Seq(R) /\ n \in Nat /\ DOMAIN bs = 1 .. n /\ bs # <<>>
      /\ \A b \in 1 .. n : bs[b] \in R
  <2>1. bs \in Seq(R) /\ bs # <<>> BY DEF BlueprintsOK
  <2> HIDE DEF R
  <2> QED BY <2>1
<1>2. k = [b \in 1 .. n |-> IF b = x THEN [bs[x] EXCEPT !.data = d] ELSE bs[b]] BY <1>1
<1>3. \A r \in R : r \in T /\ [r EXCEPT !.data = d] \in T /\ [r EXCEPT !.data = d].outer = r.outer
  OBVIOUS
<1>4. \A b \in 1 .. n : bs[b].outer <= n BY DEF BlueprintsOK
<1> HIDE DEF R, T, k
<1>5. \A b \in 1 .. n : k[b] \in T /\ k[b].outer = bs[b].outer BY <1>1, <1>2, <1>3
<1>6. k \in Seq(T) /\ Len(k) = n /\ k # <<>>
  <2>1. n > 0 BY <1>1
  <2>2. k = [b \in 1 .. n |-> k[b]] BY <1>2
  <2> HIDE DEF n
  <2>3. k \in Seq(T) /\ Len(k) = n BY <1>1, <1>5, <2>2
  <2> QED BY <2>1, <2>3
<1>7. \A b \in 1 .. Len(k) : k[b].outer <= Len(k) BY <1>4, <1>5, <1>6
<1>8. WithData(bs, x, d) = k BY DEF WithData, k
<1> QED BY <1>6, <1>7, <1>8 DEF BlueprintsOK, T

LEMMA BlueprintAdded ==
  ASSUME NEW D, NEW bs, BlueprintsOK(bs, D), NEW o \in 1 .. Len(bs), NEW d
  PROVE  /\ BlueprintsOK(Append(bs, Another(o, d)), D \cup {d})
         /\ Len(Append(bs, Another(o, d))) = Len(bs) + 1
<1> DEFINE R == [outer : Nat, data : D]
           T == [outer : Nat, data : D \cup {d}]
           n == Len(bs)
           new == Another(o, d)
           k == Append(bs, new)
<1>1. /\ bs \in Seq(R) /\ n \in Nat /\ \A b \in 1 .. n : bs[b].outer <= n
      /\ \A b \in 1 .. n : bs[b].outer \in Nat
  <2>1. bs \in Seq(R) /\ \A b \in 1 .. n : bs[b].outer <= n BY DEF BlueprintsOK
  <2>2. \A r \in R : r.outer \in Nat OBVIOUS
  <2> HIDE DEF R
  <2>3. n \in Nat /\ \A b \in 1 .. n : bs[b] \in R BY <2>1
  <2> QED BY <2>1, <2>2, <2>3
<1>2. new \in T /\ new.outer = o /\ R \subseteq T BY <1>1 DEF Another
<1> HIDE DEF R, T, new
<1>3. bs \in Seq(T) BY <1>1, <1>2
<1>4. k \in Seq(T) /\ Len(k) = n + 1 /\ k[n + 1] = new /\ k # <<>> /\ \A b \in 1 .. n : k[b] = bs[b]
  BY <1>2, <1>3
<1> HIDE DEF k
<1>5. ASSUME NEW b \in 1 .. Len(k) PROVE k[b].outer <= Len(k)
  <2>1. CASE b = n + 1 BY <1>1, <1>2, <1>4, <2>1
  <2>2. CASE b # n + 1
    <3>1. b \in 1 .. n BY <1>1, <1>4, <2>2
    <3>2. bs[b].outer <= n /\ bs[b].outer \in Nat /\ k[b] = bs[b] BY <1>1, <1>4, <3>1
    <3> QED BY <1>1, <1>4, <3>2
  <2> QED BY <2>1, <2>2
<1> QED BY <1>4, <1>5 DEF BlueprintsOK, T, k, new

LEMMA StackTop ==
  ASSUME ResolverInv
  PROVE  /\ stack \in Seq(1 .. Len(blueprints)) /\ stack # <<>> /\ stack[1] \in 1 .. Len(blueprints)
         /\ Len(blueprints) \in Nat /\ Count(Kinds(program, open), 1) \in Nat
         /\ Len(stack) = 1 + Count(Kinds(program, open), 1)
<1> DEFINE S == 1 .. Len(blueprints)
           c == Count(Kinds(program, open), 1)
<1>1. stack \in Seq(S) /\ Len(stack) = 1 + c /\ open \in Seq(Nat) BY DEF ResolverInv, StackOK, NestingOK
<1>2. Kinds(program, open) \in Seq({0, 1}) BY <1>1 DEF Kinds
<1>3. c \in Nat BY <1>2, CountType
<1>4. Len(blueprints) \in Nat
  <2>1. PICK D : BlueprintsOK(blueprints, D) BY DEF ResolverInv
  <2> DEFINE R == [outer : Nat, data : D]
  <2>2. blueprints \in Seq(R) BY <2>1 DEF BlueprintsOK
  <2> HIDE DEF R
  <2> QED BY <2>2
<1> HIDE DEF S, c
<1>5. stack # <<>> /\ stack[1] \in S BY <1>1, <1>3
<1> QED BY <1>1, <1>3, <1>4, <1>5 DEF S, c

LEMMA StackPushed ==
  ASSUME NEW n \in Nat, NEW st \in Seq(1 .. n)
  PROVE  <<n + 1>> \o st \in Seq(1 .. n + 1) /\ Len(<<n + 1>> \o st) = Len(st) + 1
<1> DEFINE S == 1 .. n + 1
<1>1. 1 .. n \subseteq S /\ n + 1 \in S OBVIOUS
<1>2. st \in Seq(S) BY <1>1
<1> HIDE DEF S
<1>3. <<n + 1>> \o st \in Seq(S) /\ Len(<<n + 1>> \o st) = Len(st) + 1 BY <1>1, <1>2
<1> QED BY <1>3 DEF S

\* What a step makes of the environments of the compiler.
Grown(bs) == \E D : BlueprintsOK(bs, D)

LEMMA SameKept ==
  ASSUME ResolverInv, UNCHANGED <<open, stack, program, at>>, Grown(blueprints'), Len(blueprints') = Len(blueprints),
         functions' = functions, phase' # "resolving"
  PROVE  ResolverInv'
<1>1. StackOK' BY DEF ResolverInv, StackOK
<1>2. NestingOK' BY DEF ResolverInv, NestingOK
<1> QED BY <1>1, <1>2 DEF ResolverInv, Grown

\* A node that neither opens nor closes anything.
LEMMA PlainKept ==
  ASSUME ResolverInv, NEW word, word \notin Openers, word # "end", Visiting(word), Passes, open' = open,
         stack' = stack, Grown(blueprints'), Len(blueprints') = Len(blueprints), functions' = functions
  PROVE  ResolverInv'
<1>1. NestingOK' /\ program' = program /\ program' \in Programs /\ at' \in Nat \ {0} BY Staying
<1>2. StackOK' BY <1>1 DEF ResolverInv, StackOK
<1> QED BY <1>1, <1>2 DEF ResolverInv, Grown

\* One that opens a scope.
LEMMA ScopeKept ==
  ASSUME ResolverInv, NEW word \in Openers \ HasEnvironment, Visiting(word), Passes, open' = <<at>> \o open,
         stack' = stack, Grown(blueprints'), Len(blueprints') = Len(blueprints), functions' = functions
  PROVE  ResolverInv'
<1>1. /\ NestingOK' /\ program' \in Programs /\ at' \in Nat \ {0}
      /\ Count(Kinds(program, open), 1) \in Nat
      /\ Count(Kinds(program', open'), 1) =
           (IF word \in HasEnvironment THEN 1 ELSE 0) + Count(Kinds(program, open), 1)
  BY Opening
<1>2. Count(Kinds(program', open'), 1) = Count(Kinds(program, open), 1) BY <1>1
<1>3. StackOK' BY <1>2 DEF ResolverInv, StackOK
<1> QED BY <1>1, <1>3 DEF ResolverInv, Grown

\* One that makes an environment.
LEMMA EnvironmentKept ==
  ASSUME ResolverInv, NEW word \in HasEnvironment, Visiting(word), Passes, open' = <<at>> \o open,
         Grown(blueprints'), Len(blueprints') = Len(blueprints) + 1,
         stack' = <<Len(blueprints) + 1>> \o stack,
         \A f \in functions' : f \in functions \/ f.env = Len(blueprints) + 1
  PROVE  ResolverInv'
<1>0. word \in Openers BY DEF HasEnvironment, Openers
<1>1. /\ NestingOK' /\ program' \in Programs /\ at' \in Nat \ {0}
      /\ Count(Kinds(program, open), 1) \in Nat
      /\ Count(Kinds(program', open'), 1) =
           (IF word \in HasEnvironment THEN 1 ELSE 0) + Count(Kinds(program, open), 1)
  BY <1>0, Opening
<1>2. /\ stack \in Seq(1 .. Len(blueprints)) /\ Len(blueprints) \in Nat /\ stack[1] \in 1 .. Len(blueprints)
      /\ Len(stack) = 1 + Count(Kinds(program, open), 1)
  BY StackTop
<1>3. stack' \in Seq(1 .. Len(blueprints')) /\ Len(stack') = Len(stack) + 1 BY <1>2, StackPushed
<1>4. Len(stack') = 1 + Count(Kinds(program', open'), 1) BY <1>1, <1>2, <1>3
<1>5. StackOK' BY <1>3, <1>4 DEF StackOK
<1>6. \A f \in functions' : f.env \in 2 .. Len(blueprints') BY <1>2 DEF ResolverInv
<1> QED BY <1>1, <1>5, <1>6 DEF ResolverInv, Grown

LEMMA VisitKeeps ==
  ASSUME ResolverInv, Visit
  PROVE  ResolverInv'
<1> DEFINE n == Len(blueprints)
<1>0. PICK D : BlueprintsOK(blueprints, D) BY DEF ResolverInv
<1>1. Grown(blueprints) BY <1>0 DEF Grown
<1>2. stack[1] \in 1 .. n /\ n \in Nat BY StackTop
<1>3. ASSUME Fails PROVE ResolverInv'
  <2>1. UNCHANGED <<open, stack, program, at, blueprints, functions>> /\ phase' = "failed" BY <1>3 DEF Fails
  <2>2. Grown(blueprints') /\ Len(blueprints') = Len(blueprints) BY <1>1, <2>1
  <2> QED BY <2>1, <2>2, SameKept
<1>4. ASSUME NEW x, NEW d
      PROVE  Grown(WithData(blueprints, x, d)) /\ Len(WithData(blueprints, x, d)) = n
  <2>1. BlueprintsOK(WithData(blueprints, x, d), D \cup {d}) /\ Len(WithData(blueprints, x, d)) = n
    BY <1>0, DataWritten
  <2> QED BY <2>1 DEF Grown
<1>5. ASSUME NEW x, NEW d, NEW c
      PROVE  /\ Grown(Append(WithData(blueprints, x, d), Another(stack[1], c)))
             /\ Len(Append(WithData(blueprints, x, d), Another(stack[1], c))) = n + 1
  <2> DEFINE j == WithData(blueprints, x, d)
             k == Append(j, Another(stack[1], c))
  <2>1. BlueprintsOK(j, D \cup {d}) /\ Len(j) = n BY <1>0, DataWritten
  <2> HIDE DEF j
  <2>2. BlueprintsOK(k, D \cup {d} \cup {c}) /\ Len(k) = Len(j) + 1 BY <1>2, <2>1, BlueprintAdded
  <2>3. Grown(k) /\ Len(k) = n + 1 BY <2>1, <2>2 DEF Grown
  <2> QED BY <2>3 DEF j, k
<1>6. CASE EnterBlock
  <2>1. /\ Visiting("block") /\ Passes /\ open' = <<at>> \o open
        /\ blueprints' = blueprints /\ stack' = stack /\ functions' = functions
    BY <1>6 DEF EnterBlock
  <2>2. "block" \in Openers \ HasEnvironment BY DEF Openers, HasEnvironment
  <2> QED BY <1>1, <2>1, <2>2, ScopeKept
<1>7. CASE EnterCatch \/ EnterForEach
  <2>1. /\ Visiting("catch") \/ Visiting("foreach")
        /\ Passes /\ open' = <<at>> \o open /\ stack' = stack /\ functions' = functions
        /\ \E x, d : blueprints' = WithData(blueprints, x, d)
    BY <1>7, Zenon DEF EnterCatch, EnterForEach, WithData
  <2>2. Grown(blueprints') /\ Len(blueprints') = n BY <1>4, <2>1
  <2>3. "catch" \in Openers \ HasEnvironment /\ "foreach" \in Openers \ HasEnvironment
    BY DEF Openers, HasEnvironment
  <2> QED BY <2>1, <2>2, <2>3, ScopeKept
<1>8. CASE Declare
  <2>1. Visiting("var") BY <1>8 DEF Declare
  <2>2. CASE ~Fails
    <3>1. PushValues(here, <<Node.name>>) /\ Passes /\ open' = open /\ stack' = stack /\ functions' = functions
      BY <1>8, <2>2 DEF Declare
    <3>2. \E x, d : blueprints' = WithData(blueprints, x, d) BY <3>1, Zenon DEF PushValues, WithData
    <3>3. Grown(blueprints') /\ Len(blueprints') = n BY <1>4, <3>2
    <3>4. "var" \notin Openers BY DEF Openers
    <3> QED BY <2>1, <3>1, <3>3, <3>4, PlainKept
  <2> QED BY <1>3, <2>2
<1>9. CASE EnterFunction
  <2> DEFINE isMember == klass # 0 /\ ~Node.anonymous
  <2>1. Visiting("function") /\ Function(isMember) BY <1>9 DEF EnterFunction
  <2> HIDE DEF isMember
  <2>2. CASE ~Fails
    <3>1. Passes /\ open' = <<at>> \o open /\ stack' = <<n + 1>> \o stack
      BY <2>1, <2>2, Zenon DEF Function
    <3>4. \E x, d, c : blueprints' = Append(WithData(blueprints, x, d), Another(stack[1], c))
      BY <2>1, <2>2, Zenon DEF Function, WithData, Another
    <3>5. PICK p, a, k, w : functions' = functions \cup {[env |-> n + 1, parent |-> p, name |-> a, class |-> k, kind |-> w]}
      <4> DEFINE a == IF Node.anonymous THEN Anonymous(at) ELSE Node.name
                 k == IF isMember THEN klass ELSE 0
                 w == IF Node.anonymous THEN "anonymous" ELSE IF isMember /\ Node.static THEN "static" ELSE "function"
      <4>1. functions' = functions \cup {[env |-> n + 1, parent |-> stack[1], name |-> a, class |-> k, kind |-> w]}
        BY <2>1, <2>2, Zenon DEF Function
      <4> QED BY <4>1, Zenon
    <3>6. \A f \in functions' : f \in functions \/ f.env = n + 1 BY <3>5
    <3>2. Grown(blueprints') /\ Len(blueprints') = n + 1 BY <1>5, <3>4
    <3>3. "function" \in HasEnvironment BY DEF HasEnvironment
    <3> QED BY <2>1, <3>1, <3>2, <3>3, <3>6, EnvironmentKept
  <2> QED BY <1>3, <2>2
<1>10. CASE EnterClass
  <2>1. Visiting("class") /\ Passes /\ open' = <<at>> \o open /\ stack' = <<n + 1>> \o stack
    BY <1>10, Zenon DEF EnterClass
  <2>4. \E x, d, c : blueprints' = Append(WithData(blueprints, x, d), Another(stack[1], c))
    BY <1>10, Zenon DEF EnterClass, WithData, Another
  <2>5. PICK p, a, k, w : functions' = functions \cup {[env |-> n + 1, parent |-> p, name |-> a, class |-> k, kind |-> w]}
    BY <1>10, Zenon DEF EnterClass
  <2>6. \A f \in functions' : f \in functions \/ f.env = n + 1 BY <2>5
  <2>2. Grown(blueprints') /\ Len(blueprints') = n + 1 BY <1>5, <2>4
  <2>3. "class" \in HasEnvironment BY DEF HasEnvironment
  <2> QED BY <2>1, <2>2, <2>3, <2>6, EnvironmentKept
<1>11. CASE Attribute
  <2>1. Visiting("attribute") /\ blueprints' = blueprints /\ open' = open /\ stack' = stack /\ functions' = functions
    BY <1>11 DEF Attribute, Fails
  <2>2. CASE Passes
    <3>1. "attribute" \notin Openers BY DEF Openers
    <3> QED BY <1>1, <2>1, <2>2, <3>1, PlainKept
  <2>3. CASE ~Passes
    <3>1. UNCHANGED <<program, at>> /\ phase' \in {"crashed", "failed"} BY <1>11, <2>3 DEF Attribute, Fails
    <3> QED BY <1>1, <2>1, <3>1, SameKept
  <2> QED BY <2>2, <2>3
<1>12. CASE Close
  <2>1. /\ Visiting("end") /\ Passes /\ open' = Tail(open) /\ blueprints' = blueprints /\ functions' = functions
        /\ stack' = IF program[open[1]].op \in HasEnvironment THEN Tail(stack) ELSE stack
    BY <1>12 DEF Close, HasEnvironment
  <2>2. /\ NestingOK' /\ program' \in Programs /\ at' \in Nat \ {0} /\ open # <<>>
        /\ Count(Kinds(program', open'), 1) \in Nat
        /\ Count(Kinds(program, open), 1) =
             (IF program[open[1]].op \in HasEnvironment THEN 1 ELSE 0) + Count(Kinds(program', open'), 1)
    BY <2>1, Closing
  <2> DEFINE S == 1 .. n
             c == Count(Kinds(program, open), 1)
             d == Count(Kinds(program', open'), 1)
  <2>3. stack \in Seq(S) /\ stack # <<>> /\ Len(stack) = 1 + c BY StackTop
  <2>4. d \in Nat /\ c = (IF program[open[1]].op \in HasEnvironment THEN 1 ELSE 0) + d BY <2>2
  <2> HIDE DEF S, c, d
  <2>5. stack' \in Seq(S) /\ Len(stack') = 1 + d BY <2>1, <2>3, <2>4
  <2>6. StackOK' BY <2>1, <2>5 DEF StackOK, S, d
  <2> QED BY <1>1, <2>1, <2>2, <2>6 DEF ResolverInv, Grown
<1>13. CASE Use
  <2>1. Visiting("use") BY <1>13 DEF Use
  <2>2. CASE ~Fails
    <3>1. Passes /\ UNCHANGED <<open, stack, functions, blueprints>> BY <1>13, <2>2 DEF Use
    <3>2. "use" \notin Openers BY DEF Openers
    <3> QED BY <1>1, <2>1, <3>1, <3>2, PlainKept
  <2> QED BY <1>3, <2>2
<1>14. CASE Import
  <2>1. Visiting("import") /\ Passes /\ UNCHANGED <<open, stack, functions>> BY <1>14 DEF Import
  <2>2. \E x, d : blueprints' = WithData(blueprints, x, d) BY <1>14, Zenon DEF Import, PushValues, WithData
  <2>3. Grown(blueprints') /\ Len(blueprints') = n BY <1>4, <2>2
  <2>4. "import" \notin Openers BY DEF Openers
  <2> QED BY <2>1, <2>3, <2>4, PlainKept
<1> QED BY <1>6, <1>7, <1>8, <1>9, <1>10, <1>11, <1>12, <1>13, <1>14 DEF Visit

LEMMA VisitPhase ==
  ASSUME Visit
  PROVE  phase = "resolving" /\ phase' # "running"
<1>1. ASSUME NEW word, Visiting(word) PROVE phase = "resolving" BY <1>1 DEF Visiting
<1>2. ASSUME Passes PROVE phase' = phase BY <1>2 DEF Passes
<1>3. ASSUME Fails PROVE phase' = "failed" BY <1>3 DEF Fails
<1>4. ASSUME NEW m, Function(m) PROVE Fails \/ Passes BY <1>4 DEF Function
<1> QED BY <1>1, <1>2, <1>3, <1>4
  DEF Visit, EnterBlock, EnterCatch, EnterForEach, Declare, EnterFunction, EnterClass, Attribute, Close, Use, Import

-------------------------------------------------------------------------------
(* The machine.  nb environments are the compiler's. *)
Held(nb, fr, st, x) == (IF x <= nb THEN 1 ELSE 0) + InFrames(fr, x) + InStore(st, x)
Holds(nb, n, fr, st) == [x \in 1 .. n |-> Held(nb, fr, st, x)]

FramesOK(nb, n, fr) ==
  /\ fr \in FramesType
  /\ \A i \in 1 .. Len(fr) : fr[i].env \in 1 .. n /\ IF i = Len(fr) THEN fr[i].env = 1 ELSE fr[i].env > nb

IsValue(v, n) ==
  \E d, e, m, s, l : v = [decl |-> d, env |-> e, maker |-> m, sound |-> s, level |-> l] /\ e \in 1 .. n

ValuesOK(vs, n) == \A v \in vs : IsValue(v, n)

RunOK(nb, es, fr, st, vs) ==
  /\ \E A : EnvsOK(es, A)
  /\ nb \in Nat \ {0} /\ nb <= Len(es)
  /\ FramesOK(nb, Len(es), fr)
  /\ st \in Seq(Seq(1 .. Len(es)))
  /\ ValuesOK(vs, Len(es))
  /\ Owing(es, Holds(nb, Len(es), fr, st), <<>>)

LEMMA HeldType ==
  ASSUME NEW nb \in Nat, NEW S, NEW fr \in FramesType, NEW st \in Seq(Seq(S)), NEW x \in Nat
  PROVE  /\ Held(nb, fr, st, x) \in Nat /\ InFrames(fr, x) \in Nat /\ InStore(st, x) \in Nat
         /\ x <= nb => Held(nb, fr, st, x) >= 1
<1> DEFINE a == InFrames(fr, x)
           b == InStore(st, x)
<1>1. a \in Nat /\ b \in Nat BY InFramesCount, StoreType
<1> HIDE DEF a, b
<1>2. Held(nb, fr, st, x) = (IF x <= nb THEN 1 ELSE 0) + a + b BY DEF Held, a, b
<1> QED BY <1>1, <1>2 DEF a, b

LEMMA RunFacts ==
  ASSUME NEW nb, NEW es, NEW fr, NEW st, NEW vs, RunOK(nb, es, fr, st, vs)
  PROVE  /\ Len(es) \in Nat /\ DOMAIN es = 1 .. Len(es)
         /\ \A e \in 1 .. Len(es) : es[e].refs \in Nat /\ es[e].outer \in 0 .. Len(es)
         /\ \A x \in 1 .. Len(es) : /\ Holds(nb, Len(es), fr, st)[x] = Held(nb, fr, st, x)
                                    /\ Held(nb, fr, st, x) \in Nat
<1>1. PICK A : EnvsOK(es, A) BY DEF RunOK
<1>2. /\ Len(es) \in Nat /\ DOMAIN es = 1 .. Len(es)
      /\ \A e \in 1 .. Len(es) : es[e].refs \in Nat /\ es[e].outer \in 0 .. Len(es)
  BY <1>1, EnvsFacts
<1>3. nb \in Nat /\ fr \in FramesType /\ st \in Seq(Seq(1 .. Len(es))) BY DEF RunOK, FramesOK
<1>4. ASSUME NEW x \in 1 .. Len(es) PROVE Held(nb, fr, st, x) \in Nat
  <2>1. x \in Nat BY <1>2
  <2> QED BY <1>3, <2>1, HeldType
<1>5. \A x \in 1 .. Len(es) : Holds(nb, Len(es), fr, st)[x] = Held(nb, fr, st, x) BY DEF Holds
<1> QED BY <1>2, <1>4, <1>5

\* A reference is no longer held, but to be given up.
LEMMA OwingMoved ==
  ASSUME NEW es, NEW d1, NEW d2,
         NEW hold, NEW more, \A x \in 1 .. Len(es) : hold[x] \in Nat /\ more[x] \in Nat,
         \A x \in 1 .. Len(es) : Count(d1, x) \in Nat /\ Count(d2, x) \in Nat,
         \A x \in 1 .. Len(es) : hold[x] + Count(d1, x) = more[x] + Count(d2, x),
         \A x \in 1 .. Len(es) : Cardinality(Children(es, x)) \in Nat,
         Owing(es, hold, d1)
  PROVE  Owing(es, more, d2)
<1> SUFFICES ASSUME NEW x \in 1 .. Len(es)
             PROVE  es[x].refs = more[x] + Cardinality(Children(es, x)) + Count(d2, x)
  BY DEF Owing
<1> DEFINE c == Cardinality(Children(es, x))
           h == hold[x]
           m == more[x]
           a == Count(d1, x)
           b == Count(d2, x)
<1>1. es[x].refs = h + c + a /\ h + a = m + b BY DEF Owing
<1>2. h \in Nat /\ m \in Nat /\ a \in Nat /\ b \in Nat /\ c \in Nat OBVIOUS
<1> HIDE DEF c, h, m, a, b
<1>3. es[x].refs = m + c + b BY <1>1, <1>2
<1> QED BY <1>3 DEF m, c, b

LEMMA RunCounts ==
  ASSUME NEW nb, NEW es, NEW fr, NEW st, NEW vs, RunOK(nb, es, fr, st, vs)
  PROVE  \A x \in 1 .. Len(es) : /\ es[x].refs = Held(nb, fr, st, x) + Cardinality(Children(es, x))
                                 /\ Cardinality(Children(es, x)) \in Nat
                                 /\ Held(nb, fr, st, x) \in Nat
<1>1. PICK A : EnvsOK(es, A) BY DEF RunOK
<1> SUFFICES ASSUME NEW x \in 1 .. Len(es)
             PROVE  /\ es[x].refs = Held(nb, fr, st, x) + Cardinality(Children(es, x))
                    /\ Cardinality(Children(es, x)) \in Nat
                    /\ Held(nb, fr, st, x) \in Nat
  OBVIOUS
<1> DEFINE c == Cardinality(Children(es, x))
           h == Held(nb, fr, st, x)
<1>2. c \in Nat BY <1>1, ChildrenFinite
<1>3. Holds(nb, Len(es), fr, st)[x] = h /\ h \in Nat BY RunFacts
<1>4. es[x].refs = Holds(nb, Len(es), fr, st)[x] + c + Count(<<>>, x) BY DEF RunOK, Owing
<1>5. Count(<<>>, x) = 0 BY CountEmpty
<1> HIDE DEF c, h
<1>6. es[x].refs = h + c BY <1>2, <1>3, <1>4, <1>5
<1> QED BY <1>2, <1>3, <1>6 DEF c, h

LEMMA NotHeld ==
  ASSUME NEW nb \in Nat, NEW n \in Nat, nb <= n, NEW fr, FramesOK(nb, n, fr),
         NEW st \in Seq(Seq(1 .. n))
  PROVE  InFrames(fr, n + 1) = 0 /\ InStore(st, n + 1) = 0
<1>1. InFrames(fr, n + 1) = 0
  <2>1. fr \in FramesType /\ \A i \in 1 .. Len(fr) : fr[i].env \in 1 .. n BY DEF FramesOK
  <2>2. DOMAIN fr = 1 .. Len(fr) BY <2>1 DEF FramesType
  <2>3. {i \in DOMAIN fr : fr[i].env = n + 1 /\ n + 1 # 1} = {} BY <2>1, <2>2
  <2> QED BY <2>3, FS_EmptySet DEF InFrames
<1>2. InStore(st, n + 1) = 0
  <2> DEFINE s == FlattenSeq(st)
             S == 1 .. n
  <2>1. s \in Seq(S) BY FlattenType
  <2>2. n + 1 \notin S OBVIOUS
  <2> HIDE DEF s, S
  <2>3. {i \in 1 .. Len(s) : s[i] = n + 1} = {} BY <2>1, <2>2
  <2> QED BY <2>3, FS_EmptySet DEF InStore, Count, s
<1> QED BY <1>1, <1>2

LEMMA ValuesGrow ==
  ASSUME NEW n \in Nat, NEW m \in Nat, n <= m, NEW vs, ValuesOK(vs, n)
  PROVE  ValuesOK(vs, m)
<1> SUFFICES ASSUME NEW v \in vs PROVE IsValue(v, m)
  BY DEF ValuesOK
<1>1. PICK d, e, k, s, l : v = [decl |-> d, env |-> e, maker |-> k, sound |-> s, level |-> l] /\ e \in 1 .. n
  BY DEF ValuesOK, IsValue
<1>2. e \in 1 .. m BY <1>1
<1> QED BY <1>1, <1>2, Zenon DEF IsValue

LEMMA Grew ==
  ASSUME NEW nb, NEW es, NEW fr, NEW st, NEW vs, RunOK(nb, es, fr, st, vs),
         NEW e \in 1 .. Len(es), es[e].refs # 0,
         NEW outer \in 0 .. Len(es), outer # 0 => es[outer].refs # 0, NEW maker, NEW sound,
         NEW gr, FramesOK(nb, Len(es) + 1, gr), NEW tt, tt \in Seq(Seq(1 .. Len(es) + 1)),
         Held(nb, gr, tt, Len(es) + 1) = 1,
         \A x \in 1 .. Len(es) : Held(nb, gr, tt, x) = Held(nb, fr, st, x)
  PROVE  /\ RunOK(nb, Activate(es, e, outer, maker, sound), gr, tt, vs)
         /\ Len(Activate(es, e, outer, maker, sound)) = Len(es) + 1
<1> DEFINE n == Len(es)
           k == Activate(es, e, outer, maker, sound)
           hold == Holds(nb, n, fr, st)
           more == Holds(nb, n + 1, gr, tt)
<1>1. PICK A : EnvsOK(es, A) BY DEF RunOK
<1>2. /\ n \in Nat /\ \A x \in 1 .. n : es[x].refs \in Nat
      /\ \A x \in 1 .. n : hold[x] = Held(nb, fr, st, x) /\ Held(nb, fr, st, x) \in Nat
  BY RunFacts
<1>3. Owing(es, hold, <<>>) /\ nb \in Nat \ {0} /\ nb <= n /\ ValuesOK(vs, n) BY DEF RunOK
<1>4. more[n + 1] = 1 /\ \A x \in 1 .. n : more[x] = hold[x]
  <2>1. \A x \in 1 .. n + 1 : more[x] = Held(nb, gr, tt, x) BY DEF Holds
  <2>2. n + 1 \in 1 .. n + 1 /\ \A x \in 1 .. n : x \in 1 .. n + 1 BY <1>2
  <2> QED BY <1>2, <2>1, <2>2
<1>5. es[e].refs > 0 /\ (outer # 0 => es[outer].refs > 0) BY <1>2
<1>6. \A x \in 1 .. n : hold[x] \in Nat BY <1>2
<1> HIDE DEF hold, more
<1>7. \E B, up : EnvsOK(k, B) /\ Made(es, k, up) /\ Owing(k, more, <<>>)
  BY <1>1, <1>3, <1>4, <1>5, <1>6, ActivateKeeps
<1>8. Len(k) = n + 1 BY <1>7 DEF Made
<1>9. ValuesOK(vs, n + 1) BY <1>2, <1>3, ValuesGrow
<1>10. \E B : EnvsOK(k, B) BY <1>7
<1>11. Owing(k, more, <<>>) BY <1>7
<1> HIDE DEF k
<1>12. nb <= Len(k) BY <1>2, <1>3, <1>8
<1>13. RunOK(nb, k, gr, tt, vs) BY <1>3, <1>8, <1>9, <1>10, <1>11, <1>12 DEF RunOK, more
<1> QED BY <1>8, <1>13 DEF k

\* A call: the new environment is the one of the new frame.
LEMMA CallKeeps ==
  ASSUME NEW nb, NEW es, NEW fr, NEW st, NEW vs, RunOK(nb, es, fr, st, vs), fr # <<>>,
         NEW e \in 1 .. Len(es), es[e].refs # 0,
         NEW outer \in 0 .. Len(es), outer # 0 => es[outer].refs # 0, NEW maker, NEW sound,
         NEW callback \in BOOLEAN
  PROVE  RunOK(nb, Activate(es, e, outer, maker, sound),
               <<[env |-> Len(es) + 1, callback |-> callback]>> \o fr, st, vs)
<1> DEFINE n == Len(es)
           f == [env |-> n + 1, callback |-> callback]
           gr == <<f>> \o fr
<1>1. /\ nb \in Nat \ {0} /\ nb <= n /\ n \in Nat /\ FramesOK(nb, n, fr) /\ st \in Seq(Seq(1 .. n))
      /\ \A x \in 1 .. n : Held(nb, fr, st, x) \in Nat
  BY RunFacts DEF RunOK
<1>2. fr \in FramesType /\ Len(fr) \in Nat /\ Len(fr) > 0
  <2>1. fr \in FramesType BY <1>1 DEF FramesOK
  <2> DEFINE F == [env : Nat, callback : BOOLEAN]
  <2>2. fr \in Seq(F) BY <2>1 DEF FramesType
  <2> HIDE DEF F
  <2> QED BY <2>1, <2>2
<1>3. f \in [env : Nat, callback : BOOLEAN] /\ f.env = n + 1 BY <1>1
<1> HIDE DEF f
<1>4. /\ gr \in FramesType /\ Len(gr) = Len(fr) + 1 /\ gr[1] = f
      /\ \A i \in 1 .. Len(fr) : gr[i + 1] = fr[i]
      /\ \A x : InFrames(gr, x) = (IF f.env = x /\ x # 1 THEN 1 ELSE 0) + InFrames(fr, x)
  <2>1. f \in [env : Nat, callback : BOOLEAN] /\ fr \in FramesType BY <1>2, <1>3
  <2>2. ASSUME NEW x
        PROVE  /\ gr \in FramesType /\ Len(gr) = Len(fr) + 1 /\ gr[1] = f
               /\ \A i \in 1 .. Len(fr) : gr[i + 1] = fr[i]
               /\ InFrames(gr, x) = (IF f.env = x /\ x # 1 THEN 1 ELSE 0) + InFrames(fr, x)
    BY ONLY <2>1, FramePushed
  <2> HIDE DEF gr
  <2> QED BY ONLY <2>2
<1> HIDE DEF gr
<1>5. FramesOK(nb, n + 1, gr)
  <2> SUFFICES ASSUME NEW i \in 1 .. Len(gr)
               PROVE  /\ gr[i].env \in 1 .. n + 1
                      /\ IF i = Len(gr) THEN gr[i].env = 1 ELSE gr[i].env > nb
    BY <1>4 DEF FramesOK
  <2>1. CASE i = 1
    <3>1. gr[i].env = n + 1 /\ i # Len(gr) BY <1>2, <1>3, <1>4, <2>1
    <3> QED BY <1>1, <3>1
  <2>2. CASE i # 1
    <3> DEFINE j == i - 1
    <3>1. j \in 1 .. Len(fr) /\ i = j + 1 /\ (i = Len(gr) <=> j = Len(fr)) BY <1>2, <1>4, <2>2
    <3>2. gr[i] = fr[j] BY <1>4, <3>1
    <3>3. fr[j].env \in 1 .. n /\ IF j = Len(fr) THEN fr[j].env = 1 ELSE fr[j].env > nb
      BY <1>1, <3>1 DEF FramesOK
    <3> HIDE DEF j
    <3> QED BY <1>1, <3>1, <3>2, <3>3
  <2> QED BY <2>1, <2>2
<1>6. st \in Seq(Seq(1 .. n + 1))
  <2>1. 1 .. n \subseteq 1 .. n + 1 BY <1>1
  <2> DEFINE S == 1 .. n
             T == 1 .. n + 1
  <2>2. S \subseteq T /\ st \in Seq(Seq(S)) BY <1>1, <2>1
  <2> HIDE DEF S, T
  <2>3. Seq(S) \subseteq Seq(T) BY <2>2
  <2>4. st \in Seq(Seq(T)) BY <2>2, <2>3
  <2> QED BY <2>4 DEF T
<1>7. ASSUME NEW x \in 1 .. n + 1
      PROVE  Held(nb, gr, st, x) = Held(nb, fr, st, x) + (IF x = n + 1 THEN 1 ELSE 0)
  <2> DEFINE a == InFrames(fr, x)
             b == InStore(st, x)
             c == IF x <= nb THEN 1 ELSE 0
             d == IF x = n + 1 THEN 1 ELSE 0
  <2>1. x \in Nat /\ a \in Nat /\ b \in Nat /\ c \in Nat /\ d \in Nat
    <3>1. a \in Nat BY <1>2, InFramesCount
    <3>2. b \in Nat BY <1>1, StoreType
    <3> QED BY <1>1, <3>1, <3>2
  <2>2. InFrames(gr, x) = d + a
    <3>1. (IF f.env = x /\ x # 1 THEN 1 ELSE 0) = d BY <1>1, <1>3
    <3> QED BY <1>4, <3>1
  <2>3. Held(nb, gr, st, x) = c + (d + a) + b /\ Held(nb, fr, st, x) = c + a + b BY <2>2 DEF Held
  <2> HIDE DEF a, b, c, d
  <2>4. Held(nb, gr, st, x) = Held(nb, fr, st, x) + d BY <2>1, <2>3
  <2> QED BY <2>4 DEF d
<1>8. Held(nb, fr, st, n + 1) = 0
  <2>1. InFrames(fr, n + 1) = 0 /\ InStore(st, n + 1) = 0 BY <1>1, NotHeld
  <2> QED BY <1>1, <2>1 DEF Held
<1>9. Held(nb, gr, st, n + 1) = 1
  <2>1. n + 1 \in 1 .. n + 1 BY <1>1
  <2> QED BY <1>7, <1>8, <2>1
<1>10. \A x \in 1 .. n : Held(nb, gr, st, x) = Held(nb, fr, st, x)
  <2> SUFFICES ASSUME NEW x \in 1 .. n PROVE Held(nb, gr, st, x) = Held(nb, fr, st, x)
    OBVIOUS
  <2>1. x \in 1 .. n + 1 /\ x # n + 1 BY <1>1
  <2> QED BY <1>1, <1>7, <2>1
<1>11. RunOK(nb, Activate(es, e, outer, maker, sound), gr, st, vs) BY <1>5, <1>6, <1>9, <1>10, Grew
<1> QED BY <1>11 DEF gr, f

\* An environment kept until the run ends.
LEMMA StoreKeeps ==
  ASSUME NEW nb, NEW es, NEW fr, NEW vs, RunOK(nb, es, fr, store, vs),
         NEW e \in 1 .. Len(es), es[e].refs # 0,
         NEW outer \in 0 .. Len(es), outer # 0 => es[outer].refs # 0, NEW maker, NEW sound
  PROVE  /\ RunOK(nb, Activate(es, e, outer, maker, sound), fr, Stored(Len(es) + 1), vs)
         /\ Len(Activate(es, e, outer, maker, sound)) = Len(es) + 1
<1> DEFINE n == Len(es)
           S == 1 .. n + 1
           tt == Stored(n + 1)
<1>1. /\ nb \in Nat \ {0} /\ nb <= n /\ n \in Nat /\ FramesOK(nb, n, fr) /\ store \in Seq(Seq(1 .. n))
      /\ \A x \in 1 .. n : Held(nb, fr, store, x) \in Nat
  BY RunFacts DEF RunOK
<1>2. fr \in FramesType BY <1>1 DEF FramesOK
<1>3. FramesOK(nb, n + 1, fr) BY <1>1 DEF FramesOK
<1>4. store \in Seq(Seq(S)) /\ n + 1 \in S
  <2>1. n + 1 \in S BY <1>1
  <2> DEFINE R == 1 .. n
  <2>2. R \subseteq S /\ store \in Seq(Seq(R)) BY <1>1
  <2> HIDE DEF R, S
  <2>3. Seq(R) \subseteq Seq(S) BY <2>2
  <2> QED BY <2>1, <2>2, <2>3
<1>5. ASSUME NEW x
      PROVE  /\ tt \in Seq(Seq(S)) /\ InStore(tt, x) = InStore(store, x) + (IF n + 1 = x THEN 1 ELSE 0)
  <2> HIDE DEF S
  <2> QED BY <1>4, StoredCount
<1>6. tt \in Seq(Seq(S)) BY <1>5
<1> HIDE DEF tt
<1>7. ASSUME NEW x \in 1 .. n + 1
      PROVE  Held(nb, fr, tt, x) = Held(nb, fr, store, x) + (IF x = n + 1 THEN 1 ELSE 0)
  <2> DEFINE a == InFrames(fr, x)
             b == InStore(store, x)
             c == IF x <= nb THEN 1 ELSE 0
             d == IF x = n + 1 THEN 1 ELSE 0
  <2>1. x \in Nat /\ a \in Nat /\ b \in Nat /\ c \in Nat /\ d \in Nat
    <3>1. a \in Nat BY <1>2, InFramesCount
    <3>2. b \in Nat BY <1>1, StoreType
    <3> QED BY <1>1, <3>1, <3>2
  <2>2. InStore(tt, x) = b + d BY <1>5
  <2>3. Held(nb, fr, tt, x) = c + a + (b + d) /\ Held(nb, fr, store, x) = c + a + b BY <2>2 DEF Held
  <2> HIDE DEF a, b, c, d
  <2>4. Held(nb, fr, tt, x) = Held(nb, fr, store, x) + d BY <2>1, <2>3
  <2> QED BY <2>4 DEF d
<1>8. Held(nb, fr, store, n + 1) = 0
  <2>1. InFrames(fr, n + 1) = 0 /\ InStore(store, n + 1) = 0 BY <1>1, NotHeld
  <2> QED BY <1>1, <2>1 DEF Held
<1>9. Held(nb, fr, tt, n + 1) = 1
  <2>1. n + 1 \in 1 .. n + 1 BY <1>1
  <2> QED BY <1>7, <1>8, <2>1
<1>10. \A x \in 1 .. n : Held(nb, fr, tt, x) = Held(nb, fr, store, x)
  <2> SUFFICES ASSUME NEW x \in 1 .. n PROVE Held(nb, fr, tt, x) = Held(nb, fr, store, x)
    OBVIOUS
  <2>1. x \in 1 .. n + 1 /\ x # n + 1 BY <1>1
  <2> QED BY <1>1, <1>7, <2>1
<1>11. RunOK(nb, Activate(es, e, outer, maker, sound), fr, tt, vs) BY <1>3, <1>6, <1>9, <1>10, Grew
<1>12. Len(Activate(es, e, outer, maker, sound)) = n + 1 BY <1>3, <1>6, <1>9, <1>10, <1>11, Grew
<1> QED BY <1>11, <1>12 DEF tt

\* A level of the store, which is empty.
LEMMA LevelOpened ==
  ASSUME NEW nb, NEW es, NEW fr, NEW st, NEW vs, RunOK(nb, es, fr, st, vs)
  PROVE  RunOK(nb, es, fr, <<<<>>>> \o st, vs)
<1> DEFINE n == Len(es)
           S == 1 .. n
           l == <<>>
           tt == <<l>> \o st
<1>1. st \in Seq(Seq(S)) BY DEF RunOK
<1>2. ASSUME NEW x PROVE tt \in Seq(Seq(S)) /\ InStore(tt, x) = InStore(st, x)
  <2>1. l \in Seq(S) OBVIOUS
  <2>2. Count(l, x) = 0 BY CountEmpty
  <2>3. InStore(st, x) \in Nat BY <1>1, StoreType
  <2> HIDE DEF l, S
  <2>4. tt \in Seq(Seq(S)) /\ InStore(tt, x) = Count(l, x) + InStore(st, x) BY <1>1, <2>1, StoreLevel
  <2> QED BY <2>2, <2>3, <2>4
<1>3. tt \in Seq(Seq(S)) BY <1>2
<1> HIDE DEF tt
<1>4. Holds(nb, n, fr, tt) = Holds(nb, n, fr, st) BY <1>2 DEF Holds, Held
<1>5. Owing(es, Holds(nb, n, fr, tt), <<>>) BY <1>4 DEF RunOK
<1>6. RunOK(nb, es, fr, tt, vs) BY <1>3, <1>5 DEF RunOK
<1> QED BY <1>6 DEF tt

LEMMA ValuesChanged ==
  ASSUME NEW nb, NEW es, NEW fr, NEW st, NEW vs, RunOK(nb, es, fr, st, vs), NEW ws, ValuesOK(ws, Len(es))
  PROVE  RunOK(nb, es, fr, st, ws)
BY DEF RunOK

\* Counts made right again, with the same environments in the same places.
LEMMA Settled ==
  ASSUME NEW nb, NEW es, NEW fr, NEW st, NEW vs, RunOK(nb, es, fr, st, vs),
         NEW gr, FramesOK(nb, Len(es), gr), NEW tt, tt \in Seq(Seq(1 .. Len(es))),
         NEW due, due \in Seq(1 .. Len(es)),
         \A x \in 1 .. Len(es) : Held(nb, fr, st, x) = Held(nb, gr, tt, x) + Count(due, x)
  PROVE  RunOK(nb, DelRefs(es, due), gr, tt, vs) /\ Len(DelRefs(es, due)) = Len(es)
<1> DEFINE n == Len(es)
           k == DelRefs(es, due)
           hold == Holds(nb, n, fr, st)
           more == Holds(nb, n, gr, tt)
           none == <<>>
<1>1. PICK A : EnvsOK(es, A) BY DEF RunOK
<1>2. n \in Nat /\ \A x \in 1 .. n : hold[x] = Held(nb, fr, st, x) /\ Held(nb, fr, st, x) \in Nat
  BY RunFacts
<1>3. nb \in Nat \ {0} /\ nb <= n /\ Owing(es, hold, none) /\ gr \in FramesType BY DEF RunOK, FramesOK
<1>4. ASSUME NEW x \in 1 .. n
      PROVE  more[x] = Held(nb, gr, tt, x) /\ Held(nb, gr, tt, x) \in Nat
  <2>1. x \in Nat BY <1>2
  <2>2. Held(nb, gr, tt, x) \in Nat BY <1>3, <2>1, HeldType
  <2> QED BY <2>2 DEF Holds
<1>5. ASSUME NEW x \in 1 .. n PROVE Count(due, x) \in Nat /\ Count(none, x) = 0
  BY CountType, CountEmpty
<1>6. ASSUME NEW x \in 1 .. n PROVE Cardinality(Children(es, x)) \in Nat
  BY <1>1, ChildrenFinite
<1> HIDE DEF hold, more, none
<1>7. ASSUME NEW x \in 1 .. n
      PROVE  hold[x] + Count(none, x) = more[x] + Count(due, x) /\ hold[x] \in Nat /\ more[x] \in Nat
  BY <1>2, <1>4, <1>5
<1>8. \A x \in 1 .. n : Count(none, x) \in Nat /\ Count(due, x) \in Nat BY <1>5
<1>9. Owing(es, more, due) BY <1>3, <1>6, <1>7, <1>8, OwingMoved
<1>10. DueOK(es, due)
  <2> DEFINE S == 1 .. n
             T == 0 .. n
  <2>1. S \subseteq T /\ due \in Seq(S) BY <1>2
  <2> HIDE DEF S, T
  <2>2. due \in Seq(T) BY <2>1
  <2> QED BY <2>2 DEF DueOK, T
<1>11. EnvsOK(k, A) /\ Recounted(es, k) /\ Owing(k, more, <<>>)
  BY <1>1, <1>7, <1>9, <1>10, DelRefsKeeps
<1> HIDE DEF k
<1>12. Len(k) = n BY <1>11 DEF Recounted
<1>13. ValuesOK(vs, n) BY DEF RunOK
<1>14. RunOK(nb, k, gr, tt, vs) BY <1>3, <1>11, <1>12, <1>13 DEF RunOK, more
<1> QED BY <1>12, <1>14 DEF k

\* The end of a call.
LEMMA FrameLeft ==
  ASSUME NEW nb, NEW es, NEW fr, NEW st, NEW vs, RunOK(nb, es, fr, st, vs), Len(fr) > 1
  PROVE  /\ RunOK(nb, DelRef(es, fr[1].env), Tail(fr), st, vs)
         /\ Len(DelRef(es, fr[1].env)) = Len(es)
<1> DEFINE n == Len(es)
           e == fr[1].env
           gr == Tail(fr)
           due == <<e>>
<1>1. /\ nb \in Nat \ {0} /\ nb <= n /\ n \in Nat /\ fr \in FramesType /\ st \in Seq(Seq(1 .. n))
      /\ \A i \in 1 .. Len(fr) : fr[i].env \in 1 .. n /\ IF i = Len(fr) THEN fr[i].env = 1 ELSE fr[i].env > nb
  BY RunFacts DEF RunOK, FramesOK
<1>2. /\ Len(fr) \in Nat /\ gr \in FramesType /\ Len(gr) = Len(fr) - 1 /\ fr # <<>>
      /\ \A i \in 1 .. Len(fr) - 1 : gr[i] = fr[i + 1]
  <2> DEFINE F == [env : Nat, callback : BOOLEAN]
  <2>1. fr \in Seq(F) BY <1>1 DEF FramesType
  <2> HIDE DEF F
  <2>2. /\ Len(fr) \in Nat /\ gr \in Seq(F) /\ Len(gr) = Len(fr) - 1 /\ fr # <<>>
        /\ \A i \in 1 .. Len(fr) - 1 : gr[i] = fr[i + 1]
    BY <2>1
  <2> QED BY <2>2 DEF FramesType, F
<1>3. e \in 1 .. n /\ e > nb
  <2>1. 1 \in 1 .. Len(fr) /\ 1 # Len(fr) BY <1>2
  <2> QED BY <1>1, <2>1
<1>4. FramesOK(nb, n, gr)
  <2> SUFFICES ASSUME NEW i \in 1 .. Len(gr)
               PROVE  gr[i].env \in 1 .. n /\ IF i = Len(gr) THEN gr[i].env = 1 ELSE gr[i].env > nb
    BY <1>2 DEF FramesOK
  <2> DEFINE j == i + 1
  <2>1. j \in 1 .. Len(fr) /\ (i = Len(gr) <=> j = Len(fr)) /\ i \in 1 .. Len(fr) - 1 BY <1>2
  <2>2. gr[i] = fr[j] BY <1>2, <2>1
  <2> HIDE DEF j
  <2> QED BY <1>1, <2>1, <2>2
<1>5. due \in Seq(1 .. n) BY <1>3
<1>6. ASSUME NEW x \in 1 .. n PROVE Held(nb, fr, st, x) = Held(nb, gr, st, x) + Count(due, x)
  <2> DEFINE a == InFrames(gr, x)
             b == InStore(st, x)
             c == IF x <= nb THEN 1 ELSE 0
             d == Count(due, x)
  <2>1. InFrames(fr, x) = (IF e = x /\ x # 1 THEN 1 ELSE 0) + a BY <1>1, <1>2, FramePopped
  <2>2. d = IF e = x THEN 1 ELSE 0 BY CountOne
  <2>3. (IF e = x /\ x # 1 THEN 1 ELSE 0) = d BY <1>1, <1>3, <2>2
  <2>4. InFrames(fr, x) = d + a BY <2>1, <2>3
  <2>5. a \in Nat /\ b \in Nat /\ c \in Nat /\ d \in Nat
    <3>1. a \in Nat BY <1>2, InFramesCount
    <3>2. b \in Nat BY <1>1, StoreType
    <3> QED BY <2>2, <3>1, <3>2
  <2>6. Held(nb, fr, st, x) = c + (d + a) + b /\ Held(nb, gr, st, x) = c + a + b BY <2>4 DEF Held
  <2> HIDE DEF a, b, c, d
  <2>7. Held(nb, fr, st, x) = Held(nb, gr, st, x) + d BY <2>5, <2>6
  <2> QED BY <2>7 DEF d
<1> HIDE DEF due, gr, e
<1>7. RunOK(nb, DelRefs(es, due), gr, st, vs) /\ Len(DelRefs(es, due)) = n
  BY <1>1, <1>4, <1>5, <1>6, Settled
<1> QED BY <1>7 DEF DelRef, due, gr, e

\* The end of a run: what was kept in its level of the store goes.
LEMMA LevelLeft ==
  ASSUME NEW nb, NEW es, NEW fr, NEW st, NEW vs, RunOK(nb, es, fr, st, vs), st # <<>>
  PROVE  /\ RunOK(nb, DelRefs(es, st[1]), fr, Tail(st), vs)
         /\ Len(DelRefs(es, st[1])) = Len(es)
<1> DEFINE n == Len(es)
           due == st[1]
           tt == Tail(st)
           S == 1 .. n
<1>1. nb \in Nat \ {0} /\ nb <= n /\ n \in Nat /\ FramesOK(nb, n, fr) /\ st \in Seq(Seq(S))
  BY RunFacts DEF RunOK
<1>2. ASSUME NEW x
      PROVE  due \in Seq(S) /\ tt \in Seq(Seq(S)) /\ InStore(st, x) = Count(due, x) + InStore(tt, x)
  <2> HIDE DEF S
  <2> QED BY <1>1, StoreFirst
<1>3. due \in Seq(S) /\ tt \in Seq(Seq(S)) BY <1>2
<1> HIDE DEF due, tt
<1>4. ASSUME NEW x \in 1 .. n PROVE Held(nb, fr, st, x) = Held(nb, fr, tt, x) + Count(due, x)
  <2> DEFINE a == InFrames(fr, x)
             b == InStore(tt, x)
             c == IF x <= nb THEN 1 ELSE 0
             d == Count(due, x)
  <2>1. InStore(st, x) = d + b BY <1>2
  <2>2. a \in Nat /\ b \in Nat /\ c \in Nat /\ d \in Nat
    <3>1. a \in Nat BY <1>1, InFramesCount DEF FramesOK
    <3>2. b \in Nat BY <1>3, StoreType
    <3>3. d \in Nat BY <1>3, CountType
    <3> QED BY <3>1, <3>2, <3>3
  <2>3. Held(nb, fr, st, x) = c + a + (d + b) /\ Held(nb, fr, tt, x) = c + a + b BY <2>1 DEF Held
  <2> HIDE DEF a, b, c, d
  <2>4. Held(nb, fr, st, x) = Held(nb, fr, tt, x) + d BY <2>2, <2>3
  <2> QED BY <2>4 DEF d
<1>5. RunOK(nb, DelRefs(es, due), fr, tt, vs) /\ Len(DelRefs(es, due)) = n
  BY <1>1, <1>3, <1>4, Settled
<1> QED BY <1>5 DEF due, tt

\* The last call: the environment of the script is the compiler's.
LEMMA ScriptLeft ==
  ASSUME NEW nb, NEW es, NEW fr, NEW st, NEW vs, RunOK(nb, es, fr, st, vs), Len(fr) = 1
  PROVE  RunOK(nb, es, <<>>, st, {})
<1> DEFINE n == Len(es)
           gr == <<>>
<1>1. /\ fr \in FramesType
      /\ \A i \in 1 .. Len(fr) : fr[i].env \in 1 .. n /\ IF i = Len(fr) THEN fr[i].env = 1 ELSE fr[i].env > nb
  BY DEF RunOK, FramesOK
<1>2. fr # <<>> /\ fr[1].env = 1 /\ Tail(fr) = <<>>
  <2> DEFINE F == [env : Nat, callback : BOOLEAN]
  <2>1. fr \in Seq(F) BY <1>1 DEF FramesType
  <2> HIDE DEF F
  <2>2. fr # <<>> /\ 1 \in 1 .. Len(fr) /\ Tail(fr) \in Seq(F) /\ Len(Tail(fr)) = 0 BY <2>1
  <2>3. Tail(fr) = <<>> BY <2>2, EmptySeq
  <2> QED BY <1>1, <2>2, <2>3
<1>3. gr \in FramesType /\ Len(gr) = 0 BY DEF FramesType
<1>4. ASSUME NEW x PROVE InFrames(fr, x) = InFrames(gr, x)
  <2>1. InFrames(fr, x) = (IF fr[1].env = x /\ x # 1 THEN 1 ELSE 0) + InFrames(gr, x)
    BY <1>1, <1>2, FramePopped
  <2>2. InFrames(gr, x) \in Nat BY <1>3, InFramesCount
  <2>3. (IF fr[1].env = x /\ x # 1 THEN 1 ELSE 0) = 0 BY <1>2
  <2> QED BY <2>1, <2>2, <2>3
<1>5. Holds(nb, n, gr, st) = Holds(nb, n, fr, st) BY <1>4 DEF Holds, Held
<1>6. FramesOK(nb, n, gr) BY <1>3 DEF FramesOK
<1>7. ValuesOK({}, n) BY DEF ValuesOK
<1> HIDE DEF gr
<1>8. Owing(es, Holds(nb, n, gr, st), <<>>) BY <1>5 DEF RunOK
<1>9. RunOK(nb, es, gr, st, {}) BY <1>6, <1>7, <1>8 DEF RunOK
<1> QED BY <1>9 DEF gr

\* OP_BIND: an environment of the compiler is put inside that of the frame.
LEMMA BindKeeps ==
  ASSUME NEW nb, NEW es, NEW fr, NEW st, NEW vs, RunOK(nb, es, fr, st, vs), fr # <<>>,
         NEW e \in 2 .. nb, es[e].outer # 0
  PROVE  /\ RunOK(nb, SetOuter(es, e, fr[1].env), fr, st, vs)
         /\ Len(SetOuter(es, e, fr[1].env)) = Len(es)
<1> DEFINE n == Len(es)
           o == fr[1].env
           k == SetOuter(es, e, o)
           hold == Holds(nb, n, fr, st)
<1>1. PICK A : EnvsOK(es, A) BY DEF RunOK
<1>2. /\ n \in Nat /\ nb \in Nat \ {0} /\ nb <= n /\ fr \in FramesType /\ st \in Seq(Seq(1 .. n))
      /\ \A i \in 1 .. Len(fr) : fr[i].env \in 1 .. n /\ IF i = Len(fr) THEN fr[i].env = 1 ELSE fr[i].env > nb
      /\ \A x \in 1 .. n : hold[x] = Held(nb, fr, st, x) /\ Held(nb, fr, st, x) \in Nat
      /\ Owing(es, hold, <<>>)
  BY RunFacts DEF RunOK, FramesOK
<1>3. 1 \in 1 .. Len(fr)
  <2> DEFINE F == [env : Nat, callback : BOOLEAN]
  <2>1. fr \in Seq(F) BY <1>2 DEF FramesType
  <2> HIDE DEF F
  <2> QED BY <2>1
<1>4. o \in 1 .. n /\ (o = 1 \/ o > nb) BY <1>2, <1>3
<1>5. e \in 1 .. n /\ o # e BY <1>2, <1>4
<1>6. hold[e] >= 1
  <2>1. e \in Nat /\ e <= nb BY <1>2
  <2>2. Held(nb, fr, st, e) >= 1 BY <1>2, <2>1, HeldType
  <2> QED BY <1>2, <1>5, <2>2
<1>7. hold[o] >= 1
  <2>1. CASE o = 1
    <3>1. o \in Nat /\ o <= nb BY <1>2, <2>1
    <3>2. Held(nb, fr, st, o) >= 1 BY <1>2, <3>1, HeldType
    <3> QED BY <1>2, <1>4, <3>2
  <2>2. CASE o # 1
    <3> DEFINE a == InFrames(Tail(fr), o)
               b == InStore(st, o)
    <3>1. InFrames(fr, o) = (IF o = o /\ o # 1 THEN 1 ELSE 0) + a /\ Tail(fr) \in FramesType
      BY <1>2, FramePopped
    <3>2. a \in Nat BY <3>1, InFramesCount
    <3>3. b \in Nat BY <1>2, StoreType
    <3>4. Held(nb, fr, st, o) = (IF o <= nb THEN 1 ELSE 0) + (1 + a) + b BY <2>2, <3>1 DEF Held
    <3> HIDE DEF a, b
    <3>5. Held(nb, fr, st, o) >= 1 BY <1>2, <1>4, <3>2, <3>3, <3>4
    <3> QED BY <1>2, <1>4, <3>5
  <2> QED BY <2>1, <2>2
<1>8. \A x \in 1 .. n : hold[x] \in Nat BY <1>2
<1>9. Owing(es, hold, <<>>) BY <1>2
<1> HIDE DEF hold, o
<1>10. EnvsOK(k, A) /\ Len(k) = n /\ Owing(k, hold, <<>>)
  BY <1>1, <1>4, <1>5, <1>6, <1>7, <1>8, <1>9, SetOuterKeeps
<1> HIDE DEF k
<1>11. RunOK(nb, k, fr, st, vs) BY <1>10 DEF RunOK, hold
<1> QED BY <1>10, <1>11 DEF k, o

LEMMA BlueprintLives ==
  ASSUME NEW nb, NEW es, NEW fr, NEW st, NEW vs, RunOK(nb, es, fr, st, vs), NEW e \in 1 .. nb
  PROVE  e \in 1 .. Len(es) /\ es[e].refs # 0
<1> DEFINE n == Len(es)
           h == Held(nb, fr, st, e)
           c == Cardinality(Children(es, e))
<1>1. nb \in Nat /\ nb <= n /\ n \in Nat /\ fr \in FramesType /\ st \in Seq(Seq(1 .. n))
  BY RunFacts DEF RunOK, FramesOK
<1>2. e \in 1 .. n /\ e \in Nat /\ e <= nb BY <1>1
<1>3. h >= 1 BY <1>1, <1>2, HeldType
<1>4. es[e].refs = h + c /\ h \in Nat /\ c \in Nat BY <1>2, RunCounts
<1> HIDE DEF h, c
<1> QED BY <1>2, <1>3, <1>4

LEMMA TopLives ==
  ASSUME NEW nb, NEW es, NEW fr, NEW st, NEW vs, RunOK(nb, es, fr, st, vs), fr # <<>>
  PROVE  fr[1].env \in 1 .. Len(es) /\ es[fr[1].env].refs # 0
<1> DEFINE n == Len(es)
           o == fr[1].env
           h == Held(nb, fr, st, o)
           c == Cardinality(Children(es, o))
<1>1. /\ nb \in Nat \ {0} /\ nb <= n /\ n \in Nat /\ fr \in FramesType /\ st \in Seq(Seq(1 .. n))
      /\ \A i \in 1 .. Len(fr) : fr[i].env \in 1 .. n /\ IF i = Len(fr) THEN fr[i].env = 1 ELSE fr[i].env > nb
  BY RunFacts DEF RunOK, FramesOK
<1>2. 1 \in 1 .. Len(fr)
  <2> DEFINE F == [env : Nat, callback : BOOLEAN]
  <2>1. fr \in Seq(F) BY <1>1 DEF FramesType
  <2> HIDE DEF F
  <2> QED BY <2>1
<1>3. o \in 1 .. n BY <1>1, <1>2
<1>4. CASE o = 1
  <2>1. o \in 1 .. nb BY <1>1, <1>4
  <2> QED BY <1>3, <2>1, BlueprintLives
<1>5. CASE o # 1
  <2> DEFINE a == InFrames(Tail(fr), o)
             b == InStore(st, o)
  <2>1. InFrames(fr, o) = (IF o = o /\ o # 1 THEN 1 ELSE 0) + a /\ Tail(fr) \in FramesType
    <3>1. fr # <<>> OBVIOUS
    <3> HIDE DEF o
    <3>2. /\ Tail(fr) \in FramesType
          /\ InFrames(fr, o) = (IF fr[1].env = o /\ o # 1 THEN 1 ELSE 0) + InFrames(Tail(fr), o)
      BY <1>1, <3>1, FramePopped
    <3> QED BY <3>2 DEF o
  <2>2. a \in Nat BY <2>1, InFramesCount
  <2>3. b \in Nat BY <1>1, StoreType
  <2>4. h = (IF o <= nb THEN 1 ELSE 0) + (1 + a) + b BY <1>5, <2>1 DEF Held
  <2>5. es[o].refs = h + c /\ h \in Nat /\ c \in Nat BY <1>3, RunCounts
  <2> HIDE DEF a, b, h, c
  <2>6. h >= 1 BY <1>1, <1>3, <2>2, <2>3, <2>4
  <2>7. es[o].refs # 0 BY <2>5, <2>6
  <2> QED BY <1>3, <2>7
<1> QED BY <1>4, <1>5

-------------------------------------------------------------------------------
(* The steps of a running script. *)
RunInv == RunOK(Len(blueprints), envs, frames, store, values)

LEMMA RunIs ==
  ASSUME RunOK(Len(blueprints), envs', frames', store', values'), UNCHANGED resolverVars
  PROVE  RunInv'
BY DEF RunInv, resolverVars

LEMMA ValueFacts ==
  ASSUME RunInv, NEW v \in values
  PROVE  v.env \in 1 .. Len(envs)
BY DEF RunInv, RunOK, ValuesOK, IsValue

LEMMA EnterKeeps ==
  ASSUME RunInv, Running, NEW source \in 1 .. Len(envs), NEW maker, NEW sound, NEW callback \in BOOLEAN,
         Enter(source, 0, maker, sound, callback),
         store' = store \/ store' = IF fault' = "none" THEN <<<<>>>> \o store ELSE store
  PROVE  RunInv'
<1> DEFINE nb == Len(blueprints)
<1>1. UNCHANGED <<values, evaluated, resolverVars>> /\ frames # <<>> BY DEF Enter, Running
<1>2. RunOK(nb, envs, frames, store, values) BY DEF RunInv
<1>3. CASE envs[source].refs = 0
  <2>1. UNCHANGED <<envs, frames>> /\ fault' = Fault(sound) BY <1>3 DEF Enter
  <2>2. fault' # "none" BY <2>1 DEF Fault
  <2>3. store' = store BY <2>2
  <2>4. RunOK(nb, envs', frames', store', values') BY <1>1, <1>2, <2>1, <2>3
  <2> QED BY <1>1, <2>4, RunIs
<1>4. CASE envs[source].refs # 0
  <2> DEFINE es == Activate(envs, source, 0, maker, sound)
             gr == <<[env |-> Len(envs) + 1, callback |-> callback]>> \o frames
  <2>1. envs' = es /\ frames' = gr BY <1>4 DEF Enter
  <2>2. 0 \in 0 .. Len(envs)
    <3>1. Len(envs) \in Nat BY <1>2, RunFacts
    <3> QED BY <3>1
  <2>3. RunOK(nb, es, gr, store, values) BY <1>1, <1>2, <1>4, <2>2, CallKeeps
  <2> HIDE DEF es, gr
  <2>4. RunOK(nb, es, gr, <<<<>>>> \o store, values) BY <2>3, LevelOpened
  <2>5. RunOK(nb, envs', frames', store', values') BY <1>1, <2>1, <2>3, <2>4
  <2> QED BY <1>1, <2>5, RunIs
<1> QED BY <1>3, <1>4

LEMMA LeaveKeeps ==
  ASSUME NEW es, NEW kept, NEW vs, RunOK(Len(blueprints), es, frames, kept, vs), Len(frames) > 1,
         Leave(es, kept, vs)
  PROVE  RunInv'
<1> DEFINE nb == Len(blueprints)
           k == DelRef(es, frames[1].env)
<1>1. UNCHANGED resolverVars /\ frames' = Tail(frames) BY DEF Leave
<1>2. RunOK(nb, k, Tail(frames), kept, vs) /\ Len(k) = Len(es) BY FrameLeft
<1> HIDE DEF k
<1>3. CASE Frame.callback /\ kept # <<>>
  <2> DEFINE ws == {[v EXCEPT !.sound = @ /\ v.level < Level] : v \in vs}
             j == DelRefs(k, kept[1])
  <2>1. envs' = j /\ store' = Tail(kept) /\ values' = ws BY <1>3 DEF Leave, Top, Frame, k
  <2>2. RunOK(nb, j, Tail(frames), Tail(kept), vs) /\ Len(j) = Len(k) BY <1>2, <1>3, LevelLeft
  <2>3. ValuesOK(ws, Len(es))
    <3> SUFFICES ASSUME NEW v \in vs PROVE IsValue([v EXCEPT !.sound = @ /\ v.level < Level], Len(es))
      BY DEF ValuesOK
    <3>1. PICK d, e, m, s, l : v = [decl |-> d, env |-> e, maker |-> m, sound |-> s, level |-> l] /\ e \in 1 .. Len(es)
      BY DEF RunOK, ValuesOK, IsValue
    <3> DEFINE b == s /\ l < Level
               w == [v EXCEPT !.sound = @ /\ v.level < Level]
    <3>2. w = [decl |-> d, env |-> e, maker |-> m, sound |-> b, level |-> l] BY <3>1
    <3> HIDE DEF w, b
    <3>3. IsValue(w, Len(es)) BY <3>1, <3>2, Zenon DEF IsValue
    <3> QED BY <3>3 DEF w
  <2> HIDE DEF ws, j
  <2>4. RunOK(nb, j, Tail(frames), Tail(kept), ws) BY <1>2, <2>2, <2>3, ValuesChanged
  <2>5. RunOK(nb, envs', frames', store', values') BY <1>1, <2>1, <2>4
  <2> QED BY <1>1, <2>5, RunIs
<1>4. CASE ~(Frame.callback /\ kept # <<>>)
  <2>1. envs' = k /\ store' = kept /\ values' = vs BY <1>4 DEF Leave, Top, Frame, k
  <2>2. RunOK(nb, envs', frames', store', values') BY <1>1, <1>2, <2>1
  <2> QED BY <1>1, <2>2, RunIs
<1> QED BY <1>3, <1>4

LEMMA CallsKeep ==
  ASSUME ResolverInv, RunInv, NEW f \in functions, CallNamed(f) \/ CallStatic(f)
  PROVE  RunInv'
<1>1. f.env \in 1 .. Len(envs)
  <2>1. f.env \in 2 .. Len(blueprints) BY DEF ResolverInv
  <2>2. Len(blueprints) \in Nat /\ Len(blueprints) <= Len(envs) BY DEF RunInv, RunOK
  <2>3. Len(envs) \in Nat BY RunFacts DEF RunInv
  <2> QED BY <2>1, <2>2, <2>3
<1>2. CASE CallNamed(f)
  <2>1. /\ Running /\ store' = store
        /\ Enter(f.env, 0, MakerOf(f), envs[Top].sound /\ f.parent = 1, FALSE)
    BY <1>2, Zenon DEF CallNamed
  <2> QED BY <1>1, <2>1, EnterKeeps
<1>3. CASE CallStatic(f)
  <2>1. /\ Running /\ store' = store
        /\ Enter(f.env, 0, f.class, envs[Top].sound /\ InClass(f) /\ Declared(f.class).parent = 1, FALSE)
    BY <1>3, Zenon DEF CallStatic
  <2> QED BY <1>1, <2>1, EnterKeeps
<1> QED BY <1>2, <1>3

LEMMA ValueCallsKeep ==
  ASSUME RunInv, NEW v \in values, CallValue(v) \/ CallBack(v)
  PROVE  RunInv'
<1>1. v.env \in 1 .. Len(envs) BY ValueFacts
<1>2. CASE CallValue(v)
  <2>1. Running /\ store' = store /\ Enter(v.env, 0, v.maker, v.sound /\ Unchanged(v), FALSE)
    BY <1>2, Zenon DEF CallValue
  <2> QED BY <1>1, <2>1, EnterKeeps
<1>3. CASE CallBack(v)
  <2>1. /\ Running /\ Enter(v.env, 0, v.maker, v.sound /\ Unchanged(v), TRUE)
        /\ store' = IF fault' = "none" THEN <<<<>>>> \o store ELSE store
    BY <1>3, Zenon DEF CallBack
  <2> QED BY <1>1, <2>1, EnterKeeps
<1> QED BY <1>2, <1>3

LEMMA BindStep ==
  ASSUME ResolverInv, RunInv, NEW f \in functions, Bind(f)
  PROVE  RunInv'
<1> DEFINE nb == Len(blueprints)
           v == [decl |-> f.env, env |-> f.env, maker |-> Top, sound |-> envs[Top].sound, level |-> 0]
<1>1. /\ Running /\ UNCHANGED <<frames, store, fault, resolverVars>> /\ values' = values \cup {v}
      /\ envs' = IF envs[f.env].outer # 0 THEN SetOuter(envs, f.env, frames[1].env) ELSE envs
  BY DEF Bind, Top, Frame
<1>2. frames # <<>> /\ RunOK(nb, envs, frames, store, values) BY <1>1 DEF Running, RunInv
<1>3. f.env \in 2 .. nb BY DEF ResolverInv
<1>4. f.env \in 1 .. Len(envs)
  <2>1. nb \in Nat /\ nb <= Len(envs) BY DEF RunInv, RunOK
  <2>2. Len(envs) \in Nat BY <1>2, RunFacts
  <2> QED BY <1>3, <2>1, <2>2
<1>5. RunOK(nb, envs', frames, store, values) /\ Len(envs') = Len(envs)
  <2>1. CASE envs[f.env].outer # 0 BY <1>1, <1>2, <1>3, <2>1, BindKeeps
  <2>2. CASE envs[f.env].outer = 0 BY <1>1, <1>2, <2>2
  <2> QED BY <2>1, <2>2
<1>6. ValuesOK(values', Len(envs'))
  <2>1. IsValue(v, Len(envs')) BY <1>4, <1>5, Zenon DEF IsValue
  <2> HIDE DEF v
  <2> QED BY <1>1, <1>2, <1>5, <2>1 DEF RunOK, ValuesOK
<1>7. RunOK(nb, envs', frames, store, values') BY <1>5, <1>6, ValuesChanged
<1>8. RunOK(nb, envs', frames', store', values') BY <1>1, <1>7
<1> QED BY <1>1, <1>8, RunIs

LEMMA NewStep ==
  ASSUME ResolverInv, RunInv, NEW f \in functions, New(f)
  PROVE  RunInv'
<1> DEFINE nb == Len(blueprints)
           n == Len(envs)
           sound == envs[Top].sound /\ f.parent = 1
           maker == MakerOf(f)
           v == [decl |-> f.env, env |-> n + 1, maker |-> maker, sound |-> sound, level |-> Level]
           es == Activate(envs, f.env, 0, maker, sound)
<1>1. /\ UNCHANGED <<frames, evaluated, fault, resolverVars>> /\ values' = values \cup {v}
      /\ envs' = es /\ store' = Stored(n + 1)
  BY Zenon DEF New
<1>2. RunOK(nb, envs, frames, store, values) BY DEF RunInv
<1>3. f.env \in 1 .. nb
  <2>1. f.env \in 2 .. nb BY DEF ResolverInv
  <2>2. nb \in Nat BY <1>2 DEF RunOK
  <2> QED BY <2>1, <2>2
<1>4. f.env \in 1 .. n /\ envs[f.env].refs # 0 BY <1>2, <1>3, BlueprintLives
<1>5. 0 \in 0 .. n /\ n \in Nat
  <2>1. n \in Nat BY <1>2, RunFacts
  <2> QED BY <2>1
<1>6. IsValue(v, n + 1)
  <2>1. n + 1 \in 1 .. n + 1 BY <1>5
  <2> HIDE DEF n, maker, sound
  <2> QED BY <2>1, Zenon DEF IsValue
<1> HIDE DEF v
<1>7. RunOK(nb, es, frames, Stored(n + 1), values) /\ Len(es) = n + 1
  <2> HIDE DEF maker, sound
  <2> QED BY <1>2, <1>4, <1>5, StoreKeeps
<1> HIDE DEF es
<1>8. ValuesOK(values', Len(es))
  <2>1. ValuesOK(values, Len(es)) BY <1>7 DEF RunOK
  <2> QED BY <1>1, <1>6, <1>7, <2>1 DEF ValuesOK
<1>9. RunOK(nb, es, frames, Stored(n + 1), values') BY <1>7, <1>8, ValuesChanged
<1>10. RunOK(nb, envs', frames', store', values') BY <1>1, <1>9
<1> QED BY <1>1, <1>10, RunIs

LEMMA MethodStep ==
  ASSUME ResolverInv, RunInv, NEW v \in values, NEW f \in functions, CallMethod(v, f)
  PROVE  RunInv'
<1> DEFINE nb == Len(blueprints)
           n == Len(envs)
           es == Activate(envs, f.env, v.env, v.env, v.sound /\ InClass(f))
           gr == <<[env |-> n + 1, callback |-> FALSE]>> \o frames
<1>1. UNCHANGED <<store, values, evaluated, resolverVars>> /\ frames # <<>> BY DEF CallMethod, Running
<1>2. RunOK(nb, envs, frames, store, values) BY DEF RunInv
<1>3. CASE envs[v.env].refs = 0
  <2>1. UNCHANGED <<envs, frames>> BY <1>3 DEF CallMethod
  <2>2. RunOK(nb, envs', frames', store', values') BY <1>1, <1>2, <2>1
  <2> QED BY <1>1, <2>2, RunIs
<1>4. CASE envs[v.env].refs # 0
  <2>1. envs' = es /\ frames' = gr BY <1>4 DEF CallMethod
  <2>2. v.env \in 0 .. n
    <3>1. v.env \in 1 .. n BY ValueFacts
    <3> QED BY <3>1
  <2>3. f.env \in 1 .. n /\ envs[f.env].refs # 0
    <3>1. f.env \in 2 .. nb BY DEF ResolverInv
    <3>2. nb \in Nat BY <1>2 DEF RunOK
    <3>3. f.env \in 1 .. nb BY <3>1, <3>2
    <3> QED BY <1>2, <3>3, BlueprintLives
  <2>4. RunOK(nb, es, gr, store, values) BY <1>1, <1>2, <1>4, <2>2, <2>3, CallKeeps
  <2>5. RunOK(nb, envs', frames', store', values') BY <1>1, <2>1, <2>4
  <2> QED BY <1>1, <2>5, RunIs
<1> QED BY <1>3, <1>4

LEMMA ReturnStep ==
  ASSUME RunInv, Return
  PROVE  RunInv'
<1>1. RunOK(Len(blueprints), envs, frames, store, values) /\ Len(frames) > 1 /\ Leave(envs, store, values)
  BY DEF RunInv, Return
<1> QED BY <1>1, LeaveKeeps

LEMMA ReturnClosureStep ==
  ASSUME RunInv, NEW v \in values, ReturnClosure(v)
  PROVE  RunInv'
<1> DEFINE nb == Len(blueprints)
           n == Len(envs)
           new == [v EXCEPT !.env = n + 1, !.sound = @ /\ v.maker = Top, !.level = Level]
           es == Activate(envs, v.env, Top, v.maker, new.sound)
           kept == Stored(n + 1)
           ws == values \cup {new}
<1>1. RunOK(nb, envs, frames, store, values) /\ Len(frames) > 1 BY DEF RunInv, ReturnClosure
<1>2. CASE envs[v.env].refs = 0
  <2>1. UNCHANGED <<envs, frames, store, values, evaluated, resolverVars>> BY <1>2 DEF ReturnClosure
  <2>2. RunOK(nb, envs', frames', store', values') BY <1>1, <2>1
  <2> QED BY <2>1, <2>2, RunIs
<1>3. CASE envs[v.env].refs # 0
  <2>1. Leave(es, kept, ws) BY <1>3, Zenon DEF ReturnClosure
  <2>2. Top \in 1 .. n /\ envs[Top].refs # 0
    <3>1. frames # <<>> BY <1>1
    <3>2. Top = frames[1].env BY DEF Top, Frame
    <3> QED BY <1>1, <3>1, <3>2, TopLives
  <2>3. n \in Nat BY <1>1, RunFacts
  <2>4. Top \in 0 .. n BY <2>2, <2>3
  <2>5. v.env \in 1 .. n BY ValueFacts
  <2>6. IsValue(new, n + 1)
    <3>1. PICK d, e, m, s, l : v = [decl |-> d, env |-> e, maker |-> m, sound |-> s, level |-> l]
      BY <1>1 DEF RunOK, ValuesOK, IsValue
    <3> DEFINE b == v.sound /\ v.maker = Top
               k == n + 1
               l2 == Level
               w1 == [v EXCEPT !.env = k]
               w2 == [w1 EXCEPT !.sound = b]
               w3 == [w2 EXCEPT !.level = l2]
    <3>5. new = w3 OBVIOUS
    <3> HIDE DEF new, b, k, l2
    <3>6. w1 = [decl |-> d, env |-> k, maker |-> m, sound |-> s, level |-> l] BY <3>1
    <3> HIDE DEF w1
    <3>7. w2 = [decl |-> d, env |-> k, maker |-> m, sound |-> b, level |-> l] BY <3>6
    <3> HIDE DEF w2
    <3>8. w3 = [decl |-> d, env |-> k, maker |-> m, sound |-> b, level |-> l2] BY <3>7
    <3>2. new = [decl |-> d, env |-> k, maker |-> m, sound |-> b, level |-> l2] BY <3>5, <3>8
    <3>3. k \in 1 .. k
      <4>1. n + 1 \in 1 .. n + 1 BY <2>3
      <4> QED BY <4>1 DEF k
    <3>4. IsValue(new, k) BY <3>2, <3>3, Zenon DEF IsValue
    <3> QED BY <3>4 DEF k
  <2> HIDE DEF new
  <2>7. RunOK(nb, es, frames, kept, values) /\ Len(es) = n + 1
    <3> DEFINE sound == new.sound
               maker == v.maker
               top == Top
    <3> HIDE DEF sound, maker, top
    <3>1. top \in 0 .. n /\ envs[top].refs # 0 BY <2>2, <2>4 DEF top
    <3>2. /\ RunOK(nb, Activate(envs, v.env, top, maker, sound), frames, kept, values)
          /\ Len(Activate(envs, v.env, top, maker, sound)) = n + 1
      BY <1>1, <1>3, <2>5, <3>1, StoreKeeps
    <3> QED BY <3>2 DEF sound, maker, top
  <2> HIDE DEF es, kept
  <2>8. ValuesOK(ws, Len(es))
    <3>1. ValuesOK(values, Len(es)) BY <2>7 DEF RunOK
    <3> QED BY <2>6, <2>7, <3>1 DEF ValuesOK
  <2> HIDE DEF ws
  <2>9. RunOK(nb, es, frames, kept, ws) BY <2>7, <2>8, ValuesChanged
  <2> QED BY <1>1, <2>1, <2>9, LeaveKeeps
<1> QED BY <1>2, <1>3

LEMMA HaltStep ==
  ASSUME RunInv, Halt
  PROVE  RunInv'
<1> DEFINE nb == Len(blueprints)
<1>1. /\ UNCHANGED <<evaluated, fault, resolverVars>> /\ frames' = <<>> /\ values' = {} /\ Len(frames) = 1
      /\ envs' = IF store = <<>> THEN envs ELSE DelRefs(envs, store[1])
      /\ store' = IF store = <<>> THEN store ELSE Tail(store)
  BY DEF Halt
<1>2. RunOK(nb, envs, frames, store, values) BY DEF RunInv
<1>3. RunOK(nb, envs, <<>>, store, {}) BY <1>1, <1>2, ScriptLeft
<1>4. CASE store = <<>>
  <2>1. RunOK(nb, envs', frames', store', values') BY <1>1, <1>3, <1>4
  <2> QED BY <1>1, <2>1, RunIs
<1>5. CASE store # <<>>
  <2>1. RunOK(nb, DelRefs(envs, store[1]), <<>>, Tail(store), {}) BY <1>3, <1>5, LevelLeft
  <2>2. RunOK(nb, envs', frames', store', values') BY <1>1, <1>5, <2>1
  <2> QED BY <1>1, <2>2, RunIs
<1> QED BY <1>4, <1>5

-------------------------------------------------------------------------------
(* Before the script runs there are no environments but the compiler's.    *)
Idle == envs = <<>> /\ frames = <<>> /\ store = <<>> /\ values = {}

EnvInv ==
  /\ ResolverInv
  /\ phase # "running" => Idle
  /\ phase = "running" => RunInv

LEMMA EnvInvInit == Init => EnvInv
<1> SUFFICES ASSUME Init PROVE EnvInv
  OBVIOUS
<1>1. ResolverInit /\ MachineInit BY DEF Init
<1>2. phase # "running" /\ Idle BY <1>1 DEF ResolverInit, MachineInit, Idle
<1>3. BlueprintsOK(blueprints, {<<>>}) /\ Len(blueprints) = 1
  <2> DEFINE R == [outer : Nat, data : {<<>>}]
             b == [outer |-> 0, data |-> <<>>]
  <2>1. blueprints = <<b>> BY <1>1 DEF ResolverInit
  <2>2. b \in R /\ b.outer = 0 OBVIOUS
  <2> HIDE DEF b, R
  <2>3. blueprints \in Seq(R) /\ blueprints # <<>> /\ Len(blueprints) = 1 /\ blueprints[1] = b
    BY <2>1, <2>2
  <2>4. \A i \in 1 .. Len(blueprints) : blueprints[i].outer <= Len(blueprints) BY <2>2, <2>3
  <2> QED BY <2>3, <2>4 DEF BlueprintsOK, R
<1>4. open = <<>> /\ at = 1 /\ stack = <<1>> /\ functions = {} /\ program \in Programs
  BY <1>1 DEF ResolverInit
<1>5. Opened(program, at - 1) = 0 /\ Closed(program, at - 1) = 0
  <2>1. 1 .. at - 1 = {} BY <1>4
  <2>2. {j \in 1 .. at - 1 : program[j].op \in Openers} = {} /\ {j \in 1 .. at - 1 : program[j].op = "end"} = {}
    BY <2>1
  <2> QED BY <2>2, FS_EmptySet DEF Opened, Closed
<1>6. NestingOK
  <2>1. Len(open) = 0 /\ open \in Seq(Nat) BY <1>4
  <2> QED BY <1>5, <2>1 DEF NestingOK
<1>7. StackOK
  <2> DEFINE none == Kinds(program, open)
  <2>1. none = <<>> BY <1>4 DEF Kinds
  <2>2. Count(none, 1) = 0 BY <2>1, CountEmpty
  <2>3. stack \in Seq(1 .. Len(blueprints)) /\ Len(stack) = 1
    <3>1. 1 \in 1 .. Len(blueprints) BY <1>3
    <3> QED BY <1>4, <3>1
  <2> HIDE DEF none
  <2>4. Len(stack) = 1 + Count(none, 1) BY <2>2, <2>3
  <2> QED BY <2>3, <2>4 DEF StackOK, none
<1>8. ResolverInv BY <1>3, <1>4, <1>6, <1>7 DEF ResolverInv
<1> QED BY <1>2, <1>8 DEF EnvInv

\* The resolver's part when it does not step.
LEMMA ResolverStays ==
  ASSUME ResolverInv,
         UNCHANGED <<program, at, scopes, here, blueprints, stack, klass, static, functions, members,
                     loaded, open, uses>>,
         phase' = phase \/ phase' # "resolving"
  PROVE  ResolverInv'
<1>1. NestingOK' /\ StackOK' BY DEF ResolverInv, NestingOK, StackOK
<1> QED BY <1>1 DEF ResolverInv

\* Compiled: every environment has the compiler and those inside it.
LEMMA StartStep ==
  ASSUME ResolverInv, Idle, Start
  PROVE  RunInv'
<1> DEFINE nb == Len(blueprints)
           inside(b) == {c \in DOMAIN blueprints : blueprints[c].outer = b}
           new(b) == [of |-> b, outer |-> blueprints[b].outer, maker |-> blueprints[b].outer, sound |-> b = 1,
                      refs |-> 1 + Cardinality(inside(b))]
           es == [b \in DOMAIN blueprints |-> new(b)]
           first == [env |-> 1, callback |-> FALSE]
           fr == <<first>>
           A == Nat \cup BOOLEAN
<1>1. /\ blueprints' = blueprints /\ envs' = es /\ frames' = fr /\ store' = store /\ values' = values
      /\ store = <<>> /\ values = {}
  BY DEF Start, Resolved, Idle
<1>2. PICK D : BlueprintsOK(blueprints, D) BY DEF ResolverInv
<1>3. /\ nb \in Nat \ {0} /\ DOMAIN blueprints = 1 .. nb
      /\ \A b \in 1 .. nb : blueprints[b].outer \in Nat /\ blueprints[b].outer <= nb
  <2> DEFINE R == [outer : Nat, data : D]
  <2>1. blueprints \in Seq(R) /\ blueprints # <<>> /\ \A b \in 1 .. nb : blueprints[b].outer <= nb
    BY <1>2 DEF BlueprintsOK
  <2>2. \A r \in R : r.outer \in Nat OBVIOUS
  <2> HIDE DEF R
  <2>3. nb \in Nat /\ DOMAIN blueprints = 1 .. nb /\ \A b \in 1 .. nb : blueprints[b] \in R BY <2>1
  <2>4. nb # 0 BY <2>1
  <2> QED BY <2>1, <2>2, <2>3, <2>4
<1>4. ASSUME NEW b \in 1 .. nb PROVE Cardinality(inside(b)) \in Nat
  <2>1. inside(b) \subseteq 1 .. nb BY <1>3
  <2> HIDE DEF inside
  <2> QED BY <1>3, <2>1, FiniteIndexes
<1> HIDE DEF inside
<1>5. ASSUME NEW b \in 1 .. nb
      PROVE  /\ new(b) \in Env(A) /\ new(b).outer = blueprints[b].outer
             /\ new(b).refs = 1 + Cardinality(inside(b)) /\ new(b).refs > 0
  <2>1. b \in A /\ blueprints[b].outer \in A /\ (b = 1) \in A /\ blueprints[b].outer \in Nat BY <1>3
  <2>2. 1 + Cardinality(inside(b)) \in Nat /\ 1 + Cardinality(inside(b)) > 0 BY <1>4
  <2> QED BY <2>1, <2>2 DEF Env
<1> HIDE DEF new
<1>6. es \in Seq(Env(A)) /\ Len(es) = nb /\ \A b \in 1 .. nb : es[b] = new(b)
  <2> DEFINE S == Env(A)
             m == nb
  <2>1. \A b \in 1 .. m : new(b) \in S BY <1>5
  <2>2. es = [b \in 1 .. m |-> new(b)] /\ m \in Nat BY <1>3
  <2> HIDE DEF S, m, es
  <2>3. es \in Seq(S) /\ Len(es) = m /\ \A b \in 1 .. m : es[b] = new(b) BY <2>1, <2>2
  <2> QED BY <2>3 DEF S, m
<1> HIDE DEF es
<1>7. EnvsOK(es, A)
  <2>1. \A e \in 1 .. Len(es) : es[e].outer <= Len(es) BY <1>3, <1>5, <1>6
  <2> QED BY <1>6, <2>1 DEF EnvsOK
<1>8. ASSUME NEW b \in 1 .. nb PROVE Children(es, b) = inside(b)
  <2>1. DOMAIN es = 1 .. nb BY <1>6
  <2>2. \A c \in 1 .. nb : es[c].refs > 0 /\ es[c].outer = blueprints[c].outer BY <1>5, <1>6
  <2> QED BY <1>3, <2>1, <2>2 DEF Children, inside
<1>9. fr \in FramesType /\ Len(fr) = 1 /\ fr[1] = first /\ first.env = 1
  <2>1. first \in [env : Nat, callback : BOOLEAN] /\ first.env = 1 OBVIOUS
  <2> HIDE DEF first
  <2> QED BY <2>1 DEF FramesType
<1> HIDE DEF first, fr
<1>10. FramesOK(nb, nb, fr) BY <1>3, <1>9 DEF FramesOK
<1>11. ASSUME NEW x \in 1 .. nb PROVE Held(nb, fr, store, x) = 1
  <2>1. DOMAIN fr = 1 .. 1 BY <1>9 DEF FramesType
  <2>2. {i \in DOMAIN fr : fr[i].env = x /\ x # 1} = {} BY <1>9, <2>1
  <2>3. InFrames(fr, x) = 0 BY <2>2, FS_EmptySet DEF InFrames
  <2>4. InStore(store, x) = 0 BY <1>1, FlattenEmpty, CountEmpty DEF InStore
  <2>5. x <= nb BY <1>3
  <2> QED BY <2>3, <2>4, <2>5 DEF Held
<1>12. Owing(es, Holds(nb, nb, fr, store), <<>>)
  <2> SUFFICES ASSUME NEW x \in 1 .. nb
               PROVE  es[x].refs = Holds(nb, nb, fr, store)[x] + Cardinality(Children(es, x)) + Count(<<>>, x)
    BY <1>6 DEF Owing
  <2>1. Holds(nb, nb, fr, store)[x] = 1 BY <1>11 DEF Holds
  <2>2. es[x].refs = 1 + Cardinality(inside(x)) BY <1>5, <1>6
  <2>3. Count(<<>>, x) = 0 BY CountEmpty
  <2> QED BY <1>4, <1>8, <2>1, <2>2, <2>3
<1>13. store \in Seq(Seq(1 .. Len(es))) /\ ValuesOK(values, Len(es)) BY <1>1 DEF ValuesOK
<1>14. RunOK(nb, es, fr, store, values)
  <2>1. nb <= Len(es) BY <1>3, <1>6
  <2> QED BY <1>3, <1>6, <1>7, <1>10, <1>12, <1>13, <2>1 DEF RunOK
<1>15. RunOK(nb, envs', frames', store', values') BY <1>1, <1>14
<1> QED BY <1>1, <1>15 DEF RunInv

LEMMA EnvInvStep == EnvInv /\ [Next]_vars => EnvInv'
<1> SUFFICES ASSUME EnvInv, [Next]_vars PROVE EnvInv'
  OBVIOUS
<1>1. ResolverInv /\ (phase # "running" => Idle) /\ (phase = "running" => RunInv) BY DEF EnvInv
<1>2. ASSUME phase = "running", RunInv', UNCHANGED resolverVars PROVE EnvInv'
  <2>1. phase' = phase BY <1>2 DEF resolverVars
  <2>2. ResolverInv' BY <1>1, <1>2, ResolverStays DEF resolverVars
  <2> QED BY <1>2, <2>1, <2>2 DEF EnvInv
<1>3. ASSUME Running PROVE phase = "running" /\ RunInv BY <1>1, <1>3 DEF Running
<1>4. CASE UNCHANGED vars
  <2>1. UNCHANGED resolverVars /\ UNCHANGED <<envs, frames, store, values>> BY <1>4 DEF vars, machineVars
  <2>2. ResolverInv' /\ phase' = phase BY <1>1, <2>1, ResolverStays DEF resolverVars
  <2>3. phase # "running" => Idle' BY <1>1, <2>1 DEF Idle
  <2>4. phase = "running" => RunInv' BY <1>1, <2>1 DEF RunInv, resolverVars
  <2> QED BY <2>2, <2>3, <2>4 DEF EnvInv
<1>5. CASE Resolve
  <2>1. Visit /\ UNCHANGED <<envs, frames, store, values>> BY <1>5 DEF Resolve, machineVars
  <2>2. phase # "running" /\ phase' # "running" BY <2>1, VisitPhase
  <2>3. ResolverInv' BY <1>1, <2>1, VisitKeeps
  <2>4. Idle' BY <1>1, <2>1, <2>2 DEF Idle
  <2> QED BY <2>2, <2>3, <2>4 DEF EnvInv
<1>6. CASE Start
  <2>1. /\ phase = "resolving" /\ phase' = "running"
        /\ UNCHANGED <<program, at, scopes, here, blueprints, stack, klass, static, functions, members,
                       loaded, open, uses>>
    BY <1>6 DEF Start, Resolved
  <2>2. ResolverInv' BY <1>1, <2>1, ResolverStays
  <2>3. RunInv' BY <1>1, <1>6, <2>1, StartStep
  <2> QED BY <2>1, <2>2, <2>3 DEF EnvInv
<1>7. CASE Ended BY <1>4, <1>7 DEF Ended
<1>8. ASSUME NEW f \in functions, CallNamed(f) \/ Bind(f) \/ New(f) \/ CallStatic(f) PROVE EnvInv'
  <2>1. Running /\ UNCHANGED resolverVars
    BY <1>8, Zenon DEF CallNamed, Bind, New, CallStatic, Enter
  <2>2. phase = "running" /\ RunInv BY <1>3, <2>1
  <2>3. RunInv' BY <1>1, <1>8, <2>2, CallsKeep, BindStep, NewStep
  <2> QED BY <1>2, <2>1, <2>2, <2>3
<1>9. ASSUME NEW v \in values, NEW f \in functions, CallMethod(v, f) PROVE EnvInv'
  <2>1. Running /\ UNCHANGED resolverVars BY <1>9, Zenon DEF CallMethod
  <2>2. phase = "running" /\ RunInv BY <1>3, <2>1
  <2>3. RunInv' BY <1>1, <1>9, <2>2, MethodStep
  <2> QED BY <1>2, <2>1, <2>2, <2>3
<1>10. ASSUME NEW v \in Callable, CallValue(v) \/ CallBack(v) \/ ReturnClosure(v) PROVE EnvInv'
  <2>0. v \in values BY DEF Callable
  <2>1. Running /\ UNCHANGED resolverVars
    <3>1. CASE CallValue(v) BY <3>1, Zenon DEF CallValue, Enter
    <3>2. CASE CallBack(v) BY <3>2, Zenon DEF CallBack, Enter
    <3>3. CASE ReturnClosure(v) BY <3>3, Zenon DEF ReturnClosure, Leave
    <3> QED BY <1>10, <3>1, <3>2, <3>3
  <2>2. phase = "running" /\ RunInv BY <1>3, <2>1
  <2>3. RunInv' BY <1>10, <2>0, <2>2, ValueCallsKeep, ReturnClosureStep
  <2> QED BY <1>2, <2>1, <2>2, <2>3
<1>11. CASE Return
  <2>1. Running /\ UNCHANGED resolverVars BY <1>11, Zenon DEF Return, Leave
  <2>2. phase = "running" /\ RunInv BY <1>3, <2>1
  <2>3. RunInv' BY <1>11, <2>2, ReturnStep
  <2> QED BY <1>2, <2>1, <2>2, <2>3
<1>12. CASE Halt
  <2>1. Running /\ UNCHANGED resolverVars BY <1>12, Zenon DEF Halt
  <2>2. phase = "running" /\ RunInv BY <1>3, <2>1
  <2>3. RunInv' BY <1>12, <2>2, HaltStep
  <2> QED BY <1>2, <2>1, <2>2, <2>3
<1> QED BY <1>4, <1>5, <1>6, <1>7, <1>8, <1>9, <1>10, <1>11, <1>12 DEF Next

LEMMA EnvInvCounts == EnvInv => EachHolderCounts
<1> SUFFICES ASSUME EnvInv, NEW e \in DOMAIN envs PROVE Holders(e)
  BY DEF EachHolderCounts
<1>1. phase = "running"
  <2>1. CASE phase # "running"
    <3>1. envs = <<>> BY <2>1 DEF EnvInv, Idle
    <3>2. DOMAIN envs = {} BY <3>1
    <3> QED BY <3>2
  <2> QED BY <2>1
<1> DEFINE nb == Len(blueprints)
           c == Cardinality(Children(envs, e))
           a == InFrames(frames, e)
           b == InStore(store, e)
           d == IF e <= nb THEN 1 ELSE 0
<1>2. RunOK(nb, envs, frames, store, values) BY <1>1 DEF EnvInv, RunInv
<1>3. e \in 1 .. Len(envs) BY <1>2, RunFacts
<1>4. /\ envs[e].refs = Held(nb, frames, store, e) + c /\ c \in Nat
      /\ Held(nb, frames, store, e) \in Nat
  BY <1>2, <1>3, RunCounts
<1>5. Held(nb, frames, store, e) = d + a + b BY DEF Held
<1>6. b = Cardinality({i \in DOMAIN FlattenSeq(store) : FlattenSeq(store)[i] = e})
  <2> DEFINE s == FlattenSeq(store)
  <2>1. s \in Seq(1 .. Len(envs)) BY <1>2, FlattenType DEF RunOK
  <2>2. DOMAIN s = 1 .. Len(s) BY <2>1
  <2> HIDE DEF s
  <2>3. Count(s, e) = Cardinality({i \in DOMAIN s : s[i] = e}) BY <2>2 DEF Count
  <2> QED BY <2>3 DEF InStore, s
<1>7. a = Cardinality({i \in DOMAIN frames : frames[i].env = e /\ e # 1}) BY DEF InFrames
<1>8. c = Cardinality({x \in DOMAIN envs : envs[x].refs > 0 /\ envs[x].outer = e}) BY DEF Children
<1>9. envs[e].refs = d + a + b + c BY <1>4, <1>5
<1>10. envs[e].refs >= 0
  <2> HIDE DEF c
  <2> QED BY <1>4
<1> HIDE DEF a, b, c
<1> QED BY <1>6, <1>7, <1>8, <1>9, <1>10 DEF Holders

(* In every state of every script, an environment has one reference for    *)
(* each of its holders: the compiler for those it made, the frames that    *)
(* run over it, the object store, and the living environments inside it.   *)
(* So a call, a function value bound again, a closure that is returned, a  *)
(* callback that ends and the end of the script free an environment when,  *)
(* and only when, its last holder goes (Environment::activate, setOuter,   *)
(* delRef, VM::runFunction, OP_RET, OP_LEAVE, OP_HALT).                    *)
THEOREM CountsFollowHolders == Spec => []EachHolderCounts
<1>1. Init => EnvInv BY EnvInvInit
<1>2. EnvInv /\ [Next]_vars => EnvInv' BY EnvInvStep
<1>3. EnvInv => EachHolderCounts BY EnvInvCounts
<1> QED BY <1>1, <1>2, <1>3, PTL DEF Spec

===============================================================================
