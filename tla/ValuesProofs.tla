------------------------------ MODULE ValuesProofs ------------------------------
(***************************************************************************)
(* Both counts are exact, sharing never shows, and nothing freed is        *)
(* touched, for any number of Values, objects, elements and numbers.       *)
(*                                                                         *)
(* While references are given up the heap is not in order: Owing counts    *)
(* for everything the pointers to it, the slots that hold it and how often *)
(* it is still due to be given up.  DelRefKeeps says that one delRef()     *)
(* keeps that, ReleaseKeeps that all of them come to an end with nothing   *)
(* due (Balanced).  On that rest the lemmas on the methods of Value (what  *)
(* each one Writes and what survives it), on pushValue and append, one     *)
(* lemma for each action, and ValuesInv, the inductive invariant.          *)
(***************************************************************************)
EXTENDS Values, SequenceFacts

USE DEF Val, Obj, NoObj, NoVal

-------------------------------------------------------------------------------
(* The heap. *)
ObjectType == [kind : {"free", "int", "array"}, n : 0 .. Numbers - 1, cells : Seq(Val), rc : Nat]
ValueType  == [obj : {NoObj} \cup Obj, rc : Nat]
HeapType   == [obj : [Obj -> ObjectType], val : [Val -> ValueType], bad : BOOLEAN]

HeapOK(h) ==
  /\ h \in HeapType
  /\ \A o \in Obj : /\ h.obj[o].rc = 0 <=> h.obj[o].kind = "free"
                    /\ h.obj[o].rc = 0 => h.obj[o] = FreeObj
                    /\ Len(h.obj[o].cells) <= MaxSize
  /\ \A v \in Val : h.val[v].rc = 0 => h.val[v] = FreeVal

\* The Values outside M that point to o; the elements that are v.
Pointing(h, M, o) == {v \in Val \ M : h.val[v].obj = o}
Places(h, v) ==
  {c \in Obj \X (1 .. MaxSize) : c[2] <= Len(h.obj[c[1]].cells) /\ h.obj[c[1]].cells[c[2]] = v}

\* What is to be given up.
Refs == {ValueRef(v) : v \in {NoVal} \cup Val} \cup {ObjectRef(o) : o \in {NoObj} \cup Obj}

\* Every count is what points there, what is due and what ev and eo say.
Owing(h, due, M, ev, eo) ==
  /\ \A o \in Obj : h.obj[o].rc = Cardinality(Pointing(h, M, o)) + eo[o] + Count(due, ObjectRef(o))
  /\ \A v \in Val : h.val[v].rc = Cardinality(Places(h, v)) + ev[v] + Count(due, ValueRef(v))

\* From h to g something is given up and nothing else changes.
Spared(h, g) ==
  /\ \A v \in Val : g.val[v].rc > 0 => h.val[v].rc > 0 /\ g.val[v].obj = h.val[v].obj
  /\ \A o \in Obj : g.obj[o].rc > 0 => /\ h.obj[o].rc > 0 /\ g.obj[o].kind = h.obj[o].kind
                                       /\ g.obj[o].n = h.obj[o].n /\ g.obj[o].cells = h.obj[o].cells

LEMMA Bounds ==
  /\ MaxVals \in Nat \ {0} /\ MaxObjs \in Nat \ {0} /\ MaxSize \in Nat \ {0} /\ Numbers \in Nat \ {0}
  BY BoundsAssumption

LEMMA SparedTwice ==
  ASSUME NEW h, NEW g, NEW k, Spared(h, g), Spared(g, k)
  PROVE  Spared(h, k)
  BY DEF Spared

LEMMA SparedSelf ==
  ASSUME NEW h
  PROVE  Spared(h, h)
  BY DEF Spared

LEMMA FreeTypes == FreeObj \in ObjectType /\ FreeVal \in ValueType
<1>1. <<>> \in Seq(Val) /\ 0 \in 0 .. Numbers - 1 /\ 0 \in Nat /\ "free" \in {"free", "int", "array"}
      /\ NoObj \in {NoObj} \cup Obj
  BY Bounds
<1>2. FreeObj \in ObjectType BY <1>1, Zenon DEF FreeObj, ObjectType
<1>3. FreeVal \in ValueType BY <1>1, Zenon DEF FreeVal, ValueType
<1> QED BY <1>2, <1>3

LEMMA Typed ==
  ASSUME NEW h \in HeapType
  PROVE  /\ h.bad \in BOOLEAN
         /\ h.obj \in [Obj -> ObjectType] /\ h.val \in [Val -> ValueType]
         /\ \A o \in Obj : /\ h.obj[o] \in ObjectType
                           /\ h.obj[o].rc \in Nat /\ h.obj[o].cells \in Seq(Val) /\ Len(h.obj[o].cells) \in Nat
                           /\ h.obj[o].n \in 0 .. Numbers - 1 /\ h.obj[o].kind \in {"free", "int", "array"}
         /\ \A v \in Val : /\ h.val[v] \in ValueType
                           /\ h.val[v].rc \in Nat /\ h.val[v].obj \in {NoObj} \cup Obj
<1>1. h.bad \in BOOLEAN /\ h.obj \in [Obj -> ObjectType] /\ h.val \in [Val -> ValueType]
  BY DEF HeapType
<1>2. ASSUME NEW o \in Obj
      PROVE  /\ h.obj[o] \in ObjectType
             /\ h.obj[o].rc \in Nat /\ h.obj[o].cells \in Seq(Val) /\ Len(h.obj[o].cells) \in Nat
             /\ h.obj[o].n \in 0 .. Numbers - 1 /\ h.obj[o].kind \in {"free", "int", "array"}
  <2>1. h.obj[o] \in ObjectType BY <1>1, Zenon
  <2>2. h.obj[o].cells \in Seq(Val) BY <2>1 DEF ObjectType
  <2> QED BY <2>1, <2>2 DEF ObjectType
<1>3. ASSUME NEW v \in Val
      PROVE  h.val[v] \in ValueType /\ h.val[v].rc \in Nat /\ h.val[v].obj \in {NoObj} \cup Obj
  <2>1. h.val[v] \in ValueType BY <1>1, Zenon
  <2> QED BY <2>1 DEF ValueType
<1> QED BY <1>1, <1>2, <1>3

-------------------------------------------------------------------------------
(* Writing one object or one Value. *)
WithObj(h, o, new) == [h EXCEPT !.obj[o] = new]
WithVal(h, v, new) == [h EXCEPT !.val[v] = new]

LEMMA ObjWritten ==
  ASSUME NEW h \in HeapType, NEW o \in Obj, NEW new \in ObjectType
  PROVE  LET g == WithObj(h, o, new)
         IN  /\ g \in HeapType /\ g.val = h.val /\ g.bad = h.bad /\ g.obj[o] = new
             /\ \A q \in Obj : q # o => g.obj[q] = h.obj[q]
             /\ \A q \in Obj : g.obj[q] = IF q = o THEN new ELSE h.obj[q]
<1> DEFINE f == [h.obj EXCEPT ![o] = new]
<1>1. h.obj \in [Obj -> ObjectType] BY Typed
<1>2. f \in [Obj -> ObjectType] /\ \A q \in Obj : f[q] = IF q = o THEN new ELSE h.obj[q]
  BY <1>1
<1>3. WithObj(h, o, new) = [h EXCEPT !.obj = f] BY DEF WithObj
<1> HIDE DEF f
<1>4. [h EXCEPT !.obj = f] \in HeapType BY <1>2 DEF HeapType
<1>5. /\ [h EXCEPT !.obj = f].obj = f /\ [h EXCEPT !.obj = f].val = h.val
      /\ [h EXCEPT !.obj = f].bad = h.bad
  BY DEF HeapType
<1> QED BY <1>2, <1>3, <1>4, <1>5

LEMMA ValWritten ==
  ASSUME NEW h \in HeapType, NEW v \in Val, NEW new \in ValueType
  PROVE  LET g == WithVal(h, v, new)
         IN  /\ g \in HeapType /\ g.obj = h.obj /\ g.bad = h.bad /\ g.val[v] = new
             /\ \A w \in Val : w # v => g.val[w] = h.val[w]
             /\ \A w \in Val : g.val[w] = IF w = v THEN new ELSE h.val[w]
<1> DEFINE f == [h.val EXCEPT ![v] = new]
<1>1. h.val \in [Val -> ValueType] BY Typed
<1>2. f \in [Val -> ValueType] /\ \A w \in Val : f[w] = IF w = v THEN new ELSE h.val[w]
  BY <1>1
<1>3. WithVal(h, v, new) = [h EXCEPT !.val = f] BY DEF WithVal
<1> HIDE DEF f
<1>4. [h EXCEPT !.val = f] \in HeapType BY <1>2 DEF HeapType
<1>5. /\ [h EXCEPT !.val = f].val = f /\ [h EXCEPT !.val = f].obj = h.obj
      /\ [h EXCEPT !.val = f].bad = h.bad
  BY DEF HeapType
<1> QED BY <1>2, <1>3, <1>4, <1>5

\* The fields of what is written.
ObjCount(r, k) == [r EXCEPT !.rc = k]
ObjNumber(r, k) == [r EXCEPT !.n = k]
ObjCells(r, cs) == [r EXCEPT !.cells = cs]
ValCount(r, k) == [r EXCEPT !.rc = k]
ValPointer(r, o) == [r EXCEPT !.obj = o]

LEMMA ObjCountFields ==
  ASSUME NEW r \in ObjectType, NEW k \in Nat
  PROVE  /\ ObjCount(r, k) \in ObjectType /\ ObjCount(r, k).rc = k /\ ObjCount(r, k).kind = r.kind
         /\ ObjCount(r, k).n = r.n /\ ObjCount(r, k).cells = r.cells
  BY DEF ObjectType, ObjCount

LEMMA ObjNumberFields ==
  ASSUME NEW r \in ObjectType, NEW k \in 0 .. Numbers - 1
  PROVE  /\ ObjNumber(r, k) \in ObjectType /\ ObjNumber(r, k).rc = r.rc /\ ObjNumber(r, k).kind = r.kind
         /\ ObjNumber(r, k).n = k /\ ObjNumber(r, k).cells = r.cells
  BY DEF ObjectType, ObjNumber

LEMMA ObjCellsFields ==
  ASSUME NEW r \in ObjectType, NEW cs \in Seq(Val)
  PROVE  /\ ObjCells(r, cs) \in ObjectType /\ ObjCells(r, cs).rc = r.rc /\ ObjCells(r, cs).kind = r.kind
         /\ ObjCells(r, cs).n = r.n /\ ObjCells(r, cs).cells = cs
  BY DEF ObjectType, ObjCells

LEMMA ValFields ==
  ASSUME NEW r \in ValueType
  PROVE  /\ \A k \in Nat : /\ ValCount(r, k) \in ValueType /\ ValCount(r, k).rc = k
                           /\ ValCount(r, k).obj = r.obj
         /\ \A o \in {NoObj} \cup Obj :
              /\ ValPointer(r, o) \in ValueType /\ ValPointer(r, o).rc = r.rc
              /\ ValPointer(r, o).obj = o
  BY DEF ValueType, ValCount, ValPointer

LEMMA Rewritten ==
  ASSUME NEW h \in HeapType
  PROVE  /\ \A o \in Obj : /\ \A k : [h EXCEPT !.obj[o].rc = k] = WithObj(h, o, ObjCount(h.obj[o], k))
                           /\ \A k : [h EXCEPT !.obj[o].n = k] = WithObj(h, o, ObjNumber(h.obj[o], k))
                           /\ \A k : [h EXCEPT !.obj[o].cells = k] = WithObj(h, o, ObjCells(h.obj[o], k))
                           /\ \A k : [h EXCEPT !.obj[o] = k] = WithObj(h, o, k)
                           /\ [h EXCEPT !.obj[o].rc = @ - 1] = WithObj(h, o, ObjCount(h.obj[o], h.obj[o].rc - 1))
                           /\ [h EXCEPT !.obj[o].rc = @ + 1] = WithObj(h, o, ObjCount(h.obj[o], h.obj[o].rc + 1))
         /\ \A v \in Val : /\ \A k : [h EXCEPT !.val[v].rc = k] = WithVal(h, v, ValCount(h.val[v], k))
                           /\ \A k : [h EXCEPT !.val[v].obj = k] = WithVal(h, v, ValPointer(h.val[v], k))
                           /\ \A k : [h EXCEPT !.val[v] = k] = WithVal(h, v, k)
                           /\ [h EXCEPT !.val[v].rc = @ - 1] = WithVal(h, v, ValCount(h.val[v], h.val[v].rc - 1))
                           /\ [h EXCEPT !.val[v].rc = @ + 1] = WithVal(h, v, ValCount(h.val[v], h.val[v].rc + 1))
  BY Zenon DEF WithObj, WithVal, ObjCount, ObjNumber, ObjCells, ValCount, ValPointer

-------------------------------------------------------------------------------
(* Counting who points where. *)
LEMMA PointingFinite ==
  ASSUME NEW h, NEW M, NEW o
  PROVE  IsFiniteSet(Pointing(h, M, o)) /\ Cardinality(Pointing(h, M, o)) \in Nat
<1>1. Pointing(h, M, o) \subseteq 1 .. MaxVals BY DEF Pointing
<1> QED BY <1>1, Bounds, FiniteIndexes

LEMMA PlacesFinite ==
  ASSUME NEW h, NEW v
  PROVE  IsFiniteSet(Places(h, v)) /\ Cardinality(Places(h, v)) \in Nat
<1>1. IsFiniteSet(Obj) /\ IsFiniteSet(1 .. MaxSize) BY Bounds, FS_Interval
<1>2. IsFiniteSet(Obj \X (1 .. MaxSize)) BY <1>1, FS_Product, Zenon
<1>3. Places(h, v) \in SUBSET (Obj \X (1 .. MaxSize)) BY DEF Places
<1> HIDE DEF Obj
<1>4. IsFiniteSet(Places(h, v)) BY <1>2, <1>3, FS_Subset
<1> QED BY <1>4, FS_CardinalityType

LEMMA SamePointing ==
  ASSUME NEW h, NEW g, NEW M, NEW o, \A v \in Val \ M : g.val[v].obj = h.val[v].obj
  PROVE  Pointing(g, M, o) = Pointing(h, M, o)
  BY DEF Pointing

\* v, which pointed to p, does not count any longer; or it does now.
LEMMA PointerLess ==
  ASSUME NEW h, NEW g, NEW M, NEW N, NEW v \in Val \ M, NEW o,
         \A w \in Val \ M : w # v => w \notin N /\ g.val[w].obj = h.val[w].obj,
         M \subseteq N, v \in N \/ g.val[v].obj # o
  PROVE  Cardinality(Pointing(h, M, o))
           = Cardinality(Pointing(g, N, o)) + (IF h.val[v].obj = o THEN 1 ELSE 0)
<1> DEFINE P == Pointing(h, M, o)
<1>1. IsFiniteSet(P) /\ Cardinality(P) \in Nat BY PointingFinite
<1>2. Pointing(g, N, o) = P \ {v} BY DEF Pointing
<1>3. v \in P <=> h.val[v].obj = o BY DEF Pointing
<1> HIDE DEF P
<1>4. Cardinality(P \ {v}) = IF v \in P THEN Cardinality(P) - 1 ELSE Cardinality(P)
  BY <1>1, FS_RemoveElement
<1> QED BY <1>1, <1>2, <1>3, <1>4 DEF P

\* h and g have the same pointers, that of v aside.
PointersAgree(h, g, v) == \A w \in Val : w # v => g.val[w].obj = h.val[w].obj

LEMMA PointerMasked ==
  ASSUME NEW h, NEW g, NEW v \in Val, NEW o, PointersAgree(h, g, v)
  PROVE  /\ h.val[v].obj = o => Cardinality(Pointing(h, {}, o)) = Cardinality(Pointing(g, {v}, o)) + 1
         /\ h.val[v].obj # o => Cardinality(Pointing(h, {}, o)) = Cardinality(Pointing(g, {v}, o))
<1> DEFINE P == Pointing(h, {}, o)
<1>1. IsFiniteSet(P) /\ Cardinality(P) \in Nat BY PointingFinite
<1>2. Pointing(g, {v}, o) = P \ {v} BY DEF Pointing, PointersAgree
<1>3. v \in P <=> h.val[v].obj = o BY DEF Pointing
<1> HIDE DEF P
<1>4. Cardinality(P \ {v}) = IF v \in P THEN Cardinality(P) - 1 ELSE Cardinality(P)
  BY <1>1, FS_RemoveElement
<1>5. /\ h.val[v].obj = o => Cardinality(P) = Cardinality(P \ {v}) + 1
      /\ h.val[v].obj # o => Cardinality(P) = Cardinality(P \ {v})
  BY <1>1, <1>3, <1>4
<1> QED BY <1>2, <1>5, Zenon DEF P

LEMMA SamePlaces ==
  ASSUME NEW h, NEW g, NEW v, \A o \in Obj : g.obj[o].cells = h.obj[o].cells
  PROVE  Places(g, v) = Places(h, v)
<1>1. ASSUME NEW c \in Obj \X (1 .. MaxSize) PROVE g.obj[c[1]].cells = h.obj[c[1]].cells
  OBVIOUS
<1> QED BY <1>1, Zenon DEF Places

PlacesOutside(h, o, v) == {c \in Places(h, v) : c[1] # o}

LEMMA PlacesSplit ==
  ASSUME NEW h, NEW o \in Obj, NEW v, h.obj[o].cells \in Seq(Val), Len(h.obj[o].cells) <= MaxSize
  PROVE  /\ Cardinality(Places(h, v))
              = Cardinality(PlacesOutside(h, o, v)) + Count(h.obj[o].cells, v)
         /\ Cardinality(PlacesOutside(h, o, v)) \in Nat
<1> DEFINE s == h.obj[o].cells
           A == {i \in 1 .. Len(s) : s[i] = v}
           B == {c \in Places(h, v) : c[1] = o}
           f == [i \in A |-> <<o, i>>]
<1>1. IsFiniteSet(A)
  <2>1. A \subseteq 1 .. Len(s) /\ Len(s) \in Nat OBVIOUS
  <2> QED BY <2>1, FiniteIndexes
<1>2. f \in [A -> B]
  <2>1. ASSUME NEW i \in A PROVE <<o, i>> \in B
    <3>1. i \in 1 .. MaxSize /\ i <= Len(s) /\ s[i] = v BY Bounds
    <3>2. <<o, i>> \in Obj \X (1 .. MaxSize) BY <3>1
    <3>3. <<o, i>>[1] = o /\ <<o, i>>[2] = i OBVIOUS
    <3> QED BY <3>1, <3>2, <3>3 DEF Places
  <2> QED BY <2>1
<1>3. \A a, b \in A : f[a] = f[b] => a = b OBVIOUS
<1>4. ASSUME NEW c \in B PROVE \E a \in A : f[a] = c
  <2>1. c \in Obj \X (1 .. MaxSize) /\ c[1] = o /\ c[2] <= Len(s) /\ s[c[2]] = v
    BY DEF Places
  <2>2. c = <<o, c[2]>> /\ c[2] \in 1 .. MaxSize BY <2>1
  <2>3. c[2] \in A BY <2>1, <2>2, Bounds
  <2> QED BY <2>2, <2>3
<1>5. IsFiniteSet(B) /\ Cardinality(B) = Cardinality(A)
  <2> HIDE DEF A, B, f
  <2> QED BY <1>1, <1>2, <1>3, <1>4, SameSize
<1>6. IsFiniteSet(PlacesOutside(h, o, v)) /\ Cardinality(PlacesOutside(h, o, v)) \in Nat
  <2>1. PlacesOutside(h, o, v) \in SUBSET Places(h, v) BY DEF PlacesOutside
  <2>2. IsFiniteSet(PlacesOutside(h, o, v)) BY <2>1, PlacesFinite, FS_Subset
  <2> QED BY <2>2, FS_CardinalityType
<1>7. Places(h, v) = PlacesOutside(h, o, v) \cup B /\ PlacesOutside(h, o, v) \cap B = {}
  BY DEF PlacesOutside
<1> HIDE DEF B
<1>8. Cardinality(Places(h, v)) = Cardinality(PlacesOutside(h, o, v)) + Cardinality(B)
  BY <1>5, <1>6, <1>7, DisjointUnion
<1>9. Cardinality(A) = Count(s, v) BY DEF Count
<1> QED BY <1>5, <1>6, <1>8, <1>9

\* h and g have the same elements, those of o aside.
CellsAgree(h, g, o) == \A q \in Obj : q # o => g.obj[q].cells = h.obj[q].cells

LEMMA CellsChange ==
  ASSUME NEW h, NEW g, NEW o \in Obj, NEW v,
         HeapOK(h), HeapOK(g), CellsAgree(h, g, o)
  PROVE  Cardinality(Places(h, v)) + Count(g.obj[o].cells, v)
           = Cardinality(Places(g, v)) + Count(h.obj[o].cells, v)
<1>0. /\ h.obj[o].cells \in Seq(Val) /\ Len(h.obj[o].cells) <= MaxSize
      /\ g.obj[o].cells \in Seq(Val) /\ Len(g.obj[o].cells) <= MaxSize
  BY Typed DEF HeapOK
<1>1. PlacesOutside(h, o, v) = PlacesOutside(g, o, v)
  <2>1. ASSUME NEW c \in Obj \X (1 .. MaxSize), c[1] # o PROVE g.obj[c[1]].cells = h.obj[c[1]].cells
    BY <2>1 DEF CellsAgree
  <2> QED BY <2>1, Zenon DEF PlacesOutside, Places
<1>2. /\ Cardinality(Places(h, v)) = Cardinality(PlacesOutside(h, o, v)) + Count(h.obj[o].cells, v)
      /\ Cardinality(PlacesOutside(h, o, v)) \in Nat
  BY <1>0, PlacesSplit
<1>3. Cardinality(Places(g, v)) = Cardinality(PlacesOutside(g, o, v)) + Count(g.obj[o].cells, v)
  BY <1>0, PlacesSplit
<1>4. Count(h.obj[o].cells, v) \in Nat /\ Count(g.obj[o].cells, v) \in Nat
  BY <1>0, CountType
<1> QED BY <1>1, <1>2, <1>3, <1>4

-------------------------------------------------------------------------------
(* Giving up one reference. *)
LEMMA RefFacts ==
  /\ \A v : ValueRef(v)[1] = "value" /\ ValueRef(v)[2] = v
  /\ \A o : ObjectRef(o)[1] = "object" /\ ObjectRef(o)[2] = o
  /\ \A v, w : ValueRef(v) = ValueRef(w) => v = w
  /\ \A v, w : ObjectRef(v) = ObjectRef(w) => v = w
  /\ \A v, w : ValueRef(v) # ObjectRef(w)
  BY DEF ValueRef, ObjectRef

LEMMA RefsAre ==
  /\ \A v \in {NoVal} \cup Val : ValueRef(v) \in Refs
  /\ \A o \in {NoObj} \cup Obj : ObjectRef(o) \in Refs
  BY DEF Refs

LEMMA CountFirst ==
  ASSUME NEW a \in Refs, NEW rest \in Seq(Refs), NEW x
  PROVE  /\ Count(<<a>> \o rest, x) = (IF a = x THEN 1 ELSE 0) + Count(rest, x)
         /\ Count(rest, x) \in Nat
<1>1. <<a>> \in Seq(Refs) OBVIOUS
<1>2. Count(<<a>> \o rest, x) = Count(<<a>>, x) + Count(rest, x)
  BY <1>1, CountConcat
<1> QED BY <1>2, CountOne, CountType, Zenon

LiveVals(h) == {v \in Val : h.val[v].rc # 0}
LiveObjs(h) == {o \in Obj : h.obj[o].rc # 0}
Work(h) == Cardinality(LiveVals(h)) + MaxSize * Cardinality(LiveObjs(h))

LEMMA LiveFinite ==
  ASSUME NEW h
  PROVE  /\ IsFiniteSet(LiveVals(h)) /\ Cardinality(LiveVals(h)) \in Nat /\ Cardinality(LiveVals(h)) <= MaxVals
         /\ IsFiniteSet(LiveObjs(h)) /\ Cardinality(LiveObjs(h)) \in Nat /\ Cardinality(LiveObjs(h)) <= MaxObjs
<1>1. IsFiniteSet(1 .. MaxVals) /\ Cardinality(1 .. MaxVals) = MaxVals
      /\ IsFiniteSet(1 .. MaxObjs) /\ Cardinality(1 .. MaxObjs) = MaxObjs
  BY Bounds, FS_Interval
<1>2. LiveVals(h) \in SUBSET (1 .. MaxVals) /\ LiveObjs(h) \in SUBSET (1 .. MaxObjs)
  BY DEF LiveVals, LiveObjs
<1> QED BY <1>1, <1>2, FS_Subset, FS_CardinalityType

\* What DelVal and DelObj keep of the heap, and what they leave.
Kept(h, left, rest, M, ev, eo) ==
  /\ HeapOK(left.heap) /\ ~left.heap.bad
  /\ left.due \in Seq(Refs)
  /\ Owing(left.heap, left.due \o rest, M, ev, eo)
  /\ Spared(h, left.heap)
  /\ Work(left.heap) + Len(left.due) <= Work(h)

LEMMA DelNothing ==
  ASSUME NEW h, HeapOK(h), ~h.bad, NEW a \in Refs, NEW rest \in Seq(Refs), NEW M, NEW ev, NEW eo,
         a = ValueRef(NoVal) \/ a = ObjectRef(NoObj),
         Owing(h, <<a>> \o rest, M, ev, eo)
  PROVE  Kept(h, [heap |-> h, due |-> <<>>], rest, M, ev, eo)
<1> DEFINE left == [heap |-> h, due |-> <<>>]
<1>1. left.heap = h /\ left.due = <<>> /\ left.due \in Seq(Refs) /\ left.due \o rest = rest
      /\ Len(left.due) = 0
  OBVIOUS
<1>2. \A x : Count(<<a>> \o rest, x) = (IF a = x THEN 1 ELSE 0) + Count(rest, x) /\ Count(rest, x) \in Nat
  BY CountFirst
<1>3. \A v \in Val : a # ValueRef(v) BY RefFacts
<1>4. \A o \in Obj : a # ObjectRef(o) BY RefFacts
<1>5. Owing(h, rest, M, ev, eo)
  <2>1. \A o \in Obj : Count(<<a>> \o rest, ObjectRef(o)) = Count(rest, ObjectRef(o)) BY <1>2, <1>4
  <2>2. \A v \in Val : Count(<<a>> \o rest, ValueRef(v)) = Count(rest, ValueRef(v)) BY <1>2, <1>3
  <2> QED BY <2>1, <2>2, Zenon DEF Owing
<1>6. Work(h) + 0 <= Work(h)
  <2>1. Work(h) \in Int BY LiveFinite, Bounds DEF Work
  <2> QED BY <2>1
<1> HIDE DEF left
<1> QED BY <1>1, <1>5, <1>6, SparedSelf DEF Kept, left

\* A Value that others hold too.
LEMMA DelHeldVal ==
  ASSUME NEW h, HeapOK(h), ~h.bad, NEW v \in Val, NEW rest \in Seq(Refs), NEW M \in SUBSET Val,
         NEW ev \in [Val -> Nat], NEW eo \in [Obj -> Nat],
         Owing(h, <<ValueRef(v)>> \o rest, M, ev, eo), h.val[v].rc > 1
  PROVE  Kept(h, [heap |-> [h EXCEPT !.val[v].rc = @ - 1], due |-> <<>>], rest, M, ev, eo)
<1> DEFINE g == [h EXCEPT !.val[v].rc = @ - 1]
           left == [heap |-> g, due |-> <<>>]
           c == ValCount(h.val[v], h.val[v].rc - 1)
<1>0. h \in HeapType BY DEF HeapOK
<1>1. left.heap = g /\ left.due = <<>> /\ left.due \in Seq(Refs) /\ left.due \o rest = rest
      /\ Len(left.due) = 0
  OBVIOUS
<1>2. g = WithVal(h, v, c) BY <1>0, Rewritten, Zenon
<1>3. /\ c \in ValueType /\ c.rc = h.val[v].rc - 1 /\ c.obj = h.val[v].obj
  <2>1. h.val[v] \in ValueType /\ h.val[v].rc - 1 \in Nat BY <1>0, Typed
  <2> QED BY <2>1, ValFields
<1> HIDE DEF c, g
<1>4. /\ g \in HeapType /\ g.obj = h.obj /\ g.bad = h.bad
      /\ \A w \in Val : g.val[w] = IF w = v THEN c ELSE h.val[w]
  BY <1>0, <1>2, <1>3, ValWritten
<1>5. HeapOK(g) BY <1>0, <1>3, <1>4, Typed DEF HeapOK
<1>6. Spared(h, g) BY <1>0, <1>3, <1>4, Typed DEF Spared
<1>7. \A x : Count(<<ValueRef(v)>> \o rest, x) = (IF ValueRef(v) = x THEN 1 ELSE 0) + Count(rest, x)
             /\ Count(rest, x) \in Nat
  BY CountFirst, RefsAre
<1>8. Owing(g, rest, M, ev, eo)
  <2>1. ASSUME NEW o \in Obj
        PROVE  g.obj[o].rc = Cardinality(Pointing(g, M, o)) + eo[o] + Count(rest, ObjectRef(o))
    <3>1. Pointing(g, M, o) = Pointing(h, M, o) BY <1>3, <1>4, SamePointing
    <3>2. Count(<<ValueRef(v)>> \o rest, ObjectRef(o)) = Count(rest, ObjectRef(o)) BY <1>7, RefFacts
    <3> QED BY <1>4, <3>1, <3>2 DEF Owing
  <2>2. ASSUME NEW w \in Val
        PROVE  g.val[w].rc = Cardinality(Places(g, w)) + ev[w] + Count(rest, ValueRef(w))
    <3>1. Places(g, w) = Places(h, w) BY <1>4, SamePlaces
    <3>2. Count(<<ValueRef(v)>> \o rest, ValueRef(w)) = (IF v = w THEN 1 ELSE 0) + Count(rest, ValueRef(w))
      BY <1>7, RefFacts
    <3>3. h.val[w].rc = Cardinality(Places(h, w)) + ev[w] + Count(<<ValueRef(v)>> \o rest, ValueRef(w))
      BY DEF Owing
    <3>4. Cardinality(Places(h, w)) \in Nat /\ Count(rest, ValueRef(w)) \in Nat /\ ev[w] \in Nat
      BY PlacesFinite, <1>7
    <3> QED BY <1>3, <1>4, <3>1, <3>2, <3>3, <3>4
  <2> QED BY <2>1, <2>2 DEF Owing
<1>9. Work(g) + 0 <= Work(h)
  <2>1. LiveVals(g) = LiveVals(h) BY <1>3, <1>4, <1>0, Typed DEF LiveVals
  <2>2. LiveObjs(g) = LiveObjs(h) BY <1>4 DEF LiveObjs
  <2>3. Work(g) = Work(h) BY <2>1, <2>2 DEF Work
  <2>4. Work(h) \in Int BY LiveFinite, Bounds DEF Work
  <2> QED BY <2>3, <2>4
<1>10. ~g.bad BY <1>4
<1> HIDE DEF left
<1>11. Kept(h, left, rest, M, ev, eo) BY <1>1, <1>5, <1>6, <1>8, <1>9, <1>10 DEF Kept
<1> QED BY <1>11 DEF left, g

\* An object that others hold too.
LEMMA DelHeldObj ==
  ASSUME NEW h, HeapOK(h), ~h.bad, NEW o \in Obj, NEW rest \in Seq(Refs), NEW M \in SUBSET Val,
         NEW ev \in [Val -> Nat], NEW eo \in [Obj -> Nat],
         Owing(h, <<ObjectRef(o)>> \o rest, M, ev, eo), h.obj[o].rc > 1
  PROVE  Kept(h, [heap |-> [h EXCEPT !.obj[o].rc = @ - 1], due |-> <<>>], rest, M, ev, eo)
<1> DEFINE g == [h EXCEPT !.obj[o].rc = @ - 1]
           left == [heap |-> g, due |-> <<>>]
           c == ObjCount(h.obj[o], h.obj[o].rc - 1)
<1>0. h \in HeapType BY DEF HeapOK
<1>1. left.heap = g /\ left.due = <<>> /\ left.due \in Seq(Refs) /\ left.due \o rest = rest
      /\ Len(left.due) = 0
  OBVIOUS
<1>2. g = WithObj(h, o, c) BY <1>0, Rewritten, Zenon
<1>3. /\ c \in ObjectType /\ c.rc = h.obj[o].rc - 1 /\ c.kind = h.obj[o].kind
      /\ c.n = h.obj[o].n /\ c.cells = h.obj[o].cells
  <2>1. h.obj[o] \in ObjectType /\ h.obj[o].rc - 1 \in Nat BY <1>0, Typed
  <2> DEFINE r == h.obj[o]
             k == h.obj[o].rc - 1
  <2>2. c = ObjCount(r, k) /\ r \in ObjectType /\ k \in Nat BY <2>1
  <2> HIDE DEF c, r, k
  <2>3. /\ ObjCount(r, k) \in ObjectType /\ ObjCount(r, k).rc = k /\ ObjCount(r, k).kind = r.kind
        /\ ObjCount(r, k).n = r.n /\ ObjCount(r, k).cells = r.cells
    BY <2>2, ObjCountFields
  <2> QED BY <2>2, <2>3 DEF r, k
<1> HIDE DEF c, g
<1>4. /\ g \in HeapType /\ g.val = h.val /\ g.bad = h.bad
      /\ \A q \in Obj : g.obj[q] = IF q = o THEN c ELSE h.obj[q]
  BY <1>0, <1>2, <1>3, ObjWritten
<1>5. HeapOK(g)
  <2>1. c.rc # 0 /\ c.kind # "free" /\ Len(c.cells) <= MaxSize BY <1>0, <1>3, Typed DEF HeapOK
  <2>2. \A q \in Obj : q # o => g.obj[q] = h.obj[q] BY <1>4
  <2>3. g.obj[o] = c BY <1>4
  <2> QED BY <1>4, <2>1, <2>2, <2>3 DEF HeapOK
<1>6. Spared(h, g)
  <2>1. h.obj[o].rc > 0 BY <1>0, Typed
  <2> QED BY <1>3, <1>4, <2>1 DEF Spared
<1>7. \A x : Count(<<ObjectRef(o)>> \o rest, x) = (IF ObjectRef(o) = x THEN 1 ELSE 0) + Count(rest, x)
             /\ Count(rest, x) \in Nat
  BY CountFirst, RefsAre
<1>8. Owing(g, rest, M, ev, eo)
  <2>1. ASSUME NEW q \in Obj
        PROVE  g.obj[q].rc = Cardinality(Pointing(g, M, q)) + eo[q] + Count(rest, ObjectRef(q))
    <3>1. Pointing(g, M, q) = Pointing(h, M, q) BY <1>4, SamePointing
    <3>2. Count(<<ObjectRef(o)>> \o rest, ObjectRef(q)) = (IF o = q THEN 1 ELSE 0) + Count(rest, ObjectRef(q))
      BY <1>7, RefFacts
    <3>3. h.obj[q].rc = Cardinality(Pointing(h, M, q)) + eo[q] + Count(<<ObjectRef(o)>> \o rest, ObjectRef(q))
      BY DEF Owing
    <3>4. Cardinality(Pointing(h, M, q)) \in Nat /\ Count(rest, ObjectRef(q)) \in Nat /\ eo[q] \in Nat
      BY PointingFinite, <1>7
    <3> QED BY <1>3, <1>4, <3>1, <3>2, <3>3, <3>4
  <2>2. ASSUME NEW w \in Val
        PROVE  g.val[w].rc = Cardinality(Places(g, w)) + ev[w] + Count(rest, ValueRef(w))
    <3>1. Places(g, w) = Places(h, w) BY <1>3, <1>4, SamePlaces
    <3>2. Count(<<ObjectRef(o)>> \o rest, ValueRef(w)) = Count(rest, ValueRef(w)) BY <1>7, RefFacts
    <3> QED BY <1>4, <3>1, <3>2 DEF Owing
  <2> QED BY <2>1, <2>2 DEF Owing
<1>9. Work(g) + 0 <= Work(h)
  <2>a. g.obj[o].rc # 0 /\ h.obj[o].rc # 0 BY <1>3, <1>4, <1>0, Typed
  <2>1. LiveObjs(g) = LiveObjs(h) BY <1>4, <2>a DEF LiveObjs
  <2>2. LiveVals(g) = LiveVals(h) BY <1>4 DEF LiveVals
  <2>3. Work(g) = Work(h) BY <2>1, <2>2 DEF Work
  <2>4. Work(h) \in Int BY LiveFinite, Bounds DEF Work
  <2> QED BY <2>3, <2>4
<1>10. ~g.bad BY <1>4
<1> HIDE DEF left
<1>11. Kept(h, left, rest, M, ev, eo) BY <1>1, <1>5, <1>6, <1>8, <1>9, <1>10 DEF Kept
<1> QED BY <1>11 DEF left, g

\* A Value that nobody else holds: its object is given up next.
LEMMA DelLastVal ==
  ASSUME NEW h, HeapOK(h), ~h.bad, NEW v \in Val, NEW rest \in Seq(Refs), NEW M \in SUBSET Val,
         NEW ev \in [Val -> Nat], NEW eo \in [Obj -> Nat], \A w \in M : ev[w] >= 1,
         Owing(h, <<ValueRef(v)>> \o rest, M, ev, eo), h.val[v].rc = 1
  PROVE  Kept(h, [heap |-> [h EXCEPT !.val[v] = FreeVal], due |-> <<ObjectRef(h.val[v].obj)>>],
              rest, M, ev, eo)
<1> DEFINE g == [h EXCEPT !.val[v] = FreeVal]
           p == h.val[v].obj
           left == [heap |-> g, due |-> <<ObjectRef(p)>>]
<1>0. h \in HeapType BY DEF HeapOK
<1>1. left.heap = g /\ left.due = <<ObjectRef(p)>> /\ Len(left.due) = 1
  OBVIOUS
<1>p. p \in {NoObj} \cup Obj /\ ObjectRef(p) \in Refs /\ <<ObjectRef(p)>> \in Seq(Refs)
  BY <1>0, Typed, RefsAre
<1>2. g = WithVal(h, v, FreeVal) BY Zenon DEF WithVal
<1> HIDE DEF g
<1>4. /\ g \in HeapType /\ g.obj = h.obj /\ g.bad = h.bad
      /\ \A w \in Val : g.val[w] = IF w = v THEN FreeVal ELSE h.val[w]
  BY <1>0, <1>2, FreeTypes, ValWritten
<1>f. FreeVal.obj = NoObj /\ FreeVal.rc = 0 BY DEF FreeVal
<1>5. HeapOK(g) BY <1>0, <1>4, <1>f, Typed DEF HeapOK
<1>6. Spared(h, g) BY <1>0, <1>4, <1>f, Typed DEF Spared
<1>7. \A x : Count(<<ValueRef(v)>> \o rest, x) = (IF ValueRef(v) = x THEN 1 ELSE 0) + Count(rest, x)
             /\ Count(rest, x) \in Nat
  BY CountFirst, RefsAre
<1>b. \A x : Count(<<ObjectRef(p)>> \o rest, x) = (IF ObjectRef(p) = x THEN 1 ELSE 0) + Count(rest, x)
  BY <1>p, CountFirst
<1>v. v \notin M /\ Cardinality(Places(h, v)) + ev[v] + Count(rest, ValueRef(v)) = 0
  <2>1. Count(<<ValueRef(v)>> \o rest, ValueRef(v)) = 1 + Count(rest, ValueRef(v)) BY <1>7
  <2>2. h.val[v].rc = Cardinality(Places(h, v)) + ev[v] + Count(<<ValueRef(v)>> \o rest, ValueRef(v))
    BY DEF Owing
  <2>3. Cardinality(Places(h, v)) \in Nat /\ Count(rest, ValueRef(v)) \in Nat /\ ev[v] \in Nat
    BY PlacesFinite, <1>7
  <2> QED BY <2>1, <2>2, <2>3
<1> HIDE DEF p
<1>8. Owing(g, <<ObjectRef(p)>> \o rest, M, ev, eo)
  <2>1. ASSUME NEW q \in Obj
        PROVE  g.obj[q].rc = Cardinality(Pointing(g, M, q)) + eo[q] + Count(<<ObjectRef(p)>> \o rest, ObjectRef(q))
    <3>1. Cardinality(Pointing(h, M, q)) = Cardinality(Pointing(g, M, q)) + (IF p = q THEN 1 ELSE 0)
      <4>1. \A w \in Val \ M : w # v => w \notin M /\ g.val[w].obj = h.val[w].obj BY <1>4
      <4>2. g.val[v].obj # q BY <1>4, <1>f
      <4>3. v \in Val \ M BY <1>v
      <4> QED BY <4>1, <4>2, <4>3, PointerLess DEF p
    <3>2. Count(<<ValueRef(v)>> \o rest, ObjectRef(q)) = Count(rest, ObjectRef(q)) BY <1>7, RefFacts
    <3>3. Count(<<ObjectRef(p)>> \o rest, ObjectRef(q)) = (IF p = q THEN 1 ELSE 0) + Count(rest, ObjectRef(q))
      BY <1>b, RefFacts
    <3>4. h.obj[q].rc = Cardinality(Pointing(h, M, q)) + eo[q] + Count(<<ValueRef(v)>> \o rest, ObjectRef(q))
      BY DEF Owing
    <3>5. Cardinality(Pointing(g, M, q)) \in Nat /\ Count(rest, ObjectRef(q)) \in Nat /\ eo[q] \in Nat
      BY PointingFinite, <1>7
    <3> QED BY <1>4, <3>1, <3>2, <3>3, <3>4, <3>5
  <2>2. ASSUME NEW w \in Val
        PROVE  g.val[w].rc = Cardinality(Places(g, w)) + ev[w] + Count(<<ObjectRef(p)>> \o rest, ValueRef(w))
    <3>1. Places(g, w) = Places(h, w) BY <1>4, SamePlaces
    <3>2. Count(<<ValueRef(v)>> \o rest, ValueRef(w)) = (IF v = w THEN 1 ELSE 0) + Count(rest, ValueRef(w))
      BY <1>7, RefFacts
    <3>3. Count(<<ObjectRef(p)>> \o rest, ValueRef(w)) = Count(rest, ValueRef(w)) BY <1>7, <1>b, RefFacts
    <3>4. h.val[w].rc = Cardinality(Places(h, w)) + ev[w] + Count(<<ValueRef(v)>> \o rest, ValueRef(w))
      BY DEF Owing
    <3>5. Cardinality(Places(h, w)) \in Nat /\ Count(rest, ValueRef(w)) \in Nat /\ ev[w] \in Nat
      BY PlacesFinite, <1>7
    <3>6. CASE w = v BY <1>4, <1>f, <1>v, <3>1, <3>3, <3>6
    <3>7. CASE w # v BY <1>4, <3>1, <3>2, <3>3, <3>4, <3>5, <3>7
    <3> QED BY <3>6, <3>7
  <2> QED BY <2>1, <2>2 DEF Owing
<1>9. Work(g) + 1 <= Work(h)
  <2>1. LiveVals(g) = LiveVals(h) \ {v} /\ v \in LiveVals(h) BY <1>4, <1>f, <1>0, Typed DEF LiveVals
  <2>2. Cardinality(LiveVals(g)) = Cardinality(LiveVals(h)) - 1 BY <2>1, LiveFinite, FS_RemoveElement
  <2>3. LiveObjs(g) = LiveObjs(h) BY <1>4 DEF LiveObjs
  <2> DEFINE k == MaxSize * Cardinality(LiveObjs(h))
  <2>4. Cardinality(LiveVals(h)) \in Nat /\ k \in Int BY LiveFinite, Bounds
  <2>5. Work(h) = Cardinality(LiveVals(h)) + k /\ Work(g) = Cardinality(LiveVals(g)) + k BY <2>3 DEF Work
  <2> HIDE DEF k
  <2> QED BY <2>2, <2>4, <2>5
<1>10. ~g.bad BY <1>4
<1> HIDE DEF left
<1>11. Kept(h, left, rest, M, ev, eo) BY <1>1, <1>p, <1>5, <1>6, <1>8, <1>9, <1>10 DEF Kept
<1> QED BY <1>11 DEF left, g, p

\* An object that nobody else holds: its elements are given up next.
LEMMA CountRefs ==
  ASSUME NEW s \in Seq(Val)
  PROVE  LET t == [i \in DOMAIN s |-> ValueRef(s[i])]
         IN  /\ t \in Seq(Refs) /\ Len(t) = Len(s)
             /\ \A v : Count(t, ValueRef(v)) = Count(s, v)
             /\ \A o : Count(t, ObjectRef(o)) = 0
<1> DEFINE t == [i \in 1 .. Len(s) |-> ValueRef(s[i])]
<1>1. DOMAIN s = 1 .. Len(s) /\ Len(s) \in Nat /\ \A i \in 1 .. Len(s) : s[i] \in Val
  BY LenProperties, ElementOfSeq
<1>2. t \in [1 .. Len(s) -> Refs] BY <1>1, RefsAre
<1>3. t \in Seq(Refs) /\ Len(t) = Len(s) BY <1>1, <1>2, FunctionIsSeq
<1>4. \A i \in 1 .. Len(s) : t[i] = ValueRef(s[i]) OBVIOUS
<1> HIDE DEF t
<1>5. ASSUME NEW v PROVE Count(t, ValueRef(v)) = Count(s, v)
  <2>1. {i \in 1 .. Len(t) : t[i] = ValueRef(v)} = {i \in 1 .. Len(s) : s[i] = v}
    BY <1>3, <1>4, RefFacts
  <2> QED BY <2>1 DEF Count
<1>6. ASSUME NEW o PROVE Count(t, ObjectRef(o)) = 0
  <2>1. {i \in 1 .. Len(t) : t[i] = ObjectRef(o)} = {}
    BY <1>3, <1>4, RefFacts
  <2> QED BY <2>1, FS_EmptySet DEF Count
<1> QED BY <1>1, <1>3, <1>5, <1>6 DEF t

LEMMA DelLastObj ==
  ASSUME NEW h, HeapOK(h), ~h.bad, NEW o \in Obj, NEW rest \in Seq(Refs), NEW M \in SUBSET Val,
         NEW ev \in [Val -> Nat], NEW eo \in [Obj -> Nat],
         Owing(h, <<ObjectRef(o)>> \o rest, M, ev, eo), h.obj[o].rc = 1
  PROVE  Kept(h, [heap |-> [h EXCEPT !.obj[o] = FreeObj],
                  due |-> [i \in DOMAIN h.obj[o].cells |-> ValueRef(h.obj[o].cells[i])]],
              rest, M, ev, eo)
<1> DEFINE g == [h EXCEPT !.obj[o] = FreeObj]
           s == h.obj[o].cells
           t == [i \in DOMAIN s |-> ValueRef(s[i])]
           left == [heap |-> g, due |-> t]
<1>0. h \in HeapType BY DEF HeapOK
<1>1. left.heap = g /\ left.due = t
  OBVIOUS
<1>s. s \in Seq(Val) /\ Len(s) <= MaxSize /\ Len(s) \in Nat BY <1>0, Typed DEF HeapOK
<1>2. g = WithObj(h, o, FreeObj) BY Zenon DEF WithObj
<1> HIDE DEF g, s
<1>t. /\ t \in Seq(Refs) /\ Len(t) = Len(s)
      /\ \A v : Count(t, ValueRef(v)) = Count(s, v)
      /\ \A q : Count(t, ObjectRef(q)) = 0
  BY <1>s, CountRefs
<1> HIDE DEF t
<1>4. /\ g \in HeapType /\ g.val = h.val /\ g.bad = h.bad
      /\ \A q \in Obj : g.obj[q] = IF q = o THEN FreeObj ELSE h.obj[q]
  BY <1>0, <1>2, FreeTypes, ObjWritten
<1>f. FreeObj.rc = 0 /\ FreeObj.kind = "free" /\ FreeObj.cells = <<>> /\ Len(FreeObj.cells) = 0
      /\ FreeObj.cells \in Seq(Val)
  BY DEF FreeObj
<1>g. g.obj[o] = FreeObj /\ \A q \in Obj : q # o => g.obj[q] = h.obj[q] BY <1>4
<1>5. HeapOK(g)
  <2>1. Len(FreeObj.cells) <= MaxSize BY <1>f, Bounds
  <2> QED BY <1>4, <1>f, <1>g, <2>1 DEF HeapOK
<1>6. Spared(h, g) BY <1>4, <1>f, <1>g DEF Spared
<1>7. \A x : Count(<<ObjectRef(o)>> \o rest, x) = (IF ObjectRef(o) = x THEN 1 ELSE 0) + Count(rest, x)
             /\ Count(rest, x) \in Nat
  BY CountFirst, RefsAre
<1>b. \A x : Count(t \o rest, x) = Count(t, x) + Count(rest, x)
  BY <1>t, CountConcat
<1>8. Owing(g, t \o rest, M, ev, eo)
  <2>1. ASSUME NEW q \in Obj
        PROVE  g.obj[q].rc = Cardinality(Pointing(g, M, q)) + eo[q] + Count(t \o rest, ObjectRef(q))
    <3>1. Pointing(g, M, q) = Pointing(h, M, q) BY <1>4, SamePointing
    <3>2. Count(<<ObjectRef(o)>> \o rest, ObjectRef(q)) = (IF o = q THEN 1 ELSE 0) + Count(rest, ObjectRef(q))
      BY <1>7, RefFacts
    <3>3. Count(t \o rest, ObjectRef(q)) = Count(rest, ObjectRef(q)) BY <1>b, <1>t, <1>7
    <3>4. h.obj[q].rc = Cardinality(Pointing(h, M, q)) + eo[q] + Count(<<ObjectRef(o)>> \o rest, ObjectRef(q))
      BY DEF Owing
    <3>5. Cardinality(Pointing(h, M, q)) \in Nat /\ Count(rest, ObjectRef(q)) \in Nat /\ eo[q] \in Nat
      BY PointingFinite, <1>7
    <3>6. CASE q = o
      <4>1. g.obj[q].rc = 0 /\ h.obj[q].rc = 1 BY <1>4, <1>f, <3>6
      <4> QED BY <4>1, <3>1, <3>2, <3>3, <3>4, <3>5, <3>6
    <3>7. CASE q # o BY <1>4, <3>1, <3>2, <3>3, <3>4, <3>5, <3>7
    <3> QED BY <3>6, <3>7
  <2>2. ASSUME NEW w \in Val
        PROVE  g.val[w].rc = Cardinality(Places(g, w)) + ev[w] + Count(t \o rest, ValueRef(w))
    <3>1. Cardinality(Places(h, w)) + Count(g.obj[o].cells, w) = Cardinality(Places(g, w)) + Count(s, w)
      <4>1. CellsAgree(h, g, o) BY <1>g DEF CellsAgree
      <4> QED BY <1>5, <4>1, CellsChange DEF s
    <3>2. Count(g.obj[o].cells, w) = 0 BY <1>4, <1>f, CountEmpty
    <3>3. Count(<<ObjectRef(o)>> \o rest, ValueRef(w)) = Count(rest, ValueRef(w)) BY <1>7, RefFacts
    <3>4. Count(t \o rest, ValueRef(w)) = Count(s, w) + Count(rest, ValueRef(w)) BY <1>b, <1>t
    <3>5. h.val[w].rc = Cardinality(Places(h, w)) + ev[w] + Count(<<ObjectRef(o)>> \o rest, ValueRef(w))
      BY DEF Owing
    <3>6. Cardinality(Places(g, w)) \in Nat /\ Cardinality(Places(h, w)) \in Nat
          /\ Count(rest, ValueRef(w)) \in Nat /\ ev[w] \in Nat /\ Count(s, w) \in Nat
      BY PlacesFinite, <1>7, <1>s, CountType
    <3> QED BY <1>4, <3>1, <3>2, <3>3, <3>4, <3>5, <3>6
  <2> QED BY <2>1, <2>2 DEF Owing
<1>9. Work(g) + Len(t) <= Work(h)
  <2>a. g.obj[o].rc = 0 /\ h.obj[o].rc # 0 BY <1>g, <1>f
  <2>1. LiveObjs(g) = LiveObjs(h) \ {o} /\ o \in LiveObjs(h) BY <1>g, <2>a DEF LiveObjs
  <2>2. Cardinality(LiveObjs(g)) = Cardinality(LiveObjs(h)) - 1 BY <2>1, LiveFinite, FS_RemoveElement
  <2>3. LiveVals(g) = LiveVals(h) BY <1>4 DEF LiveVals
  <2> DEFINE a == Cardinality(LiveVals(h))
             b == Cardinality(LiveObjs(h))
  <2>4. a \in Nat /\ b \in Nat BY LiveFinite
  <2>5. Work(h) = a + MaxSize * b /\ Work(g) = a + MaxSize * (b - 1) BY <2>2, <2>3 DEF Work
  <2> HIDE DEF a, b
  <2>6. MaxSize * (b - 1) = MaxSize * b - MaxSize /\ MaxSize * b \in Int BY <2>4, Bounds
  <2> QED BY <2>4, <2>5, <2>6, <1>s, <1>t, Bounds
<1>10. ~g.bad BY <1>4
<1> HIDE DEF left
<1>11. Kept(h, left, rest, M, ev, eo) BY <1>1, <1>t, <1>5, <1>6, <1>8, <1>9, <1>10 DEF Kept
<1> QED BY <1>11 DEF left, g, s, t

LEMMA DelRefKeeps ==
  ASSUME NEW h, HeapOK(h), ~h.bad, NEW a \in Refs, NEW rest \in Seq(Refs), NEW M \in SUBSET Val,
         NEW ev \in [Val -> Nat], NEW eo \in [Obj -> Nat], \A w \in M : ev[w] >= 1,
         Owing(h, <<a>> \o rest, M, ev, eo)
  PROVE  Kept(h, DelRef(h, a), rest, M, ev, eo)
<1>0. h \in HeapType BY DEF HeapOK
<1>1. ASSUME NEW v \in {NoVal} \cup Val, a = ValueRef(v) PROVE Kept(h, DelRef(h, a), rest, M, ev, eo)
  <2>1. DelRef(h, a) = DelVal(h, v)
    <3>1. a[1] = "value" /\ a[2] = v BY <1>1, RefFacts
    <3> QED BY <3>1, Zenon DEF DelRef
  <2>a. Owing(h, <<ValueRef(v)>> \o rest, M, ev, eo) BY <1>1
  <2>2. CASE v = NoVal
    <3>1. DelVal(h, v) = [heap |-> h, due |-> <<>>] BY <2>2 DEF DelVal
    <3> QED BY <1>1, <2>1, <2>2, <3>1, DelNothing
  <2>3. CASE v \in Val
    <3>1. h.val[v].rc \in Nat /\ h.val[v].rc # 0
      <4>1. h.val[v].rc = Cardinality(Places(h, v)) + ev[v] + Count(<<a>> \o rest, ValueRef(v))
        BY <2>3 DEF Owing
      <4>2. Count(<<a>> \o rest, ValueRef(v)) = 1 + Count(rest, ValueRef(v)) /\ Count(rest, ValueRef(v)) \in Nat
        BY <1>1, CountFirst
      <4>3. Cardinality(Places(h, v)) \in Nat /\ ev[v] \in Nat BY <2>3, PlacesFinite
      <4> QED BY <4>1, <4>2, <4>3
    <3>0. v # NoVal BY <2>3, Bounds
    <3>2. CASE h.val[v].rc > 1
      <4>1. DelVal(h, v) = [heap |-> [h EXCEPT !.val[v].rc = @ - 1], due |-> <<>>]
        BY <3>0, <3>1, <3>2 DEF DelVal
      <4>2. Kept(h, [heap |-> [h EXCEPT !.val[v].rc = @ - 1], due |-> <<>>], rest, M, ev, eo)
        BY <2>a, <2>3, <3>2, DelHeldVal
      <4> QED BY <2>1, <4>1, <4>2, Zenon
    <3>3. CASE h.val[v].rc = 1
      <4>1. DelVal(h, v) = [heap |-> [h EXCEPT !.val[v] = FreeVal], due |-> <<ObjectRef(h.val[v].obj)>>]
        BY <3>0, <3>3 DEF DelVal
      <4>2. Kept(h, [heap |-> [h EXCEPT !.val[v] = FreeVal], due |-> <<ObjectRef(h.val[v].obj)>>],
                 rest, M, ev, eo)
        BY <2>a, <2>3, <3>3, DelLastVal
      <4> QED BY <2>1, <4>1, <4>2, Zenon
    <3> QED BY <3>1, <3>2, <3>3
  <2> QED BY <2>2, <2>3
<1>2. ASSUME NEW o \in {NoObj} \cup Obj, a = ObjectRef(o) PROVE Kept(h, DelRef(h, a), rest, M, ev, eo)
  <2>1. DelRef(h, a) = DelObj(h, o)
    <3>1. a[1] = "object" /\ a[2] = o BY <1>2, RefFacts
    <3>2. a[1] # "value" BY <3>1
    <3> QED BY <3>1, <3>2, Zenon DEF DelRef
  <2>a. Owing(h, <<ObjectRef(o)>> \o rest, M, ev, eo) BY <1>2
  <2>2. CASE o = NoObj
    <3>1. DelObj(h, o) = [heap |-> h, due |-> <<>>] BY <2>2 DEF DelObj
    <3> QED BY <1>2, <2>1, <2>2, <3>1, DelNothing
  <2>3. CASE o \in Obj
    <3>1. h.obj[o].rc \in Nat /\ h.obj[o].rc # 0
      <4>1. h.obj[o].rc = Cardinality(Pointing(h, M, o)) + eo[o] + Count(<<a>> \o rest, ObjectRef(o))
        BY <2>3 DEF Owing
      <4>2. Count(<<a>> \o rest, ObjectRef(o)) = 1 + Count(rest, ObjectRef(o)) /\ Count(rest, ObjectRef(o)) \in Nat
        BY <1>2, CountFirst
      <4>3. Cardinality(Pointing(h, M, o)) \in Nat /\ eo[o] \in Nat BY <2>3, PointingFinite
      <4> QED BY <4>1, <4>2, <4>3
    <3>0. o # NoObj BY <2>3, Bounds
    <3>2. CASE h.obj[o].rc > 1
      <4>1. DelObj(h, o) = [heap |-> [h EXCEPT !.obj[o].rc = @ - 1], due |-> <<>>]
        BY <3>0, <3>1, <3>2 DEF DelObj
      <4>2. Kept(h, [heap |-> [h EXCEPT !.obj[o].rc = @ - 1], due |-> <<>>], rest, M, ev, eo)
        BY <2>a, <2>3, <3>2, DelHeldObj
      <4> QED BY <2>1, <4>1, <4>2, Zenon
    <3>3. CASE h.obj[o].rc = 1
      <4>1. DelObj(h, o) = [heap |-> [h EXCEPT !.obj[o] = FreeObj],
                            due |-> [i \in DOMAIN h.obj[o].cells |-> ValueRef(h.obj[o].cells[i])]]
        BY <3>0, <3>3 DEF DelObj
      <4>2. Kept(h, [heap |-> [h EXCEPT !.obj[o] = FreeObj],
                     due |-> [i \in DOMAIN h.obj[o].cells |-> ValueRef(h.obj[o].cells[i])]],
                 rest, M, ev, eo)
        BY <2>a, <2>3, <3>3, DelLastObj
      <4> QED BY <2>1, <4>1, <4>2, Zenon
    <3> QED BY <3>1, <3>2, <3>3
  <2> QED BY <2>2, <2>3
<1>3. (\E v \in {NoVal} \cup Val : a = ValueRef(v)) \/ (\E o \in {NoObj} \cup Obj : a = ObjectRef(o))
  BY Zenon DEF Refs
<1> QED BY <1>1, <1>2, <1>3

-------------------------------------------------------------------------------
(* Giving up all that is due. *)
\* What is left to be done shrinks with every delRef().
Toil(s) == Work(s.heap) + Len(s.due)

\* Giving up what was due in h has come to s; M are the Values being cleaned up.
Underway(h, s, M, ev, eo) ==
  /\ HeapOK(s.heap) /\ ~s.heap.bad
  /\ s.due \in Seq(Refs)
  /\ Owing(s.heap, s.due, M, ev, eo)
  /\ Spared(h, s.heap)

LEMMA ToilType ==
  ASSUME NEW s, s.due \in Seq(Refs)
  PROVE  Toil(s) \in Nat /\ Work(s.heap) \in Nat
<1> DEFINE a == Cardinality(LiveVals(s.heap))
           b == Cardinality(LiveObjs(s.heap))
<1>1. a \in Nat /\ b \in Nat /\ Len(s.due) \in Nat BY LiveFinite
<1>2. Work(s.heap) = a + MaxSize * b BY DEF Work
<1> HIDE DEF a, b
<1>3. MaxSize * b \in Nat BY <1>1, Bounds
<1> QED BY <1>1, <1>2, <1>3 DEF Toil

LEMMA DelFirstKeeps ==
  ASSUME NEW h, NEW s, NEW M \in SUBSET Val,
         NEW ev \in [Val -> Nat], NEW eo \in [Obj -> Nat], \A w \in M : ev[w] >= 1,
         Underway(h, s, M, ev, eo), s.due # <<>>
  PROVE  Underway(h, DelFirst(s), M, ev, eo) /\ Toil(DelFirst(s)) < Toil(s)
<1> DEFINE a == Head(s.due)
           rest == Tail(s.due)
           left == DelRef(s.heap, a)
           t == [heap |-> left.heap, due |-> left.due \o rest]
<1>0. s.due \in Seq(Refs) BY DEF Underway
<1>1. a \in Refs /\ rest \in Seq(Refs) /\ s.due = <<a>> \o rest /\ Len(rest) = Len(s.due) - 1
      /\ Len(s.due) \in Nat
  BY <1>0
<1>2. DelFirst(s) = t BY DEF DelFirst
<1>3. t.heap = left.heap /\ t.due = left.due \o rest OBVIOUS
<1> HIDE DEF a, rest, left, t
<1>4. Kept(s.heap, left, rest, M, ev, eo)
  BY <1>1, DelRefKeeps DEF Underway, left
<1>5. t.due \in Seq(Refs) /\ Len(t.due) = Len(left.due) + Len(rest) /\ Len(left.due) \in Nat
  <2>1. left.due \in Seq(Refs) BY <1>4 DEF Kept
  <2> DEFINE b == left.due
  <2>2. b \in Seq(Refs) BY <2>1
  <2> HIDE DEF b
  <2>3. b \o rest \in Seq(Refs) /\ Len(b \o rest) = Len(b) + Len(rest) /\ Len(b) \in Nat
    BY <1>1, <2>2, ConcatProperties
  <2> QED BY <1>3, <2>3 DEF b
<1>6. Spared(h, t.heap) BY <1>3, <1>4, SparedTwice DEF Kept, Underway
<1>7. Underway(h, t, M, ev, eo) BY <1>3, <1>4, <1>5, <1>6 DEF Underway, Kept
<1>8. Toil(t) < Toil(s)
  <2>1. Work(s.heap) \in Nat /\ Work(t.heap) \in Nat BY <1>0, <1>5, ToilType
  <2>2. Work(t.heap) + Len(left.due) <= Work(s.heap) BY <1>3, <1>4 DEF Kept
  <2> DEFINE i == Work(s.heap)
             j == Work(t.heap)
             k == Len(left.due)
  <2>3. i \in Nat /\ j \in Nat /\ k \in Nat /\ j + k <= i BY <1>5, <2>1, <2>2
  <2>4. Toil(t) = j + (k + Len(rest)) /\ Toil(s) = i + Len(s.due) BY <1>5 DEF Toil
  <2> HIDE DEF i, j, k
  <2> QED BY <1>1, <2>3, <2>4
<1> QED BY <1>2, <1>7, <1>8

\* f is the recursive function of Release(h, due).
Releases(f, h, due, n) ==
  f = [k \in 0 .. n |-> IF k = 0 THEN [heap |-> h, due |-> due] ELSE The({DelFirst(s) : s \in {f[k - 1]}})]

LEMMA TheOnly ==
  ASSUME NEW x
  PROVE  The({x}) = x
  BY DEF The

LEMMA ReleasesExists ==
  ASSUME NEW h, NEW due, NEW n \in Nat
  PROVE  \E f : Releases(f, h, due, n)
<1> DEFINE N == {m \in Nat : \E f : Releases(f, h, due, m)}
<1>1. 0 \in N
  <2>1. Releases([k \in 0 .. 0 |-> [heap |-> h, due |-> due]], h, due, 0) BY DEF Releases
  <2> QED BY <2>1
<1>2. ASSUME NEW m \in Nat, m \in N PROVE m + 1 \in N
  <2>1. PICK f : Releases(f, h, due, m) BY <1>2
  <2> DEFINE g == [k \in 0 .. m + 1 |-> IF k = 0 THEN [heap |-> h, due |-> due]
                                        ELSE The({DelFirst(s) : s \in {f[k - 1]}})]
  <2>2. ASSUME NEW k \in 0 .. m PROVE g[k] = f[k]
    <3>1. k \in 0 .. m + 1 OBVIOUS
    <3> QED BY <2>1, <3>1 DEF Releases
  <2>3. ASSUME NEW k \in 0 .. m + 1
        PROVE  g[k] = IF k = 0 THEN [heap |-> h, due |-> due] ELSE The({DelFirst(s) : s \in {g[k - 1]}})
    <3>1. CASE k = 0 BY <3>1
    <3>2. CASE k # 0
      <4>1. k - 1 \in 0 .. m BY <3>2
      <4>2. g[k - 1] = f[k - 1] BY <2>2, <4>1
      <4>3. g[k] = The({DelFirst(s) : s \in {f[k - 1]}}) BY <3>2
      <4> HIDE DEF g
      <4> QED BY <3>2, <4>2, <4>3
    <3> QED BY <3>1, <3>2
  <2> HIDE DEF g
  <2>4. g = [k \in 0 .. m + 1 |-> g[k]] BY DEF g
  <2>5. Releases(g, h, due, m + 1) BY <2>3, <2>4 DEF Releases
  <2> QED BY <2>5
<1> HIDE DEF N
<1>3. n \in N
  <2>1. Nat \subseteq N BY <1>1, <1>2, NatSetInduction
  <2> QED BY <2>1
<1> QED BY <1>3 DEF N

LEMMA ReleaseIs ==
  ASSUME NEW h, NEW due, MaxDels(due) \in Nat
  PROVE  \E f : Releases(f, h, due, MaxDels(due)) /\ Release(h, due) = f[MaxDels(due)].heap
<1> DEFINE f == CHOOSE f : Releases(f, h, due, MaxDels(due))
<1>1. Releases(f, h, due, MaxDels(due)) BY ReleasesExists
<1>2. Release(h, due) = f[MaxDels(due)].heap BY DEF Release, Releases
<1> QED BY <1>1, <1>2

\* What is due is given up and nothing else: the counts are right without it.
LEMMA ReleaseKeeps ==
  ASSUME NEW h, HeapOK(h), ~h.bad, NEW due \in Seq(Refs), NEW M \in SUBSET Val,
         NEW ev \in [Val -> Nat], NEW eo \in [Obj -> Nat], \A w \in M : ev[w] >= 1,
         Owing(h, due, M, ev, eo)
  PROVE  LET g == Release(h, due)
         IN  HeapOK(g) /\ ~g.bad /\ Owing(g, <<>>, M, ev, eo) /\ Spared(h, g)
<1> DEFINE n == MaxDels(due)
           first == [heap |-> h, due |-> due]
<1>1. n \in Nat /\ Toil(first) \in Nat /\ Toil(first) <= n
  <2> DEFINE a == Cardinality(LiveVals(h))
             b == Cardinality(LiveObjs(h))
  <2>1. a \in Nat /\ b \in Nat /\ a <= MaxVals /\ b <= MaxObjs /\ Len(due) \in Nat BY LiveFinite
  <2>2. n = Len(due) + MaxVals + MaxSize * MaxObjs BY DEF MaxDels
  <2>3. Toil(first) = a + MaxSize * b + Len(due)
    <3>1. first.heap = h /\ first.due = due OBVIOUS
    <3> HIDE DEF first
    <3> QED BY <3>1 DEF Toil, Work
  <2> HIDE DEF a, b, n, first
  <2>4. MaxSize * b \in Nat /\ MaxSize * MaxObjs \in Nat /\ MaxSize * b <= MaxSize * MaxObjs
    <3>1. \A x, y, z \in Nat : x <= y => z * x <= z * y OBVIOUS
    <3> QED BY <2>1, <3>1, Bounds
  <2> DEFINE x == MaxSize * b
             y == MaxSize * MaxObjs
             l == Len(due)
  <2>5. x \in Nat /\ y \in Nat /\ x <= y /\ l \in Nat /\ n = l + MaxVals + y /\ Toil(first) = a + x + l
    BY <2>1, <2>2, <2>3, <2>4
  <2> HIDE DEF x, y, l
  <2> QED BY <2>1, <2>5, Bounds
<1>2. PICK f : Releases(f, h, due, n) /\ Release(h, due) = f[n].heap
  BY <1>1, ReleaseIs
<1> HIDE DEF n
<1>f. /\ f[0] = first
      /\ \A k \in 0 .. n : k # 0 => f[k] = DelFirst(f[k - 1])
  <2>1. 0 \in 0 .. n BY <1>1
  <2>2. f[0] = first BY <1>2, <2>1 DEF Releases
  <2>3. ASSUME NEW k \in 0 .. n, k # 0 PROVE f[k] = DelFirst(f[k - 1])
    <3>1. f[k] = The({DelFirst(s) : s \in {f[k - 1]}}) BY <1>2, <2>3 DEF Releases
    <3>2. {DelFirst(s) : s \in {f[k - 1]}} = {DelFirst(f[k - 1])} OBVIOUS
    <3> QED BY <3>1, <3>2, TheOnly
  <2> QED BY <2>2, <2>3
<1> DEFINE Good(k) == Underway(h, f[k], M, ev, eo) /\ (f[k].due = <<>> \/ Toil(f[k]) + k <= n)
           N == {m \in Nat : m \in 0 .. n => Good(m)}
<1>3. 0 \in N
  <2>1. first.heap = h /\ first.due = due OBVIOUS
  <2>2. Underway(h, first, M, ev, eo) BY <2>1, SparedSelf DEF Underway
  <2> HIDE DEF first
  <2>3. Toil(first) + 0 <= n BY <1>1
  <2>4. Good(0) BY <1>f, <2>2, <2>3
  <2> HIDE DEF Good
  <2> QED BY <2>4
<1>4. ASSUME NEW m \in Nat, m \in N PROVE m + 1 \in N
  <2>1. SUFFICES ASSUME m + 1 \in 0 .. n PROVE Good(m + 1)
    OBVIOUS
  <2>2. f[m + 1] = DelFirst(f[m])
    <3>1. m + 1 # 0 /\ (m + 1) - 1 = m OBVIOUS
    <3> QED BY <1>f, <2>1, <3>1
  <2>3. Good(m) BY <1>1, <1>4, <2>1
  <2>4. CASE f[m].due = <<>>
    <3>1. f[m + 1] = f[m] BY <2>2, <2>4 DEF DelFirst
    <3> QED BY <2>3, <2>4, <3>1
  <2>5. CASE f[m].due # <<>>
    <3> DEFINE x == f[m]
               y == f[m + 1]
    <3>1. Underway(h, x, M, ev, eo) /\ Toil(x) + m <= n BY <2>3, <2>5
    <3>2. Underway(h, y, M, ev, eo) /\ Toil(y) < Toil(x)
      BY <2>2, <2>5, <3>1, DelFirstKeeps
    <3>3. x.due \in Seq(Refs) /\ y.due \in Seq(Refs) BY <3>1, <3>2 DEF Underway
    <3>4. Toil(x) \in Nat /\ Toil(y) \in Nat BY <3>3, ToilType
    <3> HIDE DEF x, y
    <3>5. Toil(y) + (m + 1) <= n BY <1>1, <3>1, <3>2, <3>4
    <3> QED BY <3>2, <3>5 DEF y
  <2> QED BY <2>4, <2>5
<1>5. Good(n)
  <2> HIDE DEF Good, N
  <2>1. Nat \subseteq N BY <1>3, <1>4, NatSetInduction
  <2> QED BY <1>1, <2>1 DEF N
<1>6. f[n].due = <<>>
  <2> DEFINE s == f[n]
  <2>1. s.due \in Seq(Refs) BY <1>5 DEF Underway
  <2>2. Toil(s) \in Nat /\ Work(s.heap) \in Nat BY <2>1, ToilType
  <2>3. s.due = <<>> \/ Toil(s) + n <= n BY <1>5
  <2> HIDE DEF s
  <2>4. Len(s.due) \in Nat BY <2>1
  <2>5. Toil(s) + n <= n => Len(s.due) = 0 BY <1>1, <2>2, <2>4 DEF Toil
  <2>6. Len(s.due) = 0 => s.due = <<>> BY <2>1, EmptySeq
  <2> QED BY <2>3, <2>5, <2>6 DEF s
<1>7. Underway(h, f[n], M, ev, eo) BY <1>5
<1> QED BY <1>2, <1>6, <1>7 DEF Underway

-------------------------------------------------------------------------------
(* A heap with nothing due. *)
Balanced(h, M, ev, eo) == HeapOK(h) /\ ~h.bad /\ Owing(h, <<>>, M, ev, eo)

LEMMA Counts ==
  ASSUME NEW h, NEW M, NEW ev \in [Val -> Nat], NEW eo \in [Obj -> Nat], HeapOK(h), ~h.bad
  PROVE  Balanced(h, M, ev, eo) <=>
           /\ \A o \in Obj : h.obj[o].rc = Cardinality(Pointing(h, M, o)) + eo[o]
           /\ \A v \in Val : h.val[v].rc = Cardinality(Places(h, v)) + ev[v]
<1>1. \A x : Count(<<>>, x) = 0 BY CountEmpty
<1>2. \A o \in Obj : Cardinality(Pointing(h, M, o)) + eo[o] + Count(<<>>, ObjectRef(o))
                       = Cardinality(Pointing(h, M, o)) + eo[o]
  <2> TAKE o \in Obj
  <2>1. Cardinality(Pointing(h, M, o)) \in Nat /\ eo[o] \in Nat BY PointingFinite
  <2> QED BY <1>1, <2>1
<1>3. \A v \in Val : Cardinality(Places(h, v)) + ev[v] + Count(<<>>, ValueRef(v))
                       = Cardinality(Places(h, v)) + ev[v]
  <2> TAKE v \in Val
  <2>1. Cardinality(Places(h, v)) \in Nat /\ ev[v] \in Nat BY PlacesFinite
  <2> QED BY <1>1, <2>1
<1>4. Owing(h, <<>>, M, ev, eo) <=>
           /\ \A o \in Obj : h.obj[o].rc = Cardinality(Pointing(h, M, o)) + eo[o]
           /\ \A v \in Val : h.val[v].rc = Cardinality(Places(h, v)) + ev[v]
  BY <1>2, <1>3, Zenon DEF Owing
<1> QED BY <1>4 DEF Balanced

Counted(h, M, ev, eo) ==
  /\ \A o \in Obj : h.obj[o].rc = Cardinality(Pointing(h, M, o)) + eo[o]
  /\ \A v \in Val : h.val[v].rc = Cardinality(Places(h, v)) + ev[v]

LEMMA CountsOf ==
  ASSUME NEW h, NEW M, NEW ev \in [Val -> Nat], NEW eo \in [Obj -> Nat], Balanced(h, M, ev, eo)
  PROVE  Counted(h, M, ev, eo)
<1>1. HeapOK(h) /\ ~h.bad BY DEF Balanced
<1> QED BY <1>1, Counts DEF Counted

\* What is held, pointed to or an element has not been freed.
LEMMA HeldIsLive ==
  ASSUME NEW h, NEW M, NEW ev \in [Val -> Nat], NEW eo \in [Obj -> Nat], Balanced(h, M, ev, eo)
  PROVE  /\ \A v \in Val : ev[v] >= 1 => h.val[v].rc >= 1
         /\ \A o \in Obj : eo[o] >= 1 => h.obj[o].rc >= 1
         /\ \A v \in Val \ M : h.val[v].obj # NoObj =>
              h.val[v].obj \in Obj /\ h.obj[h.val[v].obj].rc >= 1
         /\ \A v, w \in Val \ M : v # w /\ h.val[v].obj # NoObj /\ h.val[v].obj = h.val[w].obj =>
              h.obj[h.val[v].obj].rc >= 2
         /\ \A o \in Obj : \A i \in 1 .. Len(h.obj[o].cells) :
              h.obj[o].cells[i] \in Val /\ h.val[h.obj[o].cells[i]].rc >= 1
<1>0. HeapOK(h) /\ ~h.bad /\ h \in HeapType BY DEF Balanced, HeapOK
<1>1. /\ \A o \in Obj : h.obj[o].rc = Cardinality(Pointing(h, M, o)) + eo[o]
      /\ \A v \in Val : h.val[v].rc = Cardinality(Places(h, v)) + ev[v]
  BY <1>0, Counts
<1>2. \A o : IsFiniteSet(Pointing(h, M, o)) /\ Cardinality(Pointing(h, M, o)) \in Nat BY PointingFinite
<1>3. \A v : IsFiniteSet(Places(h, v)) /\ Cardinality(Places(h, v)) \in Nat BY PlacesFinite
<1>4. ASSUME NEW v \in Val, ev[v] >= 1 PROVE h.val[v].rc >= 1
  BY <1>1, <1>3, <1>4
<1>5. ASSUME NEW o \in Obj, eo[o] >= 1 PROVE h.obj[o].rc >= 1
  BY <1>1, <1>2, <1>5
<1>6. ASSUME NEW v \in Val \ M, h.val[v].obj # NoObj
      PROVE  h.val[v].obj \in Obj /\ h.obj[h.val[v].obj].rc >= 1
  <2> DEFINE o == h.val[v].obj
  <2>1. o \in Obj BY <1>0, <1>6, Typed
  <2>2. v \in Pointing(h, M, o) BY DEF Pointing
  <2> HIDE DEF o
  <2>3. Cardinality(Pointing(h, M, o)) # 0
    <3>1. Pointing(h, M, o) # {} BY <2>2
    <3> QED BY <1>2, <3>1, FS_EmptySet, Zenon
  <2>4. h.obj[o].rc >= 1 BY <1>1, <1>2, <2>1, <2>3
  <2> QED BY <2>1, <2>4 DEF o
<1>7. ASSUME NEW v \in Val \ M, NEW w \in Val \ M, v # w, h.val[v].obj # NoObj, h.val[v].obj = h.val[w].obj
      PROVE  h.obj[h.val[v].obj].rc >= 2
  <2> DEFINE o == h.val[v].obj
             P == Pointing(h, M, o)
  <2>1. o \in Obj BY <1>0, <1>7, Typed
  <2>2. v \in P /\ w \in P \ {v} BY <1>7 DEF Pointing
  <2> HIDE DEF o, P
  <2>3. IsFiniteSet(P) /\ Cardinality(P) \in Nat BY <1>2 DEF P
  <2>4. IsFiniteSet(P \ {v}) /\ Cardinality(P \ {v}) = Cardinality(P) - 1
    BY <2>2, <2>3, FS_RemoveElement
  <2>5. Cardinality(P \ {v}) # 0
    <3>1. P \ {v} # {} BY <2>2
    <3> QED BY <2>4, <3>1, FS_EmptySet, Zenon
  <2>6. Cardinality(P) >= 2
    <3>1. Cardinality(P) - 1 # 0 BY <2>4, <2>5
    <3>2. Cardinality(P) # 0
      <4>1. P # {} BY <2>2
      <4> QED BY <2>3, <4>1, FS_EmptySet, Zenon
    <3> QED BY <2>3, <3>1, <3>2
  <2>7. h.obj[o].rc = Cardinality(P) + eo[o] BY <1>1, <2>1 DEF P
  <2>8. h.obj[o].rc >= 2 BY <2>1, <2>3, <2>6, <2>7
  <2> QED BY <2>8 DEF o
<1>8. ASSUME NEW o \in Obj, NEW i \in 1 .. Len(h.obj[o].cells)
      PROVE  h.obj[o].cells[i] \in Val /\ h.val[h.obj[o].cells[i]].rc >= 1
  <2> DEFINE c == h.obj[o].cells[i]
  <2>1. h.obj[o].cells \in Seq(Val) /\ Len(h.obj[o].cells) <= MaxSize /\ Len(h.obj[o].cells) \in Nat
    BY <1>0, Typed DEF HeapOK
  <2>2. c \in Val BY <2>1, ElementOfSeq
  <2>3. <<o, i>> \in Places(h, c)
    <3>0. i \in 1 .. MaxSize BY <2>1, Bounds
    <3>1. <<o, i>> \in Obj \X (1 .. MaxSize) BY <3>0
    <3> QED BY <3>1, <2>1 DEF Places
  <2> HIDE DEF c
  <2>4. Cardinality(Places(h, c)) # 0
    <3>1. Places(h, c) # {} BY <2>3
    <3> QED BY <1>3, <3>1, FS_EmptySet, Zenon
  <2>5. h.val[c].rc >= 1 BY <1>1, <1>3, <2>2, <2>4
  <2> QED BY <2>2, <2>5 DEF c
<1> QED BY <1>4, <1>5, <1>6, <1>7, <1>8

-------------------------------------------------------------------------------
(* cleanUp, and what takes the place of the pointer. *)
LEMMA CleanUpKeeps ==
  ASSUME NEW h, NEW v \in Val, NEW ev \in [Val -> Nat], NEW eo \in [Obj -> Nat],
         Balanced(h, {}, ev, eo), ev[v] >= 1
  PROVE  LET g == CleanUp(h, v)
         IN  Balanced(g, {v}, ev, eo) /\ Spared(h, g) /\ g.val[v].obj = h.val[v].obj
<1> DEFINE p == h.val[v].obj
           due == <<ObjectRef(p)>>
           g == Release(h, due)
<1>0. HeapOK(h) /\ ~h.bad /\ h \in HeapType BY DEF Balanced, HeapOK
<1>c. /\ \A o \in Obj : h.obj[o].rc = Cardinality(Pointing(h, {}, o)) + eo[o]
      /\ \A w \in Val : h.val[w].rc = Cardinality(Places(h, w)) + ev[w]
  <2>1. Counted(h, {}, ev, eo) BY CountsOf
  <2> QED BY <2>1, Zenon DEF Counted
<1>1. p \in {NoObj} \cup Obj BY <1>0, Typed
<1>2. due \in Seq(Refs) BY <1>1, RefsAre
<1>3. CleanUp(h, v) = g BY DEF CleanUp
<1>4. Owing(h, due, {v}, ev, eo)
  <2>1. \A o : Count(due, ObjectRef(o)) = IF p = o THEN 1 ELSE 0
    <3> TAKE o
    <3> HIDE DEF p
    <3>1. Count(due, ObjectRef(o)) = IF ObjectRef(p) = ObjectRef(o) THEN 1 ELSE 0 BY CountOne
    <3> QED BY <3>1, RefFacts
  <2>2. \A w : Count(due, ValueRef(w)) = 0
    <3> TAKE w
    <3> HIDE DEF p
    <3>1. Count(due, ValueRef(w)) = IF ObjectRef(p) = ValueRef(w) THEN 1 ELSE 0 BY CountOne
    <3> QED BY <3>1, RefFacts
  <2> HIDE DEF due
  <2>3. ASSUME NEW o \in Obj
        PROVE  h.obj[o].rc = Cardinality(Pointing(h, {v}, o)) + eo[o] + Count(due, ObjectRef(o))
    <3>1. h.obj[o].rc = Cardinality(Pointing(h, {}, o)) + eo[o] BY <1>c
    <3>2. Cardinality(Pointing(h, {}, o)) = Cardinality(Pointing(h, {v}, o)) + (IF p = o THEN 1 ELSE 0)
      <4>1. /\ p = o => Cardinality(Pointing(h, {}, o)) = Cardinality(Pointing(h, {v}, o)) + 1
            /\ p # o => Cardinality(Pointing(h, {}, o)) = Cardinality(Pointing(h, {v}, o))
        <5>1. PointersAgree(h, h, v) BY DEF PointersAgree
        <5> QED BY <5>1, PointerMasked
      <4>2. Cardinality(Pointing(h, {v}, o)) \in Nat BY PointingFinite
      <4> HIDE DEF p
      <4> QED BY <4>1, <4>2
    <3>3. Cardinality(Pointing(h, {v}, o)) \in Nat /\ eo[o] \in Nat BY PointingFinite
    <3> HIDE DEF p
    <3> QED BY <2>1, <3>1, <3>2, <3>3
  <2>4. ASSUME NEW w \in Val
        PROVE  h.val[w].rc = Cardinality(Places(h, w)) + ev[w] + Count(due, ValueRef(w))
    <3>1. h.val[w].rc = Cardinality(Places(h, w)) + ev[w] BY <1>c
    <3>2. Cardinality(Places(h, w)) \in Nat /\ ev[w] \in Nat BY PlacesFinite
    <3> QED BY <2>2, <3>1, <3>2
  <2> QED BY <2>3, <2>4 DEF Owing
<1> HIDE DEF due
<1>5. HeapOK(g) /\ ~g.bad /\ Owing(g, <<>>, {v}, ev, eo) /\ Spared(h, g)
  <2>1. {v} \in SUBSET Val /\ \A w \in {v} : ev[w] >= 1 OBVIOUS
  <2> QED BY <1>0, <1>2, <1>4, <2>1, ReleaseKeeps
<1> HIDE DEF g
<1>6. Balanced(g, {v}, ev, eo) BY <1>5 DEF Balanced
<1>7. g.val[v].rc >= 1 BY <1>6, HeldIsLive
<1>8. g \in HeapType BY <1>5 DEF HeapOK
<1>9. g.val[v].rc > 0 BY <1>7, <1>8, Typed
<1>10. g.val[v].obj = h.val[v].obj BY <1>5, <1>9 DEF Spared
<1> QED BY <1>3, <1>5, <1>6, <1>10

\* v points nowhere, or to an object with a reference to spare.
LEMMA PointedNowhere ==
  ASSUME NEW h, NEW v \in Val, NEW ev \in [Val -> Nat], NEW eo \in [Obj -> Nat],
         Balanced(h, {v}, ev, eo), ev[v] >= 1
  PROVE  LET g == WithVal(h, v, ValPointer(h.val[v], NoObj))
         IN  Balanced(g, {}, ev, eo)
<1> DEFINE c == ValPointer(h.val[v], NoObj)
           g == WithVal(h, v, c)
<1>0. HeapOK(h) /\ ~h.bad /\ h \in HeapType BY DEF Balanced, HeapOK
<1>c. /\ \A q \in Obj : h.obj[q].rc = Cardinality(Pointing(h, {v}, q)) + eo[q]
      /\ \A w \in Val : h.val[w].rc = Cardinality(Places(h, w)) + ev[w]
  <2>1. Counted(h, {v}, ev, eo) BY CountsOf
  <2> QED BY <2>1, Zenon DEF Counted
<1>1. c \in ValueType /\ c.rc = h.val[v].rc /\ c.obj = NoObj
  <2>1. h.val[v] \in ValueType BY <1>0, Typed
  <2> QED BY <2>1, ValFields
<1> HIDE DEF c, g
<1>2. /\ g \in HeapType /\ g.obj = h.obj /\ g.bad = h.bad /\ g.val[v] = c
      /\ \A w \in Val : w # v => g.val[w] = h.val[w]
  BY <1>0, <1>1, ValWritten DEF g
<1>3. h.val[v].rc >= 1 BY HeldIsLive
<1>4. HeapOK(g)
  <2>1. c.rc # 0 BY <1>0, <1>1, <1>3, Typed
  <2> QED BY <1>0, <1>2, <2>1 DEF HeapOK
<1>5. ASSUME NEW o \in Obj PROVE g.obj[o].rc = Cardinality(Pointing(g, {}, o)) + eo[o]
  <2>1. Pointing(g, {}, o) = Pointing(h, {v}, o)
    <3>1. o # NoObj BY Bounds
    <3> QED BY <1>1, <1>2, <3>1 DEF Pointing
  <2> QED BY <1>c, <1>2, <2>1
<1>6. ASSUME NEW w \in Val PROVE g.val[w].rc = Cardinality(Places(g, w)) + ev[w]
  <2>1. Places(g, w) = Places(h, w) BY <1>2, SamePlaces
  <2>2. g.val[w].rc = h.val[w].rc BY <1>1, <1>2
  <2> QED BY <1>c, <2>1, <2>2
<1>7. ~g.bad BY <1>0, <1>2
<1>8. Balanced(g, {}, ev, eo) BY <1>4, <1>5, <1>6, <1>7, Counts
<1> QED BY <1>8 DEF g, c

LEMMA PointedTo ==
  ASSUME NEW h, NEW v \in Val, NEW ev \in [Val -> Nat], NEW eo \in [Obj -> Nat], NEW o \in Obj,
         NEW eq \in [Obj -> Nat], \A q \in Obj : eq[q] = eo[q] + (IF q = o THEN 1 ELSE 0),
         Balanced(h, {v}, ev, eq), ev[v] >= 1
  PROVE  LET g == WithVal(h, v, ValPointer(h.val[v], o))
         IN  Balanced(g, {}, ev, eo)
<1> DEFINE c == ValPointer(h.val[v], o)
           g == WithVal(h, v, c)
<1>0. HeapOK(h) /\ ~h.bad /\ h \in HeapType BY DEF Balanced, HeapOK
<1>c. /\ \A q \in Obj : h.obj[q].rc = Cardinality(Pointing(h, {v}, q)) + eq[q]
      /\ \A w \in Val : h.val[w].rc = Cardinality(Places(h, w)) + ev[w]
  <2>1. Counted(h, {v}, ev, eq) BY CountsOf
  <2> QED BY <2>1, Zenon DEF Counted
<1>1. c \in ValueType /\ c.rc = h.val[v].rc /\ c.obj = o
  <2>1. h.val[v] \in ValueType BY <1>0, Typed
  <2> QED BY <2>1, ValFields
<1> HIDE DEF c, g
<1>2. /\ g \in HeapType /\ g.obj = h.obj /\ g.bad = h.bad /\ g.val[v] = c
      /\ \A w \in Val : w # v => g.val[w] = h.val[w]
  BY <1>0, <1>1, ValWritten DEF g
<1>3. h.val[v].rc >= 1 BY HeldIsLive
<1>4. HeapOK(g)
  <2>1. c.rc # 0 BY <1>0, <1>1, <1>3, Typed
  <2> QED BY <1>0, <1>2, <2>1 DEF HeapOK
<1>5. ASSUME NEW q \in Obj PROVE g.obj[q].rc = Cardinality(Pointing(g, {}, q)) + eo[q]
  <2>1. Cardinality(Pointing(g, {}, q)) = Cardinality(Pointing(h, {v}, q)) + (IF o = q THEN 1 ELSE 0)
    <3>1. PointersAgree(g, h, v) BY <1>2 DEF PointersAgree
    <3>3. Cardinality(Pointing(g, {}, q))
            = Cardinality(Pointing(h, {v}, q)) + (IF g.val[v].obj = q THEN 1 ELSE 0)
      <4>1. /\ g.val[v].obj = q => Cardinality(Pointing(g, {}, q)) = Cardinality(Pointing(h, {v}, q)) + 1
            /\ g.val[v].obj # q => Cardinality(Pointing(g, {}, q)) = Cardinality(Pointing(h, {v}, q))
        BY <3>1, PointerMasked
      <4>2. Cardinality(Pointing(h, {v}, q)) \in Nat BY PointingFinite
      <4> QED BY <4>1, <4>2
    <3> QED BY <1>1, <1>2, <3>3
  <2>2. h.obj[q].rc = Cardinality(Pointing(h, {v}, q)) + eq[q] BY <1>c
  <2>3. Cardinality(Pointing(h, {v}, q)) \in Nat /\ eo[q] \in Nat BY PointingFinite
  <2> QED BY <1>2, <2>1, <2>2, <2>3
<1>6. ASSUME NEW w \in Val PROVE g.val[w].rc = Cardinality(Places(g, w)) + ev[w]
  <2>1. Places(g, w) = Places(h, w) BY <1>2, SamePlaces
  <2>2. g.val[w].rc = h.val[w].rc BY <1>1, <1>2
  <2> QED BY <1>c, <2>1, <2>2
<1>7. ~g.bad BY <1>0, <1>2
<1>8. Balanced(g, {}, ev, eo) BY <1>4, <1>5, <1>6, <1>7, Counts
<1> QED BY <1>8 DEF g, c

-------------------------------------------------------------------------------
(* What a Value that is not written keeps. *)

\* Values outside W that are left in k are as in h, the elements of the arrays in O aside.
Surviving(h, k, W, O) ==
  \A u \in Val \ W : k.val[u].rc > 0 =>
    /\ h.val[u].rc > 0
    /\ k.val[u].obj = h.val[u].obj
    /\ h.val[u].obj \in Obj =>
         /\ k.obj[h.val[u].obj].kind = h.obj[h.val[u].obj].kind
         /\ k.obj[h.val[u].obj].n = h.obj[h.val[u].obj].n
         /\ h.val[u].obj \notin O => k.obj[h.val[u].obj].cells = h.obj[h.val[u].obj].cells

LEMMA SurvivingTwice ==
  ASSUME NEW h, NEW g, NEW k, NEW W, NEW X, NEW O, NEW P, Surviving(h, g, W, O), Surviving(g, k, X, P)
  PROVE  Surviving(h, k, W \cup X, O \cup P)
<1> SUFFICES ASSUME NEW u \in Val \ (W \cup X), k.val[u].rc > 0
             PROVE  /\ h.val[u].rc > 0
                    /\ k.val[u].obj = h.val[u].obj
                    /\ h.val[u].obj \in Obj =>
                         /\ k.obj[h.val[u].obj].kind = h.obj[h.val[u].obj].kind
                         /\ k.obj[h.val[u].obj].n = h.obj[h.val[u].obj].n
                         /\ h.val[u].obj \notin O \cup P =>
                              k.obj[h.val[u].obj].cells = h.obj[h.val[u].obj].cells
  BY DEF Surviving
<1>1. u \in Val \ W /\ u \in Val \ X OBVIOUS
<1>2. /\ g.val[u].rc > 0
      /\ k.val[u].obj = g.val[u].obj
      /\ g.val[u].obj \in Obj =>
           /\ k.obj[g.val[u].obj].kind = g.obj[g.val[u].obj].kind
           /\ k.obj[g.val[u].obj].n = g.obj[g.val[u].obj].n
           /\ g.val[u].obj \notin P => k.obj[g.val[u].obj].cells = g.obj[g.val[u].obj].cells
  BY <1>1 DEF Surviving
<1>3. /\ h.val[u].rc > 0
      /\ g.val[u].obj = h.val[u].obj
      /\ h.val[u].obj \in Obj =>
           /\ g.obj[h.val[u].obj].kind = h.obj[h.val[u].obj].kind
           /\ g.obj[h.val[u].obj].n = h.obj[h.val[u].obj].n
           /\ h.val[u].obj \notin O => g.obj[h.val[u].obj].cells = h.obj[h.val[u].obj].cells
  BY <1>1, <1>2 DEF Surviving
<1> QED BY <1>2, <1>3, Zenon

LEMMA SurvivingMore ==
  ASSUME NEW h, NEW k, NEW W, NEW X, NEW O, NEW P, Surviving(h, k, W, O), W \subseteq X, O \subseteq P
  PROVE  Surviving(h, k, X, P)
  BY DEF Surviving

LEMMA ContentSurvives ==
  ASSUME NEW h \in HeapType, NEW k, NEW W, NEW O, Surviving(h, k, W, O), NEW u \in Val \ W, k.val[u].rc > 0
  PROVE  h.val[u].rc > 0 /\ k.val[u].obj = h.val[u].obj /\ Content(k, u) = Content(h, u)
<1>1. h.val[u].obj \in {NoObj} \cup Obj BY Typed
<1>2. /\ h.val[u].rc > 0
      /\ k.val[u].obj = h.val[u].obj
      /\ h.val[u].obj \in Obj => /\ k.obj[h.val[u].obj].kind = h.obj[h.val[u].obj].kind
                                 /\ k.obj[h.val[u].obj].n = h.obj[h.val[u].obj].n
  BY DEF Surviving
<1>3. Content(k, u) = Content(h, u)
  <2>1. CASE h.val[u].obj = NoObj BY <1>2, <2>1 DEF Content
  <2>2. CASE h.val[u].obj # NoObj
    <3>1. h.val[u].obj \in Obj BY <1>1, <2>2
    <3> QED BY <1>2, <3>1, Zenon DEF Content, IsInt, Number
  <2> QED BY <2>1, <2>2
<1> QED BY <1>2, <1>3

\* v has got another pointer, when what it had held was given up.
LEMMA AfterPointer ==
  ASSUME NEW h, NEW g, NEW k, NEW v \in Val, NEW ev \in [Val -> Nat], NEW eo \in [Obj -> Nat],
         Spared(h, g), Balanced(g, {v}, ev, eo), k.obj = g.obj,
         \A w \in Val : w # v => k.val[w] = g.val[w]
  PROVE  Surviving(h, k, {v}, {})
<1> SUFFICES ASSUME NEW u \in Val \ {v}, k.val[u].rc > 0
             PROVE  /\ h.val[u].rc > 0
                    /\ k.val[u].obj = h.val[u].obj
                    /\ h.val[u].obj \in Obj =>
                         /\ k.obj[h.val[u].obj].kind = h.obj[h.val[u].obj].kind
                         /\ k.obj[h.val[u].obj].n = h.obj[h.val[u].obj].n
                         /\ k.obj[h.val[u].obj].cells = h.obj[h.val[u].obj].cells
  BY DEF Surviving
<1>1. k.val[u] = g.val[u] OBVIOUS
<1>2. h.val[u].rc > 0 /\ g.val[u].obj = h.val[u].obj BY <1>1 DEF Spared
<1>3. ASSUME h.val[u].obj \in Obj
      PROVE  /\ k.obj[h.val[u].obj].kind = h.obj[h.val[u].obj].kind
             /\ k.obj[h.val[u].obj].n = h.obj[h.val[u].obj].n
             /\ k.obj[h.val[u].obj].cells = h.obj[h.val[u].obj].cells
  <2> DEFINE o == h.val[u].obj
  <2>1. o \in Obj /\ o # NoObj BY <1>3, Bounds
  <2>2. g.val[u].obj = o BY <1>2
  <2> HIDE DEF o
  <2>3. g.obj[o].rc >= 1 BY <2>1, <2>2, HeldIsLive
  <2>4. g.obj[o].rc > 0
    <3>1. g.obj[o].rc \in Nat BY <2>1, Typed DEF Balanced, HeapOK
    <3> QED BY <2>3, <3>1
  <2>5. g.obj[o].kind = h.obj[o].kind /\ g.obj[o].n = h.obj[o].n /\ g.obj[o].cells = h.obj[o].cells
    BY <2>1, <2>4 DEF Spared
  <2> QED BY <2>5 DEF o
<1> QED BY <1>1, <1>2, <1>3

-------------------------------------------------------------------------------
(* Allocation. *)
LEMMA FreshObj ==
  ASSUME NEW h, \E o \in Obj : h.obj[o].rc = 0
  PROVE  NewObj(h) \in Obj /\ h.obj[NewObj(h)].rc = 0
<1> DEFINE T == {o \in Obj : h.obj[o].rc = 0}
<1>1. T \subseteq Nat /\ T # {} OBVIOUS
<1>2. PICK o \in T : \A q \in T : o <= q
  <2> HIDE DEF T
  <2> QED BY <1>1, LeastNat
<1>3. o \in Obj /\ h.obj[o].rc = 0 /\ \A q \in 1 .. o - 1 : h.obj[q].rc # 0
  <2>1. ASSUME NEW q \in 1 .. o - 1, h.obj[q].rc = 0 PROVE FALSE
    <3>1. q \in T /\ ~(o <= q) BY <2>1, Bounds
    <3> QED BY <1>2, <3>1
  <2> QED BY <2>1
<1>4. \E q : q \in Obj /\ (h.obj[q].rc = 0 /\ \A p \in 1 .. q - 1 : h.obj[p].rc # 0) BY <1>3
<1> QED BY <1>4 DEF NewObj

LEMMA FreshVal ==
  ASSUME NEW h, \E v \in Val : h.val[v].rc = 0
  PROVE  NewVal(h) \in Val /\ h.val[NewVal(h)].rc = 0
<1> DEFINE T == {v \in Val : h.val[v].rc = 0}
<1>1. T \subseteq Nat /\ T # {} OBVIOUS
<1>2. PICK v \in T : \A w \in T : v <= w
  <2> HIDE DEF T
  <2> QED BY <1>1, LeastNat
<1>3. v \in Val /\ h.val[v].rc = 0 /\ \A w \in 1 .. v - 1 : h.val[w].rc # 0
  <2>1. ASSUME NEW w \in 1 .. v - 1, h.val[w].rc = 0 PROVE FALSE
    <3>1. w \in T /\ ~(v <= w) BY <2>1, Bounds
    <3> QED BY <1>2, <3>1
  <2> QED BY <2>1
<1>4. \E w : w \in Val /\ (h.val[w].rc = 0 /\ \A u \in 1 .. w - 1 : h.val[u].rc # 0) BY <1>3
<1> QED BY <1>4 DEF NewVal

\* One more reference to x.
Plus(e, x) == [y \in DOMAIN e |-> e[y] + (IF y = x THEN 1 ELSE 0)]

LEMMA PlusObj ==
  ASSUME NEW e \in [Obj -> Nat], NEW x
  PROVE  /\ Plus(e, x) \in [Obj -> Nat]
         /\ \A y \in Obj : Plus(e, x)[y] = e[y] + (IF y = x THEN 1 ELSE 0)
  BY DEF Plus

LEMMA PlusVal ==
  ASSUME NEW e \in [Val -> Nat], NEW x
  PROVE  /\ Plus(e, x) \in [Val -> Nat]
         /\ \A y \in Val : Plus(e, x)[y] = e[y] + (IF y = x THEN 1 ELSE 0)
  BY DEF Plus

LEMMA Allocated ==
  ASSUME NEW h, NEW ev \in [Val -> Nat], NEW eo \in [Obj -> Nat], Balanced(h, {}, ev, eo),
         NEW o \in Obj, h.obj[o].rc = 0, NEW new \in ObjectType, new.rc = 1, new.kind # "free", new.cells = <<>>
  PROVE  LET g == WithObj(h, o, new)
         IN  Balanced(g, {}, ev, Plus(eo, o)) /\ Surviving(h, g, {}, {})
<1> DEFINE g == WithObj(h, o, new)
           eq == Plus(eo, o)
<1>0. HeapOK(h) /\ ~h.bad /\ h \in HeapType BY DEF Balanced, HeapOK
<1>1. /\ g \in HeapType /\ g.val = h.val /\ g.bad = h.bad /\ g.obj[o] = new
      /\ \A q \in Obj : q # o => g.obj[q] = h.obj[q]
  BY <1>0, ObjWritten
<1>2. eq \in [Obj -> Nat] /\ \A q \in Obj : eq[q] = eo[q] + (IF q = o THEN 1 ELSE 0)
  BY PlusObj
<1> HIDE DEF g, eq
<1>3. HeapOK(g)
  <2>1. Len(new.cells) <= MaxSize BY Bounds
  <2> QED BY <1>0, <1>1, <2>1 DEF HeapOK
<1>4. /\ \A q \in Obj : h.obj[q].rc = Cardinality(Pointing(h, {}, q)) + eo[q]
      /\ \A w \in Val : h.val[w].rc = Cardinality(Places(h, w)) + ev[w]
  <2>1. Counted(h, {}, ev, eo) BY CountsOf
  <2> QED BY <2>1, Zenon DEF Counted
<1>5. ASSUME NEW q \in Obj PROVE g.obj[q].rc = Cardinality(Pointing(g, {}, q)) + eq[q]
  <2>1. Pointing(g, {}, q) = Pointing(h, {}, q) BY <1>1 DEF Pointing
  <2>2. Cardinality(Pointing(h, {}, q)) \in Nat /\ eo[q] \in Nat BY PointingFinite
  <2>3. CASE q = o
    <3>1. g.obj[q].rc = 1 /\ h.obj[q].rc = 0 BY <1>1, <2>3
    <3> QED BY <1>2, <1>4, <2>1, <2>2, <2>3, <3>1
  <2>4. CASE q # o
    <3>1. g.obj[q].rc = h.obj[q].rc BY <1>1, <2>4
    <3> QED BY <1>2, <1>4, <2>1, <2>2, <2>4, <3>1
  <2> QED BY <2>3, <2>4
<1>6. ASSUME NEW w \in Val PROVE g.val[w].rc = Cardinality(Places(g, w)) + ev[w]
  <2>1. h.obj[o].cells = <<>> BY <1>0 DEF HeapOK, FreeObj
  <2>2. \A q \in Obj : g.obj[q].cells = h.obj[q].cells BY <1>1, <2>1
  <2>3. Places(g, w) = Places(h, w) BY <2>2, SamePlaces
  <2> QED BY <1>1, <1>4, <2>3
<1>7. Balanced(g, {}, ev, eq)
  <2>1. ~g.bad BY <1>0, <1>1
  <2> QED BY <1>2, <1>3, <1>5, <1>6, <2>1, Counts
<1>8. Surviving(h, g, {}, {})
  <2>1. ASSUME NEW u \in Val, h.val[u].obj \in Obj PROVE h.val[u].obj # o
    <3>1. h.val[u].obj # NoObj /\ u \in Val \ {} BY <2>1, Bounds
    <3>2. h.obj[h.val[u].obj].rc >= 1 BY <3>1, HeldIsLive
    <3> QED BY <3>2
  <2> QED BY <1>1, <2>1 DEF Surviving
<1> QED BY <1>7, <1>8 DEF g, eq

-------------------------------------------------------------------------------
(* The methods of Value that write one. *)

\* The objects that are left in k are as in h.
SameObjects(h, k) ==
  \A q \in Obj : k.obj[q].rc > 0 =>
    /\ h.obj[q].rc > 0 /\ k.obj[q].kind = h.obj[q].kind
    /\ k.obj[q].n = h.obj[q].n /\ k.obj[q].cells = h.obj[q].cells

\* The arrays outside O have the elements they had, or are gone.
Fewer(h, k, O) == \A q \in Obj \ O : k.obj[q].cells = <<>> \/ k.obj[q].cells = h.obj[q].cells

LEMMA FewerTwice ==
  ASSUME NEW h, NEW g, NEW k, NEW O, NEW P, Fewer(h, g, O), Fewer(g, k, P)
  PROVE  Fewer(h, k, O \cup P)
<1> SUFFICES ASSUME NEW q \in Obj \ (O \cup P)
             PROVE  k.obj[q].cells = <<>> \/ k.obj[q].cells = h.obj[q].cells
  BY DEF Fewer
<1>1. k.obj[q].cells = <<>> \/ k.obj[q].cells = g.obj[q].cells BY DEF Fewer
<1>2. g.obj[q].cells = <<>> \/ g.obj[q].cells = h.obj[q].cells BY DEF Fewer
<1> QED BY <1>1, <1>2, Zenon

LEMMA FewerSame ==
  ASSUME NEW h, NEW k, HeapOK(k), SameObjects(h, k)
  PROVE  Fewer(h, k, {})
<1> SUFFICES ASSUME NEW q \in Obj
             PROVE  k.obj[q].cells = <<>> \/ k.obj[q].cells = h.obj[q].cells
  BY DEF Fewer
<1>1. k.obj[q].rc \in Nat BY Typed DEF HeapOK
<1>2. CASE k.obj[q].rc = 0
  <2>1. k.obj[q] = FreeObj BY <1>2 DEF HeapOK
  <2> QED BY <2>1 DEF FreeObj
<1>3. CASE k.obj[q].rc # 0
  <2>1. k.obj[q].rc > 0 BY <1>1, <1>3
  <2>2. k.obj[q].cells = h.obj[q].cells BY <2>1 DEF SameObjects
  <2> QED BY <2>2
<1> QED BY <1>2, <1>3

LEMMA SpareObjects ==
  ASSUME NEW h, NEW g, NEW k, Spared(h, g), k.obj = g.obj
  PROVE  SameObjects(h, k)
  BY DEF Spared, SameObjects

\* One object at most is made.
OneMade(h, k) == \E o : \A q \in Obj : q # o /\ h.obj[q].rc = 0 => k.obj[q].rc = 0

LEMMA OneMadeSame ==
  ASSUME NEW h, NEW k, HeapOK(k), SameObjects(h, k)
  PROVE  OneMade(h, k)
<1>1. ASSUME NEW q \in Obj, h.obj[q].rc = 0 PROVE k.obj[q].rc = 0
  <2>1. k.obj[q].rc \in Nat BY Typed DEF HeapOK
  <2>2. ~(k.obj[q].rc > 0)
    <3>1. ~(h.obj[q].rc > 0) BY <1>1
    <3> QED BY <3>1 DEF SameObjects
  <2> QED BY <2>1, <2>2
<1> QED BY <1>1 DEF OneMade

\* A method that makes k of h by writing v.
Writes(h, k, v, ev, eo) ==
  Balanced(k, {}, ev, eo) /\ Surviving(h, k, {v}, {}) /\ Fewer(h, k, {}) /\ OneMade(h, k)

LEMMA SetNullWrites ==
  ASSUME NEW h, NEW v \in Val, NEW ev \in [Val -> Nat], NEW eo \in [Obj -> Nat],
         Balanced(h, {}, ev, eo), ev[v] >= 1
  PROVE  Writes(h, SetNull(h, v), v, ev, eo) /\ Content(SetNull(h, v), v) = Null
<1> DEFINE g == CleanUp(h, v)
           c == ValPointer(g.val[v], NoObj)
           k == WithVal(g, v, c)
<1>1. Balanced(g, {v}, ev, eo) /\ Spared(h, g) BY CleanUpKeeps
<1>2. SetNull(h, v) = k BY Zenon DEF SetNull, WithVal, ValPointer
<1> HIDE DEF g
<1>3. g \in HeapType BY <1>1 DEF Balanced, HeapOK
<1>4. Balanced(k, {}, ev, eo) BY <1>1, PointedNowhere
<1>5. c \in ValueType /\ c.obj = NoObj
  <2>1. g.val[v] \in ValueType BY <1>3, Typed
  <2> QED BY <2>1, ValFields
<1> HIDE DEF c, k
<1>6. k.obj = g.obj /\ k.val[v] = c /\ \A w \in Val : w # v => k.val[w] = g.val[w]
  BY <1>3, <1>5, ValWritten DEF k
<1>7. Surviving(h, k, {v}, {}) BY <1>1, <1>6, AfterPointer
<1>8. Content(k, v) = Null BY <1>5, <1>6 DEF Content
<1>9. Fewer(h, k, {}) /\ OneMade(h, k)
  BY <1>1, <1>4, <1>6, SpareObjects, FewerSame, OneMadeSame DEF Balanced
<1> QED BY <1>2, <1>4, <1>7, <1>8, <1>9 DEF Writes

\* v gives up what it had and takes an object that is held for it.
HandedTo(f, v, o) == [CleanUp(f, v) EXCEPT !.val[v].obj = o]
Handed(f, k, v, o, ev, eo) ==
  /\ Balanced(k, {}, ev, eo) /\ Surviving(f, k, {v}, {}) /\ SameObjects(f, k) /\ k.val[v].obj = o
  /\ k.obj[o].kind = f.obj[o].kind /\ k.obj[o].n = f.obj[o].n /\ k.obj[o].cells = f.obj[o].cells

LEMMA TakesOver ==
  ASSUME NEW f, NEW v \in Val, NEW ev \in [Val -> Nat], NEW eo \in [Obj -> Nat], NEW o \in Obj,
         Balanced(f, {}, ev, Plus(eo, o)), ev[v] >= 1
  PROVE  Handed(f, HandedTo(f, v, o), v, o, ev, eo)
<1> DEFINE g == CleanUp(f, v)
           c == ValPointer(g.val[v], o)
           k == WithVal(g, v, c)
           eq == Plus(eo, o)
<1>e. eq \in [Obj -> Nat] /\ \A q \in Obj : eq[q] = eo[q] + (IF q = o THEN 1 ELSE 0)
  BY PlusObj
<1> HIDE DEF eq
<1>1. HandedTo(f, v, o) = k BY Zenon DEF HandedTo, WithVal, ValPointer
<1>2. Balanced(g, {v}, ev, eq) /\ Spared(f, g)
  <2>1. Balanced(f, {}, ev, eq) BY DEF eq
  <2> QED BY <1>e, <2>1, CleanUpKeeps
<1> HIDE DEF g
<1>3. g \in HeapType BY <1>2 DEF Balanced, HeapOK
<1>4. Balanced(k, {}, ev, eo) BY <1>2, <1>e, PointedTo
<1>5. c \in ValueType /\ c.obj = o
  <2>1. g.val[v] \in ValueType BY <1>3, Typed
  <2> QED BY <2>1, ValFields
<1> HIDE DEF c, k
<1>6. k.obj = g.obj /\ k.val[v] = c /\ \A w \in Val : w # v => k.val[w] = g.val[w]
  BY <1>3, <1>5, ValWritten DEF k
<1>7. Surviving(f, k, {v}, {}) BY <1>2, <1>6, <1>e, AfterPointer
<1>8. g.obj[o].rc > 0
  <2>1. eq[o] >= 1
    <3>1. eo[o] \in Nat /\ eq[o] = eo[o] + 1 BY <1>e
    <3> QED BY <3>1
  <2>2. g.obj[o].rc >= 1 BY <1>2, <1>e, <2>1, HeldIsLive
  <2>3. g.obj[o].rc \in Nat BY <1>3, Typed
  <2> QED BY <2>2, <2>3
<1>9. g.obj[o].kind = f.obj[o].kind /\ g.obj[o].n = f.obj[o].n /\ g.obj[o].cells = f.obj[o].cells
  BY <1>2, <1>8 DEF Spared
<1>10. SameObjects(f, k) BY <1>2, <1>6, SpareObjects
<1>11. Handed(f, k, v, o, ev, eo) BY <1>4, <1>5, <1>6, <1>7, <1>9, <1>10 DEF Handed
<1> QED BY <1>1, <1>11

LEMMA SetObjWrites ==
  ASSUME NEW h, NEW v \in Val, NEW ev \in [Val -> Nat], NEW eo \in [Obj -> Nat],
         Balanced(h, {}, ev, eo), ev[v] >= 1, \E o \in Obj : h.obj[o].rc = 0,
         NEW new \in ObjectType, new.rc = 1, new.kind # "free", new.cells = <<>>
  PROVE  LET k == SetObj(h, v, new)
             o == NewObj(h)
         IN  /\ Writes(h, k, v, ev, eo)
             /\ o \in Obj /\ k.val[v].obj = o
             /\ k.obj[o].kind = new.kind /\ k.obj[o].n = new.n /\ k.obj[o].cells = new.cells
<1> DEFINE o == NewObj(h)
           f == WithObj(h, o, new)
           k == SetObj(h, v, new)
<1>1. o \in Obj /\ h.obj[o].rc = 0 BY FreshObj
<1>2. k = HandedTo(f, v, o) BY Zenon DEF SetObj, WithObj, HandedTo
<1>3. h \in HeapType BY DEF Balanced, HeapOK
<1> HIDE DEF o
<1>4. Balanced(f, {}, ev, Plus(eo, o)) /\ Surviving(h, f, {}, {}) BY <1>1, Allocated
<1>5. f.obj[o] = new /\ \A q \in Obj : q # o => f.obj[q] = h.obj[q] BY <1>1, <1>3, ObjWritten
<1> HIDE DEF f
<1>7. /\ Balanced(k, {}, ev, eo) /\ Surviving(f, k, {v}, {}) /\ SameObjects(f, k) /\ k.val[v].obj = o
      /\ k.obj[o].kind = f.obj[o].kind /\ k.obj[o].n = f.obj[o].n /\ k.obj[o].cells = f.obj[o].cells
  <2> HIDE DEF k
  <2>1. Handed(f, k, v, o, ev, eo) BY <1>1, <1>2, <1>4, TakesOver
  <2> QED BY <2>1 DEF Handed
<1> HIDE DEF k
<1>8. Surviving(h, k, {v}, {})
  <2>1. Surviving(h, k, {} \cup {v}, {} \cup {}) BY <1>4, <1>7, SurvivingTwice
  <2>2. {} \cup {v} = {v} /\ {} \cup {} = {} OBVIOUS
  <2> QED BY <2>1, <2>2
<1>9. Fewer(h, k, {})
  <2>1. Fewer(h, f, {}) BY <1>5 DEF Fewer
  <2>2. Fewer(f, k, {}) BY <1>7, FewerSame DEF Balanced
  <2>3. Fewer(h, k, {} \cup {}) BY <2>1, <2>2, FewerTwice
  <2>4. {} \cup {} = {} OBVIOUS
  <2> QED BY <2>3, <2>4
<1>10. OneMade(h, k)
  <2>1. ASSUME NEW q \in Obj, q # o, h.obj[q].rc = 0 PROVE k.obj[q].rc = 0
    <3>1. k.obj[q].rc \in Nat BY <1>7, Typed DEF Balanced, HeapOK
    <3>2. ~(f.obj[q].rc > 0) BY <1>5, <2>1
    <3>3. ~(k.obj[q].rc > 0) BY <1>7, <3>2 DEF SameObjects
    <3> QED BY <3>1, <3>3
  <2> QED BY <2>1 DEF OneMade
<1> QED BY <1>1, <1>5, <1>7, <1>8, <1>9, <1>10 DEF Writes, o, k

LEMMA ModFacts ==
  /\ \A n \in Int : n % Numbers \in 0 .. Numbers - 1
  /\ \A n \in 0 .. Numbers - 1 : n % Numbers = n
  BY Bounds

LEMMA ObjectsMade ==
  /\ \A n \in Int : /\ IntObject(n) \in ObjectType /\ IntObject(n).rc = 1 /\ IntObject(n).kind = "int"
                    /\ IntObject(n).cells = <<>> /\ IntObject(n).n = n % Numbers
  /\ /\ ArrayObject(<<>>) \in ObjectType /\ ArrayObject(<<>>).rc = 1 /\ ArrayObject(<<>>).kind = "array"
     /\ ArrayObject(<<>>).cells = <<>>
<1>1. <<>> \in Seq(Val) /\ 0 \in 0 .. Numbers - 1 BY Bounds
<1>2. ASSUME NEW n \in Int PROVE IntObject(n) \in ObjectType
  BY <1>1, ModFacts DEF IntObject, ObjectType
<1>3. ArrayObject(<<>>) \in ObjectType
  BY <1>1 DEF ArrayObject, ObjectType
<1> QED BY <1>2, <1>3 DEF IntObject, ArrayObject

LEMMA SetIntWrites ==
  ASSUME NEW h, NEW v \in Val, NEW ev \in [Val -> Nat], NEW eo \in [Obj -> Nat],
         Balanced(h, {}, ev, eo), ev[v] >= 1, \E o \in Obj : h.obj[o].rc = 0, NEW n \in Int
  PROVE  Writes(h, SetInt(h, v, n), v, ev, eo) /\ Content(SetInt(h, v, n), v) = Num(n)
<1>0. HeapOK(h) /\ ~h.bad /\ h \in HeapType BY DEF Balanced, HeapOK
<1>m. n % Numbers \in 0 .. Numbers - 1 /\ (n % Numbers) % Numbers = n % Numbers
  BY ModFacts
<1>1. CASE IsInt(h, v) /\ Alone(h, v)
  <2> DEFINE o == h.val[v].obj
             new == ObjNumber(h.obj[o], n % Numbers)
             k == WithObj(h, o, new)
  <2>1. o \in Obj /\ h.obj[o].rc = 1 /\ h.obj[o].kind = "int" /\ o # NoObj
    BY <1>0, <1>1, Typed, Bounds DEF IsInt, Alone
  <2>2. SetInt(h, v, n) = k
    <3>1. SetInt(h, v, n) = [h EXCEPT !.obj[o].n = n % Numbers] BY <1>1 DEF SetInt
    <3> QED BY <3>1, Zenon DEF WithObj, ObjNumber
  <2>3. /\ new \in ObjectType /\ new.rc = h.obj[o].rc /\ new.kind = "int"
        /\ new.n = n % Numbers /\ new.cells = h.obj[o].cells
    <3>1. h.obj[o] \in ObjectType BY <1>0, <2>1, Typed
    <3> QED BY <1>m, <2>1, <3>1, ObjNumberFields
  <2> HIDE DEF new
  <2>4. /\ k \in HeapType /\ k.val = h.val /\ k.bad = h.bad /\ k.obj[o] = new
        /\ \A q \in Obj : q # o => k.obj[q] = h.obj[q]
    BY <1>0, <2>1, <2>3, ObjWritten
  <2> HIDE DEF k
  <2>5. \A q \in Obj : k.obj[q].rc = h.obj[q].rc /\ k.obj[q].kind = h.obj[q].kind
                       /\ k.obj[q].cells = h.obj[q].cells
    BY <2>1, <2>3, <2>4
  <2>6. HeapOK(k)
    <3>1. \A q \in Obj : k.obj[q].rc = 0 => k.obj[q] = FreeObj
      BY <1>0, <2>1, <2>4, <2>5 DEF HeapOK
    <3> QED BY <1>0, <2>4, <2>5, <3>1 DEF HeapOK
  <2>7. Balanced(k, {}, ev, eo)
    <3>1. Counted(h, {}, ev, eo) BY CountsOf
    <3>2. ASSUME NEW q \in Obj PROVE k.obj[q].rc = Cardinality(Pointing(k, {}, q)) + eo[q]
      <4>1. Pointing(k, {}, q) = Pointing(h, {}, q) BY <2>4 DEF Pointing
      <4> QED BY <2>5, <3>1, <4>1 DEF Counted
    <3>3. ASSUME NEW w \in Val PROVE k.val[w].rc = Cardinality(Places(k, w)) + ev[w]
      <4>1. Places(k, w) = Places(h, w) BY <2>5, SamePlaces
      <4> QED BY <2>4, <3>1, <4>1 DEF Counted
    <3>4. ~k.bad BY <1>0, <2>4
    <3> QED BY <2>6, <3>2, <3>3, <3>4, Counts
  <2>8. Surviving(h, k, {v}, {})
    <3>1. ASSUME NEW u \in Val \ {v} PROVE h.val[u].obj # o
      <4>1. SUFFICES ASSUME h.val[u].obj = o PROVE FALSE OBVIOUS
      <4>2. u \in Val \ {} /\ v \in Val \ {} /\ v # u OBVIOUS
      <4>3. h.obj[h.val[v].obj].rc >= 2 BY <2>1, <4>1, <4>2, HeldIsLive
      <4> QED BY <2>1, <4>3
    <3> HIDE DEF o
    <3> QED BY <2>4, <3>1 DEF Surviving
  <2>9. Content(k, v) = Num(n)
    <3>1. k.val[v].obj = o /\ k.obj[o].kind = "int" /\ k.obj[o].n = n % Numbers BY <2>3, <2>4
    <3> HIDE DEF o
    <3>2. Content(k, v) = Num(k.obj[o].n) BY <2>1, <3>1 DEF Content, IsInt, Number
    <3> QED BY <1>m, <3>1, <3>2 DEF Num
  <2>10. Fewer(h, k, {}) /\ OneMade(h, k) BY <2>5 DEF Fewer, OneMade
  <2> QED BY <2>2, <2>7, <2>8, <2>9, <2>10 DEF Writes
<1>2. CASE ~(IsInt(h, v) /\ Alone(h, v))
  <2> DEFINE new == IntObject(n)
             k == SetObj(h, v, new)
             o == NewObj(h)
  <2>1. SetInt(h, v, n) = k BY <1>2 DEF SetInt
  <2>2. new \in ObjectType /\ new.rc = 1 /\ new.kind = "int" /\ new.kind # "free" /\ new.cells = <<>>
        /\ new.n = n % Numbers
    BY ObjectsMade
  <2> HIDE DEF new
  <2>3. /\ Writes(h, k, v, ev, eo)
        /\ o \in Obj /\ k.val[v].obj = o
        /\ k.obj[o].kind = new.kind /\ k.obj[o].n = new.n
    BY <2>2, SetObjWrites
  <2> HIDE DEF k, o
  <2>4. Content(k, v) = Num(n)
    <3>1. o # NoObj BY <2>3, Bounds
    <3>2. Content(k, v) = Num(k.obj[o].n) BY <2>2, <2>3, <3>1 DEF Content, IsInt, Number
    <3> QED BY <1>m, <2>2, <2>3, <3>2 DEF Num
  <2> QED BY <2>1, <2>3, <2>4
<1> QED BY <1>1, <1>2

-------------------------------------------------------------------------------
(* copy. *)

LEMMA CopyIs ==
  ASSUME NEW h, NEW v, NEW w
  PROVE  Copy(h, v, w) = TakeFrom(CleanUp(h, v), v, w)
<1>1. {TakeFrom(g, v, w) : g \in {CleanUp(h, v)}} = {TakeFrom(CleanUp(h, v), v, w)} OBVIOUS
<1> QED BY <1>1, TheOnly DEF Copy

\* v takes the pointer o and counts for it.
Counting(f, o) == WithObj(f, o, ObjCount(f.obj[o], f.obj[o].rc + 1))
Repointed(g, v, o) == Counting(WithVal(g, v, ValPointer(g.val[v], o)), o)

InUse(g, o) == g.obj[o].rc # 0
PointsTo(g, k, v, o) == k.val[v].obj = o /\ \A w \in Val : w # v => k.val[w] = g.val[w]

LEMMA TakesPointer ==
  ASSUME NEW g, NEW v \in Val, NEW ev \in [Val -> Nat], NEW eo \in [Obj -> Nat],
         Balanced(g, {v}, ev, eo), ev[v] >= 1, NEW o \in Obj, InUse(g, o)
  PROVE  /\ Balanced(Repointed(g, v, o), {}, ev, eo) /\ SameObjects(g, Repointed(g, v, o))
         /\ PointsTo(g, Repointed(g, v, o), v, o)
<1> DEFINE c == ValPointer(g.val[v], o)
           f == WithVal(g, v, c)
           d == ObjCount(f.obj[o], f.obj[o].rc + 1)
           k == WithObj(f, o, d)
<1>0. HeapOK(g) /\ ~g.bad /\ g \in HeapType /\ g.obj[o].rc # 0 BY DEF Balanced, HeapOK, InUse
<1>1. c \in ValueType /\ c.obj = o /\ c.rc = g.val[v].rc
  <2>1. g.val[v] \in ValueType BY <1>0, Typed
  <2> QED BY <2>1, ValFields
<1> HIDE DEF c
<1>2. /\ f \in HeapType /\ f.obj = g.obj /\ f.bad = g.bad /\ f.val[v] = c
      /\ \A w \in Val : w # v => f.val[w] = g.val[w]
  BY <1>0, <1>1, ValWritten
<1> HIDE DEF f
<1>3. /\ d \in ObjectType /\ d.rc = g.obj[o].rc + 1 /\ d.kind = g.obj[o].kind
      /\ d.n = g.obj[o].n /\ d.cells = g.obj[o].cells
  <2> DEFINE r == f.obj[o]
             n == f.obj[o].rc + 1
  <2>1. r \in ObjectType /\ n \in Nat BY <1>0, <1>2, Typed
  <2>2. d = ObjCount(r, n) OBVIOUS
  <2>3. r = g.obj[o] /\ n = g.obj[o].rc + 1 BY <1>2
  <2> HIDE DEF r, n, d
  <2>4. /\ ObjCount(r, n) \in ObjectType /\ ObjCount(r, n).rc = n /\ ObjCount(r, n).kind = r.kind
        /\ ObjCount(r, n).n = r.n /\ ObjCount(r, n).cells = r.cells
    BY <2>1, ObjCountFields
  <2> QED BY <2>2, <2>3, <2>4
<1> HIDE DEF d
<1>4. /\ k \in HeapType /\ k.val = f.val /\ k.bad = f.bad /\ k.obj[o] = d
      /\ \A q \in Obj : q # o => k.obj[q] = f.obj[q]
  BY <1>2, <1>3, ObjWritten
<1> HIDE DEF k
<1>5. /\ k.val[v].obj = o /\ k.val[v].rc = g.val[v].rc
      /\ \A w \in Val : w # v => k.val[w] = g.val[w]
  BY <1>1, <1>2, <1>4
<1>6. /\ k.obj[o].rc = g.obj[o].rc + 1 /\ k.obj[o].kind = g.obj[o].kind
      /\ k.obj[o].n = g.obj[o].n /\ k.obj[o].cells = g.obj[o].cells
      /\ \A q \in Obj : q # o => k.obj[q] = g.obj[q]
  BY <1>2, <1>3, <1>4
<1>7. g.val[v].rc >= 1 /\ g.val[v].rc \in Nat /\ g.obj[o].rc \in Nat
  BY <1>0, Typed, HeldIsLive
<1>8. HeapOK(k)
  <2>1. ASSUME NEW q \in Obj
        PROVE  /\ k.obj[q].rc = 0 <=> k.obj[q].kind = "free"
               /\ k.obj[q].rc = 0 => k.obj[q] = FreeObj
               /\ Len(k.obj[q].cells) <= MaxSize
    <3>1. CASE q = o
      <4>1. (g.obj[o].rc = 0 <=> g.obj[o].kind = "free") /\ Len(g.obj[o].cells) <= MaxSize
        BY <1>0 DEF HeapOK
      <4>2. k.obj[o].rc # 0 BY <1>6, <1>7
      <4>3. k.obj[o].kind # "free" /\ Len(k.obj[o].cells) <= MaxSize BY <1>0, <1>6, <4>1
      <4> QED BY <3>1, <4>2, <4>3
    <3>2. CASE q # o BY <1>0, <1>6, <3>2 DEF HeapOK
    <3> QED BY <3>1, <3>2
  <2>2. ASSUME NEW w \in Val, k.val[w].rc = 0 PROVE k.val[w] = FreeVal
    <3>1. w # v BY <1>5, <1>7, <2>2
    <3> QED BY <1>0, <1>5, <2>2, <3>1 DEF HeapOK
  <2> QED BY <1>4, <2>1, <2>2 DEF HeapOK
<1>9. Counted(g, {v}, ev, eo) BY CountsOf
<1>10. ASSUME NEW q \in Obj PROVE k.obj[q].rc = Cardinality(Pointing(k, {}, q)) + eo[q]
  <2>1. PointersAgree(k, g, v) BY <1>5 DEF PointersAgree
  <2>2. /\ k.val[v].obj = q => Cardinality(Pointing(k, {}, q)) = Cardinality(Pointing(g, {v}, q)) + 1
        /\ k.val[v].obj # q => Cardinality(Pointing(k, {}, q)) = Cardinality(Pointing(g, {v}, q))
    BY <2>1, PointerMasked
  <2>3. g.obj[q].rc = Cardinality(Pointing(g, {v}, q)) + eo[q] BY <1>9 DEF Counted
  <2>4. Cardinality(Pointing(g, {v}, q)) \in Nat /\ eo[q] \in Nat BY PointingFinite
  <2>5. CASE q = o
    <3>1. Cardinality(Pointing(k, {}, q)) = Cardinality(Pointing(g, {v}, q)) + 1 BY <1>5, <2>2, <2>5
    <3>2. k.obj[q].rc = g.obj[q].rc + 1 BY <1>6, <2>5
    <3> QED BY <2>3, <2>4, <3>1, <3>2
  <2>6. CASE q # o
    <3>1. Cardinality(Pointing(k, {}, q)) = Cardinality(Pointing(g, {v}, q)) BY <1>5, <2>2, <2>6
    <3>2. k.obj[q].rc = g.obj[q].rc BY <1>6, <2>6
    <3> QED BY <2>3, <3>1, <3>2
  <2> QED BY <2>5, <2>6
<1>11. ASSUME NEW w \in Val PROVE k.val[w].rc = Cardinality(Places(k, w)) + ev[w]
  <2>1. \A q \in Obj : k.obj[q].cells = g.obj[q].cells BY <1>6
  <2>2. Places(k, w) = Places(g, w) BY <2>1, SamePlaces
  <2>3. k.val[w].rc = g.val[w].rc BY <1>5
  <2> QED BY <1>9, <2>2, <2>3 DEF Counted
<1>12. ~k.bad BY <1>0, <1>2, <1>4
<1>13. Balanced(k, {}, ev, eo) BY <1>8, <1>10, <1>11, <1>12, Counts
<1>14. SameObjects(g, k)
  <2>1. g.obj[o].rc > 0 BY <1>0, <1>7
  <2> QED BY <1>6, <2>1 DEF SameObjects
<1>15. k = Repointed(g, v, o) BY Zenon DEF Repointed, Counting, k, d, f, c
<1>16. PointsTo(g, k, v, o) BY <1>5 DEF PointsTo
<1> QED BY <1>13, <1>14, <1>15, <1>16

LEMMA CopyWrites ==
  ASSUME NEW h, NEW v \in Val, NEW w \in Val, NEW ev \in [Val -> Nat], NEW eo \in [Obj -> Nat],
         Balanced(h, {}, ev, eo), ev[v] >= 1,
         CleanUp(h, v).val[w].rc # 0,
         CleanUp(h, v).val[w].obj # NoObj => CleanUp(h, v).obj[CleanUp(h, v).val[w].obj].rc # 0
  PROVE  LET k == Copy(h, v, w)
         IN  /\ Writes(h, k, v, ev, eo) /\ SameObjects(h, k)
             /\ k.val[v].obj = h.val[w].obj /\ Content(k, v) = Content(h, w)
<1> DEFINE g == CleanUp(h, v)
           o == g.val[w].obj
           k == Copy(h, v, w)
           f == WithVal(g, v, ValPointer(g.val[v], o))
<1>1. Balanced(g, {v}, ev, eo) /\ Spared(h, g) /\ g.val[v].obj = h.val[v].obj BY CleanUpKeeps
<1>2. HeapOK(g) /\ g \in HeapType BY <1>1 DEF Balanced, HeapOK
<1>a. g.val[w].rc # 0 /\ (o # NoObj => g.obj[o].rc # 0) OBVIOUS
<1>3. k = AddObj(f, o)
  <2>1. k = TakeFrom(g, v, w) BY CopyIs
  <2> HIDE DEF g, k
  <2>2. TakeFrom(g, v, w) = AddObj([g EXCEPT !.val[v].obj = o], o) BY <1>a DEF TakeFrom
  <2>3. [g EXCEPT !.val[v].obj = o] = f BY Zenon DEF WithVal, ValPointer
  <2> QED BY <2>1, <2>2, <2>3
<1> HIDE DEF g
<1>4. o \in {NoObj} \cup Obj BY <1>2, Typed
<1>5. h.val[w].rc > 0 /\ o = h.val[w].obj
  <2>1. g.val[w].rc > 0 BY <1>2, <1>a, Typed
  <2> QED BY <1>1, <2>1 DEF Spared
<1>6. ASSUME NEW kk, kk.val[v].obj = o, SameObjects(g, kk), Balanced(kk, {}, ev, eo),
             o \in Obj => kk.obj[o].rc > 0
      PROVE  Content(kk, v) = Content(h, w)
  <2>1. CASE o = NoObj BY <1>5, <1>6, <2>1 DEF Content
  <2>2. CASE o # NoObj
    <3> DEFINE p == h.val[w].obj
    <3>1. o \in Obj /\ p = o BY <1>4, <1>5, <2>2
    <3>2. kk.obj[p].rc > 0 BY <1>6, <3>1
    <3>3. g.obj[p].rc > 0 /\ kk.obj[p].kind = g.obj[p].kind /\ kk.obj[p].n = g.obj[p].n
      BY <1>6, <3>1, <3>2 DEF SameObjects
    <3>4. g.obj[p].kind = h.obj[p].kind /\ g.obj[p].n = h.obj[p].n BY <1>1, <3>1, <3>3 DEF Spared
    <3>5. kk.val[v].obj = p BY <1>6, <3>1
    <3>6. /\ kk.obj[kk.val[v].obj].kind = h.obj[h.val[w].obj].kind
          /\ kk.obj[kk.val[v].obj].n = h.obj[h.val[w].obj].n
          /\ kk.val[v].obj = h.val[w].obj
      BY <3>3, <3>4, <3>5
    <3> QED BY <3>6, Zenon DEF Content, IsInt, Number
  <2> QED BY <2>1, <2>2
<1>7. ASSUME NEW kk, SameObjects(g, kk) PROVE SameObjects(h, kk)
  <2> SUFFICES ASSUME NEW q \in Obj, kk.obj[q].rc > 0
               PROVE  /\ h.obj[q].rc > 0 /\ kk.obj[q].kind = h.obj[q].kind
                      /\ kk.obj[q].n = h.obj[q].n /\ kk.obj[q].cells = h.obj[q].cells
    BY DEF SameObjects
  <2>1. /\ g.obj[q].rc > 0 /\ kk.obj[q].kind = g.obj[q].kind
        /\ kk.obj[q].n = g.obj[q].n /\ kk.obj[q].cells = g.obj[q].cells
    BY <1>7 DEF SameObjects
  <2> QED BY <1>1, <2>1 DEF Spared
<1>8. CASE o = NoObj
  <2>1. k = f BY <1>3, <1>8 DEF AddObj
  <2>2. Balanced(f, {}, ev, eo) BY <1>1, <1>8, PointedNowhere
  <2>3. f.obj = g.obj /\ f.val[v].obj = o /\ \A u \in Val : u # v => f.val[u] = g.val[u]
    <3>1. g.val[v] \in ValueType BY <1>2, Typed
    <3>2. ValPointer(g.val[v], o) \in ValueType /\ ValPointer(g.val[v], o).obj = o BY <1>4, <3>1, ValFields
    <3> HIDE DEF o
    <3> QED BY <1>2, <3>2, ValWritten
  <2> HIDE DEF f
  <2>4. SameObjects(g, f) BY <2>3 DEF SameObjects
  <2>5. Surviving(h, f, {v}, {}) BY <1>1, <2>3, AfterPointer
  <2>6. o \notin Obj BY <1>8, Bounds
  <2>7. Content(f, v) = Content(h, w) BY <1>6, <2>2, <2>3, <2>4, <2>6
  <2>8. SameObjects(h, f) BY <1>7, <2>4
  <2>9. Fewer(h, f, {}) /\ OneMade(h, f) BY <2>2, <2>8, FewerSame, OneMadeSame DEF Balanced
  <2> QED BY <1>5, <2>1, <2>2, <2>3, <2>5, <2>7, <2>8, <2>9 DEF Writes
<1>9. CASE o # NoObj
  <2> DEFINE kk == Repointed(g, v, o)
  <2>1. o \in Obj /\ g.obj[o].rc # 0 BY <1>4, <1>9, <1>a
  <2>2. /\ Balanced(kk, {}, ev, eo) /\ SameObjects(g, kk)
        /\ kk.val[v].obj = o /\ \A u \in Val : u # v => kk.val[u] = g.val[u]
    <3> HIDE DEF o, g, f
    <3>1. Balanced(g, {v}, ev, eo) BY <1>1
    <3>2. InUse(g, o) BY <2>1 DEF InUse
    <3> HIDE DEF kk
    <3>3. kk = Repointed(g, v, o) BY DEF kk
    <3>4. Balanced(kk, {}, ev, eo) /\ SameObjects(g, kk) /\ PointsTo(g, kk, v, o)
      BY <2>1, <3>1, <3>2, <3>3, TakesPointer
    <3> QED BY <3>4 DEF PointsTo
  <2>3. k = kk
    <3>1. f.obj = g.obj
      <4>1. g.val[v] \in ValueType BY <1>2, Typed
      <4>2. ValPointer(g.val[v], o) \in ValueType BY <1>4, <4>1, ValFields
      <4> HIDE DEF o
      <4> QED BY <1>2, <4>2, ValWritten
    <3> HIDE DEF f, o
    <3>2. AddObj(f, o) = [f EXCEPT !.obj[o].rc = @ + 1] BY <1>9, <2>1, <3>1 DEF AddObj
    <3>3. [f EXCEPT !.obj[o].rc = @ + 1] = Counting(f, o) BY Zenon DEF WithObj, ObjCount, Counting
    <3>4. kk = Counting(f, o) BY Zenon DEF Repointed, f
    <3> QED BY <1>3, <3>2, <3>3, <3>4
  <2> HIDE DEF kk
  <2>4. kk.obj[o].rc > 0
    <3>1. v \in Val \ {} /\ kk.val[v].obj # NoObj BY <1>9, <2>2
    <3>2. kk.obj[kk.val[v].obj].rc >= 1 BY <2>2, <3>1, HeldIsLive
    <3>3. kk.obj[o].rc \in Nat BY <2>1, <2>2, Typed DEF Balanced, HeapOK
    <3> QED BY <2>2, <3>2, <3>3
  <2>5. Content(kk, v) = Content(h, w) BY <1>6, <2>2, <2>4
  <2>6. SameObjects(h, kk) BY <1>7, <2>2
  <2>7. Surviving(h, kk, {v}, {})
    <3> SUFFICES ASSUME NEW u \in Val \ {v}, kk.val[u].rc > 0
                 PROVE  /\ h.val[u].rc > 0
                        /\ kk.val[u].obj = h.val[u].obj
                        /\ h.val[u].obj \in Obj =>
                             /\ kk.obj[h.val[u].obj].kind = h.obj[h.val[u].obj].kind
                             /\ kk.obj[h.val[u].obj].n = h.obj[h.val[u].obj].n
                             /\ kk.obj[h.val[u].obj].cells = h.obj[h.val[u].obj].cells
      BY DEF Surviving
    <3>1. kk.val[u] = g.val[u] BY <2>2
    <3>2. h.val[u].rc > 0 /\ kk.val[u].obj = h.val[u].obj BY <1>1, <3>1 DEF Spared
    <3>3. ASSUME h.val[u].obj \in Obj PROVE kk.obj[h.val[u].obj].rc > 0
      <4>1. u \in Val \ {} /\ kk.val[u].obj # NoObj BY <3>2, <3>3, Bounds
      <4>2. kk.obj[kk.val[u].obj].rc >= 1 BY <2>2, <4>1, HeldIsLive
      <4>3. kk.obj[h.val[u].obj].rc \in Nat BY <2>2, <3>3, Typed DEF Balanced, HeapOK
      <4> QED BY <3>2, <4>2, <4>3
    <3> QED BY <2>6, <3>2, <3>3 DEF SameObjects
  <2>8. Fewer(h, kk, {}) /\ OneMade(h, kk) BY <2>2, <2>6, FewerSame, OneMadeSame DEF Balanced
  <2> QED BY <1>5, <2>2, <2>3, <2>5, <2>6, <2>7, <2>8 DEF Writes
<1> QED BY <1>8, <1>9

\* What is held without the pointer of v: by ev, or as an element of an array that ev holds.
Held(h, v, ev, w) ==
  \/ ev[w] >= 1
  \/ \E a \in Val \ {v} :
       /\ ev[a] >= 1 /\ h.val[a].obj \in Obj
       /\ \E i \in 1 .. Len(h.obj[h.val[a].obj].cells) : h.obj[h.val[a].obj].cells[i] = w

LEMMA HeldStays ==
  ASSUME NEW h, NEW v \in Val, NEW w \in Val, v # w, NEW ev \in [Val -> Nat], NEW eo \in [Obj -> Nat],
         Balanced(h, {}, ev, eo), ev[v] >= 1, Held(h, v, ev, w)
  PROVE  /\ CleanUp(h, v).val[w].rc # 0
         /\ CleanUp(h, v).val[w].obj # NoObj => CleanUp(h, v).obj[CleanUp(h, v).val[w].obj].rc # 0
<1> DEFINE g == CleanUp(h, v)
<1>1. Balanced(g, {v}, ev, eo) /\ Spared(h, g) BY CleanUpKeeps
<1> HIDE DEF g
<1>2. g \in HeapType BY <1>1 DEF Balanced, HeapOK
<1>3. ASSUME ev[w] >= 1 PROVE g.val[w].rc # 0
  <2>1. g.val[w].rc >= 1 BY <1>1, <1>3, HeldIsLive
  <2> QED BY <2>1
<1>4. ASSUME NEW a \in Val \ {v}, ev[a] >= 1, h.val[a].obj \in Obj,
             NEW i \in 1 .. Len(h.obj[h.val[a].obj].cells), h.obj[h.val[a].obj].cells[i] = w
      PROVE  g.val[w].rc # 0
  <2> DEFINE o == h.val[a].obj
  <2>1. o \in Obj /\ o # NoObj BY <1>4, Bounds
  <2>2. g.val[a].rc >= 1 BY <1>1, <1>4, HeldIsLive
  <2>3. g.val[a].obj = o
    <3>1. g.val[a].rc > 0 BY <1>2, <2>2, Typed
    <3> QED BY <1>1, <3>1 DEF Spared
  <2>4. i \in 1 .. Len(h.obj[o].cells) /\ h.obj[o].cells[i] = w BY <1>4
  <2> HIDE DEF o
  <2>5. g.obj[o].rc >= 1 BY <1>1, <2>1, <2>3, HeldIsLive
  <2>6. g.obj[o].cells = h.obj[o].cells
    <3>1. g.obj[o].rc > 0 BY <1>2, <2>1, <2>5, Typed
    <3> QED BY <1>1, <2>1, <3>1 DEF Spared
  <2>7. g.val[g.obj[o].cells[i]].rc >= 1
    <3>1. i \in 1 .. Len(g.obj[o].cells) BY <2>4, <2>6
    <3> QED BY <1>1, <2>1, <3>1, HeldIsLive
  <2> QED BY <2>4, <2>6, <2>7
<1>5. g.val[w].rc # 0 BY <1>3, <1>4 DEF Held
<1>6. g.val[w].obj # NoObj => g.obj[g.val[w].obj].rc # 0
  <2>1. g.val[w].obj # NoObj => g.obj[g.val[w].obj].rc >= 1
    <3>1. w \in Val \ {v} OBVIOUS
    <3> QED BY <1>1, <3>1, HeldIsLive
  <2> QED BY <2>1
<1> QED BY <1>5, <1>6 DEF g

\* Where giving up a leaves nothing to be given up.
LEMMA ReleaseShort ==
  ASSUME NEW h, NEW a \in Refs, DelRef(h, a).due = <<>>
  PROVE  Release(h, <<a>>) = DelRef(h, a).heap
<1> DEFINE due == <<a>>
           n == MaxDels(due)
           g == DelRef(h, a).heap
           last == [heap |-> g, due |-> <<>>]
<1>1. n \in Nat /\ n >= 1
  <2>1. MaxSize * MaxObjs \in Nat BY Bounds
  <2>2. Len(due) = 1 OBVIOUS
  <2> QED BY <2>1, <2>2, Bounds DEF MaxDels
<1>2. PICK f : Releases(f, h, due, n) /\ Release(h, due) = f[n].heap
  BY <1>1, ReleaseIs
<1>3. f[0] = [heap |-> h, due |-> due] /\ \A k \in 0 .. n : k # 0 => f[k] = DelFirst(f[k - 1])
  <2> HIDE DEF n
  <2>1. 0 \in 0 .. n BY <1>1
  <2>2. f[0] = [heap |-> h, due |-> due] BY <1>2, <2>1 DEF Releases
  <2>3. ASSUME NEW k \in 0 .. n, k # 0 PROVE f[k] = DelFirst(f[k - 1])
    <3>1. f[k] = The({DelFirst(s) : s \in {f[k - 1]}}) BY <1>2, <2>3 DEF Releases
    <3>2. {DelFirst(s) : s \in {f[k - 1]}} = {DelFirst(f[k - 1])} OBVIOUS
    <3> QED BY <3>1, <3>2, TheOnly
  <2> QED BY <2>2, <2>3
<1> HIDE DEF n
<1>4. f[1] = last
  <2>1. f[1] = DelFirst(f[0]) BY <1>1, <1>3
  <2>2. f[0].due = <<a>> /\ f[0].heap = h BY <1>3
  <2>3. Head(<<a>>) = a /\ Tail(<<a>>) = <<>> /\ <<a>> # <<>> OBVIOUS
  <2>4. DelFirst(f[0]) = [heap |-> g, due |-> DelRef(h, a).due \o Tail(<<a>>)]
    BY <2>2, <2>3 DEF DelFirst
  <2>5. <<>> \o <<>> = <<>> OBVIOUS
  <2> HIDE DEF g
  <2> QED BY <2>1, <2>3, <2>4, <2>5
<1> DEFINE N == {m \in Nat : m \in 1 .. n => f[m] = last}
<1>5. 0 \in N OBVIOUS
<1>6. ASSUME NEW m \in Nat, m \in N PROVE m + 1 \in N
  <2> SUFFICES ASSUME m + 1 \in 1 .. n PROVE f[m + 1] = last OBVIOUS
  <2>1. CASE m = 0 BY <1>4, <2>1
  <2>2. CASE m # 0
    <3>1. f[m] = last BY <1>1, <1>6, <2>2
    <3>2. f[m + 1] = DelFirst(f[m]) BY <1>1, <1>3
    <3>3. DelFirst(last) = last BY DEF DelFirst
    <3> HIDE DEF last
    <3> QED BY <3>1, <3>2, <3>3
  <2> QED BY <2>1, <2>2
<1>7. n \in N
  <2> HIDE DEF N, last
  <2> QED BY <1>1, <1>5, <1>6, NatSetInduction
<1>8. f[n] = last BY <1>1, <1>7
<1>9. f[n].heap = g BY <1>8
<1> QED BY <1>2, <1>9, Zenon

-------------------------------------------------------------------------------
(* deepCopy and clone. *)
LEMMA IsIntContent ==
  ASSUME NEW h, NEW w \in Val, IsInt(h, w)
  PROVE  Content(h, w) = Num(Number(h, w))
  BY DEF Content, IsInt

\* Only an object that v alone holds cannot be copied onto v itself.
LEMMA CopyToItself ==
  ASSUME NEW h, NEW v \in Val, NEW ev \in [Val -> Nat], NEW eo \in [Obj -> Nat],
         Balanced(h, {}, ev, eo), ev[v] >= 1, h.val[v].obj # NoObj, ~Alone(h, v)
  PROVE  CleanUp(h, v).obj[h.val[v].obj].rc # 0
<1> DEFINE o == h.val[v].obj
           g == CleanUp(h, v)
           a == ObjectRef(o)
           r == h.obj[o]
           n == h.obj[o].rc - 1
<1>0. h \in HeapType BY DEF Balanced, HeapOK
<1>1. o \in Obj /\ o # NoObj /\ h.obj[o].rc \in Nat /\ h.obj[o].rc > 1
  <2>1. v \in Val \ {} OBVIOUS
  <2>2. o \in Obj /\ h.obj[o].rc >= 1 BY <2>1, HeldIsLive
  <2>3. h.obj[o].rc # 1 BY DEF Alone
  <2>4. h.obj[o].rc \in Nat BY <1>0, <2>2, Typed
  <2> HIDE DEF o
  <2> QED BY <2>2, <2>3, <2>4
<1>2. DelRef(h, a) = [heap |-> [h EXCEPT !.obj[o].rc = @ - 1], due |-> <<>>]
  <2>1. DelRef(h, a) = DelObj(h, o)
    <3>1. a[1] = "object" /\ a[2] = o /\ "object" # "value" BY RefFacts
    <3> HIDE DEF a, o
    <3> QED BY <3>1, Zenon DEF DelRef
  <2> HIDE DEF o, a
  <2>2. h.obj[o].rc # 0 BY <1>1
  <2> QED BY <1>1, <2>1, <2>2 DEF DelObj
<1>3. g = [h EXCEPT !.obj[o].rc = @ - 1]
  <2>1. a \in Refs BY <1>1, RefsAre
  <2>2. DelRef(h, a).due = <<>> BY <1>2
  <2>3. g = Release(h, <<a>>) BY DEF CleanUp
  <2> HIDE DEF g, a, o
  <2>4. g = DelRef(h, a).heap BY <2>1, <2>2, <2>3, ReleaseShort
  <2> QED BY <1>2, <2>4
<1>4. r \in ObjectType /\ n \in Nat /\ n # 0
  <2> HIDE DEF o
  <2>1. h.obj[o] \in ObjectType /\ h.obj[o].rc \in Nat BY <1>0, <1>1, Typed
  <2> QED BY <1>1, <2>1
<1>5. g = WithObj(h, o, ObjCount(r, n))
  <2> HIDE DEF g, o
  <2> QED BY <1>3, Zenon DEF WithObj, ObjCount
<1> HIDE DEF g, r, n, o
<1>6. ObjCount(r, n) \in ObjectType /\ ObjCount(r, n).rc = n BY <1>4, ObjCountFields
<1>7. g.obj[o] = ObjCount(r, n) BY <1>0, <1>1, <1>5, <1>6, ObjWritten
<1>8. g.obj[o].rc # 0 BY <1>4, <1>6, <1>7
<1> QED BY <1>8 DEF g, o

LEMMA DeepCopyWrites ==
  ASSUME NEW h, NEW v \in Val, NEW w \in Val, NEW ev \in [Val -> Nat], NEW eo \in [Obj -> Nat],
         Balanced(h, {}, ev, eo), ev[v] >= 1, ev[w] >= 1, \E o \in Obj : h.obj[o].rc = 0
  PROVE  LET k == DeepCopy(h, v, w)
         IN  \/ v = w /\ IsArray(h, v) /\ Alone(h, v)
             \/ Writes(h, k, v, ev, eo) /\ Content(k, v) = Content(h, w)
<1> DEFINE k == DeepCopy(h, v, w)
           g == CleanUp(h, v)
<1>0. h \in HeapType BY DEF Balanced, HeapOK
<1>1. CASE IsInt(h, w)
  <2>1. k = SetInt(h, v, Number(h, w)) BY <1>1 DEF DeepCopy
  <2>2. Number(h, w) \in Int
    <3>1. h.val[w].obj \in Obj BY <1>0, <1>1, Typed DEF IsInt
    <3> QED BY <1>0, <3>1, Typed DEF Number
  <2>3. Writes(h, SetInt(h, v, Number(h, w)), v, ev, eo)
        /\ Content(SetInt(h, v, Number(h, w)), v) = Num(Number(h, w))
    BY <2>2, SetIntWrites
  <2> QED BY <1>1, <2>1, <2>3, IsIntContent
<1>2. CASE ~IsInt(h, w)
  <2>1. k = Copy(h, v, w) BY <1>2 DEF DeepCopy
  <2>2. ASSUME ~(v = w /\ IsArray(h, v) /\ Alone(h, v))
        PROVE  g.val[w].rc # 0 /\ (g.val[w].obj # NoObj => g.obj[g.val[w].obj].rc # 0)
    <3>1. CASE v # w
      <4>1. Held(h, v, ev, w) BY DEF Held
      <4> HIDE DEF g
      <4> QED BY <3>1, <4>1, HeldStays DEF g
    <3>2. CASE v = w
      <4>1. Balanced(g, {v}, ev, eo) /\ g.val[v].obj = h.val[v].obj BY CleanUpKeeps
      <4> HIDE DEF g
      <4>2. g.val[v].rc >= 1 BY <4>1, HeldIsLive
      <4>3. ASSUME g.val[v].obj # NoObj PROVE g.obj[g.val[v].obj].rc # 0
        <5>1. h.val[v].obj # NoObj BY <4>1, <4>3
        <5>2. v \in Val \ {} OBVIOUS
        <5>3. h.val[v].obj \in Obj /\ h.obj[h.val[v].obj].rc >= 1 BY <5>1, <5>2, HeldIsLive
        <5>4. h.obj[h.val[v].obj].rc # 0 BY <5>3
        <5>5. h.obj[h.val[v].obj].kind # "free" BY <5>3, <5>4 DEF Balanced, HeapOK
        <5>6. h.obj[h.val[v].obj].kind \in {"free", "int", "array"} BY <1>0, <5>3, Typed
        <5>7. IsArray(h, v) BY <1>2, <3>2, <5>1, <5>5, <5>6 DEF IsArray, IsInt
        <5>8. ~Alone(h, v) BY <2>2, <3>2, <5>7
        <5>9. g.obj[h.val[v].obj].rc # 0 BY <5>1, <5>8, CopyToItself DEF g
        <5> QED BY <4>1, <5>9
      <4>4. g.val[v].rc # 0 BY <4>2
      <4> QED BY <3>2, <4>3, <4>4
    <3> QED BY <3>1, <3>2
  <2>3. ASSUME ~(v = w /\ IsArray(h, v) /\ Alone(h, v))
        PROVE  Writes(h, Copy(h, v, w), v, ev, eo) /\ Content(Copy(h, v, w), v) = Content(h, w)
    BY <2>2, <2>3, CopyWrites
  <2> QED BY <2>1, <2>3
<1> QED BY <1>1, <1>2

FreshValue == [obj |-> NoObj, rc |-> 1]

\* A Value that has just been made, held by whoever made it.
LEMMA Made ==
  ASSUME NEW h, NEW ev \in [Val -> Nat], NEW eo \in [Obj -> Nat], Balanced(h, {}, ev, eo),
         NEW n \in Val, h.val[n].rc = 0
  PROVE  LET f == WithVal(h, n, FreshValue)
         IN  /\ Balanced(f, {}, Plus(ev, n), eo) /\ Surviving(h, f, {n}, {})
             /\ f.obj = h.obj /\ f.val[n] = FreshValue
             /\ \A w \in Val : w # n => f.val[w] = h.val[w]
<1> DEFINE f == WithVal(h, n, FreshValue)
           ep == Plus(ev, n)
<1>0. HeapOK(h) /\ ~h.bad /\ h \in HeapType BY DEF Balanced, HeapOK
<1>1. FreshValue \in ValueType /\ FreshValue.rc = 1 /\ FreshValue.obj = NoObj
  BY DEF FreshValue, ValueType
<1>2. /\ f \in HeapType /\ f.obj = h.obj /\ f.bad = h.bad /\ f.val[n] = FreshValue
      /\ \A w \in Val : w # n => f.val[w] = h.val[w]
  BY <1>0, <1>1, ValWritten
<1>3. ep \in [Val -> Nat] /\ \A w \in Val : ep[w] = ev[w] + (IF w = n THEN 1 ELSE 0)
  BY PlusVal
<1> HIDE DEF f, ep
<1>4. HeapOK(f)
  <2>1. f.val[n].rc # 0 BY <1>1, <1>2
  <2> QED BY <1>0, <1>2, <2>1 DEF HeapOK
<1>5. Counted(h, {}, ev, eo) BY CountsOf
<1>6. ASSUME NEW q \in Obj PROVE f.obj[q].rc = Cardinality(Pointing(f, {}, q)) + eo[q]
  <2>1. h.val[n].obj = NoObj BY <1>0 DEF HeapOK, FreeVal
  <2>2. \A w \in Val \ {} : f.val[w].obj = h.val[w].obj BY <1>1, <1>2, <2>1
  <2>3. Pointing(f, {}, q) = Pointing(h, {}, q) BY <2>2, SamePointing
  <2> QED BY <1>2, <1>5, <2>3 DEF Counted
<1>7. ASSUME NEW w \in Val PROVE f.val[w].rc = Cardinality(Places(f, w)) + ep[w]
  <2>1. Places(f, w) = Places(h, w) BY <1>2, SamePlaces
  <2>2. h.val[w].rc = Cardinality(Places(h, w)) + ev[w] BY <1>5 DEF Counted
  <2>3. Cardinality(Places(h, w)) \in Nat /\ ev[w] \in Nat BY PlacesFinite
  <2>4. CASE w = n BY <1>1, <1>2, <1>3, <2>1, <2>2, <2>3, <2>4
  <2>5. CASE w # n BY <1>2, <1>3, <2>1, <2>2, <2>3, <2>5
  <2> QED BY <2>4, <2>5
<1>8. ~f.bad BY <1>0, <1>2
<1>9. Balanced(f, {}, ep, eo) BY <1>3, <1>4, <1>6, <1>7, <1>8, Counts
<1>10. Surviving(h, f, {n}, {}) BY <1>2 DEF Surviving
<1> QED BY <1>2, <1>9, <1>10 DEF f, ep

LEMMA CloneWrites ==
  ASSUME NEW h, NEW w \in Val, NEW ev \in [Val -> Nat], NEW eo \in [Obj -> Nat],
         Balanced(h, {}, ev, eo), \E n \in Val : h.val[n].rc = 0, Held(h, NoVal, ev, w)
  PROVE  LET n == NewVal(h)
             k == Clone(h, w)
         IN  /\ n \in Val /\ h.val[n].rc = 0
             /\ Balanced(k, {}, Plus(ev, n), eo) /\ Surviving(h, k, {n}, {}) /\ SameObjects(h, k)
             /\ k.val[n].rc # 0 /\ k.val[n].obj = h.val[w].obj /\ Content(k, n) = Content(h, w)
<1> DEFINE n == NewVal(h)
           f == WithVal(h, n, FreshValue)
           ep == Plus(ev, n)
           k == Copy(f, n, w)
<1>0. h \in HeapType BY DEF Balanced, HeapOK
<1>1. n \in Val /\ h.val[n].rc = 0 BY FreshVal
<1>2. Clone(h, w) = k BY Zenon DEF Clone, WithVal, FreshValue
<1> HIDE DEF n
<1>3. /\ Balanced(f, {}, ep, eo) /\ Surviving(h, f, {n}, {})
      /\ f.obj = h.obj /\ f.val[n] = FreshValue
      /\ \A u \in Val : u # n => f.val[u] = h.val[u]
  BY <1>1, Made
<1>4. ep \in [Val -> Nat] /\ \A u \in Val : ep[u] = ev[u] + (IF u = n THEN 1 ELSE 0)
  BY PlusVal
<1> HIDE DEF f, ep
<1>5. ASSUME NEW u \in Val, ev[u] >= 1 PROVE u # n /\ ep[u] >= 1
  <2>1. h.val[u].rc >= 1 BY <1>5, HeldIsLive
  <2>2. u # n BY <1>1, <2>1
  <2>3. ep[u] = ev[u] + 0 /\ ev[u] \in Nat BY <1>4, <2>2
  <2> QED BY <1>5, <2>2, <2>3
<1>6. ep[n] >= 1
  <2>1. ep[n] = ev[n] + 1 /\ ev[n] \in Nat BY <1>1, <1>4
  <2> QED BY <2>1
<1>7. w # n /\ Held(f, n, ep, w)
  <2>1. CASE ev[w] >= 1 BY <1>5, <2>1 DEF Held
  <2>2. CASE \E a \in Val \ {NoVal} :
               /\ ev[a] >= 1 /\ h.val[a].obj \in Obj
               /\ \E i \in 1 .. Len(h.obj[h.val[a].obj].cells) : h.obj[h.val[a].obj].cells[i] = w
    <3>1. PICK a \in Val : /\ ev[a] >= 1 /\ h.val[a].obj \in Obj
                           /\ \E i \in 1 .. Len(h.obj[h.val[a].obj].cells) : h.obj[h.val[a].obj].cells[i] = w
      BY <2>2
    <3>2. a # n /\ ep[a] >= 1 BY <1>5, <3>1
    <3>3. f.val[a] = h.val[a] BY <1>3, <3>2
    <3>4. Held(f, n, ep, w)
      <4>1. \E i \in 1 .. Len(f.obj[f.val[a].obj].cells) : f.obj[f.val[a].obj].cells[i] = w
        BY <1>3, <3>1, <3>3
      <4>2. f.val[a].obj \in Obj BY <3>1, <3>3
      <4> QED BY <3>2, <4>1, <4>2 DEF Held
    <3>5. h.val[w].rc >= 1
      <4>1. PICK i \in 1 .. Len(h.obj[h.val[a].obj].cells) : h.obj[h.val[a].obj].cells[i] = w BY <3>1
      <4> QED BY <3>1, <4>1, HeldIsLive
    <3> QED BY <1>1, <3>4, <3>5
  <2> QED BY <2>1, <2>2 DEF Held
<1>8. /\ CleanUp(f, n).val[w].rc # 0
      /\ CleanUp(f, n).val[w].obj # NoObj => CleanUp(f, n).obj[CleanUp(f, n).val[w].obj].rc # 0
  <2>1. n \in Val /\ n # w /\ Balanced(f, {}, ep, eo) /\ ep \in [Val -> Nat] /\ ep[n] >= 1 /\ Held(f, n, ep, w)
    BY <1>1, <1>3, <1>4, <1>6, <1>7
  <2> HIDE DEF k
  <2> QED BY <2>1, HeldStays
<1>9. /\ Writes(f, k, n, ep, eo) /\ SameObjects(f, k)
      /\ k.val[n].obj = f.val[w].obj /\ Content(k, n) = Content(f, w)
  BY <1>1, <1>3, <1>4, <1>6, <1>8, CopyWrites
<1> HIDE DEF k
<1>10. Balanced(k, {}, ep, eo) BY <1>9 DEF Writes
<1>11. Surviving(h, k, {n}, {})
  <2>1. Surviving(h, k, {n} \cup {n}, {} \cup {}) BY <1>3, <1>9, SurvivingTwice DEF Writes
  <2>2. {n} \cup {n} = {n} /\ {} \cup {} = {} OBVIOUS
  <2> QED BY <2>1, <2>2
<1>12. SameObjects(h, k) BY <1>3, <1>9 DEF SameObjects
<1>13. k.val[n].rc # 0
  <2>1. k.val[n].rc >= 1 BY <1>1, <1>4, <1>6, <1>10, HeldIsLive
  <2> QED BY <2>1
<1>14. f.val[w].obj = h.val[w].obj BY <1>3, <1>7
<1>15. Content(f, w) = Content(h, w) BY <1>3, <1>7, Zenon DEF Content, IsInt, Number
<1> QED BY <1>1, <1>2, <1>9, <1>10, <1>11, <1>12, <1>13, <1>14, <1>15 DEF n, ep

-------------------------------------------------------------------------------
(* Giving up Values, and the elements of arrays. *)
ValueRefs == {ValueRef(v) : v \in {NoVal} \cup Val}

LEMMA ReleaseWrites ==
  ASSUME NEW h, HeapOK(h), ~h.bad, NEW due \in Seq(Refs),
         NEW ev \in [Val -> Nat], NEW eo \in [Obj -> Nat], Owing(h, due, {}, ev, eo)
  PROVE  LET g == Release(h, due)
         IN  Balanced(g, {}, ev, eo) /\ Surviving(h, g, {}, {}) /\ Fewer(h, g, {})
<1> DEFINE g == Release(h, due)
<1>1. HeapOK(g) /\ ~g.bad /\ Owing(g, <<>>, {}, ev, eo) /\ Spared(h, g)
  <2>1. \A w \in {} : ev[w] >= 1 OBVIOUS
  <2> QED BY <2>1, ReleaseKeeps
<1> HIDE DEF g
<1>2. Balanced(g, {}, ev, eo) BY <1>1 DEF Balanced
<1>3. Surviving(h, g, {}, {})
  <2> SUFFICES ASSUME NEW u \in Val, g.val[u].rc > 0
               PROVE  /\ h.val[u].rc > 0
                      /\ g.val[u].obj = h.val[u].obj
                      /\ h.val[u].obj \in Obj =>
                           /\ g.obj[h.val[u].obj].kind = h.obj[h.val[u].obj].kind
                           /\ g.obj[h.val[u].obj].n = h.obj[h.val[u].obj].n
                           /\ g.obj[h.val[u].obj].cells = h.obj[h.val[u].obj].cells
    BY DEF Surviving
  <2>1. h.val[u].rc > 0 /\ g.val[u].obj = h.val[u].obj BY <1>1 DEF Spared
  <2>2. ASSUME h.val[u].obj \in Obj PROVE g.obj[h.val[u].obj].rc > 0
    <3>1. u \in Val \ {} /\ g.val[u].obj # NoObj BY <2>1, <2>2, Bounds
    <3>2. g.obj[g.val[u].obj].rc >= 1 BY <1>2, <3>1, HeldIsLive
    <3>3. g.obj[h.val[u].obj].rc \in Nat BY <1>1, <2>2, Typed DEF HeapOK
    <3> QED BY <2>1, <3>2, <3>3
  <2> QED BY <1>1, <2>1, <2>2 DEF Spared
<1>4. Fewer(h, g, {}) BY <1>1, SpareObjects, FewerSame
<1> QED BY <1>2, <1>3, <1>4 DEF g

\* What somebody held and gives up.
LEMMA OwingOne ==
  ASSUME NEW h, NEW ev \in [Val -> Nat], NEW ep \in [Val -> Nat], NEW eo \in [Obj -> Nat],
         Balanced(h, {}, ep, eo), NEW x \in {NoVal} \cup Val,
         \A v \in Val : ep[v] = ev[v] + (IF v = x THEN 1 ELSE 0)
  PROVE  HeapOK(h) /\ ~h.bad /\ <<ValueRef(x)>> \in Seq(Refs) /\ Owing(h, <<ValueRef(x)>>, {}, ev, eo)
<1> DEFINE due == <<ValueRef(x)>>
<1>1. HeapOK(h) /\ ~h.bad BY DEF Balanced
<1>2. due \in Seq(Refs) BY RefsAre
<1>3. Counted(h, {}, ep, eo) BY CountsOf
<1>4. ASSUME NEW o \in Obj
      PROVE  h.obj[o].rc = Cardinality(Pointing(h, {}, o)) + eo[o] + Count(due, ObjectRef(o))
  <2>1. Count(due, ObjectRef(o)) = 0 BY CountOne, RefFacts
  <2>2. h.obj[o].rc = Cardinality(Pointing(h, {}, o)) + eo[o] BY <1>3 DEF Counted
  <2>3. Cardinality(Pointing(h, {}, o)) \in Nat /\ eo[o] \in Nat BY PointingFinite
  <2> HIDE DEF due
  <2> QED BY <2>1, <2>2, <2>3
<1>5. ASSUME NEW v \in Val
      PROVE  h.val[v].rc = Cardinality(Places(h, v)) + ev[v] + Count(due, ValueRef(v))
  <2> DEFINE n == Count(due, ValueRef(v))
             p == Cardinality(Places(h, v))
  <2>1. (v = x => n = 1) /\ (v # x => n = 0) BY CountOne, RefFacts
  <2>2. h.val[v].rc = p + ep[v] BY <1>3 DEF Counted
  <2>3. p \in Nat /\ ev[v] \in Nat BY PlacesFinite
  <2>4. (v = x => ep[v] = ev[v] + 1) /\ (v # x => ep[v] = ev[v]) OBVIOUS
  <2> HIDE DEF n, p
  <2>5. h.val[v].rc = p + ev[v] + n BY <2>1, <2>2, <2>3, <2>4
  <2> QED BY <2>5, Zenon DEF n, p
<1> HIDE DEF due
<1>6. Owing(h, due, {}, ev, eo) BY <1>4, <1>5 DEF Owing
<1> QED BY <1>1, <1>2, <1>6 DEF due

LEMMA OwingTwo ==
  ASSUME NEW h, NEW ev \in [Val -> Nat], NEW ep \in [Val -> Nat], NEW eo \in [Obj -> Nat],
         Balanced(h, {}, ep, eo), NEW x \in Val, NEW y \in Val,
         \A v \in Val : ep[v] = ev[v] + (IF v = x THEN 1 ELSE 0) + (IF v = y THEN 1 ELSE 0)
  PROVE  LET due == <<ValueRef(x), ValueRef(y)>>
         IN  HeapOK(h) /\ ~h.bad /\ due \in Seq(Refs) /\ Owing(h, due, {}, ev, eo)
<1> DEFINE due == <<ValueRef(x), ValueRef(y)>>
           rest == <<ValueRef(y)>>
<1>1. HeapOK(h) /\ ~h.bad BY DEF Balanced
<1>2. due \in Seq(Refs) /\ rest \in Seq(Refs) /\ ValueRef(x) \in Refs /\ due = <<ValueRef(x)>> \o rest
  <2>1. ValueRef(x) \in Refs /\ ValueRef(y) \in Refs BY RefsAre
  <2> QED BY <2>1
<1>3. Counted(h, {}, ep, eo) BY CountsOf
<1> HIDE DEF due
<1>c. \A z : Count(due, z) = (IF ValueRef(x) = z THEN 1 ELSE 0) + (IF ValueRef(y) = z THEN 1 ELSE 0)
  <2> TAKE z
  <2>1. Count(due, z) = (IF ValueRef(x) = z THEN 1 ELSE 0) + Count(rest, z)
    <3> HIDE DEF rest
    <3> QED BY <1>2, CountFirst
  <2>2. Count(rest, z) = IF ValueRef(y) = z THEN 1 ELSE 0 BY CountOne
  <2> HIDE DEF rest
  <2> QED BY <2>1, <2>2
<1>4. ASSUME NEW o \in Obj
      PROVE  h.obj[o].rc = Cardinality(Pointing(h, {}, o)) + eo[o] + Count(due, ObjectRef(o))
  <2>1. Count(due, ObjectRef(o)) = 0
    <3>1. ValueRef(x) # ObjectRef(o) /\ ValueRef(y) # ObjectRef(o) BY RefFacts
    <3> QED BY <1>c, <3>1
  <2>2. h.obj[o].rc = Cardinality(Pointing(h, {}, o)) + eo[o] BY <1>3 DEF Counted
  <2>3. Cardinality(Pointing(h, {}, o)) \in Nat /\ eo[o] \in Nat BY PointingFinite
  <2> QED BY <2>1, <2>2, <2>3
<1>5. ASSUME NEW v \in Val
      PROVE  h.val[v].rc = Cardinality(Places(h, v)) + ev[v] + Count(due, ValueRef(v))
  <2> DEFINE n == Count(due, ValueRef(v))
             p == Cardinality(Places(h, v))
             a == IF v = x THEN 1 ELSE 0
             b == IF v = y THEN 1 ELSE 0
  <2>1. n = a + b
    <3>1. (ValueRef(x) = ValueRef(v) <=> v = x) /\ (ValueRef(y) = ValueRef(v) <=> v = y) BY RefFacts
    <3> QED BY <1>c, <3>1
  <2>2. h.val[v].rc = p + ep[v] BY <1>3 DEF Counted
  <2>3. p \in Nat /\ ev[v] \in Nat /\ a \in Nat /\ b \in Nat BY PlacesFinite
  <2>4. ep[v] = ev[v] + a + b OBVIOUS
  <2> HIDE DEF n, p, a, b
  <2>5. h.val[v].rc = p + ev[v] + n BY <2>1, <2>2, <2>3, <2>4
  <2> QED BY <2>5, Zenon DEF n, p
<1>6. Owing(h, due, {}, ev, eo) BY <1>4, <1>5 DEF Owing
<1> QED BY <1>1, <1>2, <1>6 DEF due

WithCells(h, o, cs) == WithObj(h, o, ObjCells(h.obj[o], cs))

LEMMA CellsWritten ==
  ASSUME NEW h, HeapOK(h), NEW o \in Obj, h.obj[o].rc # 0, NEW cs \in Seq(Val), Len(cs) <= MaxSize
  PROVE  LET k == WithCells(h, o, cs)
         IN  /\ HeapOK(k) /\ k.val = h.val /\ k.bad = h.bad /\ k.obj[o].cells = cs
             /\ \A q \in Obj : q # o => k.obj[q] = h.obj[q]
             /\ \A q \in Obj : k.obj[q].rc = h.obj[q].rc /\ k.obj[q].kind = h.obj[q].kind /\ k.obj[q].n = h.obj[q].n
             /\ CellsAgree(h, k, o)
             /\ Surviving(h, k, {}, {o}) /\ Fewer(h, k, {o})
<1> DEFINE new == ObjCells(h.obj[o], cs)
           k == WithObj(h, o, new)
<1>0. h \in HeapType BY DEF HeapOK
<1>1. /\ new \in ObjectType /\ new.rc = h.obj[o].rc /\ new.kind = h.obj[o].kind
      /\ new.n = h.obj[o].n /\ new.cells = cs
  <2>1. h.obj[o] \in ObjectType BY <1>0, Typed
  <2> QED BY <2>1, ObjCellsFields
<1> HIDE DEF new
<1>2. /\ k \in HeapType /\ k.val = h.val /\ k.bad = h.bad /\ k.obj[o] = new
      /\ \A q \in Obj : q # o => k.obj[q] = h.obj[q]
  BY <1>0, <1>1, ObjWritten
<1> HIDE DEF k
<1>3. \A q \in Obj : k.obj[q].rc = h.obj[q].rc /\ k.obj[q].kind = h.obj[q].kind /\ k.obj[q].n = h.obj[q].n
  BY <1>1, <1>2
<1>4. HeapOK(k)
  <2>1. ASSUME NEW q \in Obj
        PROVE  /\ k.obj[q].rc = 0 <=> k.obj[q].kind = "free"
               /\ k.obj[q].rc = 0 => k.obj[q] = FreeObj
               /\ Len(k.obj[q].cells) <= MaxSize
    <3>1. h.obj[q].rc = 0 <=> h.obj[q].kind = "free" BY DEF HeapOK
    <3>2. CASE q = o BY <1>1, <1>2, <1>3, <3>1, <3>2
    <3>3. CASE q # o
      <4>1. k.obj[q] = h.obj[q] BY <1>2, <3>3
      <4> QED BY <4>1 DEF HeapOK
    <3> QED BY <3>2, <3>3
  <2>2. \A w \in Val : k.val[w].rc = 0 => k.val[w] = FreeVal BY <1>2 DEF HeapOK
  <2> QED BY <1>2, <2>1, <2>2 DEF HeapOK
<1>5. CellsAgree(h, k, o) BY <1>2 DEF CellsAgree
<1>6. Surviving(h, k, {}, {o}) BY <1>2, <1>3 DEF Surviving
<1>7. Fewer(h, k, {o}) BY <1>2 DEF Fewer
<1> QED BY <1>1, <1>2, <1>3, <1>4, <1>5, <1>6, <1>7 DEF WithCells, k, new

\* An element is taken out of the array: its reference is due.
LEMMA CellRemoved ==
  ASSUME NEW h, NEW ev \in [Val -> Nat], NEW eo \in [Obj -> Nat], Balanced(h, {}, ev, eo),
         NEW o \in Obj, h.obj[o].rc # 0, NEW i \in 1 .. Len(h.obj[o].cells)
  PROVE  LET k == WithCells(h, o, RemoveAt(h.obj[o].cells, i))
             due == <<ValueRef(h.obj[o].cells[i])>>
         IN  /\ HeapOK(k) /\ ~k.bad /\ due \in Seq(Refs) /\ Owing(k, due, {}, ev, eo)
             /\ Surviving(h, k, {}, {o})
             /\ \A q \in Obj : q # o => k.obj[q] = h.obj[q]
             /\ k.obj[o].cells = RemoveAt(h.obj[o].cells, i)
<1> DEFINE s == h.obj[o].cells
           c == s[i]
           cs == RemoveAt(s, i)
           k == WithCells(h, o, cs)
           due == <<ValueRef(c)>>
<1>0. HeapOK(h) /\ ~h.bad /\ h \in HeapType BY DEF Balanced, HeapOK
<1>1. s \in Seq(Val) /\ Len(s) \in Nat /\ Len(s) <= MaxSize BY <1>0, Typed DEF HeapOK
<1>2. i \in 1 .. Len(s) OBVIOUS
<1> HIDE DEF s
<1>3. /\ cs \in Seq(Val) /\ Len(cs) = Len(s) - 1
      /\ \A x : Count(s, x) = Count(cs, x) + (IF c = x THEN 1 ELSE 0)
  BY <1>1, <1>2, CountRemoved
<1>4. c \in Val
  <2>1. \A j \in 1 .. Len(s) : s[j] \in Val BY <1>1, ElementOf
  <2> HIDE DEF k, due, cs
  <2> QED BY <1>2, <2>1
<1>5. Len(cs) <= MaxSize BY <1>1, <1>3, Bounds
<1> HIDE DEF c, cs
<1>6. /\ HeapOK(k) /\ k.val = h.val /\ k.bad = h.bad /\ k.obj[o].cells = cs
      /\ \A q \in Obj : q # o => k.obj[q] = h.obj[q]
      /\ \A q \in Obj : k.obj[q].rc = h.obj[q].rc /\ k.obj[q].kind = h.obj[q].kind /\ k.obj[q].n = h.obj[q].n
      /\ CellsAgree(h, k, o)
      /\ Surviving(h, k, {}, {o}) /\ Fewer(h, k, {o})
  BY <1>0, <1>3, <1>5, CellsWritten, Zenon
<1> HIDE DEF k
<1>7. Counted(h, {}, ev, eo) BY CountsOf
<1>8. ASSUME NEW q \in Obj
      PROVE  k.obj[q].rc = Cardinality(Pointing(k, {}, q)) + eo[q] + Count(due, ObjectRef(q))
  <2>1. Count(due, ObjectRef(q)) = 0 BY CountOne, RefFacts
  <2>2. h.obj[q].rc = Cardinality(Pointing(h, {}, q)) + eo[q] BY <1>7 DEF Counted
  <2>3. Cardinality(Pointing(h, {}, q)) \in Nat /\ eo[q] \in Nat BY PointingFinite
  <2>4. Pointing(k, {}, q) = Pointing(h, {}, q) BY <1>6 DEF Pointing
  <2> HIDE DEF due
  <2> QED BY <1>6, <2>1, <2>2, <2>3, <2>4
<1>9. ASSUME NEW v \in Val
      PROVE  k.val[v].rc = Cardinality(Places(k, v)) + ev[v] + Count(due, ValueRef(v))
  <2> DEFINE n == Count(due, ValueRef(v))
             p == Cardinality(Places(h, v))
             q == Cardinality(Places(k, v))
             a == Count(cs, v)
             b == Count(s, v)
  <2>1. (c = v => n = 1) /\ (c # v => n = 0) BY CountOne, RefFacts
  <2>2. h.val[v].rc = Cardinality(Places(h, v)) + ev[v] BY <1>7 DEF Counted
  <2>3. Cardinality(Places(h, v)) \in Nat /\ Cardinality(Places(k, v)) \in Nat /\ ev[v] \in Nat BY PlacesFinite
  <2>4. Cardinality(Places(h, v)) + Count(k.obj[o].cells, v)
          = Cardinality(Places(k, v)) + Count(h.obj[o].cells, v)
    BY <1>0, <1>6, CellsChange
  <2>5. a \in Nat /\ (c = v => b = a + 1) /\ (c # v => b = a)
    <3>1. Count(cs, v) \in Nat /\ Count(s, v) = Count(cs, v) + (IF c = v THEN 1 ELSE 0) BY <1>3, CountType
    <3> HIDE DEF n, p, q
    <3> QED BY <3>1
  <2>6. k.obj[o].cells = cs /\ h.obj[o].cells = s BY <1>6 DEF s
  <2>7. Cardinality(Places(h, v)) + Count(cs, v) = Cardinality(Places(k, v)) + Count(s, v)
    BY <2>4, <2>6, Zenon
  <2>8. k.val[v].rc = h.val[v].rc BY <1>6
  <2>9. h.val[v].rc = p + ev[v] /\ p \in Nat /\ q \in Nat /\ ev[v] \in Nat /\ p + a = q + b
    BY <2>2, <2>3, <2>7
  <2> HIDE DEF n, p, q, a, b
  <2>10. k.val[v].rc = q + ev[v] + n BY <2>1, <2>5, <2>8, <2>9
  <2> QED BY <2>10 DEF n, q
<1>10. due \in Seq(Refs) BY <1>4, RefsAre
<1> HIDE DEF due
<1>11. Owing(k, due, {}, ev, eo) BY <1>8, <1>9 DEF Owing
<1>12. ~k.bad BY <1>0, <1>6
<1> QED BY <1>6, <1>10, <1>11, <1>12 DEF k, due, cs, c, s

-------------------------------------------------------------------------------
(* pushValue and append. *)

\* An array that stays: somebody holds it or a Value that points to it.
Anchored(h, ev, eo, o) == eo[o] >= 1 \/ \E a \in Val : ev[a] >= 1 /\ h.val[a].obj = o

\* From h to k the clone n of w has been pushed onto o.
Pushed(h, k, n, o, w, ev, eo) ==
  /\ n \in Val /\ h.val[n].rc = 0
  /\ Balanced(k, {}, ev, eo) /\ Surviving(h, k, {n}, {o}) /\ Fewer(h, k, {o})
  /\ k.obj[o].cells = Append(h.obj[o].cells, n)
  /\ k.obj[o].rc # 0 /\ k.obj[o].kind = h.obj[o].kind
  /\ k.val[n].rc # 0 /\ Content(k, n) = Content(h, w)

LEMMA PushWrites ==
  ASSUME NEW h, NEW w \in Val, NEW ev \in [Val -> Nat], NEW eo \in [Obj -> Nat],
         Balanced(h, {}, ev, eo), \E n \in Val : h.val[n].rc = 0, Held(h, NoVal, ev, w),
         NEW o \in Obj, Anchored(h, ev, eo, o), Len(h.obj[o].cells) < MaxSize
  PROVE  Pushed(h, Push(h, o, w), NewVal(h), o, w, ev, eo)
<1> DEFINE n == NewVal(h)
           g == Clone(h, w)
           ep == Plus(ev, n)
           s == h.obj[o].cells
           cs == Append(s, n)
           k == WithCells(g, o, cs)
<1>0. HeapOK(h) /\ h \in HeapType BY DEF Balanced, HeapOK
<1>1. /\ n \in Val /\ h.val[n].rc = 0
      /\ Balanced(g, {}, ep, eo) /\ Surviving(h, g, {n}, {}) /\ SameObjects(h, g)
      /\ g.val[n].rc # 0 /\ Content(g, n) = Content(h, w)
  BY CloneWrites
<1>2. ep \in [Val -> Nat] /\ \A u \in Val : ep[u] = ev[u] + (IF u = n THEN 1 ELSE 0)
  BY PlusVal
<1>p. Push(h, o, w) = [g EXCEPT !.obj[o].cells = Append(@, n)] BY Zenon DEF Push
<1> HIDE DEF n, g, ep
<1>3. HeapOK(g) /\ ~g.bad /\ g \in HeapType BY <1>1 DEF Balanced, HeapOK
<1>4. g.obj[o].rc >= 1
  <2>1. CASE eo[o] >= 1 BY <1>1, <1>2, <2>1, HeldIsLive
  <2>2. ASSUME NEW a \in Val, ev[a] >= 1, h.val[a].obj = o PROVE g.obj[o].rc >= 1
    <3>1. h.val[a].rc >= 1 BY <2>2, HeldIsLive
    <3>2. a # n BY <1>1, <3>1
    <3>3. ep[a] >= 1
      <4>1. ep[a] = ev[a] + 0 /\ ev[a] \in Nat BY <1>2, <3>2
      <4> QED BY <2>2, <4>1
    <3>4. g.val[a].rc >= 1 BY <1>1, <1>2, <3>3, HeldIsLive
    <3>5. g.val[a].obj = o
      <4>1. g.val[a].rc > 0 BY <1>3, <3>4, Typed
      <4> QED BY <1>1, <2>2, <3>2, <4>1 DEF Surviving
    <3>6. a \in Val \ {} /\ g.val[a].obj # NoObj BY <3>5, Bounds
    <3> QED BY <1>1, <1>2, <3>5, <3>6, HeldIsLive
  <2> QED BY <2>1, <2>2 DEF Anchored
<1>5. g.obj[o].cells = s /\ g.obj[o].kind = h.obj[o].kind /\ g.obj[o].rc # 0
  <2>1. g.obj[o].rc > 0 BY <1>3, <1>4, Typed
  <2> QED BY <1>1, <2>1 DEF SameObjects
<1>6. s \in Seq(Val) /\ Len(s) \in Nat /\ Len(s) < MaxSize BY <1>0, Typed
<1> HIDE DEF s
<1>7. /\ cs \in Seq(Val) /\ Len(cs) = Len(s) + 1
      /\ \A x : Count(cs, x) = Count(s, x) + (IF n = x THEN 1 ELSE 0)
  <2>1. n \in Val BY <1>1
  <2> HIDE DEF k
  <2>2. Append(s, n) \in Seq(Val) /\ Len(Append(s, n)) = Len(s) + 1 BY <1>6, <2>1, AppendAt
  <2>3. \A x : Count(Append(s, n), x) = Count(s, x) + (IF n = x THEN 1 ELSE 0)
    BY <1>6, <2>1, CountAppend, Zenon
  <2> QED BY <2>2, <2>3
<1>8. Len(cs) <= MaxSize BY <1>6, <1>7, Bounds
<1>9. Push(h, o, w) = k
  <2>1. [g EXCEPT !.obj[o].cells = Append(@, n)] = WithObj(g, o, ObjCells(g.obj[o], Append(g.obj[o].cells, n)))
    BY Zenon DEF WithObj, ObjCells
  <2> QED BY <1>5, <1>p, <2>1, Zenon DEF WithCells
<1> HIDE DEF cs
<1>10. /\ HeapOK(k) /\ k.val = g.val /\ k.bad = g.bad /\ k.obj[o].cells = cs
       /\ \A q \in Obj : q # o => k.obj[q] = g.obj[q]
       /\ \A q \in Obj : k.obj[q].rc = g.obj[q].rc /\ k.obj[q].kind = g.obj[q].kind /\ k.obj[q].n = g.obj[q].n
       /\ CellsAgree(g, k, o)
       /\ Surviving(g, k, {}, {o}) /\ Fewer(g, k, {o})
  BY <1>3, <1>5, <1>7, <1>8, CellsWritten, Zenon
<1> HIDE DEF k
<1>11. Counted(g, {}, ep, eo) BY <1>1, <1>2, CountsOf
<1>12. ASSUME NEW q \in Obj PROVE k.obj[q].rc = Cardinality(Pointing(k, {}, q)) + eo[q]
  <2>1. Pointing(k, {}, q) = Pointing(g, {}, q) BY <1>10 DEF Pointing
  <2> QED BY <1>10, <1>11, <2>1 DEF Counted
<1>13. ASSUME NEW v \in Val PROVE k.val[v].rc = Cardinality(Places(k, v)) + ev[v]
  <2> DEFINE p == Cardinality(Places(g, v))
             q == Cardinality(Places(k, v))
             a == Count(cs, v)
             b == Count(s, v)
  <2>1. g.val[v].rc = p + ep[v] BY <1>11 DEF Counted
  <2>2. p \in Nat /\ q \in Nat /\ ev[v] \in Nat BY PlacesFinite
  <2>3. p + a = q + b
    <3>1. p + Count(k.obj[o].cells, v) = q + Count(g.obj[o].cells, v) BY <1>3, <1>10, CellsChange
    <3> HIDE DEF p, q
    <3> QED BY <1>5, <1>10, <3>1, Zenon
  <2>4. b \in Nat /\ (n = v => a = b + 1) /\ (n # v => a = b)
    <3>1. Count(s, v) \in Nat /\ Count(cs, v) = Count(s, v) + (IF n = v THEN 1 ELSE 0) BY <1>6, <1>7, CountType
    <3> HIDE DEF p, q
    <3> QED BY <3>1
  <2>5. (n = v => ep[v] = ev[v] + 1) /\ (n # v => ep[v] = ev[v])
    <3>1. ep[v] = ev[v] + (IF v = n THEN 1 ELSE 0) BY <1>2
    <3> QED BY <2>2, <3>1
  <2>6. k.val[v].rc = g.val[v].rc BY <1>10
  <2> HIDE DEF p, q, a, b
  <2>7. k.val[v].rc = q + ev[v]
    <3>1. CASE n = v
      <4>1. a = b + 1 /\ ep[v] = ev[v] + 1 BY <2>4, <2>5, <3>1
      <4>2. p + 1 = q BY <2>2, <2>3, <2>4, <4>1
      <4>3. p + (ev[v] + 1) = (p + 1) + ev[v] BY <2>2
      <4> QED BY <2>1, <2>6, <4>1, <4>2, <4>3, Zenon
    <3>2. CASE n # v
      <4>1. a = b /\ ep[v] = ev[v] BY <2>4, <2>5, <3>2
      <4>2. p = q BY <2>2, <2>3, <2>4, <4>1
      <4> QED BY <2>1, <2>6, <4>1, <4>2
    <3> QED BY <3>1, <3>2
  <2> QED BY <2>7 DEF q
<1>14. ~k.bad BY <1>3, <1>10
<1>15. Balanced(k, {}, ev, eo) BY <1>10, <1>12, <1>13, <1>14, Counts
<1>16. Surviving(h, k, {n}, {o})
  <2>1. Surviving(h, k, {n} \cup {}, {} \cup {o}) BY <1>1, <1>10, SurvivingTwice
  <2>2. {n} \cup {} = {n} /\ {} \cup {o} = {o} OBVIOUS
  <2> QED BY <2>1, <2>2
<1>17. Fewer(h, k, {o})
  <2>1. Fewer(h, g, {}) BY <1>1, <1>3, FewerSame
  <2>2. Fewer(h, k, {} \cup {o}) BY <1>10, <2>1, FewerTwice
  <2>3. {} \cup {o} = {o} OBVIOUS
  <2> QED BY <2>2, <2>3
<1>18. k.obj[o].rc # 0 /\ k.obj[o].kind = h.obj[o].kind BY <1>5, <1>10
<1>19. k.val[n].rc # 0 /\ Content(k, n) = Content(h, w)
  <2>1. k.val[n] = g.val[n] BY <1>10
  <2>2. k.val[n].rc # 0 BY <1>1, <2>1
  <2>3. n \in Val \ {} /\ k.val[n].rc > 0 BY <1>1, <1>10, <2>2, Typed DEF HeapOK
  <2>4. Content(k, n) = Content(g, n) BY <1>3, <1>10, <2>3, ContentSurvives
  <2> QED BY <1>1, <2>2, <2>4
<1>20. k.obj[o].cells = Append(h.obj[o].cells, n) BY <1>10 DEF cs, s
<1>21. Pushed(h, k, n, o, w, ev, eo)
  BY <1>1, <1>15, <1>16, <1>17, <1>18, <1>19, <1>20, Zenon DEF Pushed
<1> QED BY <1>9, <1>21 DEF n

\* The heaps that PushAll goes through.
Pushes(f, h, o, ws, n) ==
  f = [m \in 0 .. n |-> IF m = 0 THEN h ELSE The({Push(g, o, ws[m]) : g \in {f[m - 1]}})]

LEMMA PushesExists ==
  ASSUME NEW h, NEW o, NEW ws, NEW n \in Nat
  PROVE  \E f : Pushes(f, h, o, ws, n)
<1> DEFINE N == {m \in Nat : \E f : Pushes(f, h, o, ws, m)}
<1>1. 0 \in N
  <2>1. Pushes([k \in 0 .. 0 |-> h], h, o, ws, 0) BY DEF Pushes
  <2> QED BY <2>1
<1>2. ASSUME NEW m \in Nat, m \in N PROVE m + 1 \in N
  <2>1. PICK f : Pushes(f, h, o, ws, m) BY <1>2
  <2> DEFINE e == [k \in 0 .. m + 1 |-> IF k = 0 THEN h ELSE The({Push(g, o, ws[k]) : g \in {f[k - 1]}})]
  <2>2. ASSUME NEW k \in 0 .. m PROVE e[k] = f[k]
    <3>1. k \in 0 .. m + 1 OBVIOUS
    <3> QED BY <2>1, <3>1 DEF Pushes
  <2>3. ASSUME NEW k \in 0 .. m + 1
        PROVE  e[k] = IF k = 0 THEN h ELSE The({Push(g, o, ws[k]) : g \in {e[k - 1]}})
    <3>1. CASE k = 0 BY <3>1
    <3>2. CASE k # 0
      <4>1. k - 1 \in 0 .. m BY <3>2
      <4>2. e[k - 1] = f[k - 1] BY <2>2, <4>1
      <4>3. e[k] = The({Push(g, o, ws[k]) : g \in {f[k - 1]}}) BY <3>2
      <4> HIDE DEF e
      <4> QED BY <3>2, <4>2, <4>3
    <3> QED BY <3>1, <3>2
  <2> HIDE DEF e
  <2>4. e = [k \in 0 .. m + 1 |-> e[k]] BY DEF e
  <2>5. Pushes(e, h, o, ws, m + 1) BY <2>3, <2>4 DEF Pushes
  <2> QED BY <2>5
<1> HIDE DEF N
<1>3. n \in N
  <2>1. Nat \subseteq N BY <1>1, <1>2, NatSetInduction
  <2> QED BY <2>1
<1> QED BY <1>3 DEF N

LEMMA PushAllIs ==
  ASSUME NEW h, NEW o, NEW ws, Len(ws) \in Nat
  PROVE  \E f : Pushes(f, h, o, ws, Len(ws)) /\ PushAll(h, o, ws) = f[Len(ws)]
<1> DEFINE f == CHOOSE f : Pushes(f, h, o, ws, Len(ws))
<1>1. Pushes(f, h, o, ws, Len(ws)) BY PushesExists
<1>2. PushAll(h, o, ws) = f[Len(ws)] BY DEF PushAll, Pushes
<1> QED BY <1>1, <1>2

FreeVals(h) == {v \in Val : h.val[v].rc = 0}

\* The array o after m elements of ws, which are those of another array.
Pushing(h, g, o, ws, m, ev, eo) ==
  /\ Balanced(g, {}, ev, eo) /\ Surviving(h, g, ToSet(g.obj[o].cells), {o}) /\ Fewer(h, g, {o})
  /\ g.obj[o].kind = h.obj[o].kind
  /\ Len(g.obj[o].cells) = m
  /\ \A i \in 1 .. m : /\ ev[g.obj[o].cells[i]] = 0 /\ g.obj[o].cells[i] \notin ToSet(ws)
                       /\ Content(g, g.obj[o].cells[i]) = Content(h, ws[i])
  /\ Cardinality(FreeVals(g)) >= Len(ws) - m

LEMMA FreeValsFinite ==
  ASSUME NEW h
  PROVE  IsFiniteSet(FreeVals(h)) /\ Cardinality(FreeVals(h)) \in Nat
<1>1. FreeVals(h) \subseteq 1 .. MaxVals BY DEF FreeVals
<1> QED BY <1>1, Bounds, FiniteIndexes

LEMMA FreeLess ==
  ASSUME NEW g, NEW k, NEW O, g \in HeapType, k \in HeapType, NEW n \in Val, g.val[n].rc = 0,
         Surviving(g, k, {n}, O)
  PROVE  Cardinality(FreeVals(k)) >= Cardinality(FreeVals(g)) - 1
<1>1. IsFiniteSet(FreeVals(g)) /\ Cardinality(FreeVals(g)) \in Nat
      /\ IsFiniteSet(FreeVals(k)) /\ Cardinality(FreeVals(k)) \in Nat
  BY FreeValsFinite
<1>2. n \in FreeVals(g) BY DEF FreeVals
<1>3. Cardinality(FreeVals(g) \ {n}) = Cardinality(FreeVals(g)) - 1
  BY <1>1, <1>2, FS_RemoveElement
<1>4. FreeVals(g) \ {n} \subseteq FreeVals(k)
  <2> SUFFICES ASSUME NEW u \in Val \ {n}, g.val[u].rc = 0 PROVE k.val[u].rc = 0 BY DEF FreeVals
  <2>1. k.val[u].rc \in Nat BY Typed
  <2>2. ~(k.val[u].rc > 0)
    <3>1. ~(g.val[u].rc > 0) OBVIOUS
    <3> QED BY <3>1 DEF Surviving
  <2> QED BY <2>1, <2>2
<1>5. FreeVals(g) \ {n} \in SUBSET FreeVals(k) BY <1>4
<1>6. Cardinality(FreeVals(g) \ {n}) <= Cardinality(FreeVals(k)) BY <1>1, <1>5, FS_Subset
<1> QED BY <1>1, <1>3, <1>6

TakenFrom(ws, s) == \A i \in 1 .. Len(ws) : \E j \in 1 .. Len(s) : s[j] = ws[i]

LEMMA PushesNext ==
  ASSUME NEW h, NEW g, NEW ev \in [Val -> Nat], NEW eo \in [Obj -> Nat], NEW o \in Obj, eo[o] >= 1,
         Balanced(h, {}, ev, eo), NEW ws \in Seq(Val), Len(ws) <= MaxSize,
         NEW a \in Val, ev[a] >= 1, h.val[a].obj \in Obj, h.val[a].obj # o,
         TakenFrom(ws, h.obj[h.val[a].obj].cells),
         NEW m \in Nat, m + 1 \in 1 .. Len(ws), Pushing(h, g, o, ws, m, ev, eo)
  PROVE  Pushing(h, Push(g, o, ws[m + 1]), o, ws, m + 1, ev, eo)
<1> DEFINE w == ws[m + 1]
           n == NewVal(g)
           k == Push(g, o, w)
           s == g.obj[o].cells
           p == h.val[a].obj
<1>0. HeapOK(h) /\ h \in HeapType BY DEF Balanced, HeapOK
<1>1. /\ Balanced(g, {}, ev, eo) /\ Surviving(h, g, ToSet(s), {o}) /\ Fewer(h, g, {o})
      /\ g.obj[o].kind = h.obj[o].kind /\ Len(s) = m
      /\ \A i \in 1 .. m : /\ ev[s[i]] = 0 /\ s[i] \notin ToSet(ws)
                           /\ Content(g, s[i]) = Content(h, ws[i])
      /\ Cardinality(FreeVals(g)) >= Len(ws) - m
  BY DEF Pushing
<1>2. HeapOK(g) /\ g \in HeapType BY <1>1 DEF Balanced, HeapOK
<1>3. s \in Seq(Val) BY <1>2, Typed
<1>4. w \in Val /\ w \in ToSet(ws) /\ \A i \in 1 .. Len(ws) : ws[i] \in Val /\ ws[i] \in ToSet(ws)
  <2> HIDE DEF w, n, k, s, p
  <2>1. \A i \in 1 .. Len(ws) : ws[i] \in Val BY ElementOf
  <2>2. DOMAIN ws = 1 .. Len(ws) OBVIOUS
  <2>3. \A i \in 1 .. Len(ws) : ws[i] \in ToSet(ws) BY <2>2 DEF ToSet
  <2> QED BY <2>1, <2>3 DEF w
<1>s. \A x : x \in ToSet(s) <=> \E i \in 1 .. m : s[i] = x
  <2> HIDE DEF s
  <2>1. DOMAIN s = 1 .. m BY <1>1, <1>3
  <2> QED BY <2>1 DEF ToSet
<1> HIDE DEF s, k, n
<1>5. p \in Obj /\ p # o OBVIOUS
<1>6. g.val[a].rc > 0 /\ a \notin ToSet(s)
  <2>1. g.val[a].rc >= 1 BY <1>1, HeldIsLive
  <2>2. g.val[a].rc \in Nat BY <1>2, Typed
  <2>3. ev[a] # 0 OBVIOUS
  <2> QED BY <1>1, <1>s, <2>1, <2>2, <2>3
<1>7. g.val[a].obj = p /\ g.obj[p].cells = h.obj[p].cells
  <2>1. a \in Val \ ToSet(s) /\ p \notin {o} BY <1>5, <1>6
  <2> QED BY <1>1, <1>5, <1>6, <2>1 DEF Surviving
<1>8. \A i \in 1 .. Len(ws) : \E j \in 1 .. Len(h.obj[p].cells) : h.obj[p].cells[j] = ws[i]
  BY DEF TakenFrom
<1>9. m + 1 \in 1 .. Len(ws) OBVIOUS
<1> HIDE DEF p
<1>10. \A i \in 1 .. Len(ws) : g.val[ws[i]].rc >= 1 /\ h.val[ws[i]].rc >= 1
  <2> TAKE i \in 1 .. Len(ws)
  <2>1. PICK j \in 1 .. Len(h.obj[p].cells) : h.obj[p].cells[j] = ws[i] BY <1>8
  <2>2. h.val[h.obj[p].cells[j]].rc >= 1 BY <1>5, HeldIsLive
  <2>3. g.val[g.obj[p].cells[j]].rc >= 1
    <3>1. j \in 1 .. Len(g.obj[p].cells) BY <1>7
    <3> QED BY <1>1, <1>5, <3>1, HeldIsLive
  <2> QED BY <1>7, <2>1, <2>2, <2>3
<1>11. Held(g, NoVal, ev, w)
  <2>1. a \in Val \ {NoVal} OBVIOUS
  <2>2. \E j \in 1 .. Len(g.obj[p].cells) : g.obj[p].cells[j] = w BY <1>7, <1>8, <1>9
  <2>3. \E j \in 1 .. Len(g.obj[g.val[a].obj].cells) : g.obj[g.val[a].obj].cells[j] = w
    BY <1>7, <2>2
  <2>4. g.val[a].obj \in Obj BY <1>5, <1>7
  <2> HIDE DEF w
  <2> QED BY <2>1, <2>3, <2>4 DEF Held
<1>12. \E u \in Val : g.val[u].rc = 0
  <2>1. Cardinality(FreeVals(g)) # 0
    <3>1. Len(ws) \in Nat OBVIOUS
    <3>2. Cardinality(FreeVals(g)) \in Nat BY FreeValsFinite
    <3> QED BY <1>1, <1>9, <3>1, <3>2
  <2>2. FreeVals(g) # {} BY <2>1, FS_EmptySet
  <2> QED BY <2>2 DEF FreeVals
<1>13. Len(g.obj[o].cells) < MaxSize
  <2>1. Len(ws) \in Nat /\ m < Len(ws) BY <1>9
  <2> QED BY <1>1, <2>1, Bounds DEF s
<1> HIDE DEF w
<1>14. /\ n \in Val /\ g.val[n].rc = 0
       /\ Balanced(k, {}, ev, eo) /\ Surviving(g, k, {n}, {o}) /\ Fewer(g, k, {o})
       /\ k.obj[o].cells = Append(s, n)
       /\ k.obj[o].kind = g.obj[o].kind
       /\ k.val[n].rc # 0 /\ Content(k, n) = Content(g, w)
  <2>1. Anchored(g, ev, eo, o) BY DEF Anchored
  <2>2. Pushed(g, k, n, o, w, ev, eo)
    BY <1>1, <1>4, <1>11, <1>12, <1>13, <2>1, PushWrites DEF n, k
  <2> QED BY <2>2 DEF Pushed, s
<1>15. k \in HeapType BY <1>14 DEF Balanced, HeapOK
<1> DEFINE cs == Append(s, n)
<1>16. /\ cs \in Seq(Val) /\ Len(cs) = m + 1 /\ cs[m + 1] = n /\ \A i \in 1 .. m : cs[i] = s[i]
       /\ m \in Nat
  BY <1>1, <1>3, <1>14, AppendAt
<1> HIDE DEF cs
<1>17. ToSet(cs) = ToSet(s) \cup {n}
  <2>1. DOMAIN cs = 1 .. m + 1 /\ 1 .. m + 1 = (1 .. m) \cup {m + 1} BY <1>16
  <2>2. \A x : x \in ToSet(cs) <=> \E i \in 1 .. m + 1 : cs[i] = x BY <2>1 DEF ToSet
  <2>3. \A x : x \in ToSet(cs) <=> (\E i \in 1 .. m : cs[i] = x) \/ cs[m + 1] = x BY <2>1, <2>2
  <2>4. \A x : x \in ToSet(cs) <=> (\E i \in 1 .. m : s[i] = x) \/ n = x BY <1>16, <2>3
  <2> QED BY <1>s, <2>4
<1>18. Surviving(h, k, ToSet(cs), {o})
  <2>1. Surviving(h, k, ToSet(s) \cup {n}, {o} \cup {o}) BY <1>1, <1>14, SurvivingTwice
  <2>2. {o} \cup {o} = {o} OBVIOUS
  <2> QED BY <1>17, <2>1, <2>2
<1>19. Fewer(h, k, {o})
  <2>1. Fewer(h, k, {o} \cup {o}) BY <1>1, <1>14, FewerTwice
  <2>2. {o} \cup {o} = {o} OBVIOUS
  <2> QED BY <2>1, <2>2
<1>20. ASSUME NEW i \in 1 .. m + 1
       PROVE  ev[cs[i]] = 0 /\ cs[i] \notin ToSet(ws) /\ Content(k, cs[i]) = Content(h, ws[i])
  <2>1. CASE i = m + 1
    <3>1. cs[i] = n BY <1>16, <2>1
    <3>2. ev[n] = 0
      <4>1. ~(ev[n] >= 1)
        <5>1. ~(g.val[n].rc >= 1) BY <1>14
        <5> QED BY <1>1, <1>14, <5>1, HeldIsLive
      <4>2. ev[n] \in Nat BY <1>14
      <4> QED BY <4>1, <4>2
    <3>3. n \notin ToSet(ws)
      <4>1. ASSUME n \in ToSet(ws) PROVE FALSE
        <5>1. PICK j \in 1 .. Len(ws) : ws[j] = n BY <4>1 DEF ToSet
        <5>2. g.val[n].rc >= 1 BY <1>10, <5>1
        <5> QED BY <1>14, <5>2
      <4> QED BY <4>1
    <3>4. Content(g, w) = Content(h, w)
      <4>1. w \in Val \ ToSet(s) BY <1>1, <1>4, <1>s
      <4>2. g.val[w].rc > 0
        <5>1. g.val[w].rc >= 1 /\ g.val[w].rc \in Nat BY <1>2, <1>4, <1>9, <1>10, Typed DEF w
        <5> QED BY <5>1
      <4> QED BY <1>0, <1>1, <4>1, <4>2, ContentSurvives
    <3>5. ws[i] = w BY <2>1 DEF w
    <3> QED BY <1>14, <3>1, <3>2, <3>3, <3>4, <3>5
  <2>2. CASE i # m + 1
    <3>1. i \in 1 .. m /\ cs[i] = s[i] BY <1>16, <2>2
    <3>2. s[i] \in Val /\ g.val[s[i]].rc >= 1
      <4>1. i \in 1 .. Len(s) BY <1>1, <3>1
      <4> QED BY <1>1, <4>1, HeldIsLive DEF s
    <3>3. s[i] # n BY <1>14, <3>2
    <3>4. k.val[s[i]].rc > 0
      <4>1. i \in 1 .. Len(cs) BY <1>16
      <4>2. k.val[cs[i]].rc >= 1
        <5>1. k.obj[o].cells = cs BY <1>14 DEF cs
        <5> QED BY <1>14, <4>1, <5>1, HeldIsLive
      <4>3. k.val[s[i]].rc \in Nat BY <1>15, <3>2, Typed
      <4> QED BY <3>1, <4>2, <4>3
    <3>5. Content(k, s[i]) = Content(g, s[i])
      <4>1. s[i] \in Val \ {n} BY <3>2, <3>3
      <4> QED BY <1>2, <1>14, <3>4, <4>1, ContentSurvives
    <3> QED BY <1>1, <3>1, <3>5
  <2> QED BY <2>1, <2>2
<1>21. Cardinality(FreeVals(k)) >= Len(ws) - (m + 1)
  <2>1. Cardinality(FreeVals(k)) >= Cardinality(FreeVals(g)) - 1 BY <1>2, <1>14, <1>15, FreeLess
  <2>2. Cardinality(FreeVals(k)) \in Nat /\ Cardinality(FreeVals(g)) \in Nat BY FreeValsFinite
  <2>3. Len(ws) \in Nat OBVIOUS
  <2> QED BY <1>1, <2>1, <2>2, <2>3
<1>22. k.obj[o].cells = cs BY <1>14 DEF cs
<1>23. k.obj[o].kind = h.obj[o].kind BY <1>1, <1>14
<1>24. Pushing(h, k, o, ws, m + 1, ev, eo)
  BY <1>14, <1>16, <1>18, <1>19, <1>20, <1>21, <1>22, <1>23 DEF Pushing
<1> QED BY <1>24 DEF k, w

LEMMA PushAllWrites ==
  ASSUME NEW h, NEW ev \in [Val -> Nat], NEW eo \in [Obj -> Nat], NEW o \in Obj, eo[o] >= 1,
         Balanced(h, {}, ev, eo), h.obj[o].cells = <<>>, NEW ws \in Seq(Val), Len(ws) <= MaxSize,
         NEW a \in Val, ev[a] >= 1, h.val[a].obj \in Obj, h.val[a].obj # o,
         TakenFrom(ws, h.obj[h.val[a].obj].cells),
         Cardinality(FreeVals(h)) >= Len(ws)
  PROVE  Pushing(h, PushAll(h, o, ws), o, ws, Len(ws), ev, eo)
<1> DEFINE n == Len(ws)
<1>1. n \in Nat OBVIOUS
<1>2. PICK f : Pushes(f, h, o, ws, n) /\ PushAll(h, o, ws) = f[n]
  BY <1>1, PushAllIs
<1> HIDE DEF n
<1>3. /\ f[0] = h
      /\ \A k \in 0 .. n : k # 0 => f[k] = Push(f[k - 1], o, ws[k])
  <2>1. 0 \in 0 .. n BY <1>1
  <2>2. f[0] = h BY <1>2, <2>1 DEF Pushes
  <2>3. ASSUME NEW k \in 0 .. n, k # 0 PROVE f[k] = Push(f[k - 1], o, ws[k])
    <3>1. f[k] = The({Push(g, o, ws[k]) : g \in {f[k - 1]}}) BY <1>2, <2>3 DEF Pushes
    <3>2. {Push(g, o, ws[k]) : g \in {f[k - 1]}} = {Push(f[k - 1], o, ws[k])} OBVIOUS
    <3> QED BY <3>1, <3>2, TheOnly
  <2> QED BY <2>2, <2>3
<1> DEFINE N == {m \in Nat : m \in 0 .. n => Pushing(h, f[m], o, ws, m, ev, eo)}
<1>4. 0 \in N
  <2>1. Len(h.obj[o].cells) = 0 /\ ToSet(h.obj[o].cells) = {}
    <3>1. Len(<<>>) = 0 /\ ToSet(<<>>) = {} BY DEF ToSet
    <3> QED BY <3>1, Zenon
  <2>2. Surviving(h, h, {}, {o}) BY DEF Surviving
  <2>3. Fewer(h, h, {o}) BY DEF Fewer
  <2>4. Cardinality(FreeVals(h)) >= Len(ws) - 0 BY <1>1 DEF n
  <2>5. 1 .. 0 = {} OBVIOUS
  <2>6. Pushing(h, h, o, ws, 0, ev, eo) BY <2>1, <2>2, <2>3, <2>4, <2>5 DEF Pushing
  <2> QED BY <1>3, <2>6
<1>5. ASSUME NEW m \in Nat, m \in N PROVE m + 1 \in N
  <2> SUFFICES ASSUME m + 1 \in 0 .. n PROVE Pushing(h, f[m + 1], o, ws, m + 1, ev, eo) OBVIOUS
  <2>1. Pushing(h, f[m], o, ws, m, ev, eo) BY <1>1, <1>5
  <2>2. f[m + 1] = Push(f[m], o, ws[m + 1]) BY <1>1, <1>3
  <2>3. m + 1 \in 1 .. Len(ws) BY <1>1 DEF n
  <2> QED BY <2>1, <2>2, <2>3, PushesNext
<1> HIDE DEF N
<1>6. n \in N BY <1>1, <1>4, <1>5, NatSetInduction
<1>7. Pushing(h, f[n], o, ws, n, ev, eo)
  <2>1. n \in 0 .. n BY <1>1
  <2> QED BY <1>6, <2>1 DEF N
<1> QED BY <1>2, <1>7 DEF n

-------------------------------------------------------------------------------
(* The slots, and what every state keeps. *)
\* How many slots hold v.
One(x, v) == IF x = v THEN 1 ELSE 0
Roots(sl, fr) ==
  [v \in Val |-> One(sl.x, v) + One(sl.r, v) + One(sl.e, v) + One(fr.p, v) + One(fr.s, v)]
None == [o \in Obj |-> 0]

\* The slots of the main program, and of a call if there is one.
Slots(sl) == sl \in [x : Val, r : Val, e : {NoVal} \cup Val] /\ sl.x # sl.r
Idle(fr, rt) == fr = [p |-> NoVal, s |-> NoVal] /\ rt = NoVal
Running(sl, fr, rt) ==
  /\ fr \in [p : Val, s : Val] /\ rt = sl.r
  /\ fr.p # fr.s /\ fr.p # sl.x /\ fr.p # sl.r /\ fr.s # sl.x /\ fr.s # sl.r
Shape(sl, fr, rt) == Slots(sl) /\ (Idle(fr, rt) \/ Running(sl, fr, rt))

\* A variable, a parameter and a temporary are nobody's element.
Owned(sl, fr) == {sl.x, sl.r, fr.p, fr.s}
Unlisted(h, U) == \A o \in Obj : \A i \in 1 .. Len(h.obj[o].cells) : h.obj[o].cells[i] \notin U

Agrees(h, st) == \A v \in Live(h) : Content(h, v) = st[v]
Sound(h, sl, fr, st) ==
  Balanced(h, {}, Roots(sl, fr), None) /\ Unlisted(h, Owned(sl, fr)) /\ Agrees(h, st)

\* The inductive invariant.
ValuesInv ==
  /\ Shape(slot, frame, ret)
  /\ heap.bad \in BOOLEAN
  /\ heap.bad => selfcopy
  /\ ~heap.bad => Sound(heap, slot, frame, store)

LEMMA RootsType ==
  ASSUME NEW sl, NEW fr
  PROVE  /\ Roots(sl, fr) \in [Val -> Nat] /\ None \in [Obj -> Nat]
         /\ \A v \in Val : Roots(sl, fr)[v] =
              One(sl.x, v) + One(sl.r, v) + One(sl.e, v) + One(fr.p, v) + One(fr.s, v)
  BY DEF Roots, None, One

LEMMA OperandsHeld ==
  ASSUME Shape(slot, frame, ret)
  PROVE  /\ \A v \in Operands : v \in Val /\ Roots(slot, frame)[v] >= 1
         /\ VarsInSight \subseteq Operands /\ Denoted \subseteq Operands
         /\ Result \in Operands /\ Result \notin VarsInSight /\ Result \in Owned(slot, frame)
         /\ Denoted # {} => slot.e \in Operands /\ Denoted = {slot.e} /\ ~InCall
         /\ InCall => /\ Running(slot, frame, ret) /\ ret \in Val /\ ret \notin Operands
                      /\ Roots(slot, frame)[ret] >= 1
         /\ ~InCall => Idle(frame, ret)
<1> DEFINE ev == Roots(slot, frame)
<1>1. /\ ev \in [Val -> Nat]
      /\ \A v \in Val : ev[v] =
           One(slot.x, v) + One(slot.r, v) + One(slot.e, v) + One(frame.p, v) + One(frame.s, v)
  BY RootsType
<1> HIDE DEF ev
<1>2. \A x, v : One(x, v) \in Nat /\ (x = v => One(x, v) = 1) BY DEF One
<1>3. \A v \in Val : v \in {slot.x, slot.r, slot.e, frame.p, frame.s} => ev[v] >= 1
  <2> SUFFICES ASSUME NEW v \in Val, v \in {slot.x, slot.r, slot.e, frame.p, frame.s} PROVE ev[v] >= 1
    OBVIOUS
  <2> DEFINE a == One(slot.x, v)
             b == One(slot.r, v)
             c == One(slot.e, v)
             d == One(frame.p, v)
             e == One(frame.s, v)
  <2>1. ev[v] = a + b + c + d + e BY <1>1
  <2>2. a \in Nat /\ b \in Nat /\ c \in Nat /\ d \in Nat /\ e \in Nat BY <1>2
  <2>3. a = 1 \/ b = 1 \/ c = 1 \/ d = 1 \/ e = 1 BY <1>2
  <2> HIDE DEF a, b, c, d, e
  <2> QED BY <2>1, <2>2, <2>3
<1>4. slot.x \in Val /\ slot.r \in Val /\ slot.e \in {NoVal} \cup Val /\ slot.x # slot.r
  BY DEF Shape, Slots
<1>5. CASE Idle(frame, ret)
  <2>1. ~InCall BY <1>5 DEF Idle, InCall
  <2>2. VarsInSight = {slot.x} /\ Result = slot.r BY <2>1 DEF VarsInSight, Result
  <2>3. \/ Denoted = {} /\ Operands = {slot.x, slot.r}
        \/ Denoted = {slot.e} /\ slot.e \in Val /\ Operands = {slot.x, slot.r, slot.e}
    BY <1>4, <2>1, <2>2 DEF Denoted, Operands
  <2>4. \A v \in Operands : v \in Val /\ v \in {slot.x, slot.r, slot.e, frame.p, frame.s}
    BY <1>4, <2>3
  <2>5. \A v \in Operands : v \in Val /\ ev[v] >= 1 BY <1>3, <2>4
  <2> QED BY <1>4, <1>5, <2>1, <2>2, <2>3, <2>5 DEF ev, Owned
<1>6. CASE Running(slot, frame, ret)
  <2>1. /\ frame.p \in Val /\ frame.s \in Val /\ ret = slot.r
        /\ frame.p # frame.s /\ frame.p # slot.x /\ frame.p # slot.r /\ frame.s # slot.x /\ frame.s # slot.r
    BY <1>6 DEF Running
  <2>2. InCall
    <3>1. NoVal \notin Val BY Bounds
    <3> QED BY <2>1, <3>1 DEF InCall
  <2>3. VarsInSight = {slot.x, frame.p} /\ Result = frame.s /\ Denoted = {}
    BY <2>2 DEF VarsInSight, Result, Denoted
  <2>4. Operands = {slot.x, frame.p, frame.s} BY <2>3 DEF Operands
  <2>5. \A v \in Operands : v \in Val /\ v \in {slot.x, slot.r, slot.e, frame.p, frame.s}
    BY <1>4, <2>1, <2>4
  <2>6. \A v \in Operands : v \in Val /\ ev[v] >= 1 BY <1>3, <2>5
  <2>7. ret \in Val /\ ret \notin Operands /\ ev[ret] >= 1 BY <1>3, <1>4, <2>1, <2>4
  <2> QED BY <1>6, <2>1, <2>2, <2>3, <2>4, <2>6, <2>7 DEF ev, Owned
<1> QED BY <1>5, <1>6 DEF Shape

LEMMA UnlistedFewer ==
  ASSUME NEW h, NEW k, NEW U, Unlisted(h, U), Fewer(h, k, {})
  PROVE  Unlisted(k, U)
<1> SUFFICES ASSUME NEW o \in Obj, NEW i \in 1 .. Len(k.obj[o].cells)
             PROVE  k.obj[o].cells[i] \notin U
  BY DEF Unlisted
<1>1. CASE k.obj[o].cells = <<>> BY <1>1
<1>2. CASE k.obj[o].cells = h.obj[o].cells
  <2>1. i \in 1 .. Len(h.obj[o].cells) BY <1>2
  <2> QED BY <1>2, <2>1 DEF Unlisted
<1> QED BY <1>1, <1>2 DEF Fewer

LEMMA StepKeeps ==
  ASSUME ValuesInv, NEW k, NEW meaning, Becomes(k, meaning), NEW O,
         Surviving(heap, k, DOMAIN meaning, O),
         \A v \in Val : v \in DOMAIN meaning /\ k.val[v].rc > 0 => Content(k, v) = meaning[v],
         Shape(slot', frame', ret'),
         Balanced(k, {}, Roots(slot', frame'), None), Unlisted(k, Owned(slot', frame'))
  PROVE  ValuesInv'
<1>1. ~heap.bad /\ heap' = k BY DEF Becomes
<1>2. Sound(heap, slot, frame, store) BY <1>1 DEF ValuesInv
<1>3. heap \in HeapType BY <1>2 DEF Sound, Balanced, HeapOK
<1>4. k \in HeapType /\ ~k.bad BY DEF Balanced, HeapOK
<1>5. k.bad \in BOOLEAN BY <1>4, Typed
<1>6. ASSUME NEW v \in Live(k) PROVE Content(k, v) = store'[v]
  <2>1. v \in Val /\ k.val[v].rc > 0 BY DEF Live
  <2>2. k.val[v].rc # 0 BY <1>4, <2>1, Typed
  <2>3. store'[v] = IF v \in DOMAIN meaning THEN meaning[v] ELSE store[v]
    BY <2>1, <2>2 DEF Becomes
  <2>4. CASE v \in DOMAIN meaning BY <2>1, <2>3, <2>4
  <2>5. CASE v \notin DOMAIN meaning
    <3>1. heap.val[v].rc > 0 /\ Content(k, v) = Content(heap, v)
      BY <1>3, <2>1, <2>5, ContentSurvives
    <3>2. v \in Live(heap) BY <2>1, <3>1 DEF Live
    <3> QED BY <1>2, <2>3, <2>5, <3>1, <3>2 DEF Sound, Agrees
  <2> QED BY <2>4, <2>5
<1>7. Agrees(k, store') BY <1>6 DEF Agrees
<1>8. Sound(k, slot', frame', store') BY <1>7 DEF Sound
<1> QED BY <1>1, <1>4, <1>5, <1>8 DEF ValuesInv

LEMMA WriteKeeps ==
  ASSUME ValuesInv, NEW k, NEW v \in Val, NEW c, Becomes(k, Means(v, c)),
         Writes(heap, k, v, Roots(slot, frame), None), Content(k, v) = c,
         UNCHANGED <<slot, frame, ret>>
  PROVE  ValuesInv'
<1>1. DOMAIN Means(v, c) = {v} /\ Means(v, c)[v] = c BY DEF Means
<1>2. ~heap.bad BY DEF Becomes
<1>3. Unlisted(heap, Owned(slot, frame)) /\ Shape(slot, frame, ret) BY <1>2 DEF ValuesInv, Sound
<1>4. Unlisted(k, Owned(slot, frame)) BY <1>3, UnlistedFewer DEF Writes
<1>5. slot' = slot /\ frame' = frame /\ ret' = ret OBVIOUS
<1>6. Shape(slot', frame', ret') /\ Unlisted(k, Owned(slot', frame'))
      /\ Balanced(k, {}, Roots(slot', frame'), None)
  BY <1>3, <1>4, <1>5 DEF Writes
<1>7. Surviving(heap, k, DOMAIN Means(v, c), {}) BY <1>1 DEF Writes
<1>8. \A w \in Val : w \in DOMAIN Means(v, c) /\ k.val[w].rc > 0 => Content(k, w) = Means(v, c)[w]
  BY <1>1
<1> QED BY <1>6, <1>7, <1>8, StepKeeps

LEMMA Begins ==
  ASSUME ValuesInv, ~heap.bad
  PROVE  /\ Balanced(heap, {}, Roots(slot, frame), None) /\ heap \in HeapType
         /\ Roots(slot, frame) \in [Val -> Nat] /\ None \in [Obj -> Nat]
         /\ Unlisted(heap, Owned(slot, frame)) /\ Shape(slot, frame, ret)
         /\ \A v \in Val : heap.val[v].rc # 0 => Content(heap, v) = store[v]
         /\ \A v \in Operands : /\ v \in Val /\ Roots(slot, frame)[v] >= 1
                                /\ heap.val[v].rc # 0 /\ Content(heap, v) = store[v]
<1> DEFINE ev == Roots(slot, frame)
<1>1. Shape(slot, frame, ret) /\ Sound(heap, slot, frame, store) BY DEF ValuesInv
<1>2. Balanced(heap, {}, ev, None) /\ Unlisted(heap, Owned(slot, frame)) /\ Agrees(heap, store)
  BY <1>1 DEF Sound
<1>3. heap \in HeapType BY <1>2 DEF Balanced, HeapOK
<1>4. ev \in [Val -> Nat] /\ None \in [Obj -> Nat] BY RootsType
<1>5. \A v \in Operands : v \in Val /\ ev[v] >= 1 BY <1>1, OperandsHeld
<1> HIDE DEF ev
<1>6. \A v \in Val : ev[v] >= 1 => heap.val[v].rc >= 1 BY <1>2, <1>4, HeldIsLive
<1>7. \A v \in Val : heap.val[v].rc # 0 => Content(heap, v) = store[v]
  <2> SUFFICES ASSUME NEW v \in Val, heap.val[v].rc # 0 PROVE Content(heap, v) = store[v] OBVIOUS
  <2>1. heap.val[v].rc > 0 BY <1>3, Typed
  <2>2. v \in Live(heap) BY <2>1 DEF Live
  <2> QED BY <1>2, <2>2 DEF Agrees
<1>8. ASSUME NEW v \in Operands
      PROVE  v \in Val /\ ev[v] >= 1 /\ heap.val[v].rc # 0 /\ Content(heap, v) = store[v]
  <2>1. v \in Val /\ ev[v] >= 1 BY <1>5
  <2>2. heap.val[v].rc >= 1 BY <1>6, <2>1
  <2>3. heap.val[v].rc # 0 BY <2>2
  <2> QED BY <1>7, <2>1, <2>3
<1> QED BY <1>1, <1>2, <1>3, <1>4, <1>7, <1>8 DEF ev

LEMMA RoomOne ==
  ASSUME NEW m, NEW n
  PROVE  /\ Room(m, 1) => \E o \in Obj : heap.obj[o].rc = 0
         /\ Room(1, n) => \E v \in Val : heap.val[v].rc = 0
<1>1. ASSUME Room(m, 1) PROVE \E o \in Obj : heap.obj[o].rc = 0
  <2> DEFINE S == {o \in Obj : heap.obj[o].rc = 0}
  <2>1. Cardinality(S) >= 1 BY <1>1 DEF Room
  <2>2. S # {}
    <3>1. Cardinality({}) = 0 BY FS_EmptySet
    <3> HIDE DEF S
    <3> QED BY <2>1, <3>1
  <2> QED BY <2>2
<1>2. ASSUME Room(1, n) PROVE \E v \in Val : heap.val[v].rc = 0
  <2> DEFINE S == {v \in Val : heap.val[v].rc = 0}
  <2>1. Cardinality(S) >= 1 BY <1>2 DEF Room
  <2>2. S # {}
    <3>1. Cardinality({}) = 0 BY FS_EmptySet
    <3> HIDE DEF S
    <3> QED BY <2>1, <3>1
  <2> QED BY <2>2
<1> QED BY <1>1, <1>2

\* Of two free objects one is left when one has been made.
LEMMA RoomTwo ==
  ASSUME Room(0, 2), NEW k, OneMade(heap, k)
  PROVE  /\ \E o \in Obj : heap.obj[o].rc = 0
         /\ \E o \in Obj : k.obj[o].rc = 0
<1> DEFINE S == {o \in Obj : heap.obj[o].rc = 0}
<1>1. Cardinality(S) >= 2 BY DEF Room
<1>2. IsFiniteSet(S) /\ Cardinality(S) \in Nat BY FiniteIndexes, Bounds
<1>3. S \subseteq Obj /\ \A o \in S : heap.obj[o].rc = 0 OBVIOUS
<1>4. PICK m : \A q \in Obj : q # m /\ heap.obj[q].rc = 0 => k.obj[q].rc = 0 BY DEF OneMade
<1> HIDE DEF S
<1>5. IsFiniteSet(S \ {m}) /\ Cardinality(S \ {m}) >= 1
  BY <1>1, <1>2, FS_RemoveElement
<1>6. S \ {m} # {}
  <2>1. Cardinality({}) = 0 BY FS_EmptySet
  <2> QED BY <1>5, <2>1
<1>7. PICK q \in S \ {m} : TRUE BY <1>6
<1> QED BY <1>3, <1>4, <1>7

LEMMA IntIs ==
  ASSUME NEW h \in HeapType, NEW v \in Val
  PROVE  /\ IsInt(h, v) <=> Content(h, v).is = "int"
         /\ IsInt(h, v) => /\ Number(h, v) \in 0 .. Numbers - 1 /\ Number(h, v) \in Int
                           /\ Content(h, v) = Num(Number(h, v)) /\ Content(h, v).n = Number(h, v)
<1>1. h.val[v].obj \in {NoObj} \cup Obj BY Typed
<1>2. ASSUME IsInt(h, v)
      PROVE  /\ Number(h, v) \in 0 .. Numbers - 1 /\ Number(h, v) \in Int
             /\ Content(h, v) = Num(Number(h, v)) /\ Content(h, v).n = Number(h, v)
  <2>1. h.val[v].obj \in Obj BY <1>1, <1>2 DEF IsInt
  <2>2. Number(h, v) \in 0 .. Numbers - 1 BY <2>1, Typed DEF Number
  <2>3. Number(h, v) \in Int BY <2>2
  <2>4. Content(h, v) = Num(Number(h, v)) BY <1>2, IsIntContent
  <2>5. Number(h, v) % Numbers = Number(h, v) BY <2>2, ModFacts
  <2> QED BY <2>2, <2>3, <2>4, <2>5 DEF Num
<1>3. IsInt(h, v) => Content(h, v).is = "int"
  <2>1. \A n : Num(n).is = "int" BY DEF Num
  <2> QED BY <1>2, <2>1
<1>4. ~IsInt(h, v) => Content(h, v).is # "int"
  <2>1. Null.is # "int" /\ \A o : Ref(o).is # "int" BY DEF Null, Ref
  <2> QED BY <2>1 DEF Content
<1> QED BY <1>2, <1>3, <1>4

-------------------------------------------------------------------------------
(* The instructions that write one Value, or two. *)
LEMMA CopyBad ==
  ASSUME NEW h, NEW v \in Val, NEW ev \in [Val -> Nat], NEW eo \in [Obj -> Nat],
         Balanced(h, {}, ev, eo), ev[v] >= 1
  PROVE  \/ Copy(h, v, v).bad = TRUE
         \/ Writes(h, Copy(h, v, v), v, ev, eo) /\ Content(Copy(h, v, v), v) = Content(h, v)
<1> DEFINE g == CleanUp(h, v)
<1>1. Balanced(g, {v}, ev, eo) /\ g.val[v].obj = h.val[v].obj BY CleanUpKeeps
<1>2. Copy(h, v, v) = TakeFrom(g, v, v) BY CopyIs
<1>3. g.val[v].rc # 0
  <2> HIDE DEF g
  <2>1. g.val[v].rc >= 1 BY <1>1, HeldIsLive
  <2> QED BY <2>1
<1>4. CASE g.val[v].obj # NoObj => g.obj[g.val[v].obj].rc # 0
  <2>1. Writes(h, Copy(h, v, v), v, ev, eo) /\ Content(Copy(h, v, v), v) = Content(h, v)
    BY <1>3, <1>4, CopyWrites DEF g
  <2> QED BY <2>1
<1>5. CASE g.val[v].obj # NoObj /\ g.obj[g.val[v].obj].rc = 0
  <2> DEFINE o == g.val[v].obj
             f == [g EXCEPT !.val[v].obj = o]
  <2> HIDE DEF g
  <2>1. g \in HeapType BY <1>1 DEF Balanced, HeapOK
  <2>2. f.obj = g.obj BY <2>1 DEF HeapType
  <2>3. TakeFrom(g, v, v) = AddObj(f, o) BY <1>3 DEF TakeFrom
  <2>4. o # NoObj /\ f.obj[o].rc = 0 BY <1>5, <2>2
  <2>5. f \in HeapType
    <3>1. f = WithVal(g, v, ValPointer(g.val[v], o))
      <4>1. \A k : [g EXCEPT !.val[v].obj = k] = WithVal(g, v, ValPointer(g.val[v], k))
        BY <2>1, Rewritten, Zenon
      <4> QED BY <4>1
    <3>2. o \in {NoObj} \cup Obj BY <2>1, Typed
    <3>3. ValPointer(g.val[v], o) \in ValueType BY <2>1, <3>2, Typed, ValFields
    <3> HIDE DEF o, f
    <3> QED BY <2>1, <3>1, <3>3, ValWritten
  <2> HIDE DEF o, f
  <2>6. AddObj(f, o) = [f EXCEPT !.bad = TRUE] BY <2>4 DEF AddObj
  <2>7. [f EXCEPT !.bad = TRUE].bad = TRUE BY <2>5 DEF HeapType
  <2> QED BY <1>2, <2>3, <2>6, <2>7
<1> QED BY <1>4, <1>5

\* Onto itself, while somebody else holds the object too.
LEMMA SharedCopied ==
  ASSUME NEW h, NEW v \in Val, NEW ev \in [Val -> Nat], NEW eo \in [Obj -> Nat],
         Balanced(h, {}, ev, eo), ev[v] >= 1, h.val[v].obj # NoObj => ~Alone(h, v)
  PROVE  Writes(h, Copy(h, v, v), v, ev, eo) /\ Content(Copy(h, v, v), v) = Content(h, v)
<1> DEFINE g == CleanUp(h, v)
<1>1. Balanced(g, {v}, ev, eo) /\ g.val[v].obj = h.val[v].obj BY CleanUpKeeps
<1>2. g.val[v].rc # 0
  <2> HIDE DEF g
  <2>1. g.val[v].rc >= 1 BY <1>1, HeldIsLive
  <2> QED BY <2>1
<1>3. ASSUME g.val[v].obj # NoObj PROVE g.obj[g.val[v].obj].rc # 0
  <2>1. h.val[v].obj # NoObj /\ ~Alone(h, v) BY <1>1, <1>3
  <2>2. g.obj[h.val[v].obj].rc # 0 BY <2>1, CopyToItself DEF g
  <2> HIDE DEF g
  <2> QED BY <1>1, <2>2
<1> QED BY <1>2, <1>3, CopyWrites

LEMMA HeldCopied ==
  ASSUME NEW h, NEW v \in Val, NEW w \in Val, v # w, NEW ev \in [Val -> Nat], NEW eo \in [Obj -> Nat],
         Balanced(h, {}, ev, eo), ev[v] >= 1, Held(h, v, ev, w)
  PROVE  LET k == Copy(h, v, w)
         IN  /\ Writes(h, k, v, ev, eo) /\ SameObjects(h, k)
             /\ k.val[v].obj = h.val[w].obj /\ Content(k, v) = Content(h, w)
<1>1. CleanUp(h, v).val[w].rc # 0
  BY HeldStays
<1>2. CleanUp(h, v).val[w].obj # NoObj => CleanUp(h, v).obj[CleanUp(h, v).val[w].obj].rc # 0
  BY HeldStays
<1> QED BY <1>1, <1>2, CopyWrites

LEMMA AssignVarKeeps ==
  ASSUME ValuesInv, NEW v \in VarsInSight, NEW w \in Operands, AssignVar(v, w)
  PROVE  ValuesInv'
<1> DEFINE ev == Roots(slot, frame)
           k == DeepCopy(heap, v, w)
<1>1. Room(0, 1) /\ Becomes(k, Means(v, store[w])) /\ UNCHANGED <<slot, frame, ret>>
      /\ selfcopy' = (selfcopy \/ (v = w /\ IsArray(heap, v) /\ Alone(heap, v)))
  BY DEF AssignVar
<1>2. ~heap.bad /\ heap' = k BY <1>1 DEF Becomes
<1>3. Balanced(heap, {}, ev, None) /\ ev \in [Val -> Nat] /\ None \in [Obj -> Nat] BY <1>2, Begins
<1>4. v \in Operands BY <1>2, Begins, OperandsHeld
<1>5. v \in Val /\ w \in Val /\ ev[v] >= 1 /\ ev[w] >= 1 /\ Content(heap, w) = store[w]
  BY <1>2, <1>4, Begins
<1>6. \E o \in Obj : heap.obj[o].rc = 0 BY <1>1, RoomOne
<1> HIDE DEF ev
<1>7. \/ v = w /\ IsArray(heap, v) /\ Alone(heap, v)
      \/ Writes(heap, k, v, ev, None) /\ Content(k, v) = Content(heap, w)
  BY <1>3, <1>5, <1>6, DeepCopyWrites
<1>8. CASE Writes(heap, k, v, ev, None) /\ Content(k, v) = Content(heap, w)
  <2> HIDE DEF k
  <2> QED BY <1>1, <1>5, <1>8, WriteKeeps DEF ev
<1>9. CASE v = w /\ IsArray(heap, v) /\ Alone(heap, v)
  <2>1. ~IsInt(heap, v) BY <1>9 DEF IsArray, IsInt
  <2>2. k = Copy(heap, v, v) BY <1>9, <2>1 DEF DeepCopy
  <2> HIDE DEF k
  <2>3. CASE Writes(heap, k, v, ev, None) /\ Content(k, v) = Content(heap, v)
    BY <1>1, <1>5, <1>9, <2>3, WriteKeeps DEF ev
  <2>4. CASE k.bad = TRUE
    <3>1. heap'.bad = TRUE /\ selfcopy' BY <1>1, <1>2, <1>9, <2>4
    <3>2. Shape(slot', frame', ret') BY <1>1 DEF ValuesInv
    <3> QED BY <3>1, <3>2 DEF ValuesInv
  <2> QED BY <1>3, <1>5, <2>2, <2>3, <2>4, CopyBad
<1> QED BY <1>7, <1>8, <1>9

LEMMA AssignElementKeeps ==
  ASSUME ValuesInv, NEW w \in Operands, AssignElement(w)
  PROVE  ValuesInv'
<1> DEFINE ev == Roots(slot, frame)
           v == slot.e
           k == Copy(heap, v, w)
           alone == w = v /\ heap.val[w].obj # NoObj /\ Alone(heap, w)
<1>1. Denoted # {} /\ Becomes(k, Means(v, store[w])) /\ UNCHANGED <<slot, frame, ret>>
      /\ selfcopy' = (selfcopy \/ alone)
  BY DEF AssignElement
<1>2. ~heap.bad /\ heap' = k BY <1>1 DEF Becomes
<1>3. Balanced(heap, {}, ev, None) /\ ev \in [Val -> Nat] /\ None \in [Obj -> Nat] BY <1>2, Begins
<1>4. v \in Operands BY <1>1, <1>2, Begins, OperandsHeld
<1>5. v \in Val /\ w \in Val /\ ev[v] >= 1 /\ ev[w] >= 1 /\ Content(heap, w) = store[w]
  BY <1>2, <1>4, Begins
<1> HIDE DEF ev, v
<1>6. CASE Writes(heap, k, v, ev, None) /\ Content(k, v) = Content(heap, w)
  <2> HIDE DEF k
  <2> QED BY <1>1, <1>5, <1>6, WriteKeeps DEF ev
<1>7. CASE w # v
  <2>1. Held(heap, v, ev, w) BY <1>5, <1>7 DEF Held
  <2>2. Writes(heap, k, v, ev, None) /\ Content(k, v) = Content(heap, w)
    BY <1>3, <1>5, <1>7, <2>1, HeldCopied
  <2> QED BY <1>6, <2>2
<1>8. CASE w = v /\ ~alone
  <2>1. Writes(heap, k, v, ev, None) /\ Content(k, v) = Content(heap, w)
    BY <1>3, <1>5, <1>8, SharedCopied
  <2> QED BY <1>6, <2>1
<1>9. CASE alone
  <2>1. CASE k.bad = TRUE
    <3>1. heap'.bad = TRUE /\ selfcopy' BY <1>1, <1>2, <1>9, <2>1
    <3>2. Shape(slot', frame', ret') BY <1>1 DEF ValuesInv
    <3> QED BY <3>1, <3>2 DEF ValuesInv
  <2> QED BY <1>3, <1>5, <1>6, <1>9, <2>1, CopyBad
<1> QED BY <1>7, <1>8, <1>9

LEMMA CopyToResultKeeps ==
  ASSUME ValuesInv, NEW w \in Operands, CopyToResult(w)
  PROVE  ValuesInv'
<1> DEFINE ev == Roots(slot, frame)
           v == Result
           k == Copy(heap, v, w)
<1>1. w # v /\ Becomes(k, Means(v, store[w])) /\ UNCHANGED <<slot, frame, ret>>
  BY DEF CopyToResult
<1>2. ~heap.bad BY <1>1 DEF Becomes
<1>3. Balanced(heap, {}, ev, None) /\ ev \in [Val -> Nat] /\ None \in [Obj -> Nat] BY <1>2, Begins
<1>4. v \in Operands BY <1>1, <1>2, Begins, OperandsHeld
<1>5. v \in Val /\ w \in Val /\ ev[v] >= 1 /\ ev[w] >= 1 /\ Content(heap, w) = store[w]
  BY <1>2, <1>4, Begins
<1>6. Held(heap, v, ev, w) BY <1>5 DEF Held
<1> HIDE DEF ev, v
<1>7. Writes(heap, Copy(heap, v, w), v, ev, None) /\ Content(Copy(heap, v, w), v) = Content(heap, w)
  BY <1>1, <1>3, <1>5, <1>6, HeldCopied
<1> QED BY <1>1, <1>5, <1>7, WriteKeeps DEF ev

LEMMA ArithmeticKeeps ==
  ASSUME ValuesInv, NEW w \in VarsInSight, Arithmetic(w)
  PROVE  ValuesInv'
<1> DEFINE ev == Roots(slot, frame)
           v == Result
           n == Number(heap, w) + 1
           k == SetInt(heap, v, n)
<1>1. IsInt(heap, w) /\ Room(0, 1) /\ Becomes(k, Means(v, Num(store[w].n + 1)))
      /\ UNCHANGED <<slot, frame, ret>>
  BY DEF Arithmetic
<1>2. ~heap.bad BY <1>1 DEF Becomes
<1>3. Balanced(heap, {}, ev, None) /\ ev \in [Val -> Nat] /\ None \in [Obj -> Nat] /\ heap \in HeapType
  BY <1>2, Begins
<1>4. v \in Operands /\ w \in Operands BY <1>1, <1>2, Begins, OperandsHeld
<1>5. v \in Val /\ w \in Val /\ ev[v] >= 1 /\ Content(heap, w) = store[w]
  BY <1>2, <1>4, Begins
<1>6. Number(heap, w) \in Int /\ store[w].n = Number(heap, w) BY <1>1, <1>3, <1>5, IntIs
<1>7. n \in Int /\ Num(store[w].n + 1) = Num(n) BY <1>6
<1>8. \E o \in Obj : heap.obj[o].rc = 0 BY <1>1, RoomOne
<1> HIDE DEF ev, v, n
<1>9. Writes(heap, SetInt(heap, v, n), v, ev, None) /\ Content(SetInt(heap, v, n), v) = Num(n)
  BY <1>3, <1>5, <1>7, <1>8, SetIntWrites
<1> QED BY <1>1, <1>5, <1>7, <1>9, WriteKeeps DEF ev

LEMMA ConstantKeeps ==
  ASSUME ValuesInv, Constant
  PROVE  ValuesInv'
<1> DEFINE ev == Roots(slot, frame)
           v == Result
<1>1. Room(0, 1) /\ Becomes(SetInt(heap, v, 0), Means(v, Num(0))) /\ UNCHANGED <<slot, frame, ret>>
  BY DEF Constant
<1>2. ~heap.bad BY <1>1 DEF Becomes
<1>3. Balanced(heap, {}, ev, None) /\ ev \in [Val -> Nat] /\ None \in [Obj -> Nat] BY <1>2, Begins
<1>4. v \in Operands BY <1>1, <1>2, Begins, OperandsHeld
<1>5. v \in Val /\ ev[v] >= 1 BY <1>2, <1>4, Begins
<1>6. \E o \in Obj : heap.obj[o].rc = 0 BY <1>1, RoomOne
<1> HIDE DEF ev, v
<1>7. Writes(heap, SetInt(heap, v, 0), v, ev, None) /\ Content(SetInt(heap, v, 0), v) = Num(0)
  <2>1. 0 \in Int OBVIOUS
  <2> QED BY <2>1, <1>3, <1>5, <1>6, SetIntWrites
<1> QED BY <1>1, <1>5, <1>7, WriteKeeps DEF ev

LEMMA NullResultKeeps ==
  ASSUME ValuesInv, NullResult
  PROVE  ValuesInv'
<1> DEFINE ev == Roots(slot, frame)
           v == Result
<1>1. Becomes(SetNull(heap, v), Means(v, Null)) /\ UNCHANGED <<slot, frame, ret>>
  BY DEF NullResult
<1>2. ~heap.bad BY <1>1 DEF Becomes
<1>3. Balanced(heap, {}, ev, None) /\ ev \in [Val -> Nat] /\ None \in [Obj -> Nat] BY <1>2, Begins
<1>4. v \in Operands BY <1>1, <1>2, Begins, OperandsHeld
<1>5. v \in Val /\ ev[v] >= 1 BY <1>2, <1>4, Begins
<1> HIDE DEF ev, v
<1>6. Writes(heap, SetNull(heap, v), v, ev, None) /\ Content(SetNull(heap, v), v) = Null
  BY <1>3, <1>5, SetNullWrites
<1> QED BY <1>1, <1>5, <1>6, WriteKeeps DEF ev

LEMMA NewArrayKeeps ==
  ASSUME ValuesInv, NewArray
  PROVE  ValuesInv'
<1> DEFINE ev == Roots(slot, frame)
           v == Result
           new == ArrayObject(<<>>)
           k == SetObj(heap, v, new)
           o == NewObj(heap)
<1>1. Room(0, 1) /\ Becomes(k, Means(v, Ref(o))) /\ UNCHANGED <<slot, frame, ret>>
  BY DEF NewArray
<1>2. ~heap.bad BY <1>1 DEF Becomes
<1>3. Balanced(heap, {}, ev, None) /\ ev \in [Val -> Nat] /\ None \in [Obj -> Nat] BY <1>2, Begins
<1>4. v \in Operands BY <1>1, <1>2, Begins, OperandsHeld
<1>5. v \in Val /\ ev[v] >= 1 BY <1>2, <1>4, Begins
<1>6. \E q \in Obj : heap.obj[q].rc = 0 BY <1>1, RoomOne
<1>7. new \in ObjectType /\ new.rc = 1 /\ new.kind = "array" /\ new.cells = <<>> BY ObjectsMade
<1> HIDE DEF ev, v, new
<1>8. /\ Writes(heap, k, v, ev, None)
      /\ o \in Obj /\ k.val[v].obj = o /\ k.obj[o].kind = new.kind
  BY <1>3, <1>5, <1>6, <1>7, SetObjWrites
<1>9. Content(k, v) = Ref(o)
  <2> HIDE DEF k, o
  <2>1. o # NoObj BY <1>8, Bounds
  <2>2. k.obj[k.val[v].obj].kind # "int" BY <1>7, <1>8
  <2> QED BY <1>8, <2>1, <2>2 DEF Content, IsInt
<1> HIDE DEF k, o
<1> QED BY <1>1, <1>5, <1>8, <1>9, WriteKeeps DEF ev

\* Two Values are written, one after the other.
LEMMA TwoWritesKeep ==
  ASSUME ValuesInv, NEW v \in Val, NEW w \in Val, v # w, NEW h, NEW k, NEW meaning, Becomes(k, meaning),
         DOMAIN meaning = {v, w}, Roots(slot, frame)[v] >= 1,
         Writes(heap, h, v, Roots(slot, frame), None), Content(h, v) = meaning[v],
         Writes(h, k, w, Roots(slot, frame), None), Content(k, w) = meaning[w],
         UNCHANGED <<slot, frame, ret>>
  PROVE  ValuesInv'
<1> DEFINE ev == Roots(slot, frame)
<1>1. ~heap.bad BY DEF Becomes
<1>2. Unlisted(heap, Owned(slot, frame)) /\ Shape(slot, frame, ret) BY <1>1, Begins
<1>3. Unlisted(k, Owned(slot, frame))
  <2>1. Unlisted(h, Owned(slot, frame)) BY <1>2, UnlistedFewer DEF Writes
  <2> QED BY <2>1, UnlistedFewer DEF Writes
<1>4. slot' = slot /\ frame' = frame /\ ret' = ret OBVIOUS
<1>5. Shape(slot', frame', ret') /\ Unlisted(k, Owned(slot', frame'))
      /\ Balanced(k, {}, Roots(slot', frame'), None)
  BY <1>2, <1>3, <1>4 DEF Writes
<1>6. Surviving(heap, k, DOMAIN meaning, {})
  <2>1. Surviving(heap, h, {v}, {}) /\ Surviving(h, k, {w}, {}) BY DEF Writes
  <2>2. Surviving(heap, k, {v} \cup {w}, {} \cup {}) BY <2>1, SurvivingTwice
  <2>3. {v} \cup {w} = {v, w} /\ {} \cup {} = {} OBVIOUS
  <2> QED BY <2>2, <2>3
<1>7. ASSUME NEW u \in Val, u \in DOMAIN meaning, k.val[u].rc > 0 PROVE Content(k, u) = meaning[u]
  <2>1. CASE u = w BY <2>1
  <2>2. CASE u = v
    <3>1. h \in HeapType BY DEF Writes, Balanced, HeapOK
    <3>2. Surviving(h, k, {w}, {}) BY DEF Writes
    <3>3. v \in Val \ {w} /\ k.val[v].rc > 0 BY <1>7, <2>2
    <3>4. Content(k, v) = Content(h, v) BY <3>1, <3>2, <3>3, ContentSurvives
    <3> QED BY <2>2, <3>4
  <2> QED BY <1>7, <2>1, <2>2
<1> QED BY <1>5, <1>6, <1>7, StepKeeps

LEMMA PreIncrementKeeps ==
  ASSUME ValuesInv, NEW v \in VarsInSight \cup Denoted, PreIncrement(v)
  PROVE  ValuesInv'
<1> DEFINE ev == Roots(slot, frame)
           w == Result
           n == Number(heap, v) + 1
           h == SetInt(heap, v, n)
           k == DeepCopy(h, w, v)
           meaning == [u \in {v, w} |-> Num(store[v].n + 1)]
<1>1. v # w /\ IsInt(heap, v) /\ Room(0, 2) /\ Becomes(k, meaning) /\ UNCHANGED <<slot, frame, ret>>
  BY DEF PreIncrement
<1>2. ~heap.bad BY <1>1 DEF Becomes
<1>3. Balanced(heap, {}, ev, None) /\ ev \in [Val -> Nat] /\ None \in [Obj -> Nat] /\ heap \in HeapType
  BY <1>2, Begins
<1>4. v \in Operands /\ w \in Operands BY <1>1, <1>2, Begins, OperandsHeld
<1>5. v \in Val /\ w \in Val /\ ev[v] >= 1 /\ ev[w] >= 1 /\ Content(heap, v) = store[v]
  BY <1>2, <1>4, Begins
<1>6. Number(heap, v) \in Int /\ store[v].n = Number(heap, v) BY <1>1, <1>3, <1>5, IntIs
<1>7. n \in Int /\ Num(store[v].n + 1) = Num(n) BY <1>6
<1>8. \E o \in Obj : heap.obj[o].rc = 0
  <2>1. OneMade(heap, heap) BY DEF OneMade
  <2> QED BY <1>1, <2>1, RoomTwo
<1>9. DOMAIN meaning = {v, w} /\ meaning[v] = Num(n) /\ meaning[w] = Num(n) BY <1>7
<1> HIDE DEF ev, w, n, meaning
<1>10. Writes(heap, h, v, ev, None) /\ Content(h, v) = Num(n)
  BY <1>3, <1>5, <1>7, <1>8, SetIntWrites
<1> HIDE DEF h
<1>11. Writes(h, k, w, ev, None) /\ Content(k, w) = Content(h, v)
  <2>1. \E o \in Obj : h.obj[o].rc = 0 BY <1>1, <1>10, RoomTwo DEF Writes
  <2>2. Balanced(h, {}, ev, None) BY <1>10 DEF Writes
  <2>3. ~(w = v /\ IsArray(h, w) /\ Alone(h, w)) BY <1>1
  <2> QED BY <1>3, <1>5, <2>1, <2>2, <2>3, DeepCopyWrites
<1> HIDE DEF k
<1> QED BY <1>1, <1>5, <1>9, <1>10, <1>11, TwoWritesKeep DEF ev

LEMMA PostIncrementKeeps ==
  ASSUME ValuesInv, NEW v \in VarsInSight \cup Denoted, PostIncrement(v)
  PROVE  ValuesInv'
<1> DEFINE ev == Roots(slot, frame)
           w == Result
           h == DeepCopy(heap, w, v)
           n == Number(h, v) + 1
           k == SetInt(h, v, n)
           meaning == [u \in {v, w} |-> Num(store[v].n + IF u = v THEN 1 ELSE 0)]
<1>1. v # w /\ IsInt(heap, v) /\ Room(0, 2) /\ Becomes(k, meaning) /\ UNCHANGED <<slot, frame, ret>>
  BY DEF PostIncrement
<1>2. ~heap.bad BY <1>1 DEF Becomes
<1>3. Balanced(heap, {}, ev, None) /\ ev \in [Val -> Nat] /\ None \in [Obj -> Nat] /\ heap \in HeapType
  BY <1>2, Begins
<1>4. v \in Operands /\ w \in Operands BY <1>1, <1>2, Begins, OperandsHeld
<1>5. v \in Val /\ w \in Val /\ ev[v] >= 1 /\ ev[w] >= 1 /\ Content(heap, v) = store[v]
  BY <1>2, <1>4, Begins
<1>6. Number(heap, v) \in Int /\ store[v].n = Number(heap, v) /\ Content(heap, v) = Num(Number(heap, v))
  BY <1>1, <1>3, <1>5, IntIs
<1>7. \E o \in Obj : heap.obj[o].rc = 0
  <2>1. OneMade(heap, heap) BY DEF OneMade
  <2> QED BY <1>1, <2>1, RoomTwo
<1>8. DOMAIN meaning = {v, w} /\ meaning[v] = Num(store[v].n + 1) /\ meaning[w] = Num(store[v].n)
  <2>1. DOMAIN meaning = {v, w} /\ meaning[v] = Num(store[v].n + 1) OBVIOUS
  <2>2. meaning[w] = Num(store[v].n + 0) BY <1>1
  <2>3. store[v].n + 0 = store[v].n BY <1>6
  <2> QED BY <2>1, <2>2, <2>3
<1> HIDE DEF ev, w, meaning
<1>9. Writes(heap, h, w, ev, None) /\ Content(h, w) = Content(heap, v)
  <2>1. ~(w = v /\ IsArray(heap, w) /\ Alone(heap, w)) BY <1>1
  <2> QED BY <1>3, <1>5, <1>7, <2>1, DeepCopyWrites
<1> HIDE DEF h
<1>10. h \in HeapType /\ Balanced(h, {}, ev, None) BY <1>9 DEF Writes, Balanced, HeapOK
<1>11. n \in Int /\ Num(n) = Num(store[v].n + 1)
  <2>1. h.val[v].rc > 0
    <3>1. h.val[v].rc >= 1 BY <1>3, <1>5, <1>10, HeldIsLive
    <3> QED BY <1>5, <1>10, <3>1, Typed
  <2>2. Surviving(heap, h, {w}, {}) BY <1>9 DEF Writes
  <2>3. v \in Val \ {w} BY <1>1, <1>5
  <2>4. Content(h, v) = Content(heap, v) BY <1>3, <2>1, <2>2, <2>3, ContentSurvives
  <2>5. IsInt(h, v) BY <1>1, <1>3, <1>5, <1>10, <2>4, IntIs
  <2>6. Number(h, v) \in Int /\ Content(h, v).n = Number(h, v) BY <1>5, <1>10, <2>5, IntIs
  <2>7. Number(h, v) = store[v].n BY <1>5, <2>4, <2>6
  <2> QED BY <2>6, <2>7
<1> HIDE DEF n
<1>12. Writes(h, k, v, ev, None) /\ Content(k, v) = Num(n)
  <2>1. \E o \in Obj : h.obj[o].rc = 0 BY <1>1, <1>9, RoomTwo DEF Writes
  <2> QED BY <1>3, <1>5, <1>10, <1>11, <2>1, SetIntWrites
<1> HIDE DEF k
<1>13. DOMAIN meaning = {w, v} /\ Content(h, w) = meaning[w] /\ Content(k, v) = meaning[v]
  BY <1>6, <1>8, <1>9, <1>11, <1>12
<1> QED BY <1>1, <1>5, <1>9, <1>12, <1>13, TwoWritesKeep DEF ev

-------------------------------------------------------------------------------
(* The instructions of arrays. *)
LEMMA OwnedHeld ==
  ASSUME Shape(slot, frame, ret), NEW u \in Owned(slot, frame), u \in Val
  PROVE  Roots(slot, frame)[u] >= 1
<1>1. \A x, v : One(x, v) \in Nat /\ (x = v => One(x, v) = 1) BY DEF One
<1> DEFINE a == One(slot.x, u)
           b == One(slot.r, u)
           c == One(slot.e, u)
           d == One(frame.p, u)
           e == One(frame.s, u)
<1>2. Roots(slot, frame)[u] = a + b + c + d + e BY RootsType
<1>3. a \in Nat /\ b \in Nat /\ c \in Nat /\ d \in Nat /\ e \in Nat BY <1>1
<1>4. a = 1 \/ b = 1 \/ d = 1 \/ e = 1 BY <1>1 DEF Owned
<1> HIDE DEF a, b, c, d, e
<1> QED BY <1>2, <1>3, <1>4

\* A free Value is nobody's.
LEMMA FreeIsUnlisted ==
  ASSUME NEW h, NEW ev \in [Val -> Nat], NEW eo \in [Obj -> Nat], Balanced(h, {}, ev, eo),
         NEW n \in Val, h.val[n].rc = 0
  PROVE  Unlisted(h, {n}) /\ ev[n] = 0
<1>1. ev[n] = 0
  <2>1. ev[n] \in Nat /\ ~(ev[n] >= 1)
    <3>1. ev[n] >= 1 => h.val[n].rc >= 1 BY HeldIsLive
    <3>2. ev[n] \in Nat OBVIOUS
    <3> QED BY <3>1, <3>2
  <2> QED BY <2>1
<1>2. \A o \in Obj : \A i \in 1 .. Len(h.obj[o].cells) : h.val[h.obj[o].cells[i]].rc >= 1
  BY HeldIsLive
<1>3. ASSUME NEW o \in Obj, NEW i \in 1 .. Len(h.obj[o].cells) PROVE h.obj[o].cells[i] \notin {n}
  <2>1. h.val[h.obj[o].cells[i]].rc >= 1 BY <1>2
  <2> QED BY <2>1
<1> QED BY <1>1, <1>3 DEF Unlisted

LEMMA NobodysIsFree ==
  ASSUME NEW k, NEW ev \in [Val -> Nat], NEW eo \in [Obj -> Nat], Balanced(k, {}, ev, eo),
         NEW n \in Val, Unlisted(k, {n}), ev[n] = 0
  PROVE  k.val[n].rc = 0
<1>1. Counted(k, {}, ev, eo) BY CountsOf
<1>2. k.val[n].rc = Cardinality(Places(k, n)) + ev[n] BY <1>1 DEF Counted
<1>3. Places(k, n) = {}
  <2> SUFFICES ASSUME NEW c \in Places(k, n) PROVE FALSE OBVIOUS
  <2>1. c[1] \in Obj /\ c[2] \in 1 .. MaxSize /\ c[2] <= Len(k.obj[c[1]].cells)
        /\ k.obj[c[1]].cells[c[2]] = n
    BY DEF Places
  <2>2. k \in HeapType BY DEF Balanced, HeapOK
  <2>3. Len(k.obj[c[1]].cells) \in Nat BY <2>1, <2>2, Typed
  <2>4. c[2] \in 1 .. Len(k.obj[c[1]].cells) BY <2>1, <2>3, Bounds
  <2> QED BY <2>1, <2>4 DEF Unlisted
<1>4. Cardinality({}) = 0 BY FS_EmptySet
<1> QED BY <1>2, <1>3, <1>4

LEMMA ArrayOf ==
  ASSUME ValuesInv, ~heap.bad, NEW a \in Arrays
  PROVE  /\ a \in VarsInSight /\ a \in Operands /\ a # Result
         /\ heap.val[a].obj \in Obj /\ heap.obj[heap.val[a].obj].rc # 0
         /\ heap.obj[heap.val[a].obj].kind = "array"
         /\ Cells(heap, a) = heap.obj[heap.val[a].obj].cells
         /\ Cells(heap, a) \in Seq(Val) /\ Len(Cells(heap, a)) <= MaxSize
<1>1. a \in VarsInSight /\ IsArray(heap, a) BY DEF Arrays
<1>2. Shape(slot, frame, ret) /\ heap \in HeapType
      /\ Balanced(heap, {}, Roots(slot, frame), None)
      /\ Roots(slot, frame) \in [Val -> Nat] /\ None \in [Obj -> Nat]
  BY Begins
<1>3. a \in Operands /\ a # Result BY <1>1, <1>2, OperandsHeld
<1>4. a \in Val BY <1>3, Begins
<1>5. heap.val[a].obj \in Obj BY <1>1, <1>2, <1>4, Typed DEF IsArray
<1>6. heap.obj[heap.val[a].obj].rc # 0
  <2>1. a \in Val \ {} /\ heap.val[a].obj # NoObj BY <1>1, <1>4 DEF IsArray
  <2>2. heap.obj[heap.val[a].obj].rc >= 1 BY <1>2, <2>1, HeldIsLive
  <2> QED BY <2>2
<1>7. Cells(heap, a) = heap.obj[heap.val[a].obj].cells BY DEF Cells
<1>8. heap.obj[heap.val[a].obj].cells \in Seq(Val) BY <1>2, <1>5, Typed
<1>9. Len(heap.obj[heap.val[a].obj].cells) <= MaxSize BY <1>2, <1>5 DEF Balanced, HeapOK
<1> QED BY <1>1, <1>3, <1>5, <1>6, <1>7, <1>8, <1>9 DEF IsArray

LEMMA AppendToKeeps ==
  ASSUME ValuesInv, NEW a \in Arrays, NEW v \in Operands, AppendTo(a, v)
  PROVE  ValuesInv'
<1> DEFINE ev == Roots(slot, frame)
           o == heap.val[a].obj
           n == NewVal(heap)
           w == Result
           h == Push(heap, o, v)
           k == SetNull(h, w)
           meaning == [u \in {n, w} |-> IF u = w THEN Null ELSE store[v]]
<1>1. Len(Cells(heap, a)) < MaxSize /\ Room(1, 0) /\ Becomes(k, meaning) /\ UNCHANGED <<slot, frame, ret>>
  BY DEF AppendTo
<1>2. ~heap.bad BY <1>1 DEF Becomes
<1>3. /\ Balanced(heap, {}, ev, None) /\ ev \in [Val -> Nat] /\ None \in [Obj -> Nat]
      /\ heap \in HeapType /\ Unlisted(heap, Owned(slot, frame)) /\ Shape(slot, frame, ret)
  BY <1>2, Begins
<1>4. w \in Operands /\ a \in Operands /\ o \in Obj /\ Cells(heap, a) = heap.obj[o].cells
  BY <1>2, <1>3, ArrayOf, OperandsHeld
<1>5. /\ v \in Val /\ ev[v] >= 1 /\ Content(heap, v) = store[v]
      /\ a \in Val /\ ev[a] >= 1 /\ w \in Val /\ ev[w] >= 1 /\ heap.val[w].rc # 0
  BY <1>2, <1>4, Begins
<1>6. Pushed(heap, h, n, o, v, ev, None)
  <2>1. \E q \in Val : heap.val[q].rc = 0 BY <1>1, RoomOne
  <2>2. Held(heap, NoVal, ev, v) BY <1>5 DEF Held
  <2>3. Anchored(heap, ev, None, o) BY <1>5 DEF Anchored
  <2>4. Len(heap.obj[o].cells) < MaxSize BY <1>1, <1>4
  <2> HIDE DEF ev, o, h, n
  <2>5. Pushed(heap, Push(heap, o, v), NewVal(heap), o, v, ev, None)
    BY <1>3, <1>4, <1>5, <2>1, <2>2, <2>3, <2>4, PushWrites
  <2> QED BY <2>5 DEF h, n
<1> HIDE DEF n, h, w, o, ev
<1>7. /\ n \in Val /\ heap.val[n].rc = 0
      /\ Balanced(h, {}, ev, None) /\ Surviving(heap, h, {n}, {o}) /\ Fewer(heap, h, {o})
      /\ h.obj[o].cells = Append(heap.obj[o].cells, n)
      /\ Content(h, n) = Content(heap, v)
  BY <1>6 DEF Pushed
<1>8. n # w BY <1>5, <1>7
<1>9. Writes(h, k, w, ev, None) /\ Content(k, w) = Null BY <1>3, <1>5, <1>7, SetNullWrites
<1> HIDE DEF k
<1>10. Unlisted(h, Owned(slot, frame))
  <2> SUFFICES ASSUME NEW q \in Obj, NEW i \in 1 .. Len(h.obj[q].cells)
               PROVE  h.obj[q].cells[i] \notin Owned(slot, frame)
    BY DEF Unlisted
  <2>1. CASE q # o
    <3>1. h.obj[q].cells = <<>> \/ h.obj[q].cells = heap.obj[q].cells
      <4>1. q \in Obj \ {o} BY <2>1
      <4> QED BY <1>7, <4>1 DEF Fewer
    <3>2. CASE h.obj[q].cells = <<>> BY <3>2
    <3>3. CASE h.obj[q].cells = heap.obj[q].cells
      <4>1. i \in 1 .. Len(heap.obj[q].cells) BY <3>3
      <4> QED BY <1>3, <3>3, <4>1 DEF Unlisted
    <3> QED BY <3>1, <3>2, <3>3
  <2>2. CASE q = o
    <3>1. heap.obj[o].cells \in Seq(Val) BY <1>3, <1>4, Typed
    <3>2. /\ Len(h.obj[o].cells) = Len(heap.obj[o].cells) + 1 /\ Len(heap.obj[o].cells) \in Nat
          /\ h.obj[o].cells[Len(heap.obj[o].cells) + 1] = n
          /\ \A j \in 1 .. Len(heap.obj[o].cells) : h.obj[o].cells[j] = heap.obj[o].cells[j]
      BY <1>7, <3>1, AppendAt
    <3>3. CASE i \in 1 .. Len(heap.obj[o].cells)
      <4>1. h.obj[o].cells[i] = heap.obj[o].cells[i] BY <3>2, <3>3
      <4>2. heap.obj[o].cells[i] \notin Owned(slot, frame) BY <1>3, <1>4, <3>3 DEF Unlisted
      <4> QED BY <2>2, <4>1, <4>2
    <3>4. CASE i = Len(heap.obj[o].cells) + 1
      <4>1. h.obj[q].cells[i] = n BY <2>2, <3>2, <3>4
      <4>2. ev[n] = 0 BY <1>3, <1>7, FreeIsUnlisted
      <4>3. n \notin Owned(slot, frame)
        <5>1. ~(ev[n] >= 1) BY <4>2
        <5> QED BY <1>3, <1>7, <5>1, OwnedHeld DEF ev
      <4> QED BY <4>1, <4>3
    <3>5. i \in 1 .. Len(heap.obj[o].cells) + 1 BY <2>2, <3>2
    <3> QED BY <3>2, <3>3, <3>4, <3>5
  <2> QED BY <2>1, <2>2
<1>11. Unlisted(k, Owned(slot, frame)) BY <1>9, <1>10, UnlistedFewer DEF Writes
<1>12. Surviving(heap, k, DOMAIN meaning, {o})
  <2>1. Surviving(h, k, {w}, {}) BY <1>9 DEF Writes
  <2>2. Surviving(heap, k, {n} \cup {w}, {o} \cup {}) BY <1>7, <2>1, SurvivingTwice
  <2>3. {n} \cup {w} = DOMAIN meaning /\ {o} \cup {} = {o} OBVIOUS
  <2> HIDE DEF meaning
  <2> QED BY <2>2, <2>3
<1>13. ASSUME NEW u \in Val, u \in DOMAIN meaning, k.val[u].rc > 0 PROVE Content(k, u) = meaning[u]
  <2>1. DOMAIN meaning = {n, w} /\ meaning[w] = Null /\ meaning[n] = store[v] BY <1>8
  <2> HIDE DEF meaning
  <2>2. CASE u = w BY <1>9, <2>1, <2>2
  <2>3. CASE u = n
    <3>1. h \in HeapType BY <1>7 DEF Balanced, HeapOK
    <3>2. Surviving(h, k, {w}, {}) BY <1>9 DEF Writes
    <3>3. n \in Val \ {w} /\ k.val[n].rc > 0 BY <1>7, <1>8, <1>13, <2>3
    <3>4. Content(k, n) = Content(h, n) BY <3>1, <3>2, <3>3, ContentSurvives
    <3> QED BY <1>5, <1>7, <2>1, <2>3, <3>4
  <2> QED BY <1>13, <2>1, <2>2, <2>3
<1> HIDE DEF meaning
<1>14. slot' = slot /\ frame' = frame /\ ret' = ret BY <1>1
<1>15. Shape(slot', frame', ret') /\ Unlisted(k, Owned(slot', frame'))
       /\ Balanced(k, {}, Roots(slot', frame'), None)
  BY <1>3, <1>9, <1>11, <1>14 DEF Writes, ev
<1> QED BY <1>1, <1>12, <1>13, <1>15, StepKeeps

LEMMA RemovalKeeps ==
  ASSUME ValuesInv, NEW a \in Arrays, NEW i \in 1 .. MaxSize, Removal(a, i)
  PROVE  ValuesInv'
<1> DEFINE ev == Roots(slot, frame)
           o == heap.val[a].obj
           c == Cells(heap, a)[i]
           w == Result
           h == Copy(heap, w, c)
           f == [h EXCEPT !.obj[o].cells = RemoveAt(@, i)]
           k == Release(f, <<ValueRef(c)>>)
<1>1. i \in 1 .. Len(Cells(heap, a)) /\ Becomes(k, Means(w, store[c])) /\ UNCHANGED <<slot, frame, ret>>
  BY DEF Removal
<1>2. ~heap.bad BY <1>1 DEF Becomes
<1>3. /\ Balanced(heap, {}, ev, None) /\ ev \in [Val -> Nat] /\ None \in [Obj -> Nat]
      /\ heap \in HeapType /\ Unlisted(heap, Owned(slot, frame)) /\ Shape(slot, frame, ret)
      /\ \A u \in Val : heap.val[u].rc # 0 => Content(heap, u) = store[u]
  BY <1>2, Begins
<1>4. /\ w \in Operands /\ w \in Owned(slot, frame) /\ a \in Operands /\ a # w
      /\ o \in Obj /\ Cells(heap, a) = heap.obj[o].cells
  BY <1>2, <1>3, ArrayOf, OperandsHeld
<1>5. a \in Val /\ ev[a] >= 1 /\ w \in Val /\ ev[w] >= 1 BY <1>2, <1>4, Begins
<1>6. i \in 1 .. Len(heap.obj[o].cells) /\ c = heap.obj[o].cells[i] BY <1>1, <1>4
<1>a. o = heap.val[a].obj OBVIOUS
<1> HIDE DEF o, c, w, ev
<1>7. c \in Val /\ heap.val[c].rc >= 1 BY <1>3, <1>4, <1>6, HeldIsLive
<1>8. c # w BY <1>3, <1>4, <1>6 DEF Unlisted
<1>9. Held(heap, w, ev, c)
  <2>1. a \in Val \ {w} BY <1>4, <1>5
  <2> QED BY <1>4, <1>5, <1>6, <1>a, <2>1 DEF Held
<1>10. /\ Writes(heap, h, w, ev, None) /\ SameObjects(heap, h)
       /\ Content(h, w) = Content(heap, c)
  BY <1>3, <1>5, <1>7, <1>8, <1>9, HeldCopied
<1> HIDE DEF h
<1>11. Balanced(h, {}, ev, None) /\ HeapOK(h) /\ h \in HeapType /\ Surviving(heap, h, {w}, {})
  BY <1>10 DEF Writes, Balanced, HeapOK
<1>12. h.obj[o].rc # 0
  <2>1. h.val[a].rc >= 1 BY <1>3, <1>5, <1>11, HeldIsLive
  <2>2. h.val[a].rc > 0 BY <1>5, <1>11, <2>1, Typed
  <2>3. a \in Val \ {w} BY <1>4, <1>5
  <2>4. h.val[a].obj = o BY <1>11, <1>a, <2>2, <2>3 DEF Surviving
  <2>5. o # NoObj BY <1>4, Bounds
  <2>6. a \in Val \ {} BY <1>5
  <2>7. h.obj[o].rc >= 1 BY <1>3, <1>11, <2>4, <2>5, <2>6, HeldIsLive
  <2> QED BY <2>7
<1>13. h.obj[o].cells = heap.obj[o].cells
  <2>1. h.obj[o].rc > 0 BY <1>4, <1>11, <1>12, Typed
  <2> QED BY <1>4, <1>10, <2>1 DEF SameObjects
<1>14. f = WithCells(h, o, RemoveAt(h.obj[o].cells, i))
  <2>1. \A x : [h EXCEPT !.obj[o].cells = x] = WithObj(h, o, ObjCells(h.obj[o], x))
    BY <1>4, <1>11, Rewritten, Zenon
  <2>2. f = [h EXCEPT !.obj[o].cells = RemoveAt(h.obj[o].cells, i)] OBVIOUS
  <2> HIDE DEF f
  <2> QED BY <2>1, <2>2 DEF WithCells
<1>15. /\ HeapOK(f) /\ ~f.bad /\ <<ValueRef(c)>> \in Seq(Refs) /\ Owing(f, <<ValueRef(c)>>, {}, ev, None)
       /\ Surviving(h, f, {}, {o})
       /\ \A q \in Obj : q # o => f.obj[q] = h.obj[q]
       /\ f.obj[o].cells = RemoveAt(h.obj[o].cells, i)
  <2>1. i \in 1 .. Len(h.obj[o].cells) /\ c = h.obj[o].cells[i] BY <1>6, <1>13
  <2> HIDE DEF f
  <2> QED BY <1>3, <1>4, <1>11, <1>12, <1>14, <2>1, CellRemoved
<1> HIDE DEF f
<1>16. Balanced(k, {}, ev, None) /\ Surviving(f, k, {}, {}) /\ Fewer(f, k, {})
  BY <1>3, <1>15, ReleaseWrites
<1> HIDE DEF k
<1>17. Unlisted(h, Owned(slot, frame))
  BY <1>3, <1>10, UnlistedFewer DEF Writes
<1>18. Unlisted(f, Owned(slot, frame))
  <2> SUFFICES ASSUME NEW q \in Obj, NEW j \in 1 .. Len(f.obj[q].cells)
               PROVE  f.obj[q].cells[j] \notin Owned(slot, frame)
    BY DEF Unlisted
  <2>1. CASE q # o
    <3>1. f.obj[q] = h.obj[q] BY <1>15, <2>1
    <3>2. j \in 1 .. Len(h.obj[q].cells) BY <3>1
    <3> QED BY <1>17, <3>1, <3>2 DEF Unlisted
  <2>2. CASE q = o
    <3>1. h.obj[o].cells \in Seq(Val) BY <1>4, <1>11, Typed
    <3>2. i \in 1 .. Len(h.obj[o].cells) BY <1>6, <1>13
    <3>3. j \in 1 .. Len(RemoveAt(h.obj[o].cells, i)) BY <1>15, <2>2
    <3>4. PICK m \in 1 .. Len(h.obj[o].cells) : RemoveAt(h.obj[o].cells, i)[j] = h.obj[o].cells[m]
      BY <3>1, <3>2, <3>3, RemovedFrom
    <3>5. h.obj[o].cells[m] \notin Owned(slot, frame) BY <1>4, <1>17 DEF Unlisted
    <3> QED BY <1>15, <2>2, <3>4, <3>5
  <2> QED BY <2>1, <2>2
<1>19. Unlisted(k, Owned(slot, frame)) BY <1>16, <1>18, UnlistedFewer
<1>20. Surviving(heap, k, {w}, {o}) /\ Surviving(h, k, {}, {o})
  <2>1. Surviving(h, k, {} \cup {}, {o} \cup {}) BY <1>15, <1>16, SurvivingTwice
  <2>2. Surviving(h, k, {}, {o}) BY <2>1
  <2>3. Surviving(heap, k, {w} \cup {}, {} \cup {o}) BY <1>11, <2>2, SurvivingTwice
  <2> QED BY <2>2, <2>3
<1>21. DOMAIN Means(w, store[c]) = {w} /\ Means(w, store[c])[w] = store[c] BY DEF Means
<1>22. ASSUME NEW u \in Val, u \in DOMAIN Means(w, store[c]), k.val[u].rc > 0
       PROVE  Content(k, u) = Means(w, store[c])[u]
  <2>1. u = w BY <1>21, <1>22
  <2>2. w \in Val \ {} /\ k.val[w].rc > 0 BY <1>5, <1>22, <2>1
  <2>3. Content(k, w) = Content(h, w) BY <1>11, <1>20, <2>2, ContentSurvives
  <2>4. heap.val[c].rc # 0 BY <1>7
  <2>5. Content(heap, c) = store[c] BY <1>3, <1>7, <2>4
  <2> QED BY <1>10, <1>21, <2>1, <2>3, <2>5
<1>23. slot' = slot /\ frame' = frame /\ ret' = ret BY <1>1
<1>24. Shape(slot', frame', ret') /\ Unlisted(k, Owned(slot', frame'))
       /\ Balanced(k, {}, Roots(slot', frame'), None)
  BY <1>3, <1>16, <1>19, <1>23 DEF ev
<1>25. Surviving(heap, k, DOMAIN Means(w, store[c]), {o}) BY <1>20, <1>21
<1> QED BY <1>1, <1>22, <1>24, <1>25, StepKeeps

LEMMA ValAdded ==
  ASSUME NEW h, NEW c \in Val, NEW ev \in [Val -> Nat], NEW eo \in [Obj -> Nat],
         Balanced(h, {}, ev, eo), h.val[c].rc # 0
  PROVE  LET k == AddVal(h, c)
         IN  Balanced(k, {}, Plus(ev, c), eo) /\ Surviving(h, k, {}, {}) /\ k.obj = h.obj
<1> DEFINE k == AddVal(h, c)
           new == ValCount(h.val[c], h.val[c].rc + 1)
<1>1. HeapOK(h) /\ h \in HeapType /\ ~h.bad BY DEF Balanced, HeapOK
<1>2. k = WithVal(h, c, new)
  <2>1. [h EXCEPT !.val[c].rc = @ + 1] = WithVal(h, c, ValCount(h.val[c], h.val[c].rc + 1))
    BY <1>1, Rewritten, Zenon
  <2> QED BY <2>1 DEF AddVal
<1>3. h.val[c] \in ValueType /\ h.val[c].rc \in Nat BY <1>1, Typed
<1>4. new \in ValueType /\ new.rc = h.val[c].rc + 1 /\ new.obj = h.val[c].obj
  <2>1. h.val[c].rc + 1 \in Nat BY <1>3
  <2> QED BY <1>3, <2>1, ValFields
<1> HIDE DEF new, k
<1>5. /\ k \in HeapType /\ k.obj = h.obj /\ k.bad = h.bad /\ k.val[c] = new
      /\ \A w \in Val : w # c => k.val[w] = h.val[w]
  BY <1>1, <1>2, <1>4, ValWritten
<1>6. \A w \in Val : k.val[w].obj = h.val[w].obj BY <1>4, <1>5
<1>7. HeapOK(k)
  <2>1. ASSUME NEW w \in Val, k.val[w].rc = 0 PROVE k.val[w] = FreeVal
    <3>1. w # c BY <1>3, <1>4, <1>5, <2>1
    <3>2. k.val[w] = h.val[w] BY <1>5, <3>1
    <3> QED BY <1>1, <2>1, <3>2 DEF HeapOK
  <2> QED BY <1>1, <1>5, <2>1 DEF HeapOK
<1>8. Counted(h, {}, ev, eo) BY CountsOf
<1>9. Plus(ev, c) \in [Val -> Nat] /\ \A y \in Val : Plus(ev, c)[y] = ev[y] + (IF y = c THEN 1 ELSE 0)
  BY PlusVal
<1>10. ASSUME NEW o \in Obj PROVE k.obj[o].rc = Cardinality(Pointing(k, {}, o)) + eo[o]
  <2>1. Pointing(k, {}, o) = Pointing(h, {}, o) BY <1>6, SamePointing
  <2> QED BY <1>5, <1>8, <2>1 DEF Counted
<1>11. ASSUME NEW w \in Val PROVE k.val[w].rc = Cardinality(Places(k, w)) + Plus(ev, c)[w]
  <2>1. Places(k, w) = Places(h, w) BY <1>5, SamePlaces
  <2>2. h.val[w].rc = Cardinality(Places(h, w)) + ev[w] BY <1>8 DEF Counted
  <2>3. Cardinality(Places(h, w)) \in Nat /\ ev[w] \in Nat BY PlacesFinite
  <2>4. CASE w = c
    <3>1. k.val[w].rc = h.val[w].rc + 1 BY <1>4, <1>5, <2>4
    <3>2. Plus(ev, c)[w] = ev[w] + 1 BY <1>9, <2>4
    <3> QED BY <2>1, <2>2, <2>3, <3>1, <3>2
  <2>5. CASE w # c
    <3>1. k.val[w].rc = h.val[w].rc BY <1>5, <2>5
    <3>2. Plus(ev, c)[w] = ev[w] BY <1>9, <2>3, <2>5
    <3> QED BY <2>1, <2>2, <3>1, <3>2
  <2> QED BY <2>4, <2>5
<1>12. Balanced(k, {}, Plus(ev, c), eo)
  <2>1. ~k.bad BY <1>1, <1>5
  <2> QED BY <1>7, <1>9, <1>10, <1>11, <2>1, Counts
<1>13. Surviving(h, k, {}, {})
  <2> SUFFICES ASSUME NEW u \in Val, k.val[u].rc > 0 PROVE h.val[u].rc > 0
    BY <1>5, <1>6 DEF Surviving
  <2>1. CASE u = c BY <1>3, <2>1
  <2>2. CASE u # c BY <1>5, <2>2
  <2> QED BY <2>1, <2>2
<1> QED BY <1>5, <1>12, <1>13 DEF k

LEMMA SubscriptKeeps ==
  ASSUME ValuesInv, NEW a \in Arrays, NEW i \in 1 .. MaxSize, Subscript(a, i)
  PROVE  ValuesInv'
<1> DEFINE ev == Roots(slot, frame)
           o == heap.val[a].obj
           c == Cells(heap, a)[i]
           x == slot.e
           h == AddVal(heap, c)
           k == Release(h, <<ValueRef(x)>>)
           ep == Plus(ev, c)
           ef == Roots(slot', frame')
<1>1. /\ ~InCall /\ i \in 1 .. Len(Cells(heap, a)) /\ Becomes(k, <<>>)
      /\ slot' = [slot EXCEPT !.e = c] /\ UNCHANGED <<frame, ret>>
  BY DEF Subscript
<1>2. ~heap.bad BY <1>1 DEF Becomes
<1>3. /\ Balanced(heap, {}, ev, None) /\ ev \in [Val -> Nat] /\ None \in [Obj -> Nat]
      /\ heap \in HeapType /\ Unlisted(heap, Owned(slot, frame)) /\ Shape(slot, frame, ret)
  BY <1>2, Begins
<1>4. o \in Obj /\ Cells(heap, a) = heap.obj[o].cells BY <1>2, ArrayOf
<1>5. i \in 1 .. Len(heap.obj[o].cells) /\ c = heap.obj[o].cells[i] BY <1>1, <1>4
<1>6. ef \in [Val -> Nat] BY RootsType
<1>7. slot \in [x : Val, r : Val, e : {NoVal} \cup Val] /\ slot.x # slot.r BY <1>3 DEF Shape, Slots
<1>8. x \in {NoVal} \cup Val BY <1>7
<1> HIDE DEF o, c
<1>9. c \in Val /\ heap.val[c].rc # 0
  <2>1. c \in Val /\ heap.val[c].rc >= 1
    <3> HIDE DEF ev
    <3> QED BY <1>3, <1>4, <1>5, HeldIsLive
  <2> QED BY <2>1
<1>10. /\ slot'.x = slot.x /\ slot'.r = slot.r /\ slot'.e = c
       /\ slot' \in [x : Val, r : Val, e : {NoVal} \cup Val]
  BY <1>1, <1>7, <1>9
<1>11. Shape(slot', frame', ret')
  <2>1. Idle(frame, ret) BY <1>1, <1>3, OperandsHeld
  <2>2. Idle(frame', ret') BY <1>1, <2>1
  <2> QED BY <1>7, <1>10, <2>2 DEF Shape, Slots
<1>12. Owned(slot', frame') = Owned(slot, frame) BY <1>1, <1>10 DEF Owned
<1>13. ASSUME NEW v \in Val PROVE ep[v] = ef[v] + (IF v = x THEN 1 ELSE 0)
  <2>1. ep[v] = ev[v] + (IF v = c THEN 1 ELSE 0) BY <1>3, PlusVal
  <2>2. ev[v] = One(slot.x, v) + One(slot.r, v) + One(slot.e, v) + One(frame.p, v) + One(frame.s, v)
    BY RootsType
  <2>3. ef[v] = One(slot.x, v) + One(slot.r, v) + One(c, v) + One(frame.p, v) + One(frame.s, v)
    <3>1. ef[v] = One(slot'.x, v) + One(slot'.r, v) + One(slot'.e, v) + One(frame'.p, v) + One(frame'.s, v)
      BY RootsType
    <3>2. frame' = frame BY <1>1
    <3> QED BY <1>10, <3>1, <3>2
  <2>4. (IF v = c THEN 1 ELSE 0) = One(c, v) /\ (IF v = x THEN 1 ELSE 0) = One(slot.e, v) BY DEF One
  <2>5. \A y : One(y, v) \in Nat BY DEF One
  <2> DEFINE p == One(slot.x, v)
             q == One(slot.r, v)
             r == One(slot.e, v)
             s == One(frame.p, v)
             t == One(frame.s, v)
             u == One(c, v)
  <2>6. p \in Nat /\ q \in Nat /\ r \in Nat /\ s \in Nat /\ t \in Nat /\ u \in Nat BY <2>5
  <2>7. ep[v] = p + q + r + s + t + u BY <2>1, <2>2, <2>4
  <2>8. ef[v] + (IF v = x THEN 1 ELSE 0) = p + q + u + s + t + r BY <2>3, <2>4
  <2> HIDE DEF p, q, r, s, t, u
  <2> QED BY <2>6, <2>7, <2>8
<1>14. Balanced(h, {}, ep, None) /\ Surviving(heap, h, {}, {}) /\ h.obj = heap.obj
  <2> HIDE DEF ev
  <2> QED BY <1>3, <1>9, ValAdded
<1>15. ep \in [Val -> Nat] BY <1>3, PlusVal
<1>16. /\ HeapOK(h) /\ ~h.bad /\ <<ValueRef(x)>> \in Seq(Refs) /\ Owing(h, <<ValueRef(x)>>, {}, ef, None)
  <2> HIDE DEF h, ep, ef, x, ev
  <2> QED BY <1>3, <1>6, <1>8, <1>13, <1>14, <1>15, OwingOne
<1> HIDE DEF h, ep, x, ev
<1>17. Balanced(k, {}, ef, None) /\ Surviving(h, k, {}, {}) /\ Fewer(h, k, {})
  <2> HIDE DEF ef
  <2> QED BY <1>3, <1>6, <1>16, ReleaseWrites
<1> HIDE DEF k
<1>18. Unlisted(k, Owned(slot', frame'))
  <2>1. Unlisted(h, Owned(slot, frame)) BY <1>3, <1>14 DEF Unlisted
  <2> QED BY <1>12, <1>17, <2>1, UnlistedFewer
<1>19. DOMAIN <<>> = {} OBVIOUS
<1>20. Surviving(heap, k, DOMAIN <<>>, {})
  <2>1. Surviving(heap, k, {} \cup {}, {} \cup {}) BY <1>14, <1>17, SurvivingTwice
  <2> QED BY <1>19, <2>1
<1>21. \A u \in Val : u \in DOMAIN <<>> /\ k.val[u].rc > 0 => Content(k, u) = <<>>[u] BY <1>19
<1> QED BY <1>1, <1>11, <1>17, <1>18, <1>20, <1>21, StepKeeps

-------------------------------------------------------------------------------
(* Calls, returns and throws. *)
IsMade(h, f, n, ev, eo) ==
  /\ Balanced(f, {}, Plus(ev, n), eo) /\ Surviving(h, f, {n}, {})
  /\ f.obj = h.obj /\ f.val[n] = FreshValue
  /\ \A w \in Val : w # n => f.val[w] = h.val[w]

LEMMA NewIsMade ==
  ASSUME NEW h, NEW ev \in [Val -> Nat], NEW eo \in [Obj -> Nat], Balanced(h, {}, ev, eo),
         NEW n \in Val, h.val[n].rc = 0
  PROVE  IsMade(h, WithVal(h, n, FreshValue), n, ev, eo)
<1> DEFINE f == WithVal(h, n, FreshValue)
<1>1. /\ Balanced(f, {}, Plus(ev, n), eo) /\ Surviving(h, f, {n}, {})
      /\ f.obj = h.obj /\ f.val[n] = FreshValue
      /\ \A w \in Val : w # n => f.val[w] = h.val[w]
  BY Made
<1> QED BY <1>1 DEF IsMade

LEMMA CallKeeps ==
  ASSUME ValuesInv, NEW v \in Operands, Call(v)
  PROVE  ValuesInv'
<1> DEFINE ev == Roots(slot, frame)
           p == NewVal(heap)
           with == [heap EXCEPT !.val[p] = [obj |-> NoObj, rc |-> 1]]
           s == NewVal(with)
           f == [with EXCEPT !.val[s] = [obj |-> NoObj, rc |-> 1]]
           k == Copy(f, p, v)
           meaning == [w \in {p, s} |-> IF w = p THEN store[v] ELSE Null]
           ep == Plus(ev, p)
           eq == Plus(ep, s)
           ef == Roots(slot', frame')
<1>1. /\ ~InCall /\ Room(2, 0) /\ Becomes(k, meaning) /\ frame' = [p |-> p, s |-> s]
      /\ ret' = slot.r /\ slot' = slot
  BY DEF Call
<1>2. ~heap.bad BY <1>1 DEF Becomes
<1>3. /\ Balanced(heap, {}, ev, None) /\ ev \in [Val -> Nat] /\ None \in [Obj -> Nat]
      /\ heap \in HeapType /\ Unlisted(heap, Owned(slot, frame)) /\ Shape(slot, frame, ret)
  BY <1>2, Begins
<1>4. v \in Val /\ ev[v] >= 1 /\ heap.val[v].rc # 0 /\ Content(heap, v) = store[v] BY <1>2, Begins
<1>5. Idle(frame, ret) BY <1>1, <1>3, OperandsHeld
<1>6. Cardinality(FreeVals(heap)) >= 2 BY <1>1 DEF Room, FreeVals
<1>7. p \in Val /\ heap.val[p].rc = 0
  <2>1. FreeVals(heap) # {}
    <3>1. Cardinality({}) = 0 BY FS_EmptySet
    <3> QED BY <1>6, <3>1
  <2>2. \E n \in Val : heap.val[n].rc = 0 BY <2>1 DEF FreeVals
  <2> QED BY <2>2, FreshVal
<1>w. with = WithVal(heap, p, FreshValue) /\ f = WithVal(with, s, FreshValue)
  <2> HIDE DEF p, s
  <2> QED BY Zenon DEF WithVal, FreshValue
<1> HIDE DEF p, with, ev
<1>8. /\ Balanced(with, {}, ep, None) /\ Surviving(heap, with, {p}, {})
      /\ with.obj = heap.obj /\ with.val[p] = FreshValue
      /\ \A w \in Val : w # p => with.val[w] = heap.val[w]
  <2>1. IsMade(heap, WithVal(heap, p, FreshValue), p, ev, None) BY <1>3, <1>7, NewIsMade
  <2>2. IsMade(heap, with, p, ev, None) BY <1>w, <2>1
  <2> QED BY <2>2 DEF IsMade
<1>9. ep \in [Val -> Nat] /\ \A u \in Val : ep[u] = ev[u] + (IF u = p THEN 1 ELSE 0)
  BY <1>3, PlusVal
<1>10. with \in HeapType BY <1>8 DEF Balanced, HeapOK
<1>11. s \in Val /\ with.val[s].rc = 0
  <2>1. Cardinality(FreeVals(with)) >= Cardinality(FreeVals(heap)) - 1
    BY <1>3, <1>7, <1>8, <1>10, FreeLess
  <2>2. Cardinality(FreeVals(heap)) \in Nat /\ Cardinality(FreeVals(with)) \in Nat BY FreeValsFinite
  <2>3. FreeVals(with) # {}
    <3>1. Cardinality({}) = 0 BY FS_EmptySet
    <3> QED BY <1>6, <2>1, <2>2, <3>1
  <2>4. \E n \in Val : with.val[n].rc = 0 BY <2>3 DEF FreeVals
  <2> QED BY <2>4, FreshVal
<1> HIDE DEF s, f, ep
<1>12. /\ Balanced(f, {}, eq, None) /\ Surviving(with, f, {s}, {})
       /\ f.obj = with.obj /\ f.val[s] = FreshValue
       /\ \A w \in Val : w # s => f.val[w] = with.val[w]
  <2>1. IsMade(with, WithVal(with, s, FreshValue), s, ep, None) BY <1>3, <1>8, <1>9, <1>11, NewIsMade
  <2>2. IsMade(with, f, s, ep, None) BY <1>w, <2>1
  <2> QED BY <2>2 DEF IsMade
<1>13. eq \in [Val -> Nat] /\ \A u \in Val : eq[u] = ep[u] + (IF u = s THEN 1 ELSE 0)
  BY <1>9, PlusVal
<1> HIDE DEF eq
<1>14. p # s
  <2>1. with.val[p].rc = 1 BY <1>8 DEF FreshValue
  <2> QED BY <1>11, <2>1
<1>15. v # p /\ v # s
  <2>1. v # p BY <1>4, <1>7
  <2>2. with.val[v] = heap.val[v] BY <1>4, <1>8, <2>1
  <2> QED BY <1>4, <1>11, <2>1, <2>2
<1>16. heap.val[s].rc = 0 BY <1>8, <1>11, <1>14
<1>17. ef \in [Val -> Nat] BY RootsType
<1>18. eq = ef
  <2>1. ASSUME NEW u \in Val PROVE eq[u] = ef[u]
    <3>1. ef[u] = One(slot.x, u) + One(slot.r, u) + One(slot.e, u) + One(p, u) + One(s, u)
      <4>1. ef[u] = One(slot'.x, u) + One(slot'.r, u) + One(slot'.e, u) + One(frame'.p, u) + One(frame'.s, u)
        BY RootsType
      <4>2. frame'.p = p /\ frame'.s = s BY <1>1
      <4> QED BY <1>1, <4>1, <4>2
    <3>2. ev[u] = One(slot.x, u) + One(slot.r, u) + One(slot.e, u) + One(frame.p, u) + One(frame.s, u)
      BY RootsType DEF ev
    <3>3. One(frame.p, u) = 0 /\ One(frame.s, u) = 0
      <4>1. frame.p = NoVal /\ frame.s = NoVal BY <1>5 DEF Idle
      <4>2. u # NoVal BY Bounds
      <4> QED BY <4>1, <4>2 DEF One
    <3>4. (IF u = p THEN 1 ELSE 0) = One(p, u) /\ (IF u = s THEN 1 ELSE 0) = One(s, u) BY DEF One
    <3> DEFINE a == One(slot.x, u)
               b == One(slot.r, u)
               c == One(slot.e, u)
               d == One(p, u)
               e == One(s, u)
    <3>5. a \in Nat /\ b \in Nat /\ c \in Nat /\ d \in Nat /\ e \in Nat BY DEF One
    <3>6. eq[u] = ev[u] + d + e BY <1>9, <1>13, <3>4
    <3>7. ev[u] = a + b + c + 0 + 0 /\ ef[u] = a + b + c + d + e BY <3>1, <3>2, <3>3
    <3> HIDE DEF a, b, c, d, e
    <3> QED BY <3>5, <3>6, <3>7
  <2> HIDE DEF ef
  <2>2. eq \in [Val -> Nat] BY <1>13
  <2>3. eq = [u \in Val |-> eq[u]] /\ ef = [u \in Val |-> ef[u]] BY <1>17, <2>2
  <2>4. [u \in Val |-> eq[u]] = [u \in Val |-> ef[u]] BY <2>1
  <2> QED BY <2>3, <2>4, Zenon
<1> HIDE DEF ef
<1>19. /\ Writes(f, k, p, eq, None) /\ Content(k, p) = Content(f, v)
  <2>1. eq[p] >= 1 /\ eq[v] >= 1
    <3>1. ep[p] \in Nat /\ ep[v] \in Nat /\ ev[p] \in Nat /\ ev[v] \in Nat BY <1>3, <1>4, <1>7, <1>9
    <3>2. ep[p] = ev[p] + 1 /\ ep[v] = ev[v] BY <1>4, <1>7, <1>9, <1>15, <3>1
    <3>3. eq[p] = ep[p] /\ eq[v] = ep[v] BY <1>4, <1>7, <1>13, <1>14, <1>15, <3>1
    <3> QED BY <1>4, <3>1, <3>2, <3>3
  <2>2. Held(f, p, eq, v) BY <2>1 DEF Held
  <2> QED BY <1>3, <1>4, <1>7, <1>12, <1>13, <1>15, <2>1, <2>2, HeldCopied
<1> HIDE DEF k
<1>20. Shape(slot', frame', ret')
  <2>1. Slots(slot) BY <1>3 DEF Shape
  <2>2. slot.x \in Operands
    BY <1>1 DEF Operands, VarsInSight
  <2>3. slot.r \in Operands BY <1>1 DEF Operands, Result
  <2>4. heap.val[slot.x].rc # 0 /\ heap.val[slot.r].rc # 0 BY <1>2, <2>2, <2>3, Begins
  <2>5. Running(slot, [p |-> p, s |-> s], slot.r)
    BY <1>7, <1>11, <1>14, <1>16, <2>4 DEF Running
  <2> QED BY <1>1, <2>1, <2>5 DEF Shape
<1>21. Unlisted(heap, Owned(slot', frame'))
  <2>1. Unlisted(heap, {p}) /\ Unlisted(heap, {s})
    BY <1>3, <1>7, <1>11, <1>16, FreeIsUnlisted
  <2>2. Owned(slot', frame') \subseteq Owned(slot, frame) \cup {p} \cup {s}
    <3>1. slot' = slot /\ frame'.p = p /\ frame'.s = s BY <1>1
    <3> QED BY <3>1 DEF Owned
  <2> QED BY <1>3, <2>1, <2>2 DEF Unlisted
<1>22. Unlisted(k, Owned(slot', frame'))
  <2>1. f.obj = heap.obj BY <1>8, <1>12
  <2>2. Unlisted(f, Owned(slot', frame')) BY <1>21, <2>1 DEF Unlisted
  <2> QED BY <1>19, <2>2, UnlistedFewer DEF Writes
<1>23. DOMAIN meaning = {p, s} /\ meaning[p] = store[v] /\ meaning[s] = Null BY <1>14
<1> HIDE DEF meaning
<1>24. Surviving(heap, k, DOMAIN meaning, {})
  <2>1. Surviving(heap, f, {p} \cup {s}, {} \cup {}) BY <1>8, <1>12, SurvivingTwice
  <2>2. Surviving(heap, f, {p, s}, {})
    <3>1. {p} \cup {s} = {p, s} /\ {} \cup {} = {} OBVIOUS
    <3> QED BY <2>1, <3>1
  <2>3. Surviving(f, k, {p}, {}) BY <1>19 DEF Writes
  <2>4. Surviving(heap, k, {p, s} \cup {p}, {} \cup {}) BY <2>2, <2>3, SurvivingTwice
  <2>5. {p, s} \cup {p} = {p, s} /\ {} \cup {} = {} OBVIOUS
  <2> QED BY <1>23, <2>4, <2>5
<1>25. ASSUME NEW u \in Val, u \in DOMAIN meaning, k.val[u].rc > 0 PROVE Content(k, u) = meaning[u]
  <2>1. CASE u = p
    <3>1. f.val[v] = heap.val[v] /\ f.obj = heap.obj BY <1>4, <1>8, <1>12, <1>15
    <3>2. Content(f, v) = Content(heap, v) BY <3>1 DEF Content, IsInt, Number
    <3> QED BY <1>4, <1>19, <1>23, <2>1, <3>2
  <2>2. CASE u = s
    <3>1. f \in HeapType BY <1>12 DEF Balanced, HeapOK
    <3>2. Surviving(f, k, {p}, {}) BY <1>19 DEF Writes
    <3>3. s \in Val \ {p} /\ k.val[s].rc > 0 BY <1>11, <1>14, <1>25, <2>2
    <3>4. Content(k, s) = Content(f, s) BY <3>1, <3>2, <3>3, ContentSurvives
    <3>5. Content(f, s) = Null BY <1>12 DEF Content, FreshValue
    <3> QED BY <1>23, <2>2, <3>4, <3>5
  <2> QED BY <1>23, <1>25, <2>1, <2>2
<1>26. Balanced(k, {}, Roots(slot', frame'), None) BY <1>18, <1>19 DEF Writes, ef
<1> QED BY <1>1, <1>20, <1>22, <1>24, <1>25, <1>26, StepKeeps

LEMMA ReturnKeeps ==
  ASSUME ValuesInv, NEW v \in Operands, Return(v)
  PROVE  ValuesInv'
<1> DEFINE ev == Roots(slot, frame)
           ef == Roots(slot', frame')
           p == frame.p
           s == frame.s
           h == Copy(heap, ret, v)
           k == Release(h, <<ValueRef(p), ValueRef(s)>>)
<1>1. /\ InCall /\ Becomes(k, Means(ret, store[v])) /\ frame' = [p |-> NoVal, s |-> NoVal]
      /\ ret' = NoVal /\ slot' = slot
  BY DEF Return
<1>2. ~heap.bad BY <1>1 DEF Becomes
<1>3. /\ Balanced(heap, {}, ev, None) /\ ev \in [Val -> Nat] /\ None \in [Obj -> Nat]
      /\ heap \in HeapType /\ Unlisted(heap, Owned(slot, frame)) /\ Shape(slot, frame, ret)
  BY <1>2, Begins
<1>4. v \in Val /\ ev[v] >= 1 /\ Content(heap, v) = store[v] BY <1>2, Begins
<1>5. Running(slot, frame, ret) /\ ret \in Val /\ ret # v /\ ev[ret] >= 1
  BY <1>1, <1>3, OperandsHeld
<1>6. p \in Val /\ s \in Val BY <1>5 DEF Running
<1>7. ef \in [Val -> Nat] BY RootsType
<1>8. Held(heap, ret, ev, v) BY <1>4 DEF Held
<1>9. Writes(heap, h, ret, ev, None) /\ Content(h, ret) = Content(heap, v)
  <2> HIDE DEF ev
  <2> QED BY <1>3, <1>4, <1>5, <1>8, HeldCopied
<1> HIDE DEF h
<1>10. ASSUME NEW u \in Val
       PROVE  ev[u] = ef[u] + (IF u = p THEN 1 ELSE 0) + (IF u = s THEN 1 ELSE 0)
  <2>1. ev[u] = One(slot.x, u) + One(slot.r, u) + One(slot.e, u) + One(p, u) + One(s, u)
    BY RootsType
  <2>2. ef[u] = One(slot.x, u) + One(slot.r, u) + One(slot.e, u) + One(NoVal, u) + One(NoVal, u)
    <3>1. ef[u] = One(slot'.x, u) + One(slot'.r, u) + One(slot'.e, u) + One(frame'.p, u) + One(frame'.s, u)
      BY RootsType
    <3>2. frame'.p = NoVal /\ frame'.s = NoVal /\ slot' = slot BY <1>1
    <3> QED BY <3>1, <3>2
  <2>3. One(NoVal, u) = 0
    <3>1. u # NoVal BY Bounds
    <3> QED BY <3>1 DEF One
  <2>4. (IF u = p THEN 1 ELSE 0) = One(p, u) /\ (IF u = s THEN 1 ELSE 0) = One(s, u) BY DEF One
  <2> DEFINE a == One(slot.x, u)
             b == One(slot.r, u)
             c == One(slot.e, u)
             d == One(p, u)
             e == One(s, u)
  <2>5. a \in Nat /\ b \in Nat /\ c \in Nat /\ d \in Nat /\ e \in Nat BY DEF One
  <2>6. ev[u] = a + b + c + d + e /\ ef[u] = a + b + c + 0 + 0 BY <2>1, <2>2, <2>3
  <2> HIDE DEF a, b, c, d, e
  <2> SUFFICES ev[u] = ef[u] + d + e BY <2>4 DEF d, e
  <2> QED BY <2>5, <2>6
<1> HIDE DEF ev, p, s
<1>11. HeapOK(h) /\ ~h.bad /\ h \in HeapType BY <1>9 DEF Writes, Balanced, HeapOK
<1>12. /\ <<ValueRef(p), ValueRef(s)>> \in Seq(Refs)
       /\ Owing(h, <<ValueRef(p), ValueRef(s)>>, {}, ef, None)
  <2>1. Balanced(h, {}, ev, None) BY <1>9 DEF Writes
  <2> HIDE DEF ef
  <2> QED BY <1>3, <1>6, <1>7, <1>10, <2>1, OwingTwo
<1>13. Balanced(k, {}, ef, None) /\ Surviving(h, k, {}, {}) /\ Fewer(h, k, {})
  <2> HIDE DEF ef
  <2> QED BY <1>3, <1>7, <1>11, <1>12, ReleaseWrites
<1> HIDE DEF k
<1>14. Shape(slot', frame', ret')
  <2>1. Slots(slot) BY <1>3 DEF Shape
  <2> QED BY <1>1, <2>1 DEF Shape, Idle
<1>15. Unlisted(k, Owned(slot', frame'))
  <2>1. Unlisted(h, Owned(slot, frame)) BY <1>3, <1>9, UnlistedFewer DEF Writes
  <2>2. Unlisted(k, Owned(slot, frame)) BY <1>13, <2>1, UnlistedFewer
  <2>3. Owned(slot', frame') \subseteq Owned(slot, frame) \cup {NoVal}
    <3>1. slot' = slot /\ frame'.p = NoVal /\ frame'.s = NoVal BY <1>1
    <3> QED BY <3>1 DEF Owned
  <2>4. ASSUME NEW o \in Obj, NEW i \in 1 .. Len(k.obj[o].cells)
        PROVE  k.obj[o].cells[i] \notin Owned(slot', frame')
    <3>1. k \in HeapType BY <1>13 DEF Balanced, HeapOK
    <3>2. k.obj[o].cells \in Seq(Val) BY <3>1, Typed
    <3>3. k.obj[o].cells[i] \in Val BY <3>2, ElementOf
    <3>4. k.obj[o].cells[i] # NoVal BY <3>3, Bounds
    <3>5. k.obj[o].cells[i] \notin Owned(slot, frame) BY <2>2 DEF Unlisted
    <3> QED BY <2>3, <3>4, <3>5
  <2> QED BY <2>4 DEF Unlisted
<1>16. DOMAIN Means(ret, store[v]) = {ret} /\ Means(ret, store[v])[ret] = store[v] BY DEF Means
<1>17. Surviving(heap, k, DOMAIN Means(ret, store[v]), {})
  <2>1. Surviving(heap, h, {ret}, {}) BY <1>9 DEF Writes
  <2>2. Surviving(heap, k, {ret} \cup {}, {} \cup {}) BY <1>13, <2>1, SurvivingTwice
  <2>3. {ret} \cup {} = {ret} /\ {} \cup {} = {} OBVIOUS
  <2> QED BY <1>16, <2>2, <2>3
<1>18. ASSUME NEW u \in Val, u \in DOMAIN Means(ret, store[v]), k.val[u].rc > 0
       PROVE  Content(k, u) = Means(ret, store[v])[u]
  <2>1. u = ret BY <1>16, <1>18
  <2>2. ret \in Val \ {} /\ k.val[ret].rc > 0 BY <1>5, <1>18, <2>1
  <2>3. Content(k, ret) = Content(h, ret) BY <1>11, <1>13, <2>2, ContentSurvives
  <2> QED BY <1>4, <1>9, <1>16, <2>1, <2>3
<1> QED BY <1>1, <1>13, <1>14, <1>15, <1>17, <1>18, StepKeeps

LEMMA ThrowAndCatchKeeps ==
  ASSUME ValuesInv, NEW v \in Operands, NEW c \in VarsInSight, ThrowAndCatch(v, c)
  PROVE  ValuesInv'
<1> DEFINE ev == Roots(slot, frame)
           n == NewVal(heap)
           h == Clone(heap, v)
           g == Copy(h, c, n)
           k == Release(g, <<ValueRef(n)>>)
           ep == Plus(ev, n)
<1>1. Room(1, 0) /\ Becomes(k, Means(c, store[v])) /\ UNCHANGED <<slot, frame, ret>>
  BY DEF ThrowAndCatch
<1>2. ~heap.bad BY <1>1 DEF Becomes
<1>3. /\ Balanced(heap, {}, ev, None) /\ ev \in [Val -> Nat] /\ None \in [Obj -> Nat]
      /\ heap \in HeapType /\ Unlisted(heap, Owned(slot, frame)) /\ Shape(slot, frame, ret)
  BY <1>2, Begins
<1>4. c \in Operands BY <1>3, OperandsHeld
<1>5. /\ v \in Val /\ ev[v] >= 1 /\ Content(heap, v) = store[v]
      /\ c \in Val /\ ev[c] >= 1 /\ heap.val[c].rc # 0
  BY <1>2, <1>4, Begins
<1>6. \E u \in Val : heap.val[u].rc = 0 BY <1>1, RoomOne
<1>7. Held(heap, NoVal, ev, v) BY <1>5 DEF Held
<1> HIDE DEF ev
<1>8. /\ n \in Val /\ heap.val[n].rc = 0
      /\ Balanced(h, {}, ep, None) /\ Surviving(heap, h, {n}, {}) /\ SameObjects(heap, h)
      /\ Content(h, n) = Content(heap, v)
  BY <1>3, <1>5, <1>6, <1>7, CloneWrites
<1> HIDE DEF n, h
<1>9. ep \in [Val -> Nat] /\ \A u \in Val : ep[u] = ev[u] + (IF u = n THEN 1 ELSE 0)
  BY <1>3, PlusVal
<1> HIDE DEF ep
<1>10. c # n BY <1>5, <1>8
<1>11. ep[n] >= 1 /\ ep[c] >= 1
  <2>1. ev[n] \in Nat /\ ev[c] \in Nat BY <1>3, <1>5, <1>8
  <2>2. ep[n] = ev[n] + 1 /\ ep[c] = ev[c] BY <1>5, <1>8, <1>9, <1>10, <2>1
  <2> QED BY <1>5, <2>1, <2>2
<1>12. Writes(h, g, c, ep, None) /\ Content(g, c) = Content(h, n)
  <2>1. Held(h, c, ep, n) BY <1>11 DEF Held
  <2> QED BY <1>3, <1>5, <1>8, <1>9, <1>10, <1>11, <2>1, HeldCopied
<1> HIDE DEF g
<1>13. HeapOK(g) /\ ~g.bad /\ g \in HeapType /\ Balanced(g, {}, ep, None) BY <1>12 DEF Writes, Balanced, HeapOK
<1>14. <<ValueRef(n)>> \in Seq(Refs) /\ Owing(g, <<ValueRef(n)>>, {}, ev, None)
  <2>1. n \in {NoVal} \cup Val BY <1>8
  <2> QED BY <1>3, <1>9, <1>13, <2>1, OwingOne
<1>15. Balanced(k, {}, ev, None) /\ Surviving(g, k, {}, {}) /\ Fewer(g, k, {})
  BY <1>3, <1>13, <1>14, ReleaseWrites
<1> HIDE DEF k
<1>16. HeapOK(h) /\ h \in HeapType BY <1>8 DEF Balanced, HeapOK
<1>17. Fewer(heap, k, {})
  <2>1. Fewer(heap, h, {}) BY <1>8, <1>16, FewerSame
  <2>2. Fewer(heap, g, {} \cup {}) BY <1>12, <2>1, FewerTwice DEF Writes
  <2>3. Fewer(heap, g, {}) BY <2>2
  <2>4. Fewer(heap, k, {} \cup {}) BY <1>15, <2>3, FewerTwice
  <2> QED BY <2>4
<1>18. Unlisted(k, Owned(slot, frame)) BY <1>3, <1>17, UnlistedFewer
<1>19. k.val[n].rc = 0
  <2>1. Unlisted(heap, {n}) /\ ev[n] = 0 BY <1>3, <1>8, FreeIsUnlisted
  <2>2. Unlisted(k, {n}) BY <1>17, <2>1, UnlistedFewer
  <2> QED BY <1>3, <1>8, <1>15, <2>1, <2>2, NobodysIsFree
<1>20. DOMAIN Means(c, store[v]) = {c} /\ Means(c, store[v])[c] = store[v] BY DEF Means
<1>21. Surviving(heap, k, {c}, {})
  <2>1. Surviving(h, g, {c}, {}) BY <1>12 DEF Writes
  <2>2. Surviving(heap, g, {n} \cup {c}, {} \cup {}) BY <1>8, <2>1, SurvivingTwice
  <2>3. Surviving(heap, k, ({n} \cup {c}) \cup {}, ({} \cup {}) \cup {})
    BY <1>15, <2>2, SurvivingTwice
  <2>4. ({n} \cup {c}) \cup {} = {n, c} /\ ({} \cup {}) \cup {} = {} OBVIOUS
  <2>5. Surviving(heap, k, {n, c}, {}) BY <2>3, <2>4
  <2>6. ASSUME NEW u \in Val \ {c}, k.val[u].rc > 0 PROVE u \in Val \ {n, c}
    BY <1>19, <2>6
  <2> QED BY <2>5, <2>6 DEF Surviving
<1>22. ASSUME NEW u \in Val, u \in DOMAIN Means(c, store[v]), k.val[u].rc > 0
       PROVE  Content(k, u) = Means(c, store[v])[u]
  <2>1. u = c BY <1>20, <1>22
  <2>2. c \in Val \ {} /\ k.val[c].rc > 0 BY <1>5, <1>22, <2>1
  <2>3. Content(k, c) = Content(g, c) BY <1>13, <1>15, <2>2, ContentSurvives
  <2> QED BY <1>5, <1>8, <1>12, <1>20, <2>1, <2>3
<1>23. slot' = slot /\ frame' = frame /\ ret' = ret BY <1>1
<1>24. Shape(slot', frame', ret') /\ Unlisted(k, Owned(slot', frame'))
       /\ Balanced(k, {}, Roots(slot', frame'), None)
  BY <1>3, <1>15, <1>18, <1>23 DEF ev
<1>25. Surviving(heap, k, DOMAIN Means(c, store[v]), {}) BY <1>20, <1>21
<1> QED BY <1>1, <1>22, <1>24, <1>25, StepKeeps

LEMMA ReversedKeeps ==
  ASSUME ValuesInv, NEW a \in Arrays, Reversed(a)
  PROVE  ValuesInv'
<1> DEFINE ev == Roots(slot, frame)
           b == heap.val[a].obj
           s == Cells(heap, a)
           ws == Reverse(s)
           o == NewObj(heap)
           new == ArrayObject(<<>>)
           g == [heap EXCEPT !.obj[o] = new]
           h == PushAll(g, o, ws)
           w == Result
           k == [CleanUp(h, w) EXCEPT !.val[w].obj = o]
           cs == h.obj[o].cells
           At(u) == CHOOSE i \in 1 .. Len(ws) : h.obj[o].cells[i] = u
           meaning == [u \in {w} \cup ToSet(h.obj[o].cells) |-> IF u = w THEN Ref(o) ELSE store[ws[At(u)]]]
           eo == Plus(None, o)
<1>1. Room(Len(ws), 1) /\ Becomes(k, meaning) /\ UNCHANGED <<slot, frame, ret>>
  <2>1. Room(Len(ws), 1) /\ UNCHANGED <<slot, frame, ret>> BY DEF Reversed
  <2>2. \E z \in {PushAll(g, o, ws)} :
          Becomes([CleanUp(z, w) EXCEPT !.val[w].obj = o],
                  [u \in {w} \cup ToSet(z.obj[o].cells) |->
                     IF u = w THEN Ref(o)
                     ELSE store[ws[CHOOSE i \in 1 .. Len(ws) : z.obj[o].cells[i] = u]]])
    BY Zenon DEF Reversed
  <2> HIDE DEF w, o, ws, g
  <2> HIDE DEF h
  <2>3. PICK z \in {h} :
          Becomes([CleanUp(z, w) EXCEPT !.val[w].obj = o],
                  [u \in {w} \cup ToSet(z.obj[o].cells) |->
                     IF u = w THEN Ref(o)
                     ELSE store[ws[CHOOSE i \in 1 .. Len(ws) : z.obj[o].cells[i] = u]]])
    BY <2>2, Zenon DEF h
  <2>4. z = h OBVIOUS
  <2>5. Becomes(k, meaning) BY <2>3, <2>4
  <2> QED BY <2>1, <2>5
<1>2. ~heap.bad BY <1>1 DEF Becomes
<1>3. /\ Balanced(heap, {}, ev, None) /\ ev \in [Val -> Nat] /\ None \in [Obj -> Nat]
      /\ heap \in HeapType /\ Unlisted(heap, Owned(slot, frame)) /\ Shape(slot, frame, ret)
      /\ \A u \in Val : heap.val[u].rc # 0 => Content(heap, u) = store[u]
  BY <1>2, Begins
<1>4. /\ w \in Operands /\ a \in Operands /\ b \in Obj /\ heap.obj[b].rc # 0
      /\ s = heap.obj[b].cells /\ s \in Seq(Val) /\ Len(s) <= MaxSize
  BY <1>2, <1>3, ArrayOf, OperandsHeld
<1>5. a \in Val /\ ev[a] >= 1 /\ w \in Val /\ ev[w] >= 1 BY <1>2, <1>4, Begins
<1>6. \E q \in Obj : heap.obj[q].rc = 0 BY <1>1, RoomOne
<1>7. o \in Obj /\ heap.obj[o].rc = 0 BY <1>6, FreshObj
<1>b. b = heap.val[a].obj OBVIOUS
<1> HIDE DEF o, ev, b, s, w
<1>8. new \in ObjectType /\ new.rc = 1 /\ new.kind = "array" /\ new.cells = <<>> BY ObjectsMade
<1> HIDE DEF new
<1>9. g = WithObj(heap, o, new) BY Zenon DEF WithObj
<1> HIDE DEF g
<1>10. Balanced(g, {}, ev, eo) /\ Surviving(heap, g, {}, {})
  <2>1. new.kind # "free" BY <1>8
  <2>2. Balanced(WithObj(heap, o, new), {}, ev, Plus(None, o)) /\ Surviving(heap, WithObj(heap, o, new), {}, {})
    BY <1>3, <1>7, <1>8, <2>1, Allocated
  <2> QED BY <1>9, <2>2
<1>11. eo \in [Obj -> Nat] /\ eo[o] >= 1
  <2>1. eo \in [Obj -> Nat] /\ eo[o] = None[o] + (IF o = o THEN 1 ELSE 0) BY <1>3, <1>7, PlusObj
  <2>2. None[o] \in Nat BY <1>3, <1>7
  <2> QED BY <2>1, <2>2
<1>12. /\ g \in HeapType /\ g.val = heap.val /\ g.obj[o] = new
       /\ \A q \in Obj : q # o => g.obj[q] = heap.obj[q]
  BY <1>3, <1>7, <1>8, <1>9, ObjWritten
<1>13. b # o BY <1>4, <1>7
<1>14. ws \in Seq(Val) /\ Len(ws) = Len(s) /\ Len(ws) \in Nat
       /\ \A i \in 1 .. Len(s) : Len(s) - i + 1 \in 1 .. Len(s) /\ ws[i] = s[Len(s) - i + 1]
  <2>1. s \in Seq(Val) BY <1>4
  <2>2. Reverse(s) \in Seq(Val) BY <2>1, ReverseAt, Zenon
  <2>3. Len(Reverse(s)) = Len(s) BY <2>1, ReverseAt, Zenon
  <2>4. \A i \in 1 .. Len(s) : Len(s) - i + 1 \in 1 .. Len(s) /\ Reverse(s)[i] = s[Len(s) - i + 1]
    BY <2>1, ReverseAt, Zenon
  <2>5. Len(s) \in Nat BY <2>1
  <2> QED BY <2>2, <2>3, <2>4, <2>5
<1> HIDE DEF ws
<1>15. TakenFrom(ws, s) BY <1>14 DEF TakenFrom
<1>16. Pushing(g, h, o, ws, Len(ws), ev, eo)
  <2>1. g.obj[o].cells = <<>> BY <1>8, <1>12
  <2>2. Len(ws) <= MaxSize BY <1>4, <1>14
  <2>3. g.val[a].obj = b BY <1>12, <1>b
  <2>4. g.obj[b].cells = s BY <1>4, <1>12, <1>13
  <2>5. TakenFrom(ws, g.obj[g.val[a].obj].cells) BY <1>15, <2>3, <2>4
  <2>6. FreeVals(g) = FreeVals(heap) BY <1>12 DEF FreeVals
  <2>7. Cardinality(FreeVals(g)) >= Len(ws) BY <1>1, <2>6 DEF Room, FreeVals
  <2>8. g.val[a].obj \in Obj /\ g.val[a].obj # o BY <1>4, <1>13, <2>3
  <2> HIDE DEF eo
  <2> QED BY <1>3, <1>5, <1>7, <1>10, <1>11, <1>14, <2>1, <2>2, <2>5, <2>7, <2>8, PushAllWrites
<1>17. k = HandedTo(h, w, o) BY DEF HandedTo
<1> HIDE DEF k, h
<1>18. /\ Balanced(h, {}, ev, eo) /\ Surviving(g, h, ToSet(cs), {o}) /\ Fewer(g, h, {o})
       /\ h.obj[o].kind = g.obj[o].kind /\ Len(cs) = Len(ws)
       /\ \A i \in 1 .. Len(ws) : ev[cs[i]] = 0 /\ Content(h, cs[i]) = Content(g, ws[i])
  BY <1>16 DEF Pushing
<1>19. Handed(h, k, w, o, ev, None)
  <2>1. Balanced(h, {}, ev, Plus(None, o)) BY <1>18
  <2>2. Handed(h, HandedTo(h, w, o), w, o, ev, None) BY <1>3, <1>5, <1>7, <2>1, TakesOver
  <2> QED BY <1>17, <2>2
<1>20. /\ Balanced(k, {}, ev, None) /\ Surviving(h, k, {w}, {}) /\ SameObjects(h, k) /\ k.val[w].obj = o
       /\ k.obj[o].kind = h.obj[o].kind
  BY <1>19 DEF Handed
<1>21. HeapOK(k) /\ HeapOK(h) /\ h \in HeapType BY <1>18, <1>20 DEF Balanced, HeapOK
<1>22. cs \in Seq(Val) BY <1>7, <1>21, Typed
<1>23. Unlisted(h, Owned(slot, frame))
  <2> SUFFICES ASSUME NEW q \in Obj, NEW i \in 1 .. Len(h.obj[q].cells)
               PROVE  h.obj[q].cells[i] \notin Owned(slot, frame)
    BY DEF Unlisted
  <2>1. CASE q # o
    <3>1. h.obj[q].cells = <<>> \/ h.obj[q].cells = heap.obj[q].cells
      <4>1. q \in Obj \ {o} BY <2>1
      <4> QED BY <1>12, <1>18, <2>1, <4>1 DEF Fewer
    <3>2. CASE h.obj[q].cells = <<>> BY <3>2
    <3>3. CASE h.obj[q].cells = heap.obj[q].cells
      <4>1. i \in 1 .. Len(heap.obj[q].cells) BY <3>3
      <4> QED BY <1>3, <3>3, <4>1 DEF Unlisted
    <3> QED BY <3>1, <3>2, <3>3
  <2>2. CASE q = o
    <3>1. i \in 1 .. Len(cs) BY <2>2
    <3>2. ev[cs[i]] = 0 BY <1>18, <3>1
    <3>3. cs[i] \in Val BY <1>22, <3>1, ElementOf
    <3>4. ~(ev[cs[i]] >= 1) BY <3>2
    <3>5. cs[i] \notin Owned(slot, frame) BY <1>3, <3>3, <3>4, OwnedHeld DEF ev
    <3> QED BY <2>2, <3>5
  <2> QED BY <2>1, <2>2
<1>24. Unlisted(k, Owned(slot, frame))
  <2>1. Fewer(h, k, {}) BY <1>20, <1>21, FewerSame
  <2> QED BY <1>23, <2>1, UnlistedFewer
<1>25. DOMAIN meaning = {w} \cup ToSet(cs) OBVIOUS
<1>26. meaning[w] = Ref(o) OBVIOUS
<1>27. \A u \in ToSet(cs) : u # w => meaning[u] = store[ws[At(u)]] OBVIOUS
<1> HIDE DEF meaning, At
<1>28. Surviving(heap, k, DOMAIN meaning, {o})
  <2>1. Surviving(heap, h, {} \cup ToSet(cs), {} \cup {o}) BY <1>10, <1>18, SurvivingTwice
  <2>2. Surviving(heap, k, ({} \cup ToSet(cs)) \cup {w}, ({} \cup {o}) \cup {})
    BY <1>20, <2>1, SurvivingTwice
  <2>3. ({} \cup ToSet(cs)) \cup {w} = DOMAIN meaning /\ ({} \cup {o}) \cup {} = {o} BY <1>25
  <2> QED BY <2>2, <2>3
<1>29. Content(k, w) = Ref(o)
  <2>1. o # NoObj BY <1>7, Bounds
  <2>2. k.obj[k.val[w].obj].kind # "int" BY <1>8, <1>12, <1>18, <1>20
  <2> QED BY <1>20, <2>1, <2>2 DEF Content, IsInt
<1>30. ASSUME NEW u \in Val, u \in DOMAIN meaning, k.val[u].rc > 0 PROVE Content(k, u) = meaning[u]
  <2>1. CASE u = w BY <1>26, <1>29, <2>1
  <2>2. CASE u # w
    <3>1. u \in ToSet(cs) BY <1>25, <1>30, <2>2
    <3>2. \E i \in 1 .. Len(ws) : cs[i] = u
      <4>1. ToSet(cs) = {cs[j] : j \in DOMAIN cs} BY DEF ToSet
      <4>2. PICK j \in DOMAIN cs : u = cs[j] BY <3>1, <4>1
      <4>3. DOMAIN cs = 1 .. Len(cs) BY <1>22
      <4> QED BY <1>18, <4>2, <4>3
    <3>3. At(u) \in 1 .. Len(ws) /\ cs[At(u)] = u BY <3>2 DEF At
    <3> DEFINE i == At(u)
               x == ws[i]
    <3>4. i \in 1 .. Len(ws) /\ cs[i] = u BY <3>3
    <3> HIDE DEF i
    <3>5. Content(k, u) = Content(h, u)
      <4>1. u \in Val \ {w} /\ k.val[u].rc > 0 BY <1>30, <2>2
      <4> QED BY <1>20, <1>21, <4>1, ContentSurvives
    <3>6. Content(h, u) = Content(g, x) BY <1>18, <3>4
    <3>7. x \in Val /\ heap.val[x].rc >= 1
      <4>1. PICK j \in 1 .. Len(s) : s[j] = x BY <1>15, <3>4 DEF TakenFrom
      <4>2. j \in 1 .. Len(heap.obj[b].cells) /\ heap.obj[b].cells[j] = x BY <1>4, <4>1
      <4> HIDE DEF x
      <4> QED BY <1>3, <1>4, <4>2, HeldIsLive
    <3> HIDE DEF x
    <3>8. heap.val[x].rc # 0 BY <3>7
    <3>9. g.val[x].rc > 0
      <4>1. heap.val[x].rc \in Nat BY <1>3, <3>7, Typed
      <4> QED BY <1>12, <3>7, <4>1
    <3>10. Content(g, x) = Content(heap, x)
      <4>1. x \in Val \ {} BY <3>7
      <4> QED BY <1>3, <1>10, <3>9, <4>1, ContentSurvives
    <3>11. Content(heap, x) = store[x] BY <1>3, <3>7, <3>8
    <3>12. meaning[u] = store[x] BY <1>27, <2>2, <3>1 DEF x, i
    <3> QED BY <3>5, <3>6, <3>10, <3>11, <3>12
  <2> QED BY <2>1, <2>2
<1>31. slot' = slot /\ frame' = frame /\ ret' = ret BY <1>1
<1>32. Shape(slot', frame', ret') /\ Unlisted(k, Owned(slot', frame'))
       /\ Balanced(k, {}, Roots(slot', frame'), None)
  BY <1>3, <1>20, <1>24, <1>31 DEF ev
<1> QED BY <1>1, <1>28, <1>30, <1>32, StepKeeps

-------------------------------------------------------------------------------
(* The theorems. *)
LEMMA StutterKeeps ==
  ASSUME ValuesInv, UNCHANGED vars
  PROVE  ValuesInv'
<1>1. heap' = heap /\ slot' = slot /\ frame' = frame /\ ret' = ret /\ store' = store /\ selfcopy' = selfcopy
  BY DEF vars
<1>2. Shape(slot', frame', ret') = Shape(slot, frame, ret) BY <1>1
<1>3. Sound(heap', slot', frame', store') = Sound(heap, slot, frame, store) BY <1>1
<1> QED BY <1>1, <1>2, <1>3 DEF ValuesInv

LEMMA NextKeeps ==
  ASSUME ValuesInv, [Next]_vars
  PROVE  ValuesInv'
<1>1. ASSUME NEW v \in VarsInSight, NEW w \in Operands, AssignVar(v, w) PROVE ValuesInv'
  BY <1>1, AssignVarKeeps
<1>2. ASSUME NEW w \in Operands, AssignElement(w) PROVE ValuesInv' BY <1>2, AssignElementKeeps
<1>3. ASSUME NEW v \in VarsInSight, Arithmetic(v) PROVE ValuesInv' BY <1>3, ArithmeticKeeps
<1>4. CASE Constant BY <1>4, ConstantKeeps
<1>5. ASSUME NEW v \in Operands, CopyToResult(v) PROVE ValuesInv' BY <1>5, CopyToResultKeeps
<1>6. CASE NullResult BY <1>6, NullResultKeeps
<1>7. ASSUME NEW v \in VarsInSight \cup Denoted, PreIncrement(v) PROVE ValuesInv'
  BY <1>7, PreIncrementKeeps
<1>8. ASSUME NEW v \in VarsInSight \cup Denoted, PostIncrement(v) PROVE ValuesInv'
  BY <1>8, PostIncrementKeeps
<1>9. CASE NewArray BY <1>9, NewArrayKeeps
<1>10. ASSUME NEW a \in Arrays, NEW v \in Operands, AppendTo(a, v) PROVE ValuesInv'
  BY <1>10, AppendToKeeps
<1>11. ASSUME NEW a \in Arrays, Reversed(a) PROVE ValuesInv' BY <1>11, ReversedKeeps
<1>12. ASSUME NEW a \in Arrays, NEW i \in 1 .. MaxSize, Removal(a, i) PROVE ValuesInv'
  BY <1>12, RemovalKeeps
<1>13. ASSUME NEW a \in Arrays, NEW i \in 1 .. MaxSize, Subscript(a, i) PROVE ValuesInv'
  BY <1>13, SubscriptKeeps
<1>14. ASSUME NEW v \in Operands, Call(v) PROVE ValuesInv' BY <1>14, CallKeeps
<1>15. ASSUME NEW v \in Operands, Return(v) PROVE ValuesInv' BY <1>15, ReturnKeeps
<1>16. ASSUME NEW v \in Operands, NEW c \in VarsInSight, ThrowAndCatch(v, c) PROVE ValuesInv'
  BY <1>16, ThrowAndCatchKeeps
<1>17. CASE UNCHANGED vars BY <1>17, StutterKeeps
<1> QED BY <1>1, <1>2, <1>3, <1>4, <1>5, <1>6, <1>7, <1>8, <1>9, <1>10, <1>11, <1>12, <1>13, <1>14,
           <1>15, <1>16, <1>17 DEF Next

LEMMA InitHolds == Init => ValuesInv
<1> SUFFICES ASSUME Init PROVE ValuesInv OBVIOUS
<1> DEFINE ev == Roots(slot, frame)
           mk(v) == IF v <= 2 THEN [obj |-> NoObj, rc |-> 1] ELSE FreeVal
<1>0. 1 \in Val /\ 2 \in Val /\ MaxVals \in Nat BY BoundsAssumption
<1>1. /\ heap = [obj |-> [o \in Obj |-> FreeObj], val |-> [v \in Val |-> mk(v)], bad |-> FALSE]
      /\ slot = [x |-> 1, r |-> 2, e |-> NoVal] /\ frame = [p |-> NoVal, s |-> NoVal] /\ ret = NoVal
      /\ store = [v \in Val |-> Null]
  BY DEF Init
<1>2. /\ heap.obj = [o \in Obj |-> FreeObj] /\ heap.val = [v \in Val |-> mk(v)] /\ heap.bad = FALSE
  BY <1>1
<1>3. \A v \in Val : /\ v <= 2 => heap.val[v] = [obj |-> NoObj, rc |-> 1]
                     /\ ~(v <= 2) => heap.val[v] = FreeVal
  BY <1>2
<1>4. \A v \in Val : /\ heap.val[v] \in ValueType /\ heap.val[v].obj = NoObj
                     /\ v <= 2 => heap.val[v].rc = 1
                     /\ ~(v <= 2) => heap.val[v].rc = 0 /\ heap.val[v] = FreeVal
  <2> SUFFICES ASSUME NEW v \in Val
               PROVE  /\ heap.val[v] \in ValueType /\ heap.val[v].obj = NoObj
                      /\ v <= 2 => heap.val[v].rc = 1
                      /\ ~(v <= 2) => heap.val[v].rc = 0 /\ heap.val[v] = FreeVal
    OBVIOUS
  <2>1. CASE v <= 2
    <3>1. heap.val[v] = [obj |-> NoObj, rc |-> 1] BY <1>3, <2>1
    <3>2. [obj |-> NoObj, rc |-> 1] \in ValueType BY DEF ValueType
    <3> QED BY <2>1, <3>1, <3>2
  <2>2. CASE ~(v <= 2)
    <3>1. heap.val[v] = FreeVal BY <1>3, <2>2
    <3> QED BY <2>2, <3>1, FreeTypes DEF FreeVal
  <2> QED BY <2>1, <2>2
<1> HIDE DEF mk
<1>5. \A o \in Obj : heap.obj[o] = FreeObj /\ heap.obj[o].rc = 0 /\ heap.obj[o].cells = <<>>
                     /\ heap.obj[o].kind = "free"
  BY <1>2 DEF FreeObj
<1>6. HeapOK(heap)
  <2>1. heap.val \in [Val -> ValueType]
    <3>1. heap.val = [v \in Val |-> heap.val[v]] BY <1>2
    <3> QED BY <1>4, <3>1
  <2>2. heap.obj \in [Obj -> ObjectType] BY <1>2, FreeTypes
  <2>3. heap \in HeapType
    <3>1. heap = [obj |-> heap.obj, val |-> heap.val, bad |-> heap.bad] BY <1>1
    <3>2. heap.bad \in BOOLEAN BY <1>2
    <3> QED BY <2>1, <2>2, <3>1, <3>2 DEF HeapType
  <2>4. \A o \in Obj : Len(heap.obj[o].cells) <= MaxSize
    <3>1. Len(<<>>) = 0 OBVIOUS
    <3> QED BY <1>5, <3>1, Bounds
  <2>5. \A v \in Val : heap.val[v].rc = 0 => heap.val[v] = FreeVal
    <3> SUFFICES ASSUME NEW v \in Val, heap.val[v].rc = 0 PROVE heap.val[v] = FreeVal OBVIOUS
    <3>1. ~(v <= 2) BY <1>4
    <3> QED BY <1>4, <3>1
  <2> QED BY <1>5, <2>3, <2>4, <2>5 DEF HeapOK
<1>7. ev \in [Val -> Nat] /\ None \in [Obj -> Nat] /\ \A o \in Obj : None[o] = 0
  BY RootsType DEF None
<1>8. Balanced(heap, {}, ev, None)
  <2>1. ASSUME NEW o \in Obj PROVE heap.obj[o].rc = Cardinality(Pointing(heap, {}, o)) + None[o]
    <3>1. o # NoObj BY Bounds
    <3>2. Pointing(heap, {}, o) = {} BY <1>4, <3>1 DEF Pointing
    <3>3. Cardinality({}) = 0 BY FS_EmptySet
    <3>4. Cardinality(Pointing(heap, {}, o)) = 0 BY <3>2, <3>3, Zenon
    <3>5. heap.obj[o].rc = 0 BY <1>5, Zenon
    <3>6. None[o] = 0 BY <1>7
    <3> QED BY <3>4, <3>5, <3>6
  <2>2. ASSUME NEW v \in Val PROVE heap.val[v].rc = Cardinality(Places(heap, v)) + ev[v]
    <3>1. Places(heap, v) = {}
      <4> SUFFICES ASSUME NEW c \in Places(heap, v) PROVE FALSE OBVIOUS
      <4>1. c[1] \in Obj /\ c[2] \in 1 .. MaxSize /\ c[2] <= Len(heap.obj[c[1]].cells) BY DEF Places
      <4>2. Len(heap.obj[c[1]].cells) = 0
        <5>1. Len(<<>>) = 0 OBVIOUS
        <5> QED BY <1>5, <4>1, <5>1
      <4> QED BY <4>1, <4>2, Bounds
    <3>2. Cardinality({}) = 0 BY FS_EmptySet
    <3>3. ev[v] = One(1, v) + One(2, v) + One(NoVal, v) + One(NoVal, v) + One(NoVal, v)
      BY <1>1, RootsType
    <3>4. ev[v] = IF v <= 2 THEN 1 ELSE 0
      <4>1. v # NoVal /\ v \in Nat /\ v >= 1 BY Bounds
      <4>2. One(NoVal, v) = 0 BY <4>1 DEF One
      <4>3. CASE v = 1
        <5>1. One(1, v) = 1 /\ One(2, v) = 0 BY <4>3 DEF One
        <5> QED BY <3>3, <4>2, <4>3, <5>1
      <4>4. CASE v = 2
        <5>1. One(1, v) = 0 /\ One(2, v) = 1 BY <4>4 DEF One
        <5> QED BY <3>3, <4>2, <4>4, <5>1
      <4>5. CASE v # 1 /\ v # 2
        <5>1. One(1, v) = 0 /\ One(2, v) = 0 BY <4>5 DEF One
        <5>2. ~(v <= 2) BY <4>1, <4>5
        <5> QED BY <3>3, <4>2, <5>1, <5>2
      <4> QED BY <4>3, <4>4, <4>5
    <3> QED BY <1>4, <3>1, <3>2, <3>4
  <2> QED BY <1>2, <1>6, <1>7, <2>1, <2>2, Counts
<1>9. Unlisted(heap, Owned(slot, frame))
  <2> SUFFICES ASSUME NEW o \in Obj, NEW i \in 1 .. Len(heap.obj[o].cells) PROVE FALSE BY DEF Unlisted
  <2>1. Len(heap.obj[o].cells) = 0
    <3>1. Len(<<>>) = 0 OBVIOUS
    <3> QED BY <1>5, <3>1
  <2> QED BY <2>1
<1>10. Agrees(heap, store)
  <2>1. \A v \in Live(heap) : v \in Val BY DEF Live
  <2> QED BY <1>1, <1>4, <2>1 DEF Agrees, Content
<1>11. Shape(slot, frame, ret)
  <2>1. slot.x = 1 /\ slot.r = 2 /\ slot.e = NoVal BY <1>1
  <2>2. slot \in [x : Val, r : Val, e : {NoVal} \cup Val] BY <1>0, <1>1
  <2> QED BY <1>1, <2>1, <2>2 DEF Shape, Slots, Idle
<1> QED BY <1>2, <1>8, <1>9, <1>10, <1>11 DEF ValuesInv, Sound

LEMMA Invariance == Spec => []ValuesInv
<1>1. ValuesInv /\ [Next]_vars => ValuesInv' BY NextKeeps
<1> QED BY <1>1, InitHolds, PTL DEF Spec

Named(f, S, v) == {n \in S : f[n] = v}

LEMMA OneMore ==
  ASSUME NEW S, IsFiniteSet(S), NEW a, a \notin S, NEW f, NEW v
  PROVE  Cardinality(Named(f, S \cup {a}, v)) = Cardinality(Named(f, S, v)) + One(f[a], v)
<1> DEFINE T == Named(f, S, v)
           U == Named(f, S \cup {a}, v)
<1>1. IsFiniteSet(T) /\ T \subseteq S BY FS_Subset DEF Named
<1>2. Cardinality(T) \in Nat BY <1>1, FS_CardinalityType
<1>3. CASE f[a] = v
  <2>1. U = T \cup {a} BY <1>3 DEF Named
  <2>2. a \notin T BY <1>1
  <2> HIDE DEF T, U
  <2>3. Cardinality(T \cup {a}) = Cardinality(T) + 1 BY <1>1, <2>2, FS_AddElement
  <2>4. One(f[a], v) = 1 BY <1>3 DEF One
  <2>5. Cardinality(U) = Cardinality(T) + One(f[a], v) BY <2>1, <2>3, <2>4
  <2> QED BY <2>5 DEF T, U
<1>4. CASE f[a] # v
  <2>1. U = T BY <1>4 DEF Named
  <2> HIDE DEF T, U
  <2>2. One(f[a], v) = 0 BY <1>4 DEF One
  <2>3. Cardinality(U) = Cardinality(T) + One(f[a], v) BY <1>2, <2>1, <2>2
  <2> QED BY <2>3 DEF T, U
<1> QED BY <1>3, <1>4

LEMMA HoldersAre ==
  ASSUME Shape(slot, frame, ret), NEW v \in Val
  PROVE  Holders(v) = Cardinality(Places(heap, v)) + Roots(slot, frame)[v]
<1> DEFINE A == {n \in DOMAIN slot : slot[n] = v}
           B == {n \in DOMAIN frame : frame[n] = v}
<1>1. Holders(v) = Cardinality(A) + Cardinality(B) + Cardinality(Places(heap, v))
  BY DEF Holders, Places
<1>0. Cardinality({}) = 0 /\ IsFiniteSet({}) BY FS_EmptySet
<1>e. \A n, m : One(n, m) \in Nat BY DEF One
<1>n. \A f : Named(f, {}, v) = {} BY DEF Named
<1>2. Cardinality(A) = One(slot.x, v) + One(slot.r, v) + One(slot.e, v)
  <2> DEFINE S0 == {}
             S1 == S0 \cup {"x"}
             S2 == S1 \cup {"r"}
             S3 == S2 \cup {"e"}
  <2>1. IsFiniteSet(S0) /\ IsFiniteSet(S1) /\ IsFiniteSet(S2) BY FS_EmptySet, FS_AddElement
  <2>2. "x" \notin S0 /\ "r" \notin S1 /\ "e" \notin S2 OBVIOUS
  <2>3. A = Named(slot, S3, v)
    <3>1. DOMAIN slot = S3 BY DEF Shape, Slots
    <3> HIDE DEF S3
    <3> QED BY <3>1 DEF Named
  <2>4. Cardinality(Named(slot, S0, v)) = 0 BY <1>0, <1>n
  <2> HIDE DEF S0, A
  <2>5. Cardinality(Named(slot, S1, v)) = Cardinality(Named(slot, S0, v)) + One(slot["x"], v)
    BY <2>1, <2>2, OneMore
  <2> HIDE DEF S1
  <2>6. Cardinality(Named(slot, S2, v)) = Cardinality(Named(slot, S1, v)) + One(slot["r"], v)
    BY <2>1, <2>2, OneMore
  <2> HIDE DEF S2
  <2>7. Cardinality(Named(slot, S3, v)) = Cardinality(Named(slot, S2, v)) + One(slot["e"], v)
    BY <2>1, <2>2, OneMore
  <2> HIDE DEF S3
  <2> QED BY <1>e, <2>3, <2>4, <2>5, <2>6, <2>7
<1>3. Cardinality(B) = One(frame.p, v) + One(frame.s, v)
  <2> DEFINE S0 == {}
             S1 == S0 \cup {"p"}
             S2 == S1 \cup {"s"}
  <2>1. IsFiniteSet(S0) /\ IsFiniteSet(S1) BY FS_EmptySet, FS_AddElement
  <2>2. "p" \notin S0 /\ "s" \notin S1 OBVIOUS
  <2>3. B = Named(frame, S2, v)
    <3>1. DOMAIN frame = S2 BY DEF Shape, Idle, Running
    <3> HIDE DEF S2
    <3> QED BY <3>1 DEF Named
  <2>4. Cardinality(Named(frame, S0, v)) = 0 BY <1>0, <1>n
  <2> HIDE DEF S0, B
  <2>5. Cardinality(Named(frame, S1, v)) = Cardinality(Named(frame, S0, v)) + One(frame["p"], v)
    BY <2>1, <2>2, OneMore
  <2> HIDE DEF S1
  <2>6. Cardinality(Named(frame, S2, v)) = Cardinality(Named(frame, S1, v)) + One(frame["s"], v)
    BY <2>1, <2>2, OneMore
  <2> HIDE DEF S2
  <2> QED BY <1>e, <2>3, <2>4, <2>5, <2>6
<1>4. Roots(slot, frame)[v] = One(slot.x, v) + One(slot.r, v) + One(slot.e, v) + One(frame.p, v) + One(frame.s, v)
  BY RootsType
<1>5. Cardinality(Places(heap, v)) \in Nat BY PlacesFinite
<1> DEFINE a == One(slot.x, v)
           b == One(slot.r, v)
           c == One(slot.e, v)
           d == One(frame.p, v)
           e == One(frame.s, v)
           m == Cardinality(Places(heap, v))
<1>6. a \in Nat /\ b \in Nat /\ c \in Nat /\ d \in Nat /\ e \in Nat /\ m \in Nat BY <1>5, <1>e
<1>7. Holders(v) = (a + b + c) + (d + e) + m BY <1>1, <1>2, <1>3
<1>8. Roots(slot, frame)[v] = a + b + c + d + e BY <1>4
<1> SUFFICES Holders(v) = m + Roots(slot, frame)[v] OBVIOUS
<1> HIDE DEF a, b, c, d, e, m
<1> QED BY <1>6, <1>7, <1>8

(* Every count is the number of places that point there, for any number of *)
(* Values, objects and elements: RefCounted::addRef and delRef             *)
(* (refcounted.h:32) are called exactly where a pointer is made or lost.   *)
THEOREM CountsStayExact == Spec => []CountsExact
<1>1. ValuesInv => CountsExact
  <2> SUFFICES ASSUME ValuesInv, ~heap.bad
               PROVE  /\ \A o \in Obj : heap.obj[o].rc = Cardinality({v \in Live(heap) : heap.val[v].obj = o})
                      /\ \A v \in Val : heap.val[v].rc = Holders(v)
    BY DEF CountsExact
  <2>1. /\ Balanced(heap, {}, Roots(slot, frame), None) /\ heap \in HeapType
        /\ Roots(slot, frame) \in [Val -> Nat] /\ None \in [Obj -> Nat] /\ Shape(slot, frame, ret)
    BY Begins
  <2>2. Counted(heap, {}, Roots(slot, frame), None) BY <2>1, CountsOf
  <2>3. ASSUME NEW o \in Obj
        PROVE  heap.obj[o].rc = Cardinality({v \in Live(heap) : heap.val[v].obj = o})
    <3>1. heap.obj[o].rc = Cardinality(Pointing(heap, {}, o)) + None[o] BY <2>2 DEF Counted
    <3>2. None[o] = 0 BY DEF None
    <3>3. ASSUME NEW v \in Val, heap.val[v].obj = o PROVE v \in Live(heap)
      <4>1. o # NoObj BY Bounds
      <4>2. heap.val[v].rc # 0
        <5>1. heap.val[v].rc = 0 => heap.val[v] = FreeVal BY <2>1 DEF Balanced, HeapOK
        <5>2. FreeVal.obj = NoObj BY DEF FreeVal
        <5> QED BY <3>3, <4>1, <5>1, <5>2
      <4>3. heap.val[v].rc > 0 BY <2>1, <4>2, Typed
      <4> QED BY <4>3 DEF Live
    <3>4. Pointing(heap, {}, o) = {v \in Live(heap) : heap.val[v].obj = o}
      <4>1. Live(heap) \subseteq Val BY DEF Live
      <4> QED BY <3>3, <4>1 DEF Pointing
    <3>5. Cardinality(Pointing(heap, {}, o)) \in Nat BY PointingFinite
    <3>6. heap.obj[o].rc = Cardinality(Pointing(heap, {}, o)) BY <3>1, <3>2, <3>5
    <3> QED BY <3>4, <3>6, Zenon
  <2>4. ASSUME NEW v \in Val PROVE heap.val[v].rc = Holders(v)
    <3>1. Holders(v) = Cardinality(Places(heap, v)) + Roots(slot, frame)[v] BY <2>1, HoldersAre
    <3>2. heap.val[v].rc = Cardinality(Places(heap, v)) + Roots(slot, frame)[v] BY <2>2 DEF Counted
    <3> QED BY <3>1, <3>2
  <2> QED BY <2>3, <2>4
<1> QED BY <1>1, Invariance, PTL

(* Numbers behave as if every assignment, increment, call, throw and array *)
(* operation copied them, although Value::setInt and deepCopy              *)
(* (value.cc:15, 41) write in place what only one Value holds.             *)
THEOREM StoreStaysTrue == Spec => []StoreAgrees
<1>1. ValuesInv => StoreAgrees BY DEF ValuesInv, Sound, Agrees, StoreAgrees
<1> QED BY <1>1, Invariance, PTL

(* Nothing that was freed is touched (the assertion of delRef,             *)
(* refcounted.h:47) until what one Value alone holds is copied onto that   *)
(* Value, an array as a = a or anything as a[i] = a[i]: Value::copy gives  *)
(* it up before it takes it (value.h:123).                                 *)
THEOREM OnlySelfAssignmentFrees == Spec => []FreedOnlyBySelfAssignment
<1>1. ValuesInv => FreedOnlyBySelfAssignment BY DEF ValuesInv, FreedOnlyBySelfAssignment
<1> QED BY <1>1, Invariance, PTL

===============================================================================
