-------------------------------- MODULE Values --------------------------------
(***************************************************************************)
(* Values and their reference counts (core/value.cc, value.h, refcounted.h,*)
(* environment.cc, the instructions of core/vm.cc that write values, and   *)
(* the arrays that hold them).                                             *)
(*                                                                         *)
(* A Value is a cell: a place that holds null or points to a TypeObject,   *)
(* which several Values may share.  Both kinds are counted.  Numbers are   *)
(* written in place when nobody else holds them and replaced otherwise, so *)
(* that a number is copied lazily; an array is always shared.              *)
(*                                                                         *)
(* `store' is the abstract memory: what each Value holds if numbers were   *)
(* simply copied.  The instructions write it by their meaning alone, never *)
(* looking at counts, and the heap has to agree with it.                   *)
(*                                                                         *)
(* The main program has the variable x, the temporary r for results and    *)
(* the temporary e for the element that a subscript denotes.  It calls one *)
(* function, with the parameter p and the temporary s, which sees x in the *)
(* environment around it.                                                  *)
(***************************************************************************)
EXTENDS Integers, Sequences, FiniteSets, SequencesExt

CONSTANTS
  MaxVals,   \* bound on the Values alive at once
  MaxObjs,   \* bound on the TypeObjects alive at once
  MaxSize,   \* bound on the length of an array
  Numbers    \* Ints are kept modulo this

ASSUME BoundsAssumption == {MaxVals, MaxObjs, MaxSize, Numbers} \subseteq Nat \ {0} /\ MaxVals >= 2

VARIABLES
  heap,     \* [obj : TypeObjects, val : Values, bad : a freed one was touched]
  slot,     \* the Value in each slot of the main program's environments
  frame,    \* the slots of the function's activation; empty when it is not running
  ret,      \* m_ret_val of that activation
  store,    \* history: what each Value holds, numbers being copied
  selfcopy  \* history: what one Value alone holds was copied onto that Value

vars == <<heap, slot, frame, ret, store, selfcopy>>

Val == 1 .. MaxVals
Obj == 1 .. MaxObjs
NoObj == 0
NoVal == 0
Null  == [is |-> "null"]
Num(n) == [is |-> "int", n |-> n % Numbers]
Ref(o) == [is |-> "array", o |-> o]

FreeObj == [kind |-> "free", n |-> 0, cells |-> <<>>, rc |-> 0]
FreeVal == [obj |-> NoObj, rc |-> 0]
IntObject(n) == [kind |-> "int", n |-> n % Numbers, cells |-> <<>>, rc |-> 1]
ArrayObject(cells) == [kind |-> "array", n |-> 0, cells |-> cells, rc |-> 1]

The(S) == CHOOSE s \in S : TRUE
NewObj(h) == CHOOSE o \in Obj : h.obj[o].rc = 0 /\ \A q \in 1 .. o - 1 : h.obj[q].rc # 0
NewVal(h) == CHOOSE v \in Val : h.val[v].rc = 0 /\ \A w \in 1 .. v - 1 : h.val[w].rc # 0

-------------------------------------------------------------------------------
(* RefCounted.  Deleting an array gives up its elements, deleting a Value  *)
(* its object: what one delRef() leaves to be given up comes before what   *)
(* was due already, as its calls nest.  Touching what has been freed is    *)
(* `bad'.                                                                  *)
ValueRef(v)  == <<"value", v>>
ObjectRef(o) == <<"object", o>>

DelObj(h, o) ==
  IF o = NoObj THEN [heap |-> h, due |-> <<>>]
  ELSE IF h.obj[o].rc = 0 THEN [heap |-> [h EXCEPT !.bad = TRUE], due |-> <<>>]
  ELSE IF h.obj[o].rc > 1 THEN [heap |-> [h EXCEPT !.obj[o].rc = @ - 1], due |-> <<>>]
  ELSE [heap |-> [h EXCEPT !.obj[o] = FreeObj],
        due  |-> [i \in DOMAIN h.obj[o].cells |-> ValueRef(h.obj[o].cells[i])]]

DelVal(h, v) ==
  IF v = NoVal THEN [heap |-> h, due |-> <<>>]
  ELSE IF h.val[v].rc = 0 THEN [heap |-> [h EXCEPT !.bad = TRUE], due |-> <<>>]
  ELSE IF h.val[v].rc > 1 THEN [heap |-> [h EXCEPT !.val[v].rc = @ - 1], due |-> <<>>]
  ELSE [heap |-> [h EXCEPT !.val[v] = FreeVal], due |-> <<ObjectRef(h.val[v].obj)>>]

DelRef(h, ref) == IF ref[1] = "value" THEN DelVal(h, ref[2]) ELSE DelObj(h, ref[2])

DelFirst(s) ==
  IF s.due = <<>> THEN s
  ELSE LET left == DelRef(s.heap, Head(s.due))
       IN [heap |-> left.heap, due |-> left.due \o Tail(s.due)]

\* Every delRef() frees something or leaves nothing more to be given up.
MaxDels(due) == Len(due) + MaxVals + MaxSize * MaxObjs

Release(h, due) ==
  LET after[n \in 0 .. MaxDels(due)] ==
        IF n = 0 THEN [heap |-> h, due |-> due] ELSE The({DelFirst(s) : s \in {after[n - 1]}})
  IN after[MaxDels(due)].heap

AddObj(h, o) ==
  IF o = NoObj THEN h
  ELSE IF h.obj[o].rc = 0 THEN [h EXCEPT !.bad = TRUE]
  ELSE [h EXCEPT !.obj[o].rc = @ + 1]

AddVal(h, v) == [h EXCEPT !.val[v].rc = @ + 1]

-------------------------------------------------------------------------------
(* The methods of Value.                                                   *)
IsInt(h, v)   == h.val[v].obj # NoObj /\ h.obj[h.val[v].obj].kind = "int"
IsArray(h, v) == h.val[v].obj # NoObj /\ h.obj[h.val[v].obj].kind = "array"
Number(h, v)  == h.obj[h.val[v].obj].n
Cells(h, v)   == h.obj[h.val[v].obj].cells
Alone(h, v)   == h.obj[h.val[v].obj].rc = 1

\* cleanUp: the pointer stays where it is.
CleanUp(h, v) == Release(h, <<ObjectRef(h.val[v].obj)>>)

\* setObj: the new object is made before the old one is given up.
SetObj(h, v, object) ==
  LET o == NewObj(h)
  IN [CleanUp([h EXCEPT !.obj[o] = object], v) EXCEPT !.val[v].obj = o]

SetNull(h, v) == [CleanUp(h, v) EXCEPT !.val[v].obj = NoObj]

\* Fault: an Int is written in place whoever holds it.
MutantSetInt(h, v, n) ==
  IF IsInt(h, v)
  THEN [h EXCEPT !.obj[h.val[v].obj].n = n % Numbers]
  ELSE SetObj(h, v, IntObject(n))

SetInt(h, v, n) ==
  IF IsInt(h, v) /\ Alone(h, v)
  THEN [h EXCEPT !.obj[h.val[v].obj].n = n % Numbers]
  ELSE SetObj(h, v, IntObject(n))

\* copy: w is read after v has given up its own object.
TakeFrom(h, v, w) ==
  IF h.val[w].rc = 0 THEN [h EXCEPT !.bad = TRUE]
  ELSE AddObj([h EXCEPT !.val[v].obj = h.val[w].obj], h.val[w].obj)
Copy(h, v, w) == The({TakeFrom(g, v, w) : g \in {CleanUp(h, v)}})

\* deepCopy: an Int is cloned, an array has no clone() and is shared.
DeepCopy(h, v, w) ==
  IF IsInt(h, w) THEN SetInt(h, v, Number(h, w)) ELSE Copy(h, v, w)

\* clone, into the Value that `new' returns.
Clone(h, w) == LET v == NewVal(h) IN Copy([h EXCEPT !.val[v] = [obj |-> NoObj, rc |-> 1]], v, w)

\* ArrayObject::pushValue, and append, which pushes a clone of each of ws.
Push(h, o, w) == [Clone(h, w) EXCEPT !.obj[o].cells = Append(@, NewVal(h))]
PushAll(h, o, ws) ==
  LET after[n \in 0 .. Len(ws)] == IF n = 0 THEN h
                                    ELSE The({Push(g, o, ws[n]) : g \in {after[n - 1]}})
  IN after[Len(ws)]

-------------------------------------------------------------------------------
InCall == frame.p # NoVal
Live(h) == {v \in Val : h.val[v].rc > 0}
VarsInSight == {slot.x} \cup (IF InCall THEN {frame.p} ELSE {})
Result      == IF InCall THEN frame.s ELSE slot.r
Denoted     == IF InCall \/ slot.e = NoVal THEN {} ELSE {slot.e}
Operands    == VarsInSight \cup {Result} \cup Denoted
Arrays      == {v \in VarsInSight : IsArray(heap, v)}

Room(nvals, nobjs) ==
  /\ Cardinality({v \in Val : heap.val[v].rc = 0}) >= nvals
  /\ Cardinality({o \in Obj : heap.obj[o].rc = 0}) >= nobjs

\* No array inside itself, however deep.  Bound: such a cycle is never freed.
Within(h, o) ==
  LET reached[n \in 0 .. MaxObjs] ==
        IF n = 0 THEN {o}
        ELSE UNION {{q} \cup {h.val[c].obj : c \in {d \in ToSet(h.obj[q].cells) : IsArray(h, d)}} :
                      q \in reached[n - 1]}
  IN reached[MaxObjs]
CanHold(a, v) == IsArray(heap, v) => heap.val[a].obj \notin Within(heap, heap.val[v].obj)

\* The heap after a step, and what the step means: it writes `content' into `v'.
Becomes(h, meaning) ==
  /\ ~heap.bad
  /\ heap' = h
  /\ store' = [v \in Val |-> IF h.val[v].rc = 0 THEN Null
                             ELSE IF v \in DOMAIN meaning THEN meaning[v] ELSE store[v]]
Means(v, content) == [w \in {v} |-> content]

Init ==
  /\ heap = [obj |-> [o \in Obj |-> FreeObj],
             val |-> [v \in Val |-> IF v <= 2 THEN [obj |-> NoObj, rc |-> 1] ELSE FreeVal],
             bad |-> FALSE]
  /\ slot  = [x |-> 1, r |-> 2, e |-> NoVal]
  /\ frame = [p |-> NoVal, s |-> NoVal]
  /\ ret   = NoVal
  /\ store = [v \in Val |-> Null]
  /\ selfcopy = FALSE

-------------------------------------------------------------------------------
(* OP_ASSIGN.  A variable takes a deep copy, the element of an array that  *)
(* a subscript denotes a plain one.  A plain copy onto itself, a = a for an*)
(* array and a[i] = a[i] for anything, gives up what it is about to take.  *)
AssignVar(v, w) ==
  /\ Room(0, 1)
  /\ Becomes(DeepCopy(heap, v, w), Means(v, store[w]))
  /\ selfcopy' = (selfcopy \/ (v = w /\ IsArray(heap, v) /\ Alone(heap, v)))
  /\ UNCHANGED <<slot, frame, ret>>

AssignElement(w) ==
  /\ Denoted # {}
  /\ IsArray(heap, w) => \A o \in Obj : slot.e \in ToSet(heap.obj[o].cells) =>
                            o \notin Within(heap, heap.val[w].obj)
  /\ Becomes(Copy(heap, slot.e, w), Means(slot.e, store[w]))
  /\ selfcopy' = (selfcopy \/ (w = slot.e /\ heap.val[w].obj # NoObj /\ Alone(heap, w)))
  /\ UNCHANGED <<slot, frame, ret>>

\* v + 1, and the instructions that only put a fresh number in their result.
Arithmetic(v) ==
  /\ IsInt(heap, v)
  /\ Room(0, 1)
  /\ Becomes(SetInt(heap, Result, Number(heap, v) + 1), Means(Result, Num(store[v].n + 1)))
  /\ UNCHANGED <<slot, frame, ret, selfcopy>>

Constant ==
  /\ Room(0, 1)
  /\ Becomes(SetInt(heap, Result, 0), Means(Result, Num(0)))
  /\ UNCHANGED <<slot, frame, ret, selfcopy>>

\* The result of && is its operand or null, the one of a property a plain copy.
CopyToResult(v) ==
  /\ v # Result
  /\ Becomes(Copy(heap, Result, v), Means(Result, store[v]))
  /\ UNCHANGED <<slot, frame, ret, selfcopy>>

NullResult ==
  /\ Becomes(SetNull(heap, Result), Means(Result, Null))
  /\ UNCHANGED <<slot, frame, ret, selfcopy>>

PreIncrement(v) ==
  /\ v # Result
  /\ IsInt(heap, v)
  /\ Room(0, 2)
  /\ \E h \in {SetInt(heap, v, Number(heap, v) + 1)} :
       Becomes(DeepCopy(h, Result, v),
               [w \in {v, Result} |-> Num(store[v].n + 1)])
  /\ UNCHANGED <<slot, frame, ret, selfcopy>>

PostIncrement(v) ==
  /\ v # Result
  /\ IsInt(heap, v)
  /\ Room(0, 2)
  /\ \E h \in {DeepCopy(heap, Result, v)} :
       Becomes(SetInt(h, v, Number(h, v) + 1),
               [w \in {v, Result} |-> Num(store[v].n + IF w = v THEN 1 ELSE 0)])
  /\ UNCHANGED <<slot, frame, ret, selfcopy>>

-------------------------------------------------------------------------------
(* Arrays.                                                                 *)
NewArray ==
  /\ Room(0, 1)
  /\ Becomes(SetObj(heap, Result, ArrayObject(<<>>)), Means(Result, Ref(NewObj(heap))))
  /\ UNCHANGED <<slot, frame, ret, selfcopy>>

AppendTo(a, v) ==
  /\ Len(Cells(heap, a)) < MaxSize
  /\ CanHold(a, v)
  /\ Room(1, 0)
  /\ \E h \in {Push(heap, heap.val[a].obj, v)} :
       Becomes(SetNull(h, Result), [w \in {NewVal(heap), Result} |->
                                      IF w = Result THEN Null ELSE store[v]])
  /\ UNCHANGED <<slot, frame, ret, selfcopy>>

\* reverse, range and + make a new array of clones.
Reversed(a) ==
  LET cells == Reverse(Cells(heap, a))
      o     == NewObj(heap)
  IN /\ Cells(heap, a) # <<>>
     /\ Room(Len(cells), 1)
     /\ \E h \in {PushAll([heap EXCEPT !.obj[o] = ArrayObject(<<>>)], o, cells)} :
          Becomes([CleanUp(h, Result) EXCEPT !.val[Result].obj = o],
                  [w \in {Result} \cup ToSet(h.obj[o].cells) |->
                     IF w = Result THEN Ref(o)
                     ELSE store[cells[CHOOSE i \in 1 .. Len(cells) : h.obj[o].cells[i] = w]]])
     /\ UNCHANGED <<slot, frame, ret, selfcopy>>

\* shift, pop and erase: the result is copied, then the element given up.
Removal(a, i) ==
  LET o == heap.val[a].obj
  IN /\ i \in 1 .. Len(Cells(heap, a))
     /\ \E h \in {Copy(heap, Result, Cells(heap, a)[i])} :
          Becomes(Release([h EXCEPT !.obj[o].cells = RemoveAt(@, i)], <<ValueRef(Cells(heap, a)[i])>>),
                  Means(Result, store[Cells(heap, a)[i]]))
     /\ UNCHANGED <<slot, frame, ret, selfcopy>>

\* Fault: the slot takes the element without a reference of its own.
MutantSubscript(a, i) ==
  /\ ~InCall
  /\ i \in 1 .. Len(Cells(heap, a))
  /\ Becomes(Release(heap, <<ValueRef(slot.e)>>), <<>>)
  /\ slot' = [slot EXCEPT !.e = Cells(heap, a)[i]]
  /\ UNCHANGED <<frame, ret, selfcopy>>

\* OP_SUBSCRIPT_W and at_op, and OP_PROP_W: the slot takes the element itself.
Subscript(a, i) ==
  /\ ~InCall
  /\ i \in 1 .. Len(Cells(heap, a))
  /\ LET c == Cells(heap, a)[i]
     IN /\ Becomes(Release(AddVal(heap, c), <<ValueRef(slot.e)>>), <<>>)
        /\ slot' = [slot EXCEPT !.e = c]
  /\ UNCHANGED <<frame, ret, selfcopy>>

-------------------------------------------------------------------------------
(* A call: the function's environment is cloned, its parameter takes a     *)
(* plain copy of the argument, and the result goes to the caller's         *)
(* temporary.  What a throw carries goes through a Value of its own.       *)
Call(v) ==
  /\ ~InCall
  /\ Room(2, 0)
  /\ LET p == NewVal(heap)
         with == [heap EXCEPT !.val[p] = [obj |-> NoObj, rc |-> 1]]
         s == NewVal(with)
     IN /\ Becomes(Copy([with EXCEPT !.val[s] = [obj |-> NoObj, rc |-> 1]], p, v),
                   [w \in {p, s} |-> IF w = p THEN store[v] ELSE Null])
        /\ frame' = [p |-> p, s |-> s]
  /\ ret' = slot.r
  /\ UNCHANGED <<slot, selfcopy>>

\* Fault: the activation is freed before its value is copied.
MutantReturn(v) ==
  /\ InCall
  /\ \E h \in {Release(heap, <<ValueRef(frame.p), ValueRef(frame.s)>>)} : Becomes(Copy(h, ret, v), Means(ret, store[v]))
  /\ frame' = [p |-> NoVal, s |-> NoVal]
  /\ ret'   = NoVal
  /\ UNCHANGED <<slot, selfcopy>>

Return(v) ==
  /\ InCall
  /\ \E h \in {Copy(heap, ret, v)} :
       Becomes(Release(h, <<ValueRef(frame.p), ValueRef(frame.s)>>), Means(ret, store[v]))
  /\ frame' = [p |-> NoVal, s |-> NoVal]
  /\ ret'   = NoVal
  /\ UNCHANGED <<slot, selfcopy>>

\* throw v, caught by a handler of the same function into the variable c.
ThrowAndCatch(v, c) ==
  /\ Room(1, 0)
  /\ \E h \in {Clone(heap, v)} :
       Becomes(Release(Copy(h, c, NewVal(heap)), <<ValueRef(NewVal(heap))>>), Means(c, store[v]))
  /\ UNCHANGED <<slot, frame, ret, selfcopy>>

Next ==
  \/ \E v \in VarsInSight, w \in Operands : AssignVar(v, w)
  \/ \E w \in Operands : AssignElement(w)
  \/ \E v \in VarsInSight : Arithmetic(v)
  \/ Constant
  \/ \E v \in Operands : CopyToResult(v)
  \/ NullResult
  \/ \E v \in VarsInSight \cup Denoted : PreIncrement(v)
  \/ \E v \in VarsInSight \cup Denoted : PostIncrement(v)
  \/ NewArray
  \/ \E a \in Arrays, v \in Operands : AppendTo(a, v)
  \/ \E a \in Arrays : Reversed(a)
  \/ \E a \in Arrays, i \in 1 .. MaxSize : Removal(a, i)
  \/ \E a \in Arrays, i \in 1 .. MaxSize : Subscript(a, i)
  \/ \E v \in Operands : Call(v)
  \/ \E v \in Operands : Return(v)
  \/ \E v \in Operands, c \in VarsInSight : ThrowAndCatch(v, c)

Spec == Init /\ [][Next]_vars

-------------------------------------------------------------------------------
(* What a Value holds, by the heap.                                        *)
Content(h, v) ==
  IF h.val[v].obj = NoObj THEN Null
  ELSE IF IsInt(h, v) THEN Num(Number(h, v)) ELSE Ref(h.val[v].obj)

Holders(v) ==
  Cardinality({n \in DOMAIN slot : slot[n] = v}) + Cardinality({n \in DOMAIN frame : frame[n] = v})
    + Cardinality({c \in Obj \X (1 .. MaxSize) :
                     c[2] <= Len(heap.obj[c[1]].cells) /\ heap.obj[c[1]].cells[c[2]] = v})

(* Value::setInt and deepCopy write in place only what one Value holds: no *)
(* assignment, increment, call, throw or array operation changes what a    *)
(* second variable, element or temporary holds.  The counts decide, the    *)
(* abstract store knows nothing of them (value.cc:15, 41).                 *)
StoreAgrees == ~heap.bad => \A v \in Live(heap) : Content(heap, v) = store[v]

(* Every count is the number of places that point there, so what nobody    *)
(* points to has been freed and what somebody points to has not, after any *)
(* sequence of subscripts, removals, calls and throws (refcounted.h:32).   *)
CountsExact ==
  ~heap.bad =>
    /\ \A o \in Obj : heap.obj[o].rc = Cardinality({v \in Live(heap) : heap.val[v].obj = o})
    /\ \A v \in Val : heap.val[v].rc = Holders(v)

(* The assertion of delRef, "This object has been free'd before."          *)
(* (refcounted.h:47), is kept by every instruction but one: an assignment  *)
(* that copies a Value onto itself while nobody else holds its object, an  *)
(* array in a variable or anything in an element (value.h:123).            *)
FreedOnlyBySelfAssignment == heap.bad => selfcopy

===============================================================================
