------------------------------ MODULE Containers ------------------------------
(***************************************************************************)
(* The containers of the language: Array and its iterators and Map         *)
(* (modules/std/core/array.cc, map.cc), Set, Queue, PriorityQueue and Stack*)
(* (modules/std/collection).  One container of one kind is used at a time, *)
(* with a second one for the operators.                                    *)
(*                                                                         *)
(* Sets and priority queues are ordered by a function of the script; each  *)
(* calls one for every element, and what that function does to the same    *)
(* container happens between two visits.  `lost' is set where the code     *)
(* touches what is not there; `breach' remembers, from the calls alone,    *)
(* which rule of use the script broke.  `out' is what the last method gave *)
(* back, with what the container was when it was called.                   *)
(***************************************************************************)
EXTENDS Integers, Sequences, FiniteSets, SequencesExt

CONSTANTS
  Kinds,    \* the containers that are used
  Orders,   \* the functions that order sets and priority queues
  Elements, \* what is put in, numbers
  MaxSize,  \* bound on the size of a container
  MaxHeap   \* bound on the size of a priority queue

ASSUME ElementsAssumption == Elements \subseteq Nat /\ {MaxSize, MaxHeap} \subseteq Nat \ {0}

VARIABLES
  kind,    \* what `this' is
  this,    \* the elements of the object, in the order of the C++ container
  other,   \* those of a second object of its kind, the right-hand side of operators
  iter,    \* an ArrayIterator on `this'
  call,    \* the each that is in progress
  out,     \* what the last method gave back
  breach,  \* history: the rules of use that the script broke
  lost     \* something undefined has happened

vars == <<kind, this, other, iter, call, out, breach, lost>>

Hole    == -1          \* NULL, where resize has made room
Outside == -2          \* what lies behind the end of a vector
Freed   == -3          \* an element that delref has been called on
Huge    == 1000        \* a size_t that has gone below 0
Null    == <<"null">>

NoIter == [on |-> FALSE, pos |-> 0]
NoCall == [on |-> FALSE, was |-> <<>>, i |-> 0, n |-> 0, results |-> <<>>, acted |-> FALSE]
Nothing == [op |-> "none", arg |-> <<>>, was |-> <<>>, value |-> Null]

-------------------------------------------------------------------------------
(* The order of a set or a priority queue: a function of the script.       *)
Compare(f, x, y) ==
  CASE f = "less"    -> x < y
    [] f = "greater" -> x > y
    [] f = "parity"  -> x % 2 < y % 2
    [] f = "leq"     -> x <= y
Strict(f) == \A x, y \in Elements : Compare(f, x, y) => ~Compare(f, y, x)

\* CSetObjectCompare: the function that its first operand carries decides.
Before(x, y) == Compare(x.by, x.n, y.n)
Equivalent(x, y) == ~Before(x, y) /\ ~Before(y, x)

\* std::set, external.  find looks for the first that is not before the key;
\* insert for the place before the first that the key is before.
Prefix(s, Test(_)) == Len(SelectSeq(s, Test))
Find(s, key) ==
  LET p == 1 + Prefix(s, LAMBDA e : Before(e, key))
  IN p <= Len(s) /\ ~Before(key, s[p])
Insert(s, key) ==
  LET p == Prefix(s, LAMBDA e : ~Before(key, e))
  IN IF p = 0 \/ Before(s[p], key) THEN InsertAt(s, p + 1, key) ELSE s

\* std::push_heap and std::pop_heap, external.  A Freed element that they
\* compare is an error; positions count from 1.
RECURSIVE SiftUp(_, _), SiftDown(_, _)
SiftUp(h, i) ==
  IF i = 1 \/ ~Before(h[i \div 2], h[i]) THEN h
  ELSE SiftUp([h EXCEPT ![i] = h[i \div 2], ![i \div 2] = h[i]], i \div 2)
Larger(h, i) == IF 2 * i + 1 <= Len(h) /\ ~Before(h[2 * i + 1], h[2 * i]) THEN 2 * i + 1 ELSE 2 * i
\* The hole at i goes down to a leaf, along the larger children.
SiftDown(h, i) ==
  IF 2 * i > Len(h) THEN [heap |-> h, hole |-> i]
  ELSE SiftDown([h EXCEPT ![i] = h[Larger(h, i)]], Larger(h, i))
PushHeap(h, x) == SiftUp(Append(h, x), Len(h) + 1)

\* Fault: the last element takes the place of the first, and stays there.
MutantPopHeap(h) == IF Len(h) = 1 THEN <<>> ELSE [Front(h) EXCEPT ![1] = Last(h)]

PopHeap(h) ==
  IF Len(h) = 1 THEN <<>>
  ELSE LET down == SiftDown(Front(h), 1)
       IN SiftUp([down.heap EXCEPT ![down.hole] = Last(h)], down.hole)

-------------------------------------------------------------------------------
Of(f) == [n : Elements, by : {f}]
Ascending(s) == \A i \in 2 .. Len(s) : Before(s[i - 1], s[i])
SomeSet(f) == {s \in UNION {[1 .. k -> Of(f)] : k \in 0 .. 2} : Ascending(s)}

\* What the second operand may be.
Operand(k) ==
  CASE k = "array" -> {<<>>, <<0>>}
    [] k = "set"   -> UNION {SomeSet(f) : f \in {g \in Orders : Strict(g)}}
    [] OTHER       -> {<<>>}

Init ==
  /\ kind \in Kinds
  /\ this = <<>>
  /\ other \in Operand(kind)
  /\ iter = NoIter
  /\ call = NoCall
  /\ out = Nothing
  /\ breach = {}
  /\ lost = FALSE

Is(k) == kind = k /\ ~lost
Idle  == ~call.on
Size  == Len(this)
Room  == Size < IF kind = "pqueue" THEN MaxHeap ELSE MaxSize

Gives(op, arg, value) == out' = [op |-> op, arg |-> arg, was |-> this, value |-> value]
Breaks(rules) == breach' = breach \cup rules
Rule(name, broken) == IF broken THEN {name} ELSE {}

\* The array was changed from position p on: iterators from there are invalid.
Changed(p) == Rule("iterator", iter.on /\ iter.pos >= p)
Unchanged == UNCHANGED <<kind, other>>
Simple == Unchanged /\ UNCHANGED <<iter, call>>

-------------------------------------------------------------------------------
(* Array.                                                                  *)
ArrayAppend(e) ==
  /\ Is("array") /\ Idle /\ Room
  /\ this' = Append(this, e)
  /\ Breaks(Changed(0))
  /\ out' = Nothing
  /\ Simple /\ UNCHANGED lost

Resize(n) ==
  /\ Is("array") /\ Idle
  /\ n <= MaxSize
  /\ this' = IF n < Size THEN this ELSE this \o [i \in 1 .. n - Size |-> Hole]
  /\ Breaks(Rule("hole", n > Size) \cup IF n > Size THEN Changed(0) ELSE {})
  /\ out' = Nothing
  /\ Simple /\ UNCHANGED lost

Reserve ==
  /\ Is("array") /\ Idle
  /\ Breaks(Changed(0))
  /\ out' = Nothing
  /\ Simple /\ UNCHANGED <<this, lost>>

Element(i) == IF i \in 0 .. Size - 1 THEN this[i + 1] ELSE Outside
Missing(i) == Element(i) \in {Hole, Outside}

\* Fault: the size itself passes as an index.
MutantInside(i) == i >= 0 /\ i <= Size
Inside(i) == i >= 0 /\ i < Size

\* at copies a Value out of the array, a hole like any other; outside it
\* gives null.
At(i) ==
  /\ Is("array") /\ Idle
  /\ lost' = (Inside(i) /\ Missing(i))
  /\ out' = Nothing
  /\ Simple /\ UNCHANGED <<this, breach>>

\* [] to read hands out a hole, which the next instruction uses; [] to write
\* fills it.  Out of bounds it throws.
Subscript(i, write) ==
  /\ Is("array") /\ Idle
  /\ this' = IF write /\ Inside(i) /\ Element(i) = Hole THEN [this EXCEPT ![i + 1] = 0] ELSE this
  /\ lost' = (Inside(i) /\ Element(i) \in (IF write THEN {Outside} ELSE {Hole, Outside}))
  /\ breach' = IF Hole \in ToSet(this') THEN breach ELSE breach \ {"hole"}
  /\ out' = Nothing
  /\ Simple

\* shift, pop and erase copy the element to the result and remove it.
Erase(i) ==
  /\ Is("array") /\ Idle
  /\ Inside(i)
  /\ this' = RemoveAt(this, i + 1)
  /\ lost' = Missing(i)
  /\ Breaks(Changed(i))
  /\ out' = Nothing
  /\ Simple

\* Fault: the test of the loop stops short of the last index.
RECURSIVE MutantRangeFrom(_, _, _, _)
MutantRangeFrom(s, i, last, down) ==
  IF (IF down THEN last >= i ELSE i >= last) \/ i > Len(s) \/ last > Len(s) THEN <<>>
  ELSE <<IF i = Len(s) THEN Outside ELSE s[i + 1]>>
         \o MutantRangeFrom(s, IF i = 0 /\ down THEN Huge ELSE IF down THEN i - 1 ELSE i + 1, last, down)

\* The loop of range.  The indexes are unsigned: going down from 0 they wrap.
RECURSIVE RangeFrom(_, _, _, _)
RangeFrom(s, i, last, down) ==
  IF (IF down THEN last > i ELSE i > last) \/ i > Len(s) \/ last > Len(s) THEN <<>>
  ELSE <<IF i = Len(s) THEN Outside ELSE s[i + 1]>>
         \o RangeFrom(s, IF i = 0 /\ down THEN Huge ELSE IF down THEN i - 1 ELSE i + 1, last, down)

Unsigned(i) == IF i < 0 THEN Huge ELSE i

RangeOf(start, end) ==
  /\ Is("array") /\ Idle
  /\ LET ran == RangeFrom(this, Unsigned(start), Unsigned(end), Unsigned(start) > Unsigned(end))
     IN /\ Gives("range", <<start, end>>, IF this = <<>> THEN Null ELSE ran)
        /\ lost' = (this # <<>> /\ Outside \in ToSet(ran))
  /\ Breaks(Rule("edge", Size \in {start, end}))
  /\ Simple /\ UNCHANGED this

\* +: into a new array, or in place when the result is the left-hand side.
ArrayPlus(inplace) ==
  /\ Is("array") /\ Idle
  /\ Size + Len(other) <= MaxSize
  /\ this' = IF inplace THEN this \o other ELSE this
  /\ Breaks(IF inplace /\ other # <<>> THEN Changed(0) ELSE {})
  /\ out' = Nothing
  /\ Simple /\ UNCHANGED lost

-------------------------------------------------------------------------------
(* ArrayIterator: begin, end, next and get.                                *)
MakeIter(pos) ==
  /\ Is("array") /\ Idle
  /\ iter' = [on |-> TRUE, pos |-> pos]
  /\ breach' = breach \ {"iterator", "past"}
  /\ out' = Nothing
  /\ Unchanged /\ UNCHANGED <<this, call, lost>>

NextIter ==
  /\ Is("array") /\ Idle /\ iter.on
  /\ iter.pos <= MaxSize
  /\ iter' = [iter EXCEPT !.pos = @ + 1]
  /\ Breaks(Rule("past", iter.pos >= Size))
  /\ out' = Nothing
  /\ Unchanged /\ UNCHANGED <<this, call, lost>>

\* Valid is all that is not the end.
GetIter ==
  /\ Is("array") /\ Idle /\ iter.on
  /\ lost' = ("iterator" \in breach \/ (iter.pos # Size /\ Missing(iter.pos)))
  /\ out' = Nothing
  /\ Simple /\ UNCHANGED <<this, breach>>

-------------------------------------------------------------------------------
(* each, of arrays and maps.  An array is visited by index up to the size  *)
(* it had; a map by an iterator, which sees what is inserted ahead of it.  *)
Each ==
  /\ ~lost /\ kind \in {"array", "map"} /\ Idle
  /\ call' = [NoCall EXCEPT !.on = TRUE, !.was = this, !.n = Size]
  /\ out' = Nothing
  /\ Unchanged /\ UNCHANGED <<this, iter, breach, lost>>

Bound == IF kind = "array" THEN call.n ELSE Size

Visited(e, undefined) ==
  /\ call' = [call EXCEPT !.i = @ + 1, !.results = Append(@, e), !.acted = FALSE]
  /\ lost' = undefined
  /\ Unchanged /\ UNCHANGED <<this, iter, out, breach>>

VisitIndex ==
  /\ Is("array") /\ call.on
  /\ call.i < Bound
  /\ Visited(Element(call.i), Missing(call.i))

VisitKey ==
  /\ Is("map") /\ call.on
  /\ call.i < Bound
  /\ Visited(this[call.i + 1], FALSE)

\* What the callback does to the container before it returns.
CallbackAppends(e) ==
  /\ Is("array") /\ call.on /\ call.i > 0 /\ ~call.acted /\ Room
  /\ this' = Append(this, e)
  /\ call' = [call EXCEPT !.acted = TRUE]
  /\ Breaks(Changed(0))
  /\ Unchanged /\ UNCHANGED <<iter, out, lost>>

CallbackRemoves(i) ==
  /\ Is("array") /\ call.on /\ call.i > 0 /\ ~call.acted
  /\ i \in 0 .. Size - 1 /\ this[i + 1] # Hole
  /\ this' = RemoveAt(this, i + 1)
  /\ call' = [call EXCEPT !.acted = TRUE]
  /\ Breaks(Changed(i) \cup {"shrunk"})
  /\ Unchanged /\ UNCHANGED <<iter, out, lost>>

Keys(m) == {m[i].key : i \in DOMAIN m}
\* std::map::insert, external: a key that is there keeps its value.
WithKey(m, key, v) ==
  IF key \in Keys(m) THEN m
  ELSE InsertAt(m, 1 + Prefix(m, LAMBDA p : p.key < key), [key |-> key, v |-> v])

\* Going forward, a std::map::iterator stays with its key.
CallbackInserts(key) ==
  /\ Is("map") /\ call.on /\ call.i > 0 /\ ~call.acted /\ Room
  /\ key \notin Keys(this)
  /\ this' = WithKey(this, key, 1)
  /\ call' = [call EXCEPT !.acted = TRUE,
                          !.i = IF key < this[call.i].key THEN @ + 1 ELSE @]
  /\ Unchanged /\ UNCHANGED <<iter, out, breach, lost>>

EachEnds ==
  /\ ~lost /\ call.on
  /\ call.i >= Bound
  /\ call' = NoCall
  /\ out' = [op |-> "each", arg |-> this, was |-> call.was, value |-> call.results]
  /\ Unchanged /\ UNCHANGED <<this, iter, breach, lost>>

-------------------------------------------------------------------------------
(* Map.                                                                    *)
\* The constructor takes keys and values in turn.
MapNew(nargs) ==
  /\ Is("map") /\ Idle
  /\ this' = IF nargs < 2 THEN <<>> ELSE <<[key |-> 0, v |-> 0]>>
  /\ lost' = (nargs % 2 = 1)
  /\ Breaks(Rule("odd", nargs % 2 = 1))
  /\ out' = Nothing
  /\ Simple

MapInsert(key, v) ==
  /\ Is("map") /\ Idle /\ Room
  /\ this' = WithKey(this, key, v)
  /\ out' = Nothing
  /\ Simple /\ UNCHANGED <<breach, lost>>

\* [] to write makes the key; to read it throws when the key is not there.
MapSubscript(key, write) ==
  /\ Is("map") /\ Idle /\ Room
  /\ this' = IF write THEN WithKey(this, key, 0) ELSE this
  /\ out' = Nothing
  /\ Simple /\ UNCHANGED <<breach, lost>>

-------------------------------------------------------------------------------
(* Set.  Its elements carry the function of the set they came from.        *)
SetInsert(e) ==
  /\ Is("set") /\ Room
  /\ \A x \in ToSet(this) : x.by = e.by
  /\ this' = Insert(this, e)
  /\ Breaks(Rule("order", ~Strict(e.by)))
  /\ out' = Nothing
  /\ Simple /\ UNCHANGED lost

SetFind(e) ==
  /\ Is("set")
  /\ \A x \in ToSet(this) : x.by = e.by
  /\ Gives("find", e, Find(this, e))
  /\ Simple /\ UNCHANGED <<this, breach, lost>>

Taken(s, Test(_)) == SelectSeq(s, Test)
AllInto(s, new) == FoldLeft(Insert, s, new)

Union(a, b) == FoldLeft(LAMBDA c, e : IF Find(c, e) THEN c ELSE Insert(c, e), AllInto(<<>>, a), b)
Intersection(a, b) == AllInto(<<>>, Taken(a, LAMBDA e : Find(b, e)))
Difference(a, b)   == AllInto(<<>>, Taken(a, LAMBDA e : ~Find(b, e)))
SymDifference(a, b) == AllInto(Difference(a, b), Taken(b, LAMBDA e : ~Find(a, e)))

SetOperator(op) ==
  /\ Is("set")
  /\ Gives(op, other, CASE op = "+" -> Union(this, other)
                        [] op = "*" -> Intersection(this, other)
                        [] op = "-" -> Difference(this, other)
                        [] op = "/" -> SymDifference(this, other))
  /\ Breaks(Rule("mixed", \E x \in ToSet(this), y \in ToSet(other) : x.by # y.by))
  /\ Simple /\ UNCHANGED <<this, lost>>

-------------------------------------------------------------------------------
(* Queue, Stack and PriorityQueue.                                         *)
Push(e) ==
  /\ ~lost /\ kind \in {"queue", "stack", "pqueue"} /\ Room
  /\ kind = "pqueue" => \A x \in ToSet(this) : x.by = e.by
  /\ this' = IF kind = "pqueue" THEN PushHeap(this, e) ELSE Append(this, e)
  /\ Breaks(Rule("order", kind = "pqueue" /\ ~Strict(e.by)))
  /\ out' = Nothing
  /\ Simple /\ UNCHANGED lost

QueuePop ==
  /\ Is("queue")
  /\ this' = IF this = <<>> THEN this ELSE Tail(this)
  /\ out' = Nothing
  /\ Simple /\ UNCHANGED <<breach, lost>>

StackPop ==
  /\ Is("stack")
  /\ this' = IF this = <<>> THEN this ELSE Front(this)
  /\ out' = Nothing
  /\ Simple /\ UNCHANGED <<breach, lost>>

\* pop gives up its reference to the first element, then the heap sinks it:
\* what it would be compared as from then on is anything.
Sunk == {PopHeap([this EXCEPT ![1].n = garbage]) : garbage \in {Freed, Huge}}

PriorityPop ==
  /\ Is("pqueue")
  /\ IF this = <<>> THEN UNCHANGED <<this, lost>>
     ELSE this' \in Sunk /\ lost' = (Cardinality(Sunk) > 1)
  /\ out' = Nothing
  /\ Simple /\ UNCHANGED breach

-------------------------------------------------------------------------------
Index == -1 .. MaxSize
Ordered == UNION {Of(f) : f \in Orders}

Next ==
  \/ \E e \in Elements : ArrayAppend(e)
  \/ \E n \in Index : Resize(n)
  \/ Reserve
  \/ \E i \in Index : At(i)
  \/ \E i \in Index, write \in BOOLEAN : Subscript(i, write)
  \/ \E i \in Index : Erase(i)
  \/ \E start, end \in Index : RangeOf(start, end)
  \/ \E inplace \in BOOLEAN : ArrayPlus(inplace)
  \/ \E pos \in {0, Size} : MakeIter(pos)
  \/ NextIter
  \/ GetIter
  \/ Each
  \/ VisitIndex
  \/ VisitKey
  \/ \E e \in Elements : CallbackAppends(e)
  \/ \E i \in Index : CallbackRemoves(i)
  \/ \E key \in Elements : CallbackInserts(key)
  \/ EachEnds
  \/ \E nargs \in 0 .. 3 : MapNew(nargs)
  \/ \E key \in Elements, v \in {0, 1} : MapInsert(key, v)
  \/ \E key \in Elements, write \in BOOLEAN : MapSubscript(key, write)
  \/ \E e \in Ordered : SetInsert(e)
  \/ \E e \in Ordered : SetFind(e)
  \/ \E op \in {"+", "*", "-", "/"} : SetOperator(op)
  \/ \E e \in Ordered : Push(e)
  \/ QueuePop
  \/ StackPop
  \/ PriorityPop

Spec == Init /\ [][Next]_vars

-------------------------------------------------------------------------------
Has(s, e) == \E i \in DOMAIN s : Equivalent(s[i], e)
SortedBy(s) == \A i \in 2 .. Len(s) : Before(s[i - 1], s[i])
InOrder(m) == \A i \in 2 .. Len(m) : m[i - 1].key < m[i].key

\* The result of a set operator: no twins, and the right members.
IsCombined(o) ==
  /\ SortedBy(o.value)
  /\ \A e \in {x \in Ordered : \A y \in ToSet(o.was) \cup ToSet(o.arg) : x.by = y.by} :
       Has(o.value, e) <=> CASE o.op = "+" -> Has(o.was, e) \/ Has(o.arg, e)
                             [] o.op = "*" -> Has(o.was, e) /\ Has(o.arg, e)
                             [] o.op = "-" -> Has(o.was, e) /\ ~Has(o.arg, e)
                             [] o.op = "/" -> Has(o.was, e) # Has(o.arg, e)

\* The elements from one index to another, both included, either way.
IsSlice(value, s, start, end) ==
  LET step == IF start > end THEN -1 ELSE 1
  IN IF {start, end} \subseteq 0 .. Len(s) - 1
     THEN value = [k \in 1 .. step * (end - start) + 1 |-> s[start + step * (k - 1) + 1]]
     ELSE value = <<>>

\* Everything that was there is visited once, in order, and nothing that is not.
IsVisit(o) ==
  IF kind = "array" THEN o.value = o.was
  ELSE InOrder(o.value) /\ ToSet(o.was) \subseteq ToSet(o.value) /\ ToSet(o.value) \subseteq ToSet(o.arg)

(* What range, each, find and the set operators give back is what their    *)
(* comments promise, whatever callbacks add meanwhile and whatever strict  *)
(* order the script chose (array.cc:240, 278, cset.cc:71, 98, 118, 138).   *)
GivesWhatIsMeant ==
  breach = {} /\ ~lost =>
    CASE out.op = "range" /\ out.was # <<>> -> IsSlice(out.value, out.was, out.arg[1], out.arg[2])
      [] out.op = "each" -> IsVisit(out)
      [] out.op = "find" -> out.value <=> Has(out.was, out.arg)
      [] out.op \in {"+", "*", "-", "/"} -> IsCombined(out)
      [] OTHER -> TRUE

(* Sets have no two equivalent elements, maps are in order of their keys   *)
(* and no element of a priority queue comes before its top, after any      *)
(* pushes, pops and insertions, also those of callbacks (cqueue.cc:176).   *)
StaysInOrder ==
  breach = {} =>
    CASE kind = "set"    -> SortedBy(this)
      [] kind = "map"    -> InOrder(this)
      [] kind = "pqueue" -> \A i \in DOMAIN this : ~Before(this[1], this[i])
      [] OTHER           -> TRUE

(* No container is read outside its elements, and no freed element is      *)
(* compared, but by a script that breaks a rule: it reads a hole that      *)
(* resize made, gives range the size as an index, removes elements while   *)
(* each is at work, uses an iterator after a change or beyond the end, or  *)
(* gives a map an odd number of arguments (array.cc:262, 291, cqueue.cc:196). *)
OnlyBrokenRulesLose == lost => breach # {}

===============================================================================
