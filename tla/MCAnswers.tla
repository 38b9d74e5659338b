------------------------------ MODULE MCAnswers ------------------------------
(***************************************************************************)
(* Every operator with operands of every type, every method of String with *)
(* short texts and every position around their ends, every native with     *)
(* arguments that fit, one of them of any other type, and too few or too   *)
(* many, every request of up to five characters and some longer, and every tree  *)
(* of at most two operations.  Each is executed twice.                     *)
(***************************************************************************)
EXTENDS Answers

OperatorSites == [kind : {"operator"}, name : Arithmetic \cup Comparisons \cup Bitwise \cup Unary \cup Counting \cup ShortCircuit]
MethodSites == [kind : {"method"}, name : {"subString", "find", "findFirst", "findLast", "ltrim", "rtrim", "trim",
  "startsWith", "endsWith", "setChar", "charAt", "at_op", "size", "split", "replace", "toUpper", "toLower"}]
NativeSites == [kind : {"native"}, native : Library]
FoldedSites == [kind : {"folded"}, name : Reached \cup {"condition"}]
RequestSites == [kind : {"request"}, name : {"query", "cookie"}]
AllSites == RequestSites \cup OperatorSites \cup MethodSites \cup NativeSites \cup FoldedSites

-------------------------------------------------------------------------------
Vals == {NullVal, BoolVal(FALSE), BoolVal(TRUE), DblVal(-2), DblVal(0), DblVal(4), DblVal(6), DblVal(40),
         StrVal(<<>>), StrVal(<<1>>), StrVal(<<1, 2>>), ObjVal(1), ObjVal(2)}
        \cup {IntVal(n) : n \in {-8, -1, 0, 1, 2, 3, 7}}
Pairs == [l : Vals, r : Vals]
\* Of the first execution: answers of every type that some pair has.
FirstPairs == {[l |-> IntVal(1), r |-> IntVal(1)], [l |-> BoolVal(TRUE), r |-> BoolVal(FALSE)], [l |-> StrVal(<<2>>), r |-> IntVal(1)]}

-------------------------------------------------------------------------------
Over(S, n) == UNION {[1 .. k -> S] : k \in 0 .. n}
Texts == Over({1, 2}, 3) \cup {<<Blank>>, <<Blank, 1>>, <<1, Blank>>, <<Blank, 1, Blank>>, <<Blank, Blank>>, <<1, Blank, 2>>, <<101, 2>>}
Needles == {StrVal(s) : s \in Over({1, 2}, 2)}
Posn == {IntVal(n) : n \in -2 .. 4}
Tuples1(A) == {<<a>> : a \in A}
Tuples2(A, B) == {<<a, b>> : a \in A, b \in B}

ArgsOf(m) ==
  CASE m = "subString" -> Tuples1(Posn) \cup Tuples2(Posn, Posn)
    [] m \in {"find", "findFirst", "findLast"} ->
         Tuples1(Needles) \cup Tuples2(Needles, Posn) \cup {<<d, p, c>> : d \in Needles, p \in Posn, c \in Posn}
    [] m \in {"startsWith", "endsWith"} -> Tuples1(Needles \cup {StrVal(<<1, 2, 1>>)})
    [] m = "setChar" -> Tuples2(Posn, Needles)
    [] m \in {"charAt", "at_op"} -> Tuples1(Posn)
    [] m = "split"   -> Tuples1(Needles) \cup Tuples2(Needles, Posn)
    [] m = "replace" -> Tuples2(Needles, Needles)
    [] OTHER         -> {<<>>}
Calls(m) == [s : Texts, args : ArgsOf(m)]
FirstCalls(m) == [s : {<<1, 2>>}, args : {CHOOSE a \in ArgsOf(m) : ~MethodRisk(m, <<1, 2>>, a)}]

-------------------------------------------------------------------------------
\* A type that position i of a call of the native wants.
Wanted(native, n, i) ==
  {t \in Types : /\ \A k \in DOMAIN native.spec :
                      Looks(native.spec, k) /\ native.spec # Void /\ Place(native.spec, k) = i => t \in Accepts(native.spec[k])
                 /\ \A r \in native.takes : n \in r.counts /\ (r.at = i \/ (r.rest /\ i >= r.at)) => t \in r.as}
Fitting(native, n) == [i \in 1 .. n |-> CHOOSE t \in Types : Wanted(native, n, i) # {} => t \in Wanted(native, n, i)]
ArgLists(native) ==
  UNION {{Fitting(native, n)} \cup {[Fitting(native, n) EXCEPT ![i] = t] : i \in 1 .. n, t \in Types} : n \in Every}
Length(native) == IF native.spec = Void THEN 0 ELSE Cardinality({k \in DOMAIN native.spec : Looks(native.spec, k)})

-------------------------------------------------------------------------------
Literals == {Lit(n) : n \in {-8, -1, 0, 1, 2, 3, 7}}
Leaves == Literals \cup {Var(2)}
Trees == {Node(op, l, r) : op \in Arithmetic, l \in Leaves, r \in Leaves}
         \cup {Node(op, Node(inner, Lit(1), Lit(3)), r) : op \in Arithmetic, inner \in {"add", "div"}, r \in Leaves}

\* Names and values of a letter or none, up to three pieces of them.
Queries(sep) == Over({1, 2, Eq, sep}, 5) \cup {<<1, Eq, 1, sep, 2, Eq, 2>>, <<1, Eq, 1, sep, 1, Eq, 2>>, <<1, Eq, 1, sep, 2, Eq, 2, sep, 1, Eq, 2>>}

AllOperands(s, n) ==
  CASE s.kind = "operator" -> IF n = 0 THEN FirstPairs ELSE Pairs
    [] s.kind = "method"   -> IF n = 0 THEN FirstCalls(s.name) ELSE Calls(s.name)
    [] s.kind = "native"   -> IF n = 0 THEN {Fitting(s.native, Length(s.native))} ELSE ArgLists(s.native)
    [] s.kind = "request"  -> IF n = 0 THEN {<<1, Eq, 2>>} ELSE Queries(IF s.name = "query" THEN Amp ELSE Sep)
    [] s.kind = "folded"   -> IF n = 0 THEN {Node("add", Lit(1), Lit(1))} ELSE Trees

===============================================================================
