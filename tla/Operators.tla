------------------------------ MODULE Operators ------------------------------
(***************************************************************************)
(* The operators of the basic types (modules/std/core/int.cc, double.cc,   *)
(* bool.cc, str.cc; the defaults of core/type.cc), as VM::binOp and logicOp*)
(* (core/vm.cc) call them, the short-circuit operators and ++ and --, and  *)
(* the folding of constants (core/evaluator.cc).                           *)
(*                                                                         *)
(* Doubles are counted in quarters, and are inexact where they are divided;*)
(* text is a sequence of characters, which are numbers; a number that is   *)
(* printed becomes one character of its own.                               *)
(***************************************************************************)
EXTENDS Integers, Sequences, FiniteSetsExt

CONSTANT Width        \* bits of a long
ASSUME WidthAssumption == Width \in Nat \ {0}

Limit == 2 ^ (Width - 1)
Fits(n) == n \in -Limit .. Limit - 1
Wrap(n) == ((n + Limit) % (2 ^ Width)) - Limit
Inexact == 999

Val(t, n, s)  == [t |-> t, n |-> n, s |-> s, parts |-> <<>>]
NullVal    == Val("Null", 0, <<>>)
IntVal(n)  == Val("Int", n, <<>>)
DblVal(q)  == Val("Double", q, <<>>)
BoolVal(b) == Val("Bool", IF b THEN 1 ELSE 0, <<>>)
StrVal(s)  == Val("String", 0, s)
ObjVal(id) == Val("Object", id, <<>>)

\* Value::asBool: only null and false are false.
AsBool(v) == IF v.t = "Bool" THEN v.n = 1 ELSE v.t # "Null"

\* What becomes of a call: a value in the slot, the slot left as it was, or none.
Answer(v) == [how |-> "answer", v |-> v]
Ends(how) == [how |-> how, v |-> NullVal]
Kept   == Ends("kept")       \* no case for these operands: result is not touched
Thrown == Ends("thrown")     \* a script exception
Fatal  == Ends("fatal")      \* the interpreter stops with a message
Stray  == Ends("stray")      \* undefined in C++: a trap, a read outside

Numbers == {"Int", "Double"}
Arithmetic == {"add", "sub", "mul", "div", "mod"}
Comparisons == {"greater", "greater_equal", "less", "less_equal", "equal", "not_equal"}
Bitwise == {"bw_and", "bw_or", "bw_xor", "bw_ls", "bw_rs"}
Unary == {"not_op", "bw_not"}
Counting == {"pre_inc", "pos_inc", "pre_dec", "pos_dec"}
ShortCircuit == {"and_then", "or_else", "and_word", "or_word"}

-------------------------------------------------------------------------------
(* A sum, a difference or a product of two longs that is no long is as     *)
(* undefined as a division by zero: the build asks for no -fwrapv.         *)
Magnitude(n) == IF n < 0 THEN -n ELSE n
Signed(negative, n) == IF negative THEN -n ELSE n
Quot(a, b) == Signed((a < 0) # (b < 0), Magnitude(a) \div Magnitude(b))
Rem(a, b) == a - b * Quot(a, b)

AsLong(n) == IF Fits(n) THEN Answer(IntVal(n)) ELSE Stray

LongOp(op, a, b) ==
  CASE op = "add" -> AsLong(a + b)
    [] op = "sub" -> AsLong(a - b)
    [] op = "mul" -> AsLong(a * b)
    [] op \in {"div", "mod"} /\ (b = 0 \/ (a = -Limit /\ b = -1)) -> Stray
    [] op = "div" -> Answer(IntVal(Quot(a, b)))
    [] op = "mod" -> Answer(IntVal(Rem(a, b)))

Quarters(v) == IF v.t = "Int" THEN 4 * v.n ELSE v.n
ToLong(v) == IF v.t = "Int" THEN v.n ELSE Quot(v.n, 4)
DoubleOp(op, x, y) ==
  CASE op = "add" -> DblVal(x + y)
    [] op = "sub" -> DblVal(x - y)
    [] op = "mul" -> DblVal((x * y) \div 4)
    [] OTHER      -> DblVal(Inexact)

Holds(op, order) ==
  CASE op = "greater"       -> order > 0
    [] op = "greater_equal" -> order >= 0
    [] op = "less"          -> order < 0
    [] op = "less_equal"    -> order <= 0
    [] op = "equal"         -> order = 0
    [] op = "not_equal"     -> order # 0

BitOf(n, i) == ((n % 2 ^ Width) \div 2 ^ i) % 2
Bits(n) == [i \in 0 .. Width - 1 |-> BitOf(n, i)]
FromBits(bits) == Wrap(MapThenSumSet(LAMBDA i : bits[i] * 2 ^ i, DOMAIN bits))
\* A shift is one of the bits, of a negative number too: the build asks for C++98.
BitOp(op, a, b) ==
  CASE op = "bw_and" -> Answer(IntVal(FromBits([i \in DOMAIN Bits(a) |-> Bits(a)[i] * Bits(b)[i]])))
    [] op = "bw_or"  -> Answer(IntVal(FromBits([i \in DOMAIN Bits(a) |-> IF Bits(a)[i] + Bits(b)[i] > 0 THEN 1 ELSE 0])))
    [] op = "bw_xor" -> Answer(IntVal(FromBits([i \in DOMAIN Bits(a) |-> (Bits(a)[i] + Bits(b)[i]) % 2])))
    [] b \notin 0 .. Width - 1 -> Stray
    [] op = "bw_ls"  -> Answer(IntVal(Wrap(a * 2 ^ b)))
    [] op = "bw_rs"  -> Answer(IntVal(a \div 2 ^ b))

-------------------------------------------------------------------------------
(* The types.                                                              *)
Digits(v) == <<1000 + v.n + IF v.t = "Int" THEN 0 ELSE 500>>
Text(v) == IF v.t = "String" THEN v.s ELSE Digits(v)

\* A comparison with a Double sets a Double: 1.0 or 0.0.
IntCompare(op, l, r) ==
  CASE r.t = "Int"    -> Answer(BoolVal(Holds(op, l.n - r.n)))
    [] r.t = "Double" -> Answer(DblVal(IF Holds(op, Quarters(l) - r.n) THEN 4 ELSE 0))
    [] OTHER          -> Kept

IntType(op, l, r) ==
  CASE op = "not_op"        -> Answer(BoolVal(~AsBool(l)))
    [] op = "bw_not"        -> Answer(IntVal(-l.n - 1))
    [] op \in Comparisons   -> IntCompare(op, l, r)
    [] op \in Bitwise       -> IF r.t \in Numbers THEN IF Fits(ToLong(r)) THEN BitOp(op, l.n, ToLong(r)) ELSE Stray
                               ELSE Kept
    [] r.t = "Int"          -> LongOp(op, l.n, r.n)
    [] r.t = "Double"       -> Answer(DoubleOp(op, Quarters(l), r.n))
    [] r.t = "String" /\ op = "add" -> Answer(StrVal(Text(l) \o r.s))
    [] OTHER                -> Kept

DoubleType(op, l, r) ==
  CASE op = "not_op"        -> Answer(BoolVal(~AsBool(l)))
    [] op \in Comparisons   -> Answer(BoolVal(r.t \in Numbers /\ Holds(op, l.n - Quarters(r))))
    [] op \in Bitwise \cup {"bw_not"} -> Thrown
    [] r.t \in Numbers      -> Answer(DoubleOp(op, l.n, Quarters(r)))
    [] r.t = "String" /\ op = "add" -> Answer(StrVal(Text(l) \o r.s))
    [] OTHER                -> Kept

\* std::string's order, external: -1, 0 or 1.
StrOrder(s, t) ==
  LET d == {i \in 1 .. Len(s) : i <= Len(t) /\ s[i] # t[i]}
      sign(n) == IF n < 0 THEN -1 ELSE IF n > 0 THEN 1 ELSE 0
  IN IF d = {} THEN sign(Len(s) - Len(t)) ELSE LET i == CHOOSE i \in d : \A j \in d : i <= j IN sign(s[i] - t[i])

Repeat(s, n) == [i \in 1 .. Len(s) * (IF n < 0 THEN 0 ELSE n) |-> s[((i - 1) % Len(s)) + 1]]

StrType(op, l, r) ==
  CASE op = "not_op"        -> Answer(BoolVal(~AsBool(l)))
    [] op = "add"           -> IF r.t \in Numbers \cup {"String"} THEN Answer(StrVal(l.s \o Text(r))) ELSE Kept
    [] op = "mul"           -> IF r.t = "Int" THEN Answer(StrVal(Repeat(l.s, r.n))) ELSE Kept
    [] op \in Comparisons   -> IF r.t = "String" THEN Answer(BoolVal(Holds(op, StrOrder(l.s, r.s)))) ELSE Kept
    [] OTHER                -> Thrown

BoolType(op, l, r) ==
  CASE op = "not_op"        -> Answer(BoolVal(l.n = 0))
    [] op \in {"equal", "not_equal"} ->
         IF r.t = "Bool" THEN Answer(BoolVal(Holds(op, l.n - r.n))) ELSE Kept
    [] OTHER                -> Thrown

\* Type, the defaults: == and != compare the objects themselves.
AnyType(op, l, r) ==
  IF op \in {"equal", "not_equal"}
  THEN Answer(BoolVal((op = "equal") = (r.t = "Object" /\ l.n = r.n)))
  ELSE Thrown

OfType(op, l, r) ==
  CASE l.t = "Int"    -> IntType(op, l, r)
    [] l.t = "Double" -> DoubleType(op, l, r)
    [] l.t = "String" -> StrType(op, l, r)
    [] l.t = "Bool"   -> BoolType(op, l, r)
    [] OTHER          -> AnyType(op, l, r)

-------------------------------------------------------------------------------
(* The instructions.                                                       *)
BinOp(op, l, r) == IF l.t = "Null" \/ (op \notin Unary /\ r.t = "Null") THEN Fatal ELSE OfType(op, l, r)

\* Fault: a comparison with null goes to the type of the left operand's default.
MutantLogicOp(op, l, r) ==
  IF l.t = "Null" \/ r.t = "Null" THEN Answer(BoolVal(op = "not_equal")) ELSE OfType(op, l, r)

LogicOp(op, l, r) ==
  IF l.t = "Null" \/ r.t = "Null"
  THEN Answer(BoolVal(CASE op = "equal"     -> l.t = r.t
                        [] op = "not_equal" -> l.t # r.t
                        [] OTHER            -> FALSE))
  ELSE OfType(op, l, r)

\* && and || are jumps that leave true or false; `and' and `or' are OP_AND and
\* OP_OR, executed for each operand, and OP_OR leaves a false one alone.
Circuit(op, l, r) ==
  CASE op = "and_then" -> Answer(BoolVal(AsBool(l) /\ AsBool(r)))
    [] op = "or_else"  -> Answer(BoolVal(AsBool(l) \/ AsBool(r)))
    [] op = "and_word" -> Answer(IF AsBool(l) /\ AsBool(r) THEN r ELSE NullVal)
    [] op = "or_word"  -> IF AsBool(l) THEN Answer(l) ELSE IF AsBool(r) THEN Answer(r) ELSE Kept

\* ++ and --: Int and Double store an Int, the others throw.
Step(op) == IF op \in {"pre_inc", "pos_inc"} THEN 1 ELSE -1
Counted(op, v) == IF v.t \in Numbers THEN IntVal(ToLong([v EXCEPT !.n = IF v.t = "Int" THEN v.n + Step(op)
                                                                       ELSE v.n + 4 * Step(op)]))
                  ELSE v
Count(op, v) ==
  IF v.t = "Null" THEN Fatal
  ELSE IF v.t \notin Numbers THEN Thrown
  ELSE IF ~Fits(Counted(op, v).n) THEN Stray
  ELSE Answer(IF op \in {"pre_inc", "pre_dec"} THEN Counted(op, v) ELSE v)

Operate(op, l, r) ==
  CASE op \in Comparisons  -> LogicOp(op, l, r)
    [] op \in ShortCircuit -> Circuit(op, l, r)
    [] op \in Counting     -> Count(op, l)
    [] OTHER               -> BinOp(op, l, r)

-------------------------------------------------------------------------------
(* Folding: an operation on two literals becomes a literal, one level deep.*)
Lit(n) == [node |-> "int", n |-> n]
Var(n) == [node |-> "var", n |-> n]
Node(op, l, r) == [node |-> "arith", op |-> op, l |-> l, r |-> r]
Undefined == [node |-> "undefined"]     \* the compiler itself strays

\* Fault: the operands are taken in the other order.
MutantTransform(e) ==
  IF e.node = "arith" /\ e.l.node = "int" /\ e.r.node = "int"
  THEN LET v == LongOp(e.op, e.r.n, e.l.n) IN IF v.how = "stray" THEN Undefined ELSE Lit(v.v.n)
  ELSE e

Transform(e) ==
  IF e.node = "arith" /\ e.l.node = "int" /\ e.r.node = "int"
  THEN LET v == LongOp(e.op, e.l.n, e.r.n) IN IF v.how = "stray" THEN Undefined ELSE Lit(v.v.n)
  ELSE e

\* Where the transformer gets to: statements of a block, the right-hand side of
\* an assignment and of a declaration; not into calls, conditions or functions.
Reached == {"statement", "assignment", "declaration"}
Fold(place, e) == IF place \in Reached THEN Transform(e) ELSE e

Run1(e) == IF e = Undefined THEN Stray ELSE Answer(IntVal(e.n))
RunTree(e) ==
  IF e.node # "arith" THEN Run1(e)
  ELSE LET Sub(x) == IF x.node # "arith" THEN Run1(x) ELSE LongOp(x.op, x.l.n, x.r.n)
       IN IF Sub(e.l).how = "stray" \/ Sub(e.r).how = "stray" THEN Stray
          ELSE LongOp(e.op, Sub(e.l).v.n, Sub(e.r).v.n)

=============================================================================
