------------------------------- MODULE Answers -------------------------------
(***************************************************************************)
(* One instruction of a script, executed again and again, as in a loop:    *)
(* an operator, a method of a string, a call of a native, a request of a   *)
(* web server that is taken apart, or a statement that was folded.  Its    *)
(* result goes to a temporary of the activation, which stays what it was   *)
(* where the code does not set it (core/environment.cc; the slot is made   *)
(* once).                                                                  *)
(***************************************************************************)
EXTENDS Requests, Natives

CONSTANTS
  Sites,               \* the instructions
  OperandsOf(_, _),    \* the operands tried at a site in a round
  Rounds               \* bound on the executions of a site

VARIABLES
  site,     \* the instruction
  asked,    \* its operands, this time
  slot,     \* the temporary for its result
  after,    \* the variable or the text it works on, when it has worked
  how,      \* how the execution ended
  round     \* how many there were

vars == <<site, asked, slot, after, how, round>>

Init ==
  /\ site \in Sites
  /\ asked = <<>>
  /\ slot = NullVal
  /\ after = NullVal
  /\ how = "new"
  /\ round = 0

Goes == how \notin {"fatal", "stray"} /\ round < Rounds

\* The result is set, or stays; an exception or an end leaves it too.
Gives(outcome) ==
  /\ slot' = IF outcome.how = "answer" THEN outcome.v ELSE slot
  /\ how' = IF outcome.how \in {"answer", "kept"} THEN "answered" ELSE outcome.how
  /\ round' = round + 1
  /\ UNCHANGED site

EvalOperator ==
  /\ site.kind = "operator" /\ Goes
  /\ \E x \in OperandsOf(site, round) :
       /\ asked' = x
       /\ Gives(Operate(site.name, x.l, x.r))
       /\ after' = IF site.name \in Counting THEN Counted(site.name, x.l) ELSE x.l

CallMethod ==
  /\ site.kind = "method" /\ Goes
  /\ \E x \in OperandsOf(site, round) :
       /\ asked' = x
       /\ Gives(StringMethod(site.name, x.s, x.args))
       /\ after' = StrVal(TextAfter(site.name, x.s, x.args))

\* The answer of a native is known by the round it was given in.
Fresh == Val("Fresh", round + 1, <<>>)
CallNative ==
  /\ site.kind = "native" /\ Goes
  /\ \E x \in OperandsOf(site, round) :
       /\ asked' = x
       /\ \E o \in Outcomes(site.native, x) : Gives(IF o = "answer" THEN Answer(Fresh) ELSE Ends(o))
       /\ UNCHANGED after

TakeRequest ==
  /\ site.kind = "request" /\ Goes
  /\ \E x \in OperandsOf(site, round) :
       /\ asked' = x
       /\ Gives(Accepted(site.name, x))
       /\ UNCHANGED after

RunFolded ==
  /\ site.kind = "folded" /\ Goes
  /\ \E x \in OperandsOf(site, round) :
       /\ asked' = x
       /\ Gives(RunTree(Fold(site.name, x)))
       /\ UNCHANGED after

Next == EvalOperator \/ CallMethod \/ CallNative \/ TakeRequest \/ RunFolded

Spec == Init /\ [][Next]_vars

-------------------------------------------------------------------------------
(* What an operator's answer means.                                        *)
Congruent(a, b) == (a - b) % (2 ^ Width) = 0
Exactly(op, a, b) == CASE op = "add" -> a + b [] op = "sub" -> a - b [] op = "mul" -> a * b

LongLaw(op, a, b, n) ==
  CASE op \in {"add", "sub", "mul"} -> n = Exactly(op, a, b)
    [] op = "div" -> Magnitude(a - n * b) < Magnitude(b) /\ (a - n * b) * a >= 0
    [] op = "mod" -> (a - n) % Magnitude(b) = 0 /\ Magnitude(n) < Magnitude(b) /\ n * a >= 0

BitLaw(op, a, b, n) ==
  CASE op = "bw_ls" -> Congruent(n, a * 2 ^ b)
    [] op = "bw_rs" -> n * 2 ^ b <= a /\ a < (n + 1) * 2 ^ b
    [] OTHER -> \A i \in 0 .. Width - 1 :
                  (BitOf(n, i) = 1) = CASE op = "bw_and" -> BitOf(a, i) = 1 /\ BitOf(b, i) = 1
                                        [] op = "bw_or"  -> BitOf(a, i) = 1 \/ BitOf(b, i) = 1
                                        [] op = "bw_xor" -> BitOf(a, i) # BitOf(b, i)

ArithmeticLaw(op, l, r, v) ==
  CASE "String" \in {l.t, r.t} /\ op = "add" -> v = StrVal(Text(l) \o Text(r))
    [] l.t = "String" -> /\ Len(v.s) = Len(l.s) * IF r.n > 0 THEN r.n ELSE 0
                         /\ \A i \in DOMAIN v.s : v.s[i] = IF i <= Len(l.s) THEN l.s[i] ELSE v.s[i - Len(l.s)]
    [] l.t = "Int" /\ r.t = "Int" -> v.t = "Int" /\ LongLaw(op, l.n, r.n, v.n)
    [] op \in {"add", "sub"} -> v = DblVal(Exactly(op, Quarters(l), Quarters(r)))
    [] op = "mul"     -> v.t = "Double" /\ 4 * v.n = Quarters(l) * Quarters(r)
    [] OTHER          -> v.t = "Double"

\* The two operands are the same, or in order, for a reader of the script.
Order(l, r) ==
  CASE l.t \in Numbers /\ r.t \in Numbers -> Quarters(l) - Quarters(r)
    [] l.t = "String" /\ r.t = "String"   -> StrOrder(l.s, r.s)
    [] l.t = r.t                          -> l.n - r.n
    [] OTHER                              -> 1
Meant(op, l, r) ==
  IF "Null" \in {l.t, r.t} THEN CASE op = "equal" -> l.t = r.t [] op = "not_equal" -> l.t # r.t [] OTHER -> FALSE
  ELSE Holds(op, Order(l, r))

OperatorLaw(op, l, r, v) ==
  CASE op \in Comparisons -> AsBool(v) = Meant(op, l, r)
    [] op = "not_op"      -> AsBool(v) = ~AsBool(l)
    [] op = "bw_not"      -> v.n + l.n = -1
    [] op \in Bitwise     -> v.t = "Int" /\ BitLaw(op, l.n, ToLong(r), v.n)
    [] op \in {"and_then", "and_word"} -> AsBool(v) = (AsBool(l) /\ AsBool(r))
    [] op \in {"or_else", "or_word"}   -> AsBool(v) = (AsBool(l) \/ AsBool(r))
    [] op \in Counting    -> /\ after.n = l.n + Step(op)
                             /\ v = IF op \in {"pre_inc", "pre_dec"} THEN after ELSE l
    [] OTHER              -> ArithmeticLaw(op, l, r, v)

\* The pairs of types that an operator is written for.
Paired(op, l, r) ==
  CASE op \in Unary \cup ShortCircuit \cup Counting -> TRUE
    [] l.t \in Numbers -> r.t \in Numbers \cup {"Null"} \cup IF op = "add" THEN {"String"} ELSE {}
    [] l.t = "String"  -> r.t \in CASE op = "add" -> Numbers \cup {"String", "Null"}
                                     [] op = "mul" -> {"Int", "Null"}
                                     [] OTHER      -> {"String", "Null"}
    [] l.t = "Bool"    -> r.t \in {"Bool", "Null"}
    [] OTHER           -> TRUE

\* What is known not to be meant: see the README.
OperatorGap(op, l, r) ==
  \/ ~Paired(op, l, r)
  \/ op \in Comparisons /\ l.t = "Int" /\ r.t = "Double"
  \/ op = "or_word" /\ ~AsBool(l) /\ ~AsBool(r)
  \/ op \in Counting /\ l.t = "Double"

-------------------------------------------------------------------------------
(* What a method's answer means, mostly by putting the text together again.*)
Pieces(v) == v.parts
Occurs(s, d) == \E p \in 0 .. Len(s) : At(s, p, d)
RECURSIVE Joined(_, _)
Joined(list, d) ==
  CASE list = <<>> -> <<>> [] Len(list) = 1 -> list[1] [] OTHER -> list[1] \o d \o Joined(Tail(list), d)

SplitLaw(s, args, list) ==
  LET d == args[1].s
      most == IF Len(args) = 2 /\ args[2].n > 0 THEN args[2].n ELSE Len(s)
  IN /\ Joined(list, d) = s
     /\ s # <<>> => Len(list) \in 1 .. most + 1
     /\ d # <<>> => \A i \in DOMAIN list : Occurs(list[i], d) => i = most + 1

\* k is the first position, not before pos, at which P holds, or none is and k is -1.
IsFirst(k, pos, n, P(_)) ==
  IF k = -1 THEN pos < 0 \/ \A p \in pos .. n : ~P(p)
  ELSE k >= pos /\ pos >= 0 /\ P(k) /\ \A p \in pos .. k - 1 : ~P(p)

FindLaw(s, args, k) ==
  LET count == Or(args, 3, Len(args[1].s))
  IN IsFirst(k, Or(args, 2, 0), Len(s),
             LAMBDA p : /\ count \in 0 .. Len(args[1].s)
                        /\ p + count <= Len(s)
                        /\ \A i \in 1 .. count : s[p + i] = args[1].s[i])

TrimLaw(m, s, t) ==
  \E i, j \in 0 .. Len(s) :
    /\ i <= j /\ t = SubSeq(s, i + 1, j)
    /\ \A k \in DOMAIN s : (k <= i \/ k > j) => s[k] = Blank
    /\ (m \in {"ltrim", "trim"} /\ t # <<>>) => t[1] # Blank
    /\ (m \in {"rtrim", "trim"} /\ t # <<>>) => t[Len(t)] # Blank
    /\ m = "ltrim" => j = Len(s)
    /\ m = "rtrim" => i = 0

ReplaceLaw(s, needle, by, t) ==
  IF ~Occurs(s, needle) THEN t = s
  ELSE \E p \in 0 .. Len(s) :
         /\ At(s, p, needle) /\ \A q \in 0 .. p - 1 : ~At(s, q, needle)
         /\ SubSeq(t, 1, p) = SubSeq(s, 1, p)
         /\ SubSeq(t, p + 1, Len(t)) = by \o SubSeq(s, p + Len(needle) + 1, Len(s))

SetLaw(s, pos, str, t) ==
  /\ Len(t) = Len(s)
  /\ \A i \in DOMAIN s : t[i] = LET j == i - pos IN IF pos >= 0 /\ j \in DOMAIN str THEN str[j] ELSE s[i]

MethodLaw(m, s, args, v) ==
  /\ m # "setChar" => after.s = s
  /\ CASE m = "subString"  -> LET n == Or(args, 2, Len(s))
                              IN /\ At(s, args[1].n, v.s)
                                 /\ \/ Len(v.s) = n
                                    \/ args[1].n + Len(v.s) = Len(s) /\ (n < 0 \/ n > Len(v.s))
       [] m = "find"       -> FindLaw(s, args, v.n)
       [] m = "findFirst"  -> IsFirst(v.n, Or(args, 2, 0), Len(s), LAMBDA p : At(s, p, Needle(args).text))
       [] m = "findLast"   -> v.n = -1 \/ At(s, v.n, Needle(args).text)
       [] m \in {"trim", "ltrim", "rtrim"} -> TrimLaw(m, s, v.s)
       [] m = "startsWith" -> (v.n = 1) = At(s, 0, args[1].s)
       [] m = "endsWith"   -> (v.n = 1) = \E p \in 0 .. Len(s) : s = SubSeq(s, 1, p) \o args[1].s
       [] m = "setChar"    -> SetLaw(s, args[1].n, args[2].s, after.s)
       [] m = "charAt"     -> v = IF args[1].n < Len(s) THEN AtOp(s, args[1].n).v ELSE NullVal
       [] m = "at_op"      -> v = SubString(s, <<args[1], IntVal(1)>>).v
       [] m = "split"      -> SplitLaw(s, args, Pieces(v))
       [] m = "replace"    -> ReplaceLaw(s, args[1].s, args[2].s, v.s)
       [] m = "toUpper"    -> Len(v.s) = Len(s) /\ \A i \in DOMAIN s : ~IsLower(v.s[i]) /\ ToLower(v.s)[i] = ToLower(s)[i]
       [] m = "toLower"    -> Len(v.s) = Len(s) /\ \A i \in DOMAIN s : ~IsUpper(v.s[i]) /\ ToUpper(v.s)[i] = ToUpper(s)[i]
       [] OTHER            -> v.n = Len(s)

\* findFirst and findLast look for any character of the needle; endsWith also
\* answers 1 where the text is one shorter than what it should end with.
MethodGap(m, s, args) ==
  \/ m \in {"findFirst", "findLast"} /\ (Len(args[1].s) # 1 \/ Needle(args).count # 1)
  \/ m = "endsWith" /\ Len(args[1].s) = Len(s) + 1

-------------------------------------------------------------------------------
(* What a query string or a cookie header says: pieces between separators, *)
(* each a name, a `=' and a value, of which the first of a name counts.    *)
PiecesOf(v, sep) == {r \in (1 .. Len(v)) \X (1 .. Len(v)) :
  /\ r[1] <= r[2] /\ \A i \in r[1] .. r[2] : v[i] # sep
  /\ r[1] = 1 \/ v[r[1] - 1] = sep
  /\ r[2] = Len(v) \/ v[r[2] + 1] = sep}
Equals(v, r) == {i \in r[1] .. r[2] : v[i] = Eq}
Sign(v, r) == CHOOSE i \in Equals(v, r) : \A j \in Equals(v, r) : i <= j
NameOf(v, r) == SubSeq(v, r[1], Sign(v, r) - 1)
Named(v, sep) == {r \in PiecesOf(v, sep) : Equals(v, r) # {}}
Says(v, sep) ==
  {<<NameOf(v, r), SubSeq(v, Sign(v, r) + 1, r[2])>> :
     r \in {r \in Named(v, sep) : \A q \in Named(v, sep) : q[1] < r[1] => NameOf(v, q) # NameOf(v, r)}}

\* A query is taken apart well up to two pieces, all of them named, the first at
\* its beginning; a cookie has no second `=', is not repeated, and is not empty.
RequestGap(field, v) ==
  LET sep == IF field = "query" THEN Amp ELSE Sep
  IN IF field = "query"
     THEN \/ Cardinality({i \in DOMAIN v : v[i] = Amp}) > 1 \/ (v # <<>> /\ v[1] = Amp)
          \/ \E r \in PiecesOf(v, sep) : Equals(v, r) = {} \/ Sign(v, r) = r[1]
     ELSE \E r \in PiecesOf(v, sep) : Equals(v, r) # {} /\ (Cardinality(Equals(v, r)) > 1 \/ Sign(v, r) \in {r[1], r[2]})
RequestLaw(field, v, map) == map = Says(v, IF field = "query" THEN Amp ELSE Sep)

-------------------------------------------------------------------------------
\* Natives that answer only sometimes.
NativeGap(native, args) ==
  \/ native.fills = Never
  \/ native.module = "UString" /\ native.name \in {"startsWith", "endsWith", "indexOf", "lastIndexOf"}
     /\ Len(args) \notin {1, 3} \cup IF native.name \in {"indexOf", "lastIndexOf"} THEN {2} ELSE {}
  \/ native.module \in {"Reflect", "FFI", "FFIStruct", "Server", "Array"} /\ "kept" \in native.may

(* Every answer is that of its own operands: none is left over from an     *)
(* earlier round, and each is what the operation means, whatever types the *)
(* operands have, except in the gaps above (the operators and methods of   *)
(* int.cc, double.cc, bool.cc, str.cc; Server::accept; all natives).       *)
AnswersFit ==
  how = "answered" =>
    CASE site.kind = "operator" ->
           OperatorGap(site.name, asked.l, asked.r) \/ OperatorLaw(site.name, asked.l, asked.r, slot)
      [] site.kind = "method" ->
           MethodGap(site.name, asked.s, asked.args) \/ MethodLaw(site.name, asked.s, asked.args, slot)
      [] site.kind = "native" ->
           NativeGap(site.native, asked) \/ slot.n = round
      [] site.kind = "request" ->
           RequestGap(site.name, asked) \/ RequestLaw(site.name, asked, slot.parts)
      [] OTHER -> TRUE

\* The calls whose arguments are not checked far enough, by module and name.
Unchecked ==
  {<<"io", "printf">>, <<"FFI", "exec">>, <<"FFI", "call">>, <<"FFI", "callThisFunction">>,
   <<"FFIStruct", "setMember">>, <<"FFITypes", "addFunction">>, <<"NCurses", "new">>,
   <<"Map", "insert">>, <<"Condition", "wait">>}

OperatorRisk(op, l, r) ==
  \/ op \in {"div", "mod"} /\ l.t = "Int" /\ r.t = "Int" /\ (r.n = 0 \/ (l.n = -Limit /\ r.n = -1))
  \/ op \in {"add", "sub", "mul"} /\ l.t = "Int" /\ r.t = "Int" /\ ~Fits(Exactly(op, l.n, r.n))
  \/ op \in Counting /\ ~Fits(ToLong(l) + Step(op))
  \/ op \in {"bw_ls", "bw_rs"} /\ ToLong(r) \notin 0 .. Width - 1
  \/ op \in Bitwise /\ ~Fits(ToLong(r))

MethodRisk(m, s, args) ==
  \/ m = "subString" /\ args[1].n \notin 0 .. Len(s)
  \/ m \in {"find", "findFirst", "findLast"} /\ Len(args) = 3 /\ args[3].n \notin 0 .. Len(args[1].s) + 1
  \/ m = "at_op" /\ args[1].n = Len(s)

(* What check_args lets through is enough for the body behind it: no native*)
(* takes an argument that is not there or is of another type, and no       *)
(* operator or method does what C++ leaves undefined, but those listed.    *)
ArgumentsSuffice ==
  how = "stray" =>
    CASE site.kind = "operator" -> OperatorRisk(site.name, asked.l, asked.r)
      [] site.kind = "method"   -> MethodRisk(site.name, asked.s, asked.args)
      [] site.kind = "native"   -> <<site.native.module, site.native.name>> \in Unchecked
      [] OTHER                  -> TRUE

(* A statement means after the optimizer what it meant before: the same    *)
(* value, and what is undefined, a division by zero or a result that is no *)
(* long, is so only where it was written (core/evaluator.cc against        *)
(* IntType's operators).                                                   *)
FoldsAsRun ==
  site.kind = "folded" /\ round > 0 =>
    LET plain == RunTree(asked)
    IN IF plain.how = "stray" THEN how = "stray" ELSE how = "answered" /\ slot = plain.v

=============================================================================
