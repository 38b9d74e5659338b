------------------------------- MODULE MCCodegen -------------------------------
(***************************************************************************)
(* Scripts to compile: every kind of statement inside every other one that *)
(* can hold it, with jumps out of the inner one.  Labels are distinct      *)
(* within a script, so that no expression is taken for another one.        *)
(***************************************************************************)
EXTENDS CodegenCheck

CONSTANTS f, g

TwoFuncs == {f, g}

\* A script whose functions are declared and not used.
Idle(h)    == Declare(h, 0, <<EvalStmt(90)>>)
Plainly(b) == Script(<<Idle(f), Idle(g)>>, b)

OnlyIf(k, b) == IfStmt(k, <<b>>, <<>>)

\* What may stand in the body of a loop whose jumps the code generator patches.
Bodies1(k) == { <<>>,
                <<EvalStmt(k), OnlyIf(k + 1, BreakStmt), EvalStmt(k + 2)>>,
                <<IfStmt(k, <<ContinueStmt>>, <<OnlyIf(k + 1, BreakStmt)>>), EvalStmt(k + 2)>> }

SwitchBodies(k) == { <<EvalStmt(k)>>, <<OnlyIf(k, BreakStmt), EvalStmt(k + 1)>> }

Switches(k) ==
  { SwitchStmt(k, <<Case(k + 1, b), Case(k + 2, c)>>) :
      b \in SwitchBodies(k + 5), c \in SwitchBodies(k + 7) }
  \cup
  { SwitchStmt(k, SubSeq(<<Case(k + 1, b)>>, 1, n) \o <<Case(0, <<EvalStmt(k + 7)>>)>> \o
                  SubSeq(<<Case(k + 2, <<>>)>>, 1, m)) :
      b \in SwitchBodies(k + 5), n \in 0 .. 1, m \in 0 .. 1 }

Loops1(k) ==
  UNION { { WhileStmt(k, b), ForStmt(k, k + 1, b), ForStmt(0, k + 1, b), ForStmt(k, 0, b) } :
          b \in Bodies1(k + 2) }
  \cup { DoWhileStmt(k, <<EvalStmt(k + 1)>>), ForEachStmt(k, <<EvalStmt(k + 5)>>) }

\* Statements in statements.  Nothing jumps out of a do-while or foreach loop,
\* and no continue stands in a switch: see the runs that do.
Inner(k) == Loops1(k) \cup Switches(k)

Outer(k, s) ==
  LET b == <<s, OnlyIf(k + 6, BreakStmt), EvalStmt(k + 7)>>
  IN { WhileStmt(k, b), ForStmt(k, k + 1, b),
       DoWhileStmt(k, <<s>>),
       ForEachStmt(k, <<s, EvalStmt(k + 5)>>),
       SwitchStmt(k, <<Case(k + 1, <<s>>), Case(0, b)>>),
       IfStmt(k, <<s>>, <<EvalStmt(k + 1)>>) }

\* A break statement after a foreach loop is taken for one of its own.
NestedScripts ==
  { Plainly(<<o, EvalStmt(99)>>) :
      o \in UNION { Outer(20, s) : s \in Inner(1) \ {s \in Inner(1) : s.kind = "foreach"} } }
  \cup
  { Plainly(<<DoWhileStmt(20, <<IfStmt(21, <<s>>, <<EvalStmt(22)>>)>>), EvalStmt(99)>>) :
      s \in {s \in Inner(1) : s.kind = "foreach"} }

(***************************************************************************)
(* Try statements, calls and callbacks.  What may raise in a function is   *)
(* in a try statement of that function, nothing jumps out of a try         *)
(* statement, and a finally block does not raise.                          *)
(***************************************************************************)
GBodies == { <<EvalStmt(50)>>,
             <<OnlyIf(50, ReturnStmt), EvalStmt(51)>>,
             <<WhileStmt(50, <<OnlyIf(51, ReturnStmt)>>)>>,
             <<TryStmt(<<RaiseStmt(50)>>, <<<<EvalStmt(51)>>>>, <<EvalStmt(52)>>)>> }

TryBlocks == { <<EvalStmt(1)>>,
               <<RaiseStmt(1), CallStmt(g, 0)>>,
               <<NativeStmt(g, 2), OnlyIf(1, ThrowStmt), EvalStmt(2)>>,
               <<WhileStmt(1, <<RaiseStmt(2), OnlyIf(3, BreakStmt)>>)>>,
               <<TryStmt(<<RaiseStmt(1)>>, <<<<OnlyIf(2, ThrowStmt)>>>>, <<EvalStmt(3)>>), ThrowStmt>> }

CatchBlocks == { <<>>, <<CallStmt(g, 0), EvalStmt(10)>>,
                 <<TryStmt(<<RaiseStmt(10)>>, <<<<EvalStmt(11)>>>>, <<>>), OnlyIf(12, ThrowStmt)>> }

FinallyBlocks == { <<>>, <<EvalStmt(15), CallStmt(g, 0)>> }

Tries == { TryStmt(b, <<c>>, e) : b \in TryBlocks, c \in CatchBlocks, e \in FinallyBlocks }

TryScripts ==
  { Script(<<Idle(f), Declare(g, 0, b)>>, <<s, RaiseStmt(98), EvalStmt(99)>>) : b \in GBodies, s \in Tries }
  \cup
  { Script(<<Idle(f), Declare(g, 0, <<EvalStmt(50)>>)>>,
           <<WhileStmt(30, <<s>>), EvalStmt(99)>>) :
    s \in Tries }
  \cup
  { Script(<<Declare(g, 0, <<ReturnStmt>>),
             Declare(f, 1, <<TryStmt(<<s>>, <<<<EvalStmt(60)>>>>, <<>>), EvalStmt(61)>>)>>,
           <<CallStmt(f, 1), OnlyIf(70, ReturnStmt), NativeStmt(f, 2), EvalStmt(99)>>) : s \in Tries }

PassingScripts == NestedScripts \cup TryScripts

CompiledScripts == {Compile(s) : s \in PassingScripts}

(***************************************************************************)
(* Jumps out of do-while loops.                                            *)
(***************************************************************************)
DoWhileScripts ==
  { Plainly(<<DoWhileStmt(1, <<EvalStmt(2), OnlyIf(3, BreakStmt)>> \o b), EvalStmt(99)>>) :
    b \in { <<>>, <<EvalStmt(4)>>, <<WhileStmt(4, <<OnlyIf(5, BreakStmt)>>)>> } }

CompiledDoWhiles == {Compile(s) : s \in DoWhileScripts}
===============================================================================
