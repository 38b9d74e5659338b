-------------------------------- MODULE Source --------------------------------
(***************************************************************************)
(* What a script means: an abstract machine that runs the syntax tree      *)
(* itself, knowing nothing of addresses, jumps and stacks of the virtual   *)
(* machine.  CodegenCheck compares the virtual machine running compiled    *)
(* code with it.                                                           *)
(*                                                                         *)
(* The state of the machine is what is left to do: a sequence of           *)
(* statements and marks, the innermost first.  The marks say where a loop  *)
(* goes on, where a switch, a call, a try block and a catch block end.     *)
(* What is visible of a script is which expression is computed, which way  *)
(* a condition goes, and what is thrown.                                   *)
(*                                                                         *)
(* A finally block runs after the try block or the catch block has come to *)
(* its end.  An exception thrown by a catch or a finally block goes to the *)
(* try statement around it (tests/lang/try_002.test, try_005.test).        *)
(***************************************************************************)
EXTENDS Codegen

Again(next)     == [kind |-> "again", next |-> next]
SwitchEnd       == [kind |-> "endswitch"]
CallEnd         == [kind |-> "endcall"]
TryEnd(cs, f)   == [kind |-> "endtry", catches |-> cs, fin |-> f]

\* A condition that has been computed: `yes' is done if it holds, else `no'.
Test(yes, no)   == [kind |-> "test", yes |-> yes, no |-> no]

\* The end of a script that nobody catches the exception of.
Uncaught        == [kind |-> "uncaught"]

Choose(k, yes, no) == <<EvalStmt(k), Test(yes, no)>>

\* What is left after the first mark of one of these kinds, and with it.
Position(todo, kinds) == SelectInSeq(todo, LAMBDA item : item.kind \in kinds)
After(todo, kinds)    ==
  IF Position(todo, kinds) = 0 THEN <<>> ELSE SubSeq(todo, Position(todo, kinds) + 1, Len(todo))
From(todo, kinds)     == SubSeq(todo, Position(todo, kinds), Len(todo))

\* The cases are tested in the order they are written in, the default is taken
\* when none matches, and a body is followed by the next one.
CaseBodies(cs, i) == FlattenSeq([j \in 1 .. Len(cs) - i + 1 |-> cs[i + j - 1].body]) \o <<SwitchEnd>>

RECURSIVE Cases(_, _)
Cases(cs, i) ==
  IF i > Len(cs)
  THEN LET d == SelectInSeq(cs, LAMBDA c : c.value = 0)
       IN IF d = 0 THEN <<SwitchEnd>> ELSE CaseBodies(cs, d)
  ELSE IF cs[i].value = 0
       THEN Cases(cs, i + 1)
       ELSE Choose(cs[i].value, CaseBodies(cs, i), Cases(cs, i + 1))

EachRound(s) ==
  LET round == [s EXCEPT !.kind = "each"]
  IN Choose(s.cond + 1,
            <<EvalStmt(s.cond + 2)>> \o s.body \o <<Again(<<EvalStmt(s.cond + 3), round>>)>>,
            <<>>)

ForRound(s) ==
  LET body == s.body \o <<Again((IF s.update = 0 THEN <<>> ELSE <<EvalStmt(s.update)>>) \o <<s>>)>>
  IN IF s.cond = 0 THEN body ELSE Choose(s.cond, body, <<>>)

\* An exception: the innermost try block that is being run gives it to its
\* catch blocks.
Thrown(todo) ==
  LET t == From(todo, {"endtry"})
  IN IF Position(todo, {"endtry"}) = 0
     THEN <<Uncaught>>
     ELSE FlattenSeq(Head(t).catches) \o Head(t).fin \o Tail(t)

\* What a statement that shows nothing of itself is replaced by.
Bodies(decls) == [h \in {decls[i].fn : i \in DOMAIN decls} |->
                    decls[CHOOSE i \in DOMAIN decls : decls[i].fn = h].body]

Called(decls, h, n) ==
  FlattenSeq([i \in 1 .. n |-> Bodies(decls)[h] \o <<CallEnd>>])

Unfold(decls, s, rest) ==
  CASE s.kind = "call"      -> Called(decls, s.fn, 1) \o rest
    [] s.kind = "native"    -> Called(decls, s.fn, s.n) \o rest
    [] s.kind = "return"    -> After(rest, {"endcall"})
    [] s.kind = "break"     -> After(rest, {"again", "endswitch"})
    [] s.kind = "continue"  -> From(rest, {"again"})
    [] s.kind = "critical"  -> s.body \o rest
    [] s.kind = "if"        -> Choose(s.cond, s.body, s.els) \o rest
    [] s.kind = "while"     -> Choose(s.cond, s.body \o <<Again(<<s>>)>>, <<>>) \o rest
    [] s.kind = "dowhile"   -> s.body \o <<Again(Choose(s.cond, <<s>>, <<>>))>> \o rest
    [] s.kind = "for"       -> ForRound(s) \o rest
    [] s.kind = "foreach"   -> <<EvalStmt(s.cond)>> \o EachRound(s) \o rest
    [] s.kind = "each"      -> EachRound(s) \o rest
    [] s.kind = "switch"    -> <<EvalStmt(s.cond)>> \o Cases(s.cases, 1) \o rest
    [] s.kind = "try"       -> s.body \o <<TryEnd(s.catches, s.fin)>> \o rest
    [] s.kind = "again"     -> s.next \o rest
    [] s.kind = "endtry"    -> s.fin \o rest
    [] s.kind \in {"endswitch", "endcall"} -> rest

Visible == {"eval", "test", "raise", "throw", "uncaught"}

Settled(todo) == todo # <<>> => Head(todo).kind \in Visible

Unfolded(script, todo) == Unfold(script.decls, Head(todo), Tail(todo))

\* The visible thing at the front has happened: the ways it can have gone.
Computed(todo)   == Tail(todo)
Decided(todo, v) == (IF v THEN Head(todo).yes ELSE Head(todo).no) \o Tail(todo)
Raised(todo)     == Thrown(Tail(todo))
===============================================================================
