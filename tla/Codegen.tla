-------------------------------- MODULE Codegen --------------------------------
(***************************************************************************)
(* The code generator of core/codegen.cc for the statements that move      *)
(* control, as a function from syntax trees to the instructions of IR.     *)
(*                                                                         *)
(* A builder record carries what Codegen and IRBuilder keep while they     *)
(* walk the tree: the instructions so far, the stacks m_brks and m_cont of *)
(* the jumps still to be patched, and, from the resolver, how many values  *)
(* each environment holds.                                                 *)
(***************************************************************************)
EXTENDS IR, SequencesExt

(***************************************************************************)
(* Syntax trees.  A block is a sequence of statements.  An expression is   *)
(* its label k: a number that says which one it is; 0 where a for loop has *)
(* no condition or no update and where a case is the default.  A foreach   *)
(* has four: the calls of begin and end, the comparison, get with its      *)
(* assignment and next with its assignment.                                *)
(***************************************************************************)
EvalStmt(k)         == [kind |-> "eval", label |-> k]
RaiseStmt(k)        == [kind |-> "raise", label |-> k]
ThrowStmt           == [kind |-> "throw"]
ReturnStmt          == [kind |-> "return"]
BreakStmt           == [kind |-> "break"]
ContinueStmt        == [kind |-> "continue"]
CallStmt(f, n)      == [kind |-> "call", fn |-> f, n |-> n]
NativeStmt(f, n)    == [kind |-> "native", fn |-> f, n |-> n]
SpawnStmt(f, n)     == [kind |-> "spawn", fn |-> f, n |-> n]
JoinStmt(n)         == [kind |-> "join", n |-> n]
CriticalStmt(b)     == [kind |-> "critical", body |-> b]
IfStmt(k, b, e)     == [kind |-> "if", cond |-> k, body |-> b, els |-> e]
WhileStmt(k, b)     == [kind |-> "while", cond |-> k, body |-> b]
DoWhileStmt(k, b)   == [kind |-> "dowhile", cond |-> k, body |-> b]
ForStmt(k, u, b)    == [kind |-> "for", cond |-> k, update |-> u, body |-> b]
ForEachStmt(k, b)   == [kind |-> "foreach", cond |-> k, body |-> b]
SwitchStmt(k, cs)   == [kind |-> "switch", cond |-> k, cases |-> cs]
Case(k, b)          == [value |-> k, body |-> b]
TryStmt(b, cs, f)   == [kind |-> "try", body |-> b, catches |-> cs, fin |-> f]

(* A script: the functions it declares and its top-level code. *)
Declare(f, n, b)    == [fn |-> f, params |-> n, body |-> b]
Script(ds, b)       == [decls |-> ds, body |-> b]

-------------------------------------------------------------------------------
(* IRBuilder. *)

\* getSize(): the address the next instruction gets.
Here(b) == Len(b.code) + 1

PushAll(b, is) == [b EXCEPT !.code  = @ \o is,
                            !.owner = @ \o [i \in DOMAIN is |-> b.cur]]
Push(b, i)     == PushAll(b, <<i>>)

\* getAt(a).op1 (or op2) = Operand(JMP_ADDR, to) for every a in `as'.
Patch(b, as, to) ==
  [b EXCEPT !.code = [a \in DOMAIN b.code |->
                        IF a \in as THEN [b.code[a] EXCEPT !.to = to] ELSE b.code[a]]]

PatchHere(b, as) == Patch(b, as, Here(b))

\* The code of an expression without control flow, which may be absent.
Evals(k) == IF k = 0 THEN <<>> ELSE <<Compute("EVAL", k)>>

\* A condition and the conditional jump, whose address is patched later.
PushTest(b, k) == PushAll(b, <<Compute("EVAL", k), Plain("JMPZ")>>)

\* sendArgs, then the call.
PushCall(b, op, s, k) == PushAll(b, [i \in 1 .. k |-> Plain("SEND")] \o
                                    <<Invoke(op, s.fn, s.n)>>)

\* m_cont.push(), m_brks.push() with the start of the loop as first element.
OpenLoop(b, start) == [b EXCEPT !.cont = Append(@, <<>>), !.brks = Append(@, <<start>>)]
CloseLoop(b)       == [b EXCEPT !.cont = Front(@), !.brks = Front(@)]

\* The first element of m_brks.top() is the start of the loop: patching it
\* writes a jmp_addr nothing reads, so only the break statements matter.  They
\* go to getSize() + n.
PatchBreaks(b, n)  == Patch(b, ToSet(Tail(Last(b.brks))), Here(b) + n)
PatchContinues(b)  == PatchHere(b, ToSet(Last(b.cont)))

-------------------------------------------------------------------------------
RECURSIVE Emit(_, _)

EmitBlock(b, stmts) == FoldLeft(Emit, b, stmts)

EmitBreak(b) ==
  Push([b EXCEPT !.brks = Append(Front(@), Append(Last(@), Here(b)))], JumpTo("JMP", 1))

\* The wrong variant: m_cont.top().front() for m_brks.top().front().
MutantContinueOnItself(b) ==
  LET cont == Append(Last(b.cont), Here(b))
  IN Push([b EXCEPT !.cont = Append(Front(@), cont)], JumpTo("JMP", Head(cont)))

EmitContinue(b) ==
  Push([b EXCEPT !.cont = Append(Front(@), Append(Last(@), Here(b)))],
       JumpTo("JMP", Head(Last(b.brks))))

EmitCritical(b, s) ==
  LET inner == EmitBlock(Push(b, Plain("LOCK")), s.body)
      whole == Push(inner, Plain("UNLOCK"))
  IN [whole EXCEPT !.crit = @ \cup (Here(b) + 1) .. Here(inner)]

EmitIf(b, s) ==
  LET test == Here(b) + 1
      then == EmitBlock(PushTest(b, s.cond), s.body)
      past == PatchHere(Push(then, Plain("JMP")), {test})
  IN PatchHere(EmitBlock(past, s.els), {Here(then)})

\* The wrong variant: the break statements are patched as in a for loop, where
\* the closing JMP has been pushed already.
MutantWhileBreakShort(b, s) ==
  LET start == Here(b)
      body  == EmitBlock(OpenLoop(PushTest(b, s.cond), start), s.body)
      loop  == Push(CloseLoop(PatchBreaks(body, 0)), JumpTo("JMP", start))
  IN PatchHere(loop, {start + 1})

EmitWhile(b, s) ==
  LET start == Here(b)
      body  == EmitBlock(OpenLoop(PushTest(b, s.cond), start), s.body)
      loop  == Push(CloseLoop(PatchBreaks(body, 1)), JumpTo("JMP", start))
  IN PatchHere(loop, {start + 1})

\* The break statements are patched as in a while loop, where one JMP follows.
EmitDoWhile(b, s) ==
  LET start == Here(b)
      body  == EmitBlock(OpenLoop(b, start), s.body)
      again == CloseLoop(PatchBreaks(body, 1))
  IN PushAll(again, <<Compute("EVAL", s.cond), JumpTo("JMPNZ", start)>>)

EmitFor(b, s) ==
  LET start == Here(b)
      test  == IF s.cond = 0 THEN b ELSE PushTest(b, s.cond)
      body  == EmitBlock(OpenLoop(test, start), s.body)
      again == PushAll(PatchContinues(body),
                       Evals(s.update) \o <<JumpTo("JMP", start)>>)
      exit  == IF s.cond = 0 THEN again ELSE PatchHere(again, {start + 1})
  IN CloseLoop(PatchBreaks(exit, 0))

\* This visitor opens a loop and neither patches its jumps nor closes it.
EmitForEach(b, s) ==
  LET init  == Push(b, Compute("EVAL", s.cond))
      start == Here(init)
      test  == OpenLoop(PushTest(init, s.cond + 1), start)
      body  == EmitBlock(Push(test, Compute("EVAL", s.cond + 2)), s.body)
      loop  == PushAll(body, Evals(s.cond + 3) \o <<JumpTo("JMP", start)>>)
  IN PatchHere(loop, {start + 1})

(***************************************************************************)
(* The cases in order: test, body, JMP.  w carries last_jmp, last_jmpz and *)
(* default_addr beside the builder, 0 where the code has NULL or 0.        *)
(***************************************************************************)
EmitCase(w, c) ==
  LET test == PushTest(w.b, c.value)
      body == EmitBlock(PatchHere(test, {w.jmp}), c.body)
  IN [w EXCEPT !.b = PatchHere(Push(body, Plain("JMP")), {Here(w.b) + 1}),
               !.jmp = Here(body), !.jmpz = Here(w.b) + 1]

EmitDefault(w, c) ==
  LET over == Push(w.b, Plain("JMP"))
      body == EmitBlock(PatchHere(over, {w.jmp}), c.body)
  IN [w EXCEPT !.b = PatchHere(Push(body, Plain("JMP")), {Here(w.b)}),
               !.jmp = Here(body), !.default = Here(over)]

\* After the last case: its JMP and the break statements leave the switch, a
\* test that fails last goes to the default.
CloseSwitch(w) ==
  LET done == PatchHere(w.b, {w.jmp} \cup ToSet(Last(w.b.brks)))
      miss == IF w.default = 0 THEN done ELSE Patch(done, {w.jmpz}, w.default)
  IN [miss EXCEPT !.brks = Front(@)]

\* A switch statement opens m_brks and not m_cont.
EmitSwitch(b, s) ==
  LET first == [b |-> [Push(b, Compute("EVAL", s.cond)) EXCEPT !.brks = Append(@, <<>>)],
                jmp |-> 0, jmpz |-> 0, default |-> 0]
      EmitArm(w, c) == CASE c.value # 0 -> EmitCase(w, c)
                       [] Len(s.cases) = 1 -> [w EXCEPT !.b = EmitBlock(w.b, c.body)]
                       [] OTHER -> EmitDefault(w, c)
  IN CloseSwitch(FoldLeft(EmitArm, first, s.cases))

\* The resolver gives a catch variable the next place in the environment of
\* the body it is in; blocks have no environment of their own.
EmitCatch(b, block) ==
  EmitBlock([Push(b, CatchInto(b.vals[b.cur])) EXCEPT !.vals[b.cur] = @ + 1], block)

EmitTry(b, s) ==
  LET body    == EmitBlock(Push(b, Plain("TRY")), s.body)
      past    == Push(body, Plain("JMP"))
      catches == FoldLeft(EmitCatch, PatchHere(past, {Here(b)}), s.catches)
      final   == EmitBlock(PatchHere(catches, {Here(body)}), s.fin)
  IN Push(final, Plain("ETRY"))

\* Codegen::visit, by the kind of the node.
Emit(b, s) ==
  CASE s.kind = "eval"     -> Push(b, Compute("EVAL", s.label))
    [] s.kind = "raise"    -> Push(b, Compute("RAISE", s.label))
    [] s.kind = "throw"    -> Push(b, Plain("THROW"))
    [] s.kind = "return"   -> Push(b, Plain("RET"))
    [] s.kind = "call"     -> PushCall(b, "CALL", s, s.n)
    [] s.kind = "native"   -> PushCall(b, "NATIVE", s, 1)
    [] s.kind = "spawn"    -> PushCall(b, "SPAWN", s, 0)
    [] s.kind = "join"     -> Push(b, Invoke("JOIN", Global, s.n))
    [] s.kind = "break"    -> EmitBreak(b)
    [] s.kind = "continue" -> EmitContinue(b)
    [] s.kind = "critical" -> EmitCritical(b, s)
    [] s.kind = "if"       -> EmitIf(b, s)
    [] s.kind = "while"    -> EmitWhile(b, s)
    [] s.kind = "dowhile"  -> EmitDoWhile(b, s)
    [] s.kind = "for"      -> EmitFor(b, s)
    [] s.kind = "foreach"  -> EmitForEach(b, s)
    [] s.kind = "switch"   -> EmitSwitch(b, s)
    [] s.kind = "try"      -> EmitTry(b, s)

\* A declaration: jump over the body; the parameters are its first values.
EmitDecl(b, d) ==
  LET entry == Here(b) + 1
      open  == [Push(b, Plain("JMP")) EXCEPT !.cur = d.fn,
                  !.entry[d.fn] = entry, !.params[d.fn] = d.params, !.vals[d.fn] = d.params]
      body  == Push(EmitBlock(open, d.body), Plain("LEAVE"))
  IN [PatchHere(body, {Here(b)}) EXCEPT !.cur = b.cur]

\* An IRBuilder over a global environment that holds the functions' values.
NewBuilder(k) ==
  [ code |-> <<>>, owner |-> <<>>, brks |-> <<>>, cont |-> <<>>, crit |-> {},
    cur |-> Global,
    entry  |-> [f \in Func |-> 0],
    params |-> [f \in Func |-> 0],
    vals   |-> [o \in Owner |-> IF o = Global THEN k ELSE 0] ]

\* What the VM gets of a builder: getIR() and the values of the functions.
Built(b) == [ code |-> b.code, owner |-> b.owner, entry |-> b.entry, params |-> b.params,
              vals |-> b.vals, crit |-> b.crit ]

\* Compiler::genCode: the tree, then OP_HALT.
Compile(script) ==
  LET functions == FoldLeft(EmitDecl, NewBuilder(Len(script.decls)), script.decls)
  IN Built(Push(EmitBlock(functions, script.body), Plain("HALT")))
===============================================================================
