------------------------------- MODULE VMProofs -------------------------------
(***************************************************************************)
(* Proofs about the virtual machine, for every well-formed script and      *)
(* every number of threads: addresses and stacks keep their types, the     *)
(* mutex of every VM excludes, and the stacks stay in step with the code.  *)
(***************************************************************************)
EXTENDS VMProperties, Discipline, TLAPS

LEMMA StackFacts ==
  ASSUME NEW S, NEW s \in Seq(S), s # <<>>
  PROVE  /\ Len(s) \in Nat \ {0}
         /\ Last(s) = s[Len(s)]
         /\ Last(s) \in S
         /\ Front(s) \in Seq(S)
         /\ Len(Front(s)) = Len(s) - 1
         /\ \A i \in 1 .. Len(s) - 1 : Front(s)[i] = s[i]
<1>1. Len(s) \in Nat \ {0}
  OBVIOUS
<1>2. Last(s) = s[Len(s)] /\ Last(s) \in S
  BY <1>1 DEF Last
<1>3. Front(s) = [i \in 1 .. Len(s) - 1 |-> s[i]]
  BY <1>1 DEF Front
<1>4. Front(s) \in Seq(S) /\ Len(Front(s)) = Len(s) - 1
  BY <1>1, <1>3
<1>5. QED
  BY <1>1, <1>2, <1>3, <1>4

\* What WellFormed gives about the instruction at an address.
LEMMA CodeFacts ==
  ASSUME NEW p \in Programs
  PROVE  /\ Len(p.code) \in Addr(p)
         /\ 1 \in Addr(p)
         /\ \A f \in Func : p.entry[f] \in Addr(p)
         /\ \A a \in Addr(p) :
              /\ a \in Nat
              /\ p.code[a] \in Instr
              /\ p.code[a].op \notin NoReturn => a + 1 \in Addr(p)
              /\ p.code[a].op \in Jumps \cup {"TRY"} => p.code[a].to \in Addr(p)
              /\ p.code[a].op \in Invoking => p.code[a].fn \in Func
<1>1. WellFormed(p)
  BY ProgramsAssumption
<1>2. p.code \in Seq(Instr) /\ Len(p.code) \in Nat \ {0}
  BY <1>1 DEF WellFormed, Program, FallsThroughInside
<1>3. \A a \in Addr(p) : a \in Nat /\ p.code[a] \in Instr
  BY <1>2 DEF Addr
<1>4. QED
  BY <1>1, <1>2, <1>3 DEF WellFormed, FallsThroughInside, JumpsStayInside, CallsEnterBodies, Addr

-------------------------------------------------------------------------------
ProgramOK == prog \in Programs

StackOK(t) ==
  /\ phase[t] \in {"exec", "bind", "return"} => frames[t] # <<>>
  /\ phase[t] = "return" => natives[t] # <<>> /\ pc[t] = Last(natives[t]).saved
  /\ phase[t] = "bind" => Ins(t).op = "CALL"
  /\ \A i \in DOMAIN natives[t] : prog.code[natives[t][i].saved].op = "NATIVE"

StacksOK == \A t \in Vm : StackOK(t)

TypeInv == ProgramOK /\ TypeOK /\ StacksOK

LEMMA TypeInit == Init => TypeInv
<1> SUFFICES ASSUME Init PROVE TypeInv
  OBVIOUS
<1>1. ProgramOK
  BY DEF Init, Start, ProgramOK
<1>2. 1 \in Addr(prog)
  BY <1>1, CodeFacts DEF ProgramOK
<1>3. TypeOK
  BY <1>2 DEF Init, Start, TypeOK, Phase, Final
<1>4. StacksOK
  BY DEF Init, Start, StacksOK, StackOK
<1>5. QED
  BY <1>1, <1>3, <1>4 DEF TypeInv

LEMMA TypeNext == TypeInv /\ [Next]_vars => TypeInv'
<1> SUFFICES ASSUME TypeInv, [Next]_vars PROVE TypeInv'
  OBVIOUS
<1> USE DEF TypeInv
<1>p. prog \in Programs
  BY DEF ProgramOK
<1>c. /\ Halt \in Addr(prog)
      /\ 1 \in Addr(prog)
      /\ \A f \in Func : prog.entry[f] \in Addr(prog) /\ f \in Owner
      /\ Global \in Owner
  BY <1>p, CodeFacts DEF Halt, Owner
<1>i. ASSUME NEW t \in Vm
      PROVE  /\ Ins(t) \in Instr
             /\ pc[t] \in Nat
             /\ Ins(t).op \notin NoReturn => pc[t] + 1 \in Addr(prog)
             /\ Ins(t).op \in Jumps \cup {"TRY"} => Ins(t).to \in Addr(prog)
             /\ Ins(t).op \in Invoking => Ins(t).fn \in Func
  BY <1>p, CodeFacts DEF TypeOK, Ins
<1>n. prog' = prog => /\ Addr(prog)' = Addr(prog)
                      /\ Frames' = Frames
                      /\ Handlers' = Handlers
                      /\ NestedRuns' = NestedRuns
  BY DEF Addr, Frames, Handlers, NestedRuns
<1>f. /\ \A h \in Owner, a \in Addr(prog) : Frame(h, a) \in Frames
      /\ \A x \in Frames : x.ret \in Addr(prog) /\ x.fn \in Owner
  BY DEF Frame, Frames
<1>s. ASSUME NEW t \in Vm
      PROVE  /\ phase[t] \in Phase
             /\ pc[t] \in Addr(prog)
             /\ frames[t] \in Seq(Frames)
             /\ tries[t] \in Seq(Handlers)
             /\ natives[t] \in Seq(NestedRuns)
  BY DEF TypeOK
<1>k. ASSUME NEW u \in Vm, prog' = prog, phase'[u] = phase[u], pc'[u] = pc[u],
             frames'[u] = frames[u], natives'[u] = natives[u]
      PROVE  StackOK(u)'
  BY <1>k DEF StacksOK, StackOK, Ins
<1>1. ASSUME NEW t \in Vm, RunEntry(t) PROVE TypeInv'
  <2>1. TypeOK'
    BY <1>1, <1>n, <1>c, <1>f, <1>s DEF RunEntry, Enter, TypeOK, Phase
  <2>2. StackOK(t)'
    BY <1>1, <1>s DEF RunEntry, Enter, StacksOK, StackOK, TypeOK
  <2>3. QED
    BY <1>1, <1>k, <2>1, <2>2 DEF RunEntry, Enter, ProgramOK, StacksOK, TypeOK
<1>3. ASSUME NEW t \in Vm, Eval(t) PROVE TypeInv'
  <2>0. pc[t] + 1 \in Addr(prog)
    BY <1>3, <1>i DEF Eval, At, NoReturn
  <2>1. TypeOK'
    BY <1>3, <1>n, <2>0 DEF Eval, Goto, TypeOK
  <2>2. StackOK(t)'
    BY <1>3 DEF Eval, At, Goto, StacksOK, StackOK
  <2>3. QED
    BY <1>3, <1>k, <2>1, <2>2 DEF Eval, Goto, ProgramOK, StacksOK, TypeOK
<1>4. ASSUME NEW t \in Vm, CallLock(t) PROVE TypeInv'
  <2>1. TypeOK'
    BY <1>4, <1>n DEF CallLock, Enter, TypeOK, Phase
  <2>2. StackOK(t)'
    BY <1>4 DEF CallLock, At, Enter, StacksOK, StackOK, TypeOK, Ins
  <2>3. QED
    BY <1>4, <1>k, <2>1, <2>2 DEF CallLock, Enter, ProgramOK, StacksOK, TypeOK
<1>5. ASSUME NEW t \in Vm, CallBind(t) PROVE TypeInv'
  <2>0. /\ Ins(t).fn \in Func
        /\ Frame(Ins(t).fn, pc[t] + 1) \in Frames
        /\ prog.entry[Ins(t).fn] \in Addr(prog)
    BY <1>5, <1>i, <1>c, <1>f DEF CallBind, StacksOK, StackOK, NoReturn, Invoking
  <2>f. frames' \in [Vm -> Seq(Frames)]
    BY <1>5, <2>0, <1>s DEF CallBind, TypeOK
  <2>g. /\ pc' \in [Vm -> Addr(prog)]
        /\ phase' \in [Vm -> Phase]
        /\ args' \in [Vm -> Nat]
        /\ mutex' \in Vm \cup {Unlocked}
    <3>1. CASE args[t] = prog.params[Ins(t).fn]
      <4>1. /\ pc' = [pc EXCEPT ![t] = prog.entry[Ins(t).fn]]
            /\ phase' = [phase EXCEPT ![t] = "exec"]
            /\ args' = [args EXCEPT ![t] = 0]
            /\ mutex' = Unlocked
        BY <1>5, <3>1 DEF CallBind, Enter, Goto
      <4>2. QED
        BY <4>1, <2>0 DEF TypeOK, Phase
    <3>2. CASE args[t] # prog.params[Ins(t).fn]
      BY <1>5, <3>2 DEF CallBind, Enter, TypeOK, Phase, Final, Unlocked
    <3>3. QED
      BY <3>1, <3>2
  <2>1. TypeOK'
    BY <1>5, <1>n, <2>f, <2>g DEF CallBind, TypeOK, Unlocked, Vm
  <2>2. StackOK(t)'
    BY <1>5, <1>s DEF CallBind, Enter, Goto, StacksOK, StackOK, TypeOK
  <2>3. QED
    BY <1>5, <1>k, <2>1, <2>2 DEF CallBind, Enter, Goto, ProgramOK, StacksOK, TypeOK
<1>6. ASSUME NEW t \in Vm, SendVal(t) PROVE TypeInv'
  <2>0. pc[t] + 1 \in Addr(prog)
    BY <1>6, <1>i DEF SendVal, At, NoReturn
  <2>1. TypeOK'
    BY <1>6, <1>n, <2>0 DEF SendVal, Goto, TypeOK
  <2>2. StackOK(t)'
    BY <1>6 DEF SendVal, At, Goto, StacksOK, StackOK
  <2>3. QED
    BY <1>6, <1>k, <2>1, <2>2 DEF SendVal, Goto, ProgramOK, StacksOK, TypeOK
<1>7. ASSUME NEW t \in Vm, Jump(t) \/ JumpIfZero(t) \/ JumpIfNotZero(t) PROVE TypeInv'
  <2>0. PICK a \in Addr(prog) : Goto(t, a)
    BY <1>7, <1>i DEF Jump, JumpIfZero, JumpIfNotZero, At, Jumps, NoReturn
  <2>u. UNCHANGED <<prog, phase, frames, tries, args, natives, mutex>> /\ phase[t] = "exec"
    BY <1>7 DEF Jump, JumpIfZero, JumpIfNotZero, At
  <2>1. TypeOK'
    BY <2>u, <1>n, <2>0 DEF Goto, TypeOK
  <2>2. StackOK(t)'
    BY <2>u, <2>0 DEF Goto, StacksOK, StackOK
  <2>3. QED
    BY <2>u, <2>0, <1>k, <2>1, <2>2 DEF Goto, ProgramOK, StacksOK, TypeOK
<1>8. ASSUME NEW t \in Vm, PopFrame(t), phase[t] = "exec",
             UNCHANGED <<prog, tries, args, natives, mutex>>
      PROVE  TypeInv'
  <2>0. /\ frames[t] # <<>>
        /\ Len(frames[t]) \in Nat \ {0}
        /\ Last(frames[t]).ret \in Addr(prog)
        /\ Front(frames[t]) \in Seq(Frames)
        /\ Len(frames[t]) # 1 => Front(frames[t]) # <<>>
    <3>1. frames[t] # <<>>
      BY <1>8 DEF StacksOK, StackOK
    <3>2. /\ Last(frames[t]) \in Frames
          /\ Front(frames[t]) \in Seq(Frames)
          /\ Len(frames[t]) \in Nat \ {0}
          /\ Len(Front(frames[t])) = Len(frames[t]) - 1
      BY <3>1, <1>s, StackFacts
    <3>3. Front(frames[t]) = <<>> => Len(frames[t]) = 1
      BY <3>2
    <3>4. QED
      BY <3>1, <3>2, <3>3, <1>f
  <2>1. TypeOK'
    BY <1>8, <1>n, <2>0 DEF PopFrame, Enter, Goto, TypeOK, Phase, Final
  <2>2. StackOK(t)'
    BY <1>8, <2>0, <1>s DEF PopFrame, Enter, Goto, StacksOK, StackOK, TypeOK
  <2>3. QED
    BY <1>8, <1>k, <2>1, <2>2 DEF PopFrame, Enter, Goto, ProgramOK, StacksOK, TypeOK
<1>9. ASSUME NEW t \in Vm, LeaveRun(t), phase[t] = "exec",
             UNCHANGED <<prog, frames, tries, args, natives, mutex>>
      PROVE  TypeInv'
  <2>0. natives[t] # <<>> => Last(natives[t]).saved \in Addr(prog)
    <3>1. natives[t] # <<>> => Last(natives[t]) \in NestedRuns
      BY <1>s, StackFacts
    <3>2. QED
      BY <3>1 DEF NestedRuns
  <2>1. TypeOK'
    BY <1>9, <1>n, <2>0 DEF LeaveRun, Enter, Goto, TypeOK, Phase, Final
  <2>2. StackOK(t)'
    BY <1>9, <1>s DEF LeaveRun, Enter, Goto, StacksOK, StackOK, TypeOK
  <2>3. QED
    BY <1>9, <1>k, <2>1, <2>2 DEF LeaveRun, Enter, Goto, ProgramOK, StacksOK, TypeOK
<1>10. ASSUME NEW t \in Vm, HaltRun(t) \/ Ret(t) \/ Leave(t) PROVE TypeInv'
  BY <1>10, <1>8, <1>9 DEF HaltRun, Ret, Leave, At
<1>r. ASSUME NEW t \in Vm, NEW h \in Func, NEW ns \in Seq(NestedRuns),
             RunFunction(t, h), natives' = [natives EXCEPT ![t] = ns],
             \A i \in DOMAIN ns : prog.code[ns[i].saved].op = "NATIVE",
             UNCHANGED <<prog, tries, mutex>>
      PROVE  TypeInv'
  <2>0. Frame(h, Halt) \in Frames /\ prog.entry[h] \in Addr(prog)
    BY <1>c, <1>f
  <2>f. frames' \in [Vm -> Seq(Frames)]
    BY <1>r, <2>0, <1>s DEF RunFunction, TypeOK
  <2>1. TypeOK'
    BY <1>r, <1>n, <2>0, <2>f DEF RunFunction, Enter, Goto, TypeOK, Phase
  <2>2. StackOK(t)'
    BY <1>r, <1>s DEF RunFunction, Enter, Goto, StackOK, TypeOK
  <2>3. QED
    BY <1>r, <1>k, <2>1, <2>2 DEF RunFunction, Enter, Goto, ProgramOK, StacksOK, TypeOK
<1>11. ASSUME NEW t \in Vm, NativeCall(t) PROVE TypeInv'
  <2>0. /\ Ins(t).fn \in Func
        /\ Ins(t).n \in Nat
        /\ pc[t] + 1 \in Addr(prog)
    BY <1>11, <1>i DEF NativeCall, At, NoReturn, Invoking, Instr
  <2>1. CASE Ins(t).n = 0
    <3>0. /\ args' = [args EXCEPT ![t] = 0]
          /\ pc' = [pc EXCEPT ![t] = @ + 1]
          /\ UNCHANGED <<prog, phase, frames, natives, tries, mutex>>
      BY <1>11, <2>1 DEF NativeCall, Goto
    <3>1. TypeOK'
      BY <3>0, <1>n, <2>0 DEF TypeOK
    <3>2. StackOK(t)'
      BY <1>11, <3>0 DEF NativeCall, At, StacksOK, StackOK
    <3>3. QED
      BY <3>0, <1>k, <3>1, <3>2 DEF ProgramOK, StacksOK, TypeOK
  <2>2. CASE Ins(t).n # 0
    <3> DEFINE ns == Append(natives[t], Nested(pc[t], Ins(t).n - 1, Len(frames[t])))
    <3>0. /\ natives' = [natives EXCEPT ![t] = ns]
          /\ RunFunction(t, Ins(t).fn)
          /\ UNCHANGED <<prog, tries, mutex>>
          /\ Ins(t).op = "NATIVE"
      BY <1>11, <2>2 DEF NativeCall, At
    <3>1. Nested(pc[t], Ins(t).n - 1, Len(frames[t])) \in NestedRuns
      <4>1. Ins(t).n - 1 \in Nat /\ Len(frames[t]) \in Nat /\ pc[t] \in Addr(prog)
        BY <2>0, <2>2, <1>s
      <4>2. QED
        BY <4>1 DEF Nested, NestedRuns
    <3>2. ns \in Seq(NestedRuns)
      BY <3>1, <1>s
    <3>3. \A i \in DOMAIN ns : prog.code[ns[i].saved].op = "NATIVE"
      BY <3>0, <1>s DEF Nested, StacksOK, StackOK, Ins
    <3>4. QED
      BY <3>0, <3>2, <3>3, <2>0, <1>r
  <2>3. QED
    BY <2>1, <2>2
<1>12. ASSUME NEW t \in Vm, NativeResume(t) PROVE TypeInv'
  <2>0. /\ natives[t] # <<>>
        /\ natives[t] \in Seq(NestedRuns)
        /\ frames[t] # <<>>
        /\ pc[t] = Last(natives[t]).saved
    BY <1>12, <1>s DEF NativeResume, StacksOK, StackOK
  <2>1. /\ Len(natives[t]) \in Nat \ {0}
        /\ Last(natives[t]) = natives[t][Len(natives[t])]
        /\ Last(natives[t]) \in NestedRuns
        /\ Front(natives[t]) \in Seq(NestedRuns)
        /\ Len(Front(natives[t])) = Len(natives[t]) - 1
        /\ \A i \in 1 .. Len(natives[t]) - 1 : Front(natives[t])[i] = natives[t][i]
    BY <2>0, StackFacts
  <2>2. Ins(t).op = "NATIVE"
    BY <2>0, <2>1 DEF Ins, StacksOK, StackOK
  <2>3. Ins(t).fn \in Func /\ pc[t] + 1 \in Addr(prog)
    BY <2>2, <1>i DEF NoReturn, Invoking
  <2>4. \A i \in DOMAIN Front(natives[t]) :
          prog.code[Front(natives[t])[i].saved].op = "NATIVE"
    BY <2>0, <2>1 DEF StacksOK, StackOK
  <2>5. CASE Last(natives[t]).left > 0
    <3> DEFINE top == Nested(pc[t], Last(natives[t]).left - 1, Len(frames[t]))
               ns  == Append(Front(natives[t]), top)
    <3>0. /\ natives' = [natives EXCEPT ![t] = ns]
          /\ RunFunction(t, Ins(t).fn)
          /\ UNCHANGED <<prog, tries, mutex>>
      BY <1>12, <2>5 DEF NativeResume
    <3>1. top \in NestedRuns
      <4>1. /\ Last(natives[t]).left - 1 \in Nat
            /\ Len(frames[t]) \in Nat
            /\ pc[t] \in Addr(prog)
        BY <2>1, <2>5, <1>s DEF NestedRuns
      <4>2. QED
        BY <4>1 DEF Nested, NestedRuns
    <3>2. ns \in Seq(NestedRuns)
      BY <3>1, <2>1
    <3>3. \A i \in DOMAIN ns : prog.code[ns[i].saved].op = "NATIVE"
      BY <2>1, <2>2, <2>4 DEF Ins, Nested
    <3>4. QED
      BY <3>0, <3>2, <3>3, <2>3, <1>r
  <2>6. CASE ~(Last(natives[t]).left > 0)
    <3>0. /\ natives' = [natives EXCEPT ![t] = Front(@)]
          /\ args' = [args EXCEPT ![t] = 0]
          /\ pc' = [pc EXCEPT ![t] = @ + 1]
          /\ phase' = [phase EXCEPT ![t] = "exec"]
          /\ UNCHANGED <<prog, frames, tries, mutex>>
      BY <1>12, <2>6 DEF NativeResume, Goto, Enter
    <3>1. TypeOK'
      BY <3>0, <1>n, <2>1, <2>3 DEF TypeOK, Phase
    <3>2. StackOK(t)'
      BY <3>0, <2>0, <2>4 DEF TypeOK, StackOK
    <3>3. QED
      BY <3>0, <1>k, <3>1, <3>2 DEF ProgramOK, StacksOK, TypeOK
  <2>7. QED
    BY <2>5, <2>6
<1>x. ASSUME NEW t \in Vm, ThrowException(t), phase[t] = "exec",
             args' \in [Vm -> Nat], UNCHANGED <<prog, natives, mutex>>
      PROVE  TypeInv'
  <2> DEFINE dead == tries[t] # <<>> /\ Last(tries[t]).state > 1
             live == IF dead THEN Front(tries[t]) ELSE tries[t]
  <2>1. live \in Seq(Handlers)
    BY <1>s, StackFacts
  <2>2. tries' = [tries EXCEPT ![t] = live]
    BY <1>x DEF ThrowException
  <2>3. tries' \in [Vm -> Seq(Handlers)]
    BY <2>1, <2>2 DEF TypeOK
  <2> HIDE DEF live
  <2>4. CASE live = <<>>
    <3>0. /\ frames' = [frames EXCEPT ![t] = <<>>]
          /\ phase' = [phase EXCEPT ![t] = "uncaught"]
          /\ UNCHANGED <<prog, pc, natives, mutex>>
      BY <1>x, <2>4 DEF ThrowException, Enter, live
    <3>1. frames' \in [Vm -> Seq(Frames)] /\ phase' \in [Vm -> Phase]
      BY <3>0 DEF TypeOK, Phase, Final
    <3>2. TypeOK'
      BY <3>0, <3>1, <1>x, <1>n, <2>3 DEF TypeOK
    <3>3. StackOK(t)'
      BY <3>0 DEF TypeOK, StacksOK, StackOK
    <3>4. QED
      BY <3>0, <1>k, <3>2, <3>3 DEF ProgramOK, StacksOK, TypeOK
  <2>5. CASE live # <<>>
    <3>0. PICK q \in {"exec", "assert"} :
            /\ pc' = [pc EXCEPT ![t] = Last(live).to]
            /\ phase' = [phase EXCEPT ![t] = q]
            /\ UNCHANGED <<prog, frames, natives, mutex>>
      BY <1>x, <2>5 DEF ThrowException, Enter, Goto, live
    <3>1. Last(live).to \in Addr(prog)
      <4>1. Last(live) \in Handlers
        BY <2>1, <2>5, StackFacts
      <4>2. QED
        BY <4>1 DEF Handlers
    <3>2. pc' \in [Vm -> Addr(prog)] /\ phase' \in [Vm -> Phase]
      BY <3>0, <3>1 DEF TypeOK, Phase, Final
    <3>3. TypeOK'
      BY <3>0, <3>2, <1>x, <1>n, <2>3 DEF TypeOK
    <3>4. StackOK(t)'
      BY <3>0, <1>x DEF TypeOK, StacksOK, StackOK
    <3>5. QED
      BY <3>0, <1>k, <3>3, <3>4 DEF ProgramOK, StacksOK, TypeOK
  <2>6. QED
    BY <2>4, <2>5
<1>13. ASSUME NEW t \in Vm, Throw(t) PROVE TypeInv'
  BY <1>13, <1>x DEF Throw, At, TypeOK
<1>14. ASSUME NEW t \in Vm, Raise(t) PROVE TypeInv'
  <2>0. /\ args' \in [Vm -> Nat]
        /\ phase[t] = "exec"
        /\ pc[t] + 1 \in Addr(prog)
        /\ UNCHANGED <<prog, natives, mutex>>
    BY <1>14, <1>i DEF Raise, At, TypeOK, NoReturn
  <2>1. CASE Goto(t, pc[t] + 1) /\ UNCHANGED <<phase, frames, tries>>
    <3>1. TypeOK'
      BY <2>0, <2>1, <1>n DEF Goto, TypeOK
    <3>2. StackOK(t)'
      BY <2>0, <2>1 DEF Goto, StacksOK, StackOK
    <3>3. QED
      BY <2>0, <2>1, <1>k, <3>1, <3>2 DEF Goto, ProgramOK, StacksOK, TypeOK
  <2>2. CASE ThrowException(t)
    BY <2>0, <2>2, <1>x
  <2>3. QED
    BY <1>14, <2>1, <2>2 DEF Raise
<1>15. ASSUME NEW t \in Vm, Try(t) \/ Catch(t) \/ EndTry(t) PROVE TypeInv'
  <2>0. /\ phase[t] = "exec"
        /\ pc[t] + 1 \in Addr(prog)
        /\ UNCHANGED <<prog, frames, args, natives, mutex>>
    BY <1>15, <1>i DEF Try, Catch, EndTry, At, NoReturn
  <2>1. tries' \in [Vm -> Seq(Handlers)]
    <3>1. CASE Try(t)
      <4>1. Handler(Ins(t).to, 1) \in Handlers
        BY <3>1, <1>i DEF Try, At, Handler, Handlers
      <4>2. QED
        BY <3>1, <4>1, <1>s DEF Try, TypeOK
    <3>2. CASE Catch(t) /\ tries[t] # <<>>
      <4>1. Front(tries[t]) \in Seq(Handlers) /\ Last(tries[t]) \in Handlers
        BY <3>2, <1>s, StackFacts
      <4>2. Handler(Last(tries[t]).to, 2) \in Handlers
        BY <4>1 DEF Handler, Handlers
      <4>3. tries' = [tries EXCEPT ![t] = Append(Front(@), Handler(Last(@).to, 2))]
        BY <3>2 DEF Catch
      <4>4. QED
        BY <4>1, <4>2, <4>3 DEF TypeOK
    <3>3. CASE EndTry(t) /\ tries[t] # <<>>
      <4>1. Front(tries[t]) \in Seq(Handlers)
        BY <3>3, <1>s, StackFacts
      <4>2. tries' = [tries EXCEPT ![t] = Front(@)]
        BY <3>3 DEF EndTry
      <4>3. QED
        BY <4>1, <4>2 DEF TypeOK
    <3>4. CASE (Catch(t) \/ EndTry(t)) /\ tries[t] = <<>>
      BY <3>4 DEF Catch, EndTry, TypeOK
    <3>5. QED
      BY <1>15, <3>1, <3>2, <3>3, <3>4
  <2>2. PICK a \in Addr(prog), q \in {"exec", "undefined"} : Goto(t, a) /\ Enter(t, q)
    <3>1. UNCHANGED phase => Enter(t, "exec")
      BY <2>0 DEF Enter, TypeOK
    <3>2. UNCHANGED pc => Goto(t, pc[t]) /\ pc[t] \in Addr(prog)
      BY DEF Goto, TypeOK
    <3>3. QED
      BY <1>15, <2>0, <3>1, <3>2 DEF Try, Catch, EndTry
  <2>3. TypeOK'
    BY <2>0, <2>1, <2>2, <1>n DEF Goto, Enter, TypeOK, Phase, Final
  <2>4. StackOK(t)'
    BY <2>0, <2>2 DEF Goto, Enter, TypeOK, StacksOK, StackOK
  <2>5. QED
    BY <2>0, <2>2, <1>k, <2>3, <2>4 DEF Goto, Enter, ProgramOK, StacksOK, TypeOK
<1>16. ASSUME NEW t \in Vm, Lock(t) \/ Unlock(t) \/ Join(t) PROVE TypeInv'
  <2>0. /\ phase[t] = "exec"
        /\ pc[t] + 1 \in Addr(prog)
        /\ Goto(t, pc[t] + 1)
        /\ UNCHANGED <<prog, phase, frames, tries, natives>>
    BY <1>16, <1>i DEF Lock, Unlock, Join, At, NoReturn
  <2>1. args' \in [Vm -> Nat] /\ mutex' \in Vm \cup {Unlocked}
    <3>1. args' = args \/ args' = [args EXCEPT ![t] = 0]
      BY <1>16 DEF Lock, Unlock, Join
    <3>2. mutex' = mutex \/ mutex' = t \/ mutex' = Unlocked
      BY <1>16 DEF Lock, Unlock, Join
    <3>3. QED
      BY <3>1, <3>2 DEF TypeOK
  <2>2. TypeOK'
    BY <2>0, <2>1, <1>n DEF Goto, TypeOK, Unlocked, Vm
  <2>3. StackOK(t)'
    BY <2>0 DEF Goto, StacksOK, StackOK
  <2>4. QED
    BY <2>0, <1>k, <2>2, <2>3 DEF Goto, ProgramOK, StacksOK, TypeOK
<1>17. ASSUME NEW t \in Vm, Spawn(t) PROVE TypeInv'
  <2>0. /\ phase[t] = "exec"
        /\ Ins(t).fn \in Func
        /\ pc[t] + 1 \in Addr(prog)
        /\ prog.entry[Ins(t).fn] \in Addr(prog)
        /\ Frame(Ins(t).fn, Halt) \in Frames
    BY <1>17, <1>i, <1>c, <1>f DEF Spawn, At, NoReturn, Invoking
  <2>1. PICK u \in Vm, h \in Func :
          /\ phase[u] = "none" /\ u # t
          /\ prog.entry[h] \in Addr(prog)
          /\ Frame(h, Halt) \in Frames
          /\ frames'  = [frames EXCEPT ![u] = Append(frames[t], Frame(h, Halt))]
          /\ tries'   = [tries EXCEPT ![u] = tries[t]]
          /\ pc'      = [pc EXCEPT ![t] = @ + 1, ![u] = prog.entry[h]]
          /\ phase'   = [phase EXCEPT ![u] = "entry"]
          /\ args'    = [args EXCEPT ![t] = 0]
          /\ UNCHANGED <<prog, natives, mutex>>
    BY <1>17, <2>0 DEF Spawn
  <2>2. Append(frames[t], Frame(h, Halt)) \in Seq(Frames) /\ tries[t] \in Seq(Handlers)
    BY <2>1, <1>s
  <2>3. frames' \in [Vm -> Seq(Frames)] /\ tries' \in [Vm -> Seq(Handlers)]
    BY <2>1, <2>2 DEF TypeOK
  <2>4. pc' \in [Vm -> Addr(prog)]
    BY <2>0, <2>1 DEF TypeOK
  <2>5. TypeOK'
    BY <2>0, <2>1, <2>3, <2>4, <1>n DEF TypeOK, Phase
  <2>6. StackOK(u)'
    <3>1. phase'[u] = "entry" /\ natives'[u] = natives[u] /\ prog' = prog
      BY <2>1 DEF TypeOK
    <3>2. QED
      BY <3>1 DEF StacksOK, StackOK
  <2>7. StackOK(t)'
    BY <2>0, <2>1 DEF TypeOK, StacksOK, StackOK
  <2>8. \A w \in Vm \ {t, u} : StackOK(w)'
    BY <2>0, <2>1, <1>k DEF TypeOK
  <2>9. QED
    <3>1. ProgramOK'
      BY <2>1 DEF ProgramOK
    <3>2. \A w \in Vm : StackOK(w)'
      BY <2>6, <2>7, <2>8
    <3>3. QED
      BY <2>5, <3>1, <3>2 DEF StacksOK
<1>18. CASE UNCHANGED vars
  <2>1. TypeOK'
    BY <1>18, <1>n DEF vars, TypeOK
  <2>2. QED
    BY <1>18, <1>k, <2>1 DEF vars, ProgramOK, StacksOK
<1>19. QED
  BY <1>1, <1>3, <1>4, <1>5, <1>6, <1>7, <1>10, <1>11, <1>12, <1>13, <1>14, <1>15,
     <1>16, <1>17, <1>18 DEF Next, Step

\* Every address, stack and counter of every VM stays within the script and
\* its types, whatever well-formed script is run by however many threads: no
\* call, return, exception or callback of VM::run leaves m_inst.
THEOREM TypeCorrect == Spec => []TypeOK
<1>1. TypeInv => TypeOK
  BY DEF TypeInv
<1>2. QED
  BY TypeInit, TypeNext, <1>1, PTL DEF Spec

-------------------------------------------------------------------------------
(***************************************************************************)
(* The VM mutex keeps critical code exclusive: a proof for every script    *)
(* whose critical code is bracketed as Codegen::visit(CriticalBlock) does, *)
(* whatever it does inside (return, throw, call, start a thread, ...), and *)
(* for any number of threads.                                              *)
(***************************************************************************)

\* What one VM keeps: every address it may come back to lies outside critical
\* code, and it owns the mutex while it is inside.  A native called inside
\* critical code that calls back waits for its own mutex for ever.
CriticalOK(t) ==
  /\ \A i \in DOMAIN frames[t] : frames[t][i].ret \notin prog.crit
  /\ \A i \in DOMAIN tries[t] : tries[t][i].to \notin prog.crit
  /\ \A i \in DOMAIN natives[t] :
       natives[t][i].saved \in prog.crit => mutex = t /\ phase[t] = "entry"
  /\ phase[t] \in {"entry", "bind"} => pc[t] \notin prog.crit
  /\ InCritical(t) => mutex = t

MutexInv == TypeInv /\ \A t \in Vm : CriticalOK(t)

LEMMA Bracketed ==
  ASSUME TypeInv
  PROVE  /\ CriticalIsBracketed(prog)
         /\ \A t \in Vm : pc[t] \in Addr(prog)
         /\ Halt \notin prog.crit
         /\ \A h \in Func : prog.entry[h] \notin prog.crit
         /\ 1 \notin prog.crit
<1>1. WellFormed(prog)
  BY ProgramsAssumption DEF TypeInv, ProgramOK
<1>2. CriticalIsBracketed(prog)
  BY <1>1 DEF WellFormed
<1>3. QED
  BY <1>2 DEF CriticalIsBracketed, TypeInv, TypeOK, Halt

LEMMA MutexInit == Init => MutexInv
<1> SUFFICES ASSUME Init PROVE MutexInv
  OBVIOUS
<1>1. TypeInv
  BY TypeInit
<1>2. 1 \notin prog.crit
  BY <1>1, Bracketed
<1>3. \A t \in Vm : CriticalOK(t)
  BY <1>2 DEF Init, Start, CriticalOK, InCritical
<1>4. QED
  BY <1>1, <1>3 DEF MutexInv

LEMMA MutexNext == MutexInv /\ [Next]_vars => MutexInv'
<1> SUFFICES ASSUME MutexInv, [Next]_vars PROVE MutexInv'
  OBVIOUS
<1>i. TypeInv /\ TypeInv'
  BY TypeNext DEF MutexInv
<1>b. /\ CriticalIsBracketed(prog)
      /\ \A t \in Vm : pc[t] \in Addr(prog)
      /\ Halt \notin prog.crit
      /\ \A h \in Func : prog.entry[h] \notin prog.crit
  BY <1>i, Bracketed
<1>s. ASSUME NEW t \in Vm
      PROVE  /\ frames[t] \in Seq(Frames)
             /\ tries[t] \in Seq(Handlers)
             /\ natives[t] \in Seq(NestedRuns)
             /\ t # Unlocked
  BY <1>i, NThreadsAssumption, SMTT(30) DEF TypeInv, TypeOK, Unlocked, Vm
\* The other VMs.
<1>k. ASSUME NEW u \in Vm, prog' = prog, phase'[u] = phase[u], pc'[u] = pc[u],
             frames'[u] = frames[u], tries'[u] = tries[u], natives'[u] = natives[u],
             mutex' = mutex \/ mutex # u
      PROVE  CriticalOK(u)'
  BY <1>k DEF MutexInv, CriticalOK, InCritical
<1>1. ASSUME NEW t \in Vm, RunEntry(t) PROVE MutexInv'
  <2>1. CriticalOK(t)'
    BY <1>1, <1>i, <1>s, Bracketed
       DEF RunEntry, Enter, Frame, MutexInv, CriticalOK, InCritical, TypeInv, TypeOK
  <2>2. QED
    BY <1>1, <1>i, <1>k, <2>1 DEF RunEntry, Enter, MutexInv, TypeInv, TypeOK
\* Steps that only move the program counter.
<1>a. ASSUME NEW t \in Vm, NEW a, phase[t] = "exec", Goto(t, a),
             pc[t] \notin prog.crit => a \notin prog.crit,
             UNCHANGED <<prog, phase, frames, tries, natives, mutex>>
      PROVE  MutexInv'
  <2>1. CriticalOK(t)'
    BY <1>a, <1>i DEF Goto, MutexInv, CriticalOK, InCritical, TypeInv, TypeOK
  <2>2. QED
    BY <1>a, <1>i, <1>k, <2>1 DEF Goto, MutexInv, TypeInv, TypeOK
\* Steps that start the code of a function or of a catch block, or end.
<1>o. ASSUME NEW t \in Vm, NEW a, phase[t] = "exec", Goto(t, a), a \notin prog.crit,
             NEW q \in {"exec", "return"} \cup Final, Enter(t, q),
             \A i \in DOMAIN frames'[t] : frames'[t][i].ret \notin prog.crit,
             \A i \in DOMAIN tries'[t] : tries'[t][i].to \notin prog.crit,
             \E fs : frames' = [frames EXCEPT ![t] = fs],
             \E hs : tries' = [tries EXCEPT ![t] = hs],
             UNCHANGED <<prog, natives, mutex>>
      PROVE  MutexInv'
  <2>1. CriticalOK(t)'
    BY <1>o, <1>i DEF Goto, Enter, MutexInv, CriticalOK, InCritical, TypeInv, TypeOK, Final
  <2>2. QED
    BY <1>o, <1>i, <1>k, <2>1 DEF Goto, Enter, MutexInv, TypeInv, TypeOK
<1>2. ASSUME NEW t \in Vm, Eval(t) \/ SendVal(t) \/ Jump(t) \/ Join(t)
                       \/ JumpIfZero(t) \/ JumpIfNotZero(t)
      PROVE  MutexInv'
  <2>1. PICK a : /\ Goto(t, a)
                 /\ pc[t] \notin prog.crit => a \notin prog.crit
    BY <1>2, <1>b DEF Eval, SendVal, Jump, JumpIfZero, JumpIfNotZero, Join, At, Ins, CriticalIsBracketed,
                      Jumps, NoReturn
  <2>2. phase[t] = "exec" /\ UNCHANGED <<prog, phase, frames, tries, natives, mutex>>
    BY <1>2 DEF Eval, SendVal, Jump, JumpIfZero, JumpIfNotZero, Join, At
  <2>3. QED
    BY <2>1, <2>2, <1>a
<1>3. ASSUME NEW t \in Vm, CallLock(t) PROVE MutexInv'
  <2>1. pc[t] \notin prog.crit
    BY <1>3, <1>s DEF CallLock, At, MutexInv, CriticalOK, InCritical
  <2>2. CriticalOK(t)'
    BY <1>3, <1>i, <1>s, <2>1
       DEF CallLock, At, Enter, MutexInv, CriticalOK, InCritical, TypeInv, TypeOK
  <2>3. QED
    BY <1>3, <1>i, <1>k, <1>s, <2>2 DEF CallLock, Enter, MutexInv, TypeInv, TypeOK
<1>4. ASSUME NEW t \in Vm, CallBind(t) PROVE MutexInv'
  <2>1. /\ pc[t] \notin prog.crit
        /\ mutex = t
        /\ phase[t] = "bind"
        /\ Ins(t).op = "CALL"
        /\ pc[t] \in Addr(prog)
    BY <1>4, <1>i, <1>b
       DEF CallBind, MutexInv, CriticalOK, InCritical, TypeInv, StacksOK, StackOK
  <2>2. pc[t] + 1 \notin prog.crit
    BY <2>1, <1>b DEF CriticalIsBracketed, Ins, NoReturn
  <2>3. \A i \in DOMAIN frames'[t] : frames'[t][i].ret \notin prog.crit
    BY <1>4, <1>i, <1>s, <2>2, SMTT(30) DEF CallBind, Frame, MutexInv, CriticalOK, TypeInv, TypeOK
  <2>4. prog.entry[Ins(t).fn] \notin prog.crit
    <3>1. Ins(t).fn \in Func
      BY <1>i, <2>1, CodeFacts DEF Ins, Invoking, TypeInv, ProgramOK
    <3>2. QED
      BY <3>1, <1>b
  <2>5. CriticalOK(t)'
    BY <1>4, <1>i, <2>1, <2>3, <2>4
       DEF CallBind, Enter, Goto, MutexInv, CriticalOK, InCritical, TypeInv, TypeOK
  <2>6. QED
    <3>1. ASSUME NEW u \in Vm, u # t PROVE CriticalOK(u)'
      <4>1. /\ prog' = prog /\ phase'[u] = phase[u] /\ pc'[u] = pc[u]
            /\ frames'[u] = frames[u] /\ tries'[u] = tries[u] /\ natives'[u] = natives[u]
        BY <1>4, <1>i, <3>1 DEF CallBind, Enter, Goto, TypeInv, TypeOK
      <4>2. mutex # u
        BY <2>1, <3>1
      <4> QED
        BY <1>k, <4>1, <4>2
    <3>2. QED
      BY <1>i, <2>5, <3>1 DEF MutexInv
<1>5. ASSUME NEW t \in Vm, PopFrame(t), phase[t] = "exec",
             UNCHANGED <<prog, tries, args, natives, mutex>>
      PROVE  MutexInv'
  <2>1. /\ frames[t] # <<>>
        /\ frames[t] \in Seq(Frames)
    BY <1>5, <1>s, <1>i DEF TypeInv, StacksOK, StackOK
  <2>2. /\ Last(frames[t]) = frames[t][Len(frames[t])]
        /\ Len(frames[t]) \in Nat \ {0}
        /\ Front(frames[t]) \in Seq(Frames)
        /\ Len(Front(frames[t])) = Len(frames[t]) - 1
        /\ \A j \in 1 .. Len(frames[t]) - 1 : Front(frames[t])[j] = frames[t][j]
    BY <2>1, StackFacts
  <2>3. Last(frames[t]).ret \notin prog.crit
    BY <2>1, <2>2 DEF MutexInv, CriticalOK
  <2>4. \A j \in DOMAIN Front(frames[t]) : Front(frames[t])[j].ret \notin prog.crit
    BY <2>1, <2>2 DEF MutexInv, CriticalOK
  <2>5. frames'[t] = Front(frames[t])
    BY <1>5, <1>i DEF PopFrame, TypeInv, TypeOK
  <2>6. PICK q \in {"exec", "undefined"} : Enter(t, q)
    BY <1>5 DEF PopFrame
  <2>7. Goto(t, Last(frames[t]).ret) /\ frames' = [frames EXCEPT ![t] = Front(frames[t])]
    BY <1>5 DEF PopFrame
  <2>8. tries' = [tries EXCEPT ![t] = tries[t]]
    BY <1>5, <1>i DEF TypeInv, TypeOK
  <2>9. \A j \in DOMAIN tries'[t] : tries'[t][j].to \notin prog.crit
    BY <1>5 DEF MutexInv, CriticalOK
  <2>10. q \in {"exec", "return"} \cup Final
    BY DEF Final
  <2>11. QED
    BY <1>5, <1>o, <2>3, <2>4, <2>5, <2>6, <2>7, <2>8, <2>9, <2>10
<1>6. ASSUME NEW t \in Vm, LeaveRun(t), phase[t] = "exec",
             UNCHANGED <<prog, frames, tries, args, natives, mutex>>
      PROVE  MutexInv'
  <2>1. CASE natives[t] = <<>>
    <3>1. CriticalOK(t)'
      BY <1>6, <1>i, <2>1
         DEF LeaveRun, Enter, MutexInv, CriticalOK, InCritical, TypeInv, TypeOK
    <3>2. QED
      BY <1>6, <1>i, <1>k, <2>1, <3>1 DEF LeaveRun, Enter, MutexInv, TypeInv, TypeOK
  <2>2. CASE natives[t] # <<>>
    <3>1. CriticalOK(t)'
      BY <1>6, <1>i, <2>2
         DEF LeaveRun, Enter, Goto, MutexInv, CriticalOK, InCritical, TypeInv, TypeOK
    <3>2. QED
      BY <1>6, <1>i, <1>k, <2>2, <3>1
         DEF LeaveRun, Enter, Goto, MutexInv, TypeInv, TypeOK
  <2>3. QED
    BY <2>1, <2>2
<1>7. ASSUME NEW t \in Vm, HaltRun(t) \/ Ret(t) \/ Leave(t) PROVE MutexInv'
  BY <1>7, <1>5, <1>6 DEF HaltRun, Ret, Leave, At
\* A callback that starts inside critical code waits at the head of run().
<1>r. ASSUME NEW t \in Vm, NEW h \in Func, NEW ns \in Seq(NestedRuns),
             phase[t] \in {"exec", "return"}, pc[t] \in prog.crit => mutex = t,
             RunFunction(t, h), natives' = [natives EXCEPT ![t] = ns],
             \A i \in DOMAIN ns : ns[i].saved \in prog.crit => ns[i].saved = pc[t],
             UNCHANGED <<prog, tries, mutex>>
      PROVE  MutexInv'
  <2>1. \A i \in DOMAIN frames'[t] : frames'[t][i].ret \notin prog.crit
    BY <1>r, <1>i, <1>s, <1>b
       DEF RunFunction, Frame, MutexInv, CriticalOK, TypeInv, TypeOK
  <2>2. CriticalOK(t)'
    BY <1>r, <1>i, <1>b, <2>1
       DEF RunFunction, Enter, Goto, MutexInv, CriticalOK, InCritical, TypeInv, TypeOK
  <2>3. QED
    BY <1>r, <1>i, <1>k, <2>2 DEF RunFunction, Enter, Goto, MutexInv, TypeInv, TypeOK
<1>8. ASSUME NEW t \in Vm, NativeCall(t) PROVE MutexInv'
  <2>0. /\ phase[t] = "exec"
        /\ Ins(t).op = "NATIVE"
        /\ Ins(t).fn \in Func
        /\ Ins(t).n \in Nat
        /\ pc[t] \notin prog.crit => pc[t] + 1 \notin prog.crit
        /\ pc[t] \in Addr(prog)
    BY <1>8, <1>i, <1>b, CodeFacts
       DEF NativeCall, At, Ins, Invoking, NoReturn, Instr, CriticalIsBracketed, TypeInv,
           ProgramOK
  <2>1. CASE Ins(t).n = 0
    BY <1>8, <1>a, <2>0, <2>1 DEF NativeCall
  <2>2. CASE Ins(t).n # 0
    <3> DEFINE top == Nested(pc[t], Ins(t).n - 1, Len(frames[t]))
    <3>1. PICK ns : ns = Append(natives[t], top)
      OBVIOUS
    <3>2. /\ natives' = [natives EXCEPT ![t] = ns]
          /\ RunFunction(t, Ins(t).fn)
          /\ UNCHANGED <<prog, tries, mutex>>
      BY <1>8, <2>2, <3>1 DEF NativeCall
    <3>3. top \in NestedRuns /\ top.saved = pc[t]
      <4>1. Ins(t).n - 1 \in Nat /\ Len(frames[t]) \in Nat
        BY <2>0, <2>2, <1>s
      <4>2. QED
        BY <4>1, <2>0 DEF Nested, NestedRuns
    <3>4. ns \in Seq(NestedRuns)
      BY <3>1, <3>3, <1>s
    <3>5. \A i \in DOMAIN ns : ns[i].saved \in prog.crit => ns[i].saved = pc[t]
      BY <3>1, <3>3, <2>0, <1>s DEF MutexInv, CriticalOK
    <3>6. pc[t] \in prog.crit => mutex = t
      BY <2>0 DEF MutexInv, CriticalOK, InCritical
    <3>7. PICK h \in Func : h = Ins(t).fn
      BY <2>0
    <3>8. QED
      BY <3>2, <3>4, <3>5, <3>6, <3>7, <2>0, <1>r
  <2>3. QED
    BY <2>1, <2>2
<1>9. ASSUME NEW t \in Vm, NativeResume(t) PROVE MutexInv'
  <2>0. /\ natives[t] # <<>>
        /\ phase[t] = "return"
        /\ pc[t] = Last(natives[t]).saved
        /\ pc[t] \in Addr(prog)
    BY <1>9, <1>i, <1>b DEF NativeResume, TypeInv, StacksOK, StackOK
  <2>1. /\ Len(natives[t]) \in Nat \ {0}
        /\ Last(natives[t]) = natives[t][Len(natives[t])]
        /\ Last(natives[t]) \in NestedRuns
        /\ Front(natives[t]) \in Seq(NestedRuns)
        /\ Len(Front(natives[t])) = Len(natives[t]) - 1
        /\ \A j \in 1 .. Len(natives[t]) - 1 : Front(natives[t])[j] = natives[t][j]
    BY <2>0, <1>s, StackFacts
  <2>2. Ins(t).op = "NATIVE" /\ natives[t] \in Seq(NestedRuns)
    BY <1>i, <1>s, <2>0, <2>1 DEF Ins, TypeInv, StacksOK, StackOK
  <2>3. /\ Ins(t).fn \in Func
        /\ pc[t] \notin prog.crit => pc[t] + 1 \notin prog.crit
    BY <1>i, <1>b, <2>0, <2>2, CodeFacts
       DEF Ins, Invoking, NoReturn, CriticalIsBracketed, TypeInv, ProgramOK
  \* The native was not called from critical code, or it would still wait.
  <2>4. /\ \A j \in DOMAIN natives[t] : natives[t][j].saved \notin prog.crit
        /\ pc[t] \notin prog.crit
    BY <2>0, <2>1, <2>2 DEF MutexInv, CriticalOK
  <2>5. CASE Last(natives[t]).left > 0
    <3> DEFINE top == Nested(pc[t], Last(natives[t]).left - 1, Len(frames[t]))
    <3>1. PICK ns : ns = Append(Front(natives[t]), top)
      OBVIOUS
    <3>2. /\ natives' = [natives EXCEPT ![t] = ns]
          /\ RunFunction(t, Ins(t).fn)
          /\ UNCHANGED <<prog, tries, mutex>>
      BY <1>9, <2>5, <3>1 DEF NativeResume
    <3>3. top \in NestedRuns /\ top.saved = pc[t]
      <4>1. Last(natives[t]).left - 1 \in Nat /\ Len(frames[t]) \in Nat
        BY <2>1, <2>5, <1>s DEF NestedRuns
      <4>2. QED
        BY <4>1, <2>0 DEF Nested, NestedRuns
    <3>4. ns \in Seq(NestedRuns)
      BY <3>1, <3>3, <2>1
    <3>5. \A j \in DOMAIN ns : ns[j].saved \in prog.crit => ns[j].saved = pc[t]
      BY <3>1, <3>3, <2>1, <2>2, <2>4
    <3>6. PICK h \in Func : h = Ins(t).fn
      BY <2>3
    <3>7. QED
      BY <3>2, <3>4, <3>5, <3>6, <2>0, <2>4, <1>r
  <2>6. CASE ~(Last(natives[t]).left > 0)
    <3>1. /\ natives' = [natives EXCEPT ![t] = Front(natives[t])]
          /\ pc' = [pc EXCEPT ![t] = pc[t] + 1]
          /\ phase' = [phase EXCEPT ![t] = "exec"]
          /\ UNCHANGED <<prog, frames, tries, mutex>>
      BY <1>9, <2>6 DEF NativeResume, Goto, Enter
    <3>2. \A j \in DOMAIN Front(natives[t]) : Front(natives[t])[j].saved \notin prog.crit
      BY <2>1, <2>2, <2>4
    <3>3. CriticalOK(t)'
      BY <3>1, <3>2, <1>i, <2>3, <2>4
         DEF MutexInv, CriticalOK, InCritical, TypeInv, TypeOK
    <3>4. QED
      BY <3>1, <3>3, <1>i, <1>k DEF MutexInv, TypeInv, TypeOK
  <2>7. QED
    BY <2>5, <2>6
<1>x. ASSUME NEW t \in Vm, ThrowException(t), phase[t] = "exec",
             UNCHANGED <<prog, natives, mutex>>
      PROVE  MutexInv'
  <2> DEFINE dead == tries[t] # <<>> /\ Last(tries[t]).state > 1
             live == IF dead THEN Front(tries[t]) ELSE tries[t]
  <2>1. live \in Seq(Handlers) /\ \A j \in DOMAIN live : live[j].to \notin prog.crit
    <3>1. CASE dead
      <4>1. tries[t] # <<>> /\ tries[t] \in Seq(Handlers) /\ live = Front(tries[t])
        BY <3>1, <1>s
      <4>2. /\ Len(tries[t]) \in Nat \ {0}
            /\ Front(tries[t]) \in Seq(Handlers)
            /\ Len(Front(tries[t])) = Len(tries[t]) - 1
            /\ \A j \in 1 .. Len(tries[t]) - 1 : Front(tries[t])[j] = tries[t][j]
        BY <4>1, StackFacts
      <4>3. QED
        BY <4>1, <4>2 DEF MutexInv, CriticalOK
    <3>2. CASE ~dead
      BY <3>2, <1>s DEF MutexInv, CriticalOK
    <3>3. QED
      BY <3>1, <3>2
  <2>2. tries' = [tries EXCEPT ![t] = live]
    BY <1>x DEF ThrowException
  <2> HIDE DEF live
  <2>3. \A j \in DOMAIN tries'[t] : tries'[t][j].to \notin prog.crit
    BY <2>1, <2>2, <1>i DEF TypeInv, TypeOK
  <2>4. CASE live = <<>>
    <3>1. /\ frames' = [frames EXCEPT ![t] = <<>>]
          /\ phase' = [phase EXCEPT ![t] = "uncaught"]
          /\ UNCHANGED <<prog, pc, natives, mutex>>
      BY <1>x, <2>4 DEF ThrowException, Enter, live
    <3>2. CriticalOK(t)'
      BY <3>1, <1>x, <1>i, <2>3
         DEF MutexInv, CriticalOK, InCritical, TypeInv, TypeOK
    <3>3. QED
      BY <3>1, <3>2, <1>i, <1>k, <2>2 DEF MutexInv, TypeInv, TypeOK
  <2>5. CASE live # <<>>
    <3>1. PICK q \in {"exec", "assert"} :
            /\ pc' = [pc EXCEPT ![t] = Last(live).to]
            /\ phase' = [phase EXCEPT ![t] = q]
            /\ UNCHANGED <<prog, frames, natives, mutex>>
      BY <1>x, <2>5 DEF ThrowException, Enter, Goto, live
    <3>2. Last(live).to \notin prog.crit
      <4>1. Len(live) \in Nat \ {0} /\ Last(live) = live[Len(live)]
        BY <2>1, <2>5, StackFacts
      <4>2. QED
        BY <2>1, <4>1
    <3>3. CriticalOK(t)'
      BY <3>1, <3>2, <1>x, <1>i, <2>3
         DEF MutexInv, CriticalOK, InCritical, TypeInv, TypeOK
    <3>4. QED
      BY <3>1, <3>3, <1>i, <1>k, <2>2 DEF MutexInv, TypeInv, TypeOK
  <2>6. QED
    BY <2>4, <2>5
<1>10. ASSUME NEW t \in Vm, Throw(t) PROVE MutexInv'
  BY <1>10, <1>x DEF Throw, At
<1>11. ASSUME NEW t \in Vm, Raise(t) PROVE MutexInv'
  <2>1. /\ phase[t] = "exec"
        /\ pc[t] \notin prog.crit => pc[t] + 1 \notin prog.crit
        /\ UNCHANGED <<prog, natives, mutex>>
    BY <1>11, <1>b DEF Raise, At, Ins, NoReturn, CriticalIsBracketed
  <2>2. CASE Goto(t, pc[t] + 1) /\ UNCHANGED <<phase, frames, tries>>
    BY <2>1, <2>2, <1>a
  <2>3. CASE ThrowException(t)
    BY <2>1, <2>3, <1>x
  <2>4. QED
    BY <1>11, <2>2, <2>3 DEF Raise
<1>12. ASSUME NEW t \in Vm, Try(t) \/ Catch(t) \/ EndTry(t) PROVE MutexInv'
  <2>1. /\ phase[t] = "exec"
        /\ pc[t] \notin prog.crit => pc[t] + 1 \notin prog.crit
        /\ UNCHANGED <<prog, frames, args, natives, mutex>>
        /\ tries[t] \in Seq(Handlers)
    BY <1>12, <1>b, <1>s DEF Try, Catch, EndTry, At, Ins, NoReturn, CriticalIsBracketed
  <2>2. tries[t] # <<>> =>
          /\ Len(tries[t]) \in Nat \ {0}
          /\ Last(tries[t]) = tries[t][Len(tries[t])]
          /\ Front(tries[t]) \in Seq(Handlers)
          /\ Len(Front(tries[t])) = Len(tries[t]) - 1
          /\ \A j \in 1 .. Len(tries[t]) - 1 : Front(tries[t])[j] = tries[t][j]
    BY <2>1, StackFacts
  <2>3. PICK hs \in Seq(Handlers) :
          /\ tries' = [tries EXCEPT ![t] = hs]
          /\ \A j \in DOMAIN hs : hs[j].to \notin prog.crit
    <3>1. CASE Try(t)
      <4>1. Ins(t).to \notin prog.crit /\ Handler(Ins(t).to, 1) \in Handlers
        BY <3>1, <1>i, <1>b, CodeFacts
           DEF Try, At, Ins, CriticalIsBracketed, TypeInv, ProgramOK, Handler, Handlers
      <4>2. Append(tries[t], Handler(Ins(t).to, 1)) \in Seq(Handlers)
        BY <4>1, <2>1
      <4>3. \A j \in DOMAIN Append(tries[t], Handler(Ins(t).to, 1)) :
              Append(tries[t], Handler(Ins(t).to, 1))[j].to \notin prog.crit
        BY <4>1, <2>1 DEF Handler, MutexInv, CriticalOK
      <4>4. QED
        BY <3>1, <4>2, <4>3 DEF Try
    <3>2. CASE Catch(t) /\ tries[t] # <<>>
      <4> DEFINE top == Handler(Last(tries[t]).to, 2)
                 hs  == Append(Front(tries[t]), top)
      <4>1. top \in Handlers /\ top.to \notin prog.crit
        <5>1. Last(tries[t]).to \notin prog.crit
          BY <3>2, <2>2 DEF MutexInv, CriticalOK
        <5>2. Last(tries[t]) \in Handlers
          BY <3>2, <2>1, StackFacts
        <5>3. QED
          BY <5>1, <5>2 DEF Handler, Handlers
      <4>2. \A j \in DOMAIN Front(tries[t]) : Front(tries[t])[j].to \notin prog.crit
        BY <3>2, <2>1, <2>2 DEF MutexInv, CriticalOK
      <4>3. hs \in Seq(Handlers) /\ \A j \in DOMAIN hs : hs[j].to \notin prog.crit
        BY <3>2, <2>2, <4>1, <4>2
      <4>4. tries' = [tries EXCEPT ![t] = hs]
        BY <3>2 DEF Catch
      <4>5. QED
        BY <4>3, <4>4
    <3>3. CASE EndTry(t) /\ tries[t] # <<>>
      <4>1. \A j \in DOMAIN Front(tries[t]) : Front(tries[t])[j].to \notin prog.crit
        BY <3>3, <2>1, <2>2 DEF MutexInv, CriticalOK
      <4>2. tries' = [tries EXCEPT ![t] = Front(tries[t])]
        BY <3>3 DEF EndTry
      <4>3. QED
        BY <3>3, <2>2, <4>1, <4>2
    <3>4. CASE (Catch(t) \/ EndTry(t)) /\ tries[t] = <<>>
      <4>1. tries' = [tries EXCEPT ![t] = tries[t]]
        BY <3>4, <1>i DEF Catch, EndTry, TypeInv, TypeOK
      <4>2. QED
        BY <2>1, <4>1 DEF MutexInv, CriticalOK
    <3>5. QED
      BY <1>12, <3>1, <3>2, <3>3, <3>4
  <2>4. \/ Goto(t, pc[t] + 1) /\ UNCHANGED phase
        \/ Enter(t, "undefined") /\ UNCHANGED pc
    BY <1>12 DEF Try, Catch, EndTry
  <2>5. CriticalOK(t)'
    BY <2>1, <2>3, <2>4, <1>i
       DEF Goto, Enter, MutexInv, CriticalOK, InCritical, TypeInv, TypeOK
  <2>6. QED
    BY <2>1, <2>3, <2>4, <2>5, <1>i, <1>k DEF Goto, Enter, MutexInv, TypeInv, TypeOK
<1>13. ASSUME NEW t \in Vm, Lock(t) PROVE MutexInv'
  <2>1. CriticalOK(t)'
    BY <1>13, <1>i DEF Lock, At, Goto, MutexInv, CriticalOK, InCritical, TypeInv, TypeOK
  <2>2. QED
    BY <1>13, <1>i, <1>k, <1>s, <2>1 DEF Lock, Goto, MutexInv, TypeInv, TypeOK
<1>14. ASSUME NEW t \in Vm, Unlock(t) PROVE MutexInv'
  <2>1. mutex = t /\ pc[t] + 1 \notin prog.crit
    BY <1>14, <1>b
       DEF Unlock, At, Ins, CriticalIsBracketed, MutexInv, CriticalOK, InCritical
  <2>2. CriticalOK(t)'
    BY <1>14, <1>i, <2>1
       DEF Unlock, At, Goto, MutexInv, CriticalOK, InCritical, TypeInv, TypeOK
  <2>3. QED
    BY <1>14, <1>i, <1>k, <1>s, <2>1, <2>2 DEF Unlock, Goto, MutexInv, TypeInv, TypeOK
<1>15. ASSUME NEW t \in Vm, Spawn(t) PROVE MutexInv'
  <2>0. /\ phase[t] = "exec"
        /\ Ins(t).fn \in Func
        /\ prog.entry[Ins(t).fn] \notin prog.crit
        /\ Frame(Ins(t).fn, Halt).ret \notin prog.crit
        /\ pc[t] \notin prog.crit => pc[t] + 1 \notin prog.crit
    BY <1>15, <1>i, <1>b, CodeFacts
       DEF Spawn, At, Ins, Frame, Invoking, NoReturn, CriticalIsBracketed, TypeInv, ProgramOK
  <2>1. PICK u \in Vm, h \in Func :
          /\ phase[u] = "none" /\ u # t
          /\ prog.entry[h] \notin prog.crit
          /\ Frame(h, Halt).ret \notin prog.crit
          /\ frames'  = [frames EXCEPT ![u] = Append(frames[t], Frame(h, Halt))]
          /\ tries'   = [tries EXCEPT ![u] = tries[t]]
          /\ pc'      = [pc EXCEPT ![t] = @ + 1, ![u] = prog.entry[h]]
          /\ phase'   = [phase EXCEPT ![u] = "entry"]
          /\ UNCHANGED <<prog, natives, mutex>>
    BY <1>15, <2>0 DEF Spawn
  <2>2. CriticalOK(u)'
    <3>1. \A i \in DOMAIN frames'[u] : frames'[u][i].ret \notin prog.crit
      BY <2>1, <1>i, <1>s, SMTT(30) DEF MutexInv, CriticalOK, TypeInv, TypeOK
    <3>2. \A i \in DOMAIN tries'[u] : tries'[u][i].to \notin prog.crit
      BY <2>1, <1>i DEF MutexInv, CriticalOK, TypeInv, TypeOK
    <3>3. \A i \in DOMAIN natives'[u] : natives'[u][i].saved \notin prog.crit
      BY <2>1 DEF MutexInv, CriticalOK
    <3>4. phase'[u] = "entry" /\ pc'[u] \notin prog.crit
      BY <2>1, <1>i DEF TypeInv, TypeOK
    <3>5. QED
      BY <2>1, <3>1, <3>2, <3>3, <3>4 DEF CriticalOK, InCritical
  <2>3. CriticalOK(t)'
    BY <2>0, <2>1, <1>i DEF MutexInv, CriticalOK, InCritical, TypeInv, TypeOK
  <2>4. \A w \in Vm \ {t, u} : CriticalOK(w)'
    BY <2>1, <1>i, <1>k DEF TypeInv, TypeOK
  <2>5. \A w \in Vm : CriticalOK(w)'
    BY <2>2, <2>3, <2>4
  <2>6. QED
    BY <2>5, <1>i DEF MutexInv
<1>16. CASE UNCHANGED vars
  BY <1>16, <1>i, <1>k DEF vars, MutexInv
<1>17. QED
  BY <1>1, <1>2, <1>3, <1>4, <1>7, <1>8, <1>9, <1>10, <1>11, <1>12, <1>13, <1>14,
     <1>15, <1>16 DEF Next, Step

\* No two threads bind the arguments of a call (VM::prepareCall) or run the
\* body of a critical block (OP_LOCK .. OP_UNLOCK) at the same time.
THEOREM MutualExclusionHolds == Spec => []MutualExclusion
<1>1. MutexInv => MutualExclusion
  BY DEF MutexInv, CriticalOK, MutualExclusion
<1>2. QED
  BY MutexInit, MutexNext, <1>1, PTL DEF Spec

-------------------------------------------------------------------------------
FramesOf(p) == [fn : Owner, ret : Addr(p)]
RunsOf(p)   == [saved : Addr(p), left : Nat, depth : Nat]
StatesAt(p) == [Addr(p) -> SUBSET StatesOf(p)]

(***************************************************************************)
(* One level of a VM, an activation: where it is or will go on, what lay   *)
(* on the try stack when it began, and its own state.                      *)
(***************************************************************************)
Level(p) == [at : Addr(p), below : Seq(HandlersOf(p)), st : StatesOf(p)]

Activation(a, h, s) == [at |-> a, below |-> h, st |-> s]

\* A native called by the activation of depth d has called back.
Entered(N, d) == \E i \in 1 .. Len(N) : N[i].depth = d

\* Activation j of L is the one frame j was made for.
Fits(p, w, F, L, j) ==
  /\ F[j].fn = p.owner[L[j].at]
  /\ F[j].fn = Global <=> j = 1
  /\ L[j].st \in w[L[j].at]
  /\ \A i \in 1 .. Len(L[j].below) :
       \E k \in 1 .. j - 1 : F[k].fn = p.owner[L[j].below[i].to]

\* Frame j + 1 goes back to where activation j goes on, or to the OP_HALT.
Returns(p, F, N, L, j) ==
  IF Entered(N, j)
  THEN F[j + 1].ret = Len(p.code)
  ELSE F[j + 1].ret = L[j].at /\ L[j].st.args = 0

\* The activations L account for the call stack F, the try stack H and the
\* callbacks N.  Those below b were copied from the thread that started this one.
Shape(p, w, F, H, N, b, L) ==
  /\ Len(L) = Len(F)
  /\ L # <<>>
  /\ \A j \in 1 .. Len(L) : Fits(p, w, F, L, j)
  /\ L[1].below = <<>>
  /\ \A j \in 1 .. Len(L) - 1 : L[j + 1].below = L[j].below \o L[j].st.tries
  /\ H = L[Len(L)].below \o L[Len(L)].st.tries
  /\ \A j \in 1 .. Len(L) - 1 : b <= j => Returns(p, F, N, L, j)
  /\ b > 1 /\ b <= Len(L) => F[b].ret = Len(p.code)
  /\ \A i \in 1 .. Len(N) : /\ N[i].depth \in b .. Len(L)
                            /\ N[i].saved = L[N[i].depth].at
  /\ \A i, j \in 1 .. Len(N) : i < j => N[i].depth < N[j].depth

-------------------------------------------------------------------------------
LEMMA TopFacts ==
  ASSUME NEW S, NEW x \in Seq(S), NEW y \in Seq(S), y # <<>>
  PROVE  /\ x \o y # <<>>
         /\ Last(x \o y) = Last(y)
         /\ Front(x \o y) = x \o Front(y)
<1>1. /\ Len(x) \in Nat
      /\ Len(y) \in Nat \ {0}
      /\ Len(x \o y) = Len(x) + Len(y)
      /\ x \o y \in Seq(S)
  OBVIOUS
<1>2. x \o y # <<>>
  BY <1>1
<1>3. /\ Front(y) \in Seq(S) /\ Len(Front(y)) = Len(y) - 1
      /\ \A i \in 1 .. Len(y) - 1 : Front(y)[i] = y[i]
      /\ Last(y) = y[Len(y)]
  BY StackFacts
<1>4. /\ Front(x \o y) \in Seq(S) /\ Len(Front(x \o y)) = Len(x \o y) - 1
      /\ \A i \in 1 .. Len(x \o y) - 1 : Front(x \o y)[i] = (x \o y)[i]
      /\ Last(x \o y) = (x \o y)[Len(x \o y)]
  BY <1>1, <1>2, StackFacts
<1>5. Last(x \o y) = Last(y)
  BY <1>1, <1>3, <1>4
<1>6. ASSUME NEW f \in Seq(S), Len(f) = Len(y) - 1, \A i \in 1 .. Len(y) - 1 : f[i] = y[i],
             NEW g \in Seq(S), Len(g) = Len(x \o y) - 1,
             \A i \in 1 .. Len(x \o y) - 1 : g[i] = (x \o y)[i]
      PROVE  g = x \o f
  <2>1. x \o f \in Seq(S) /\ Len(x \o f) = Len(x) + Len(f) /\ Len(g) = Len(x) + Len(f)
    BY <1>1, <1>6
  <2>2. ASSUME NEW i \in 1 .. Len(g) PROVE g[i] = (x \o f)[i]
    <3>1. g[i] = (x \o y)[i]
      BY <1>1, <1>6, <2>1, <2>2
    <3>2. CASE i <= Len(x)
      BY <1>1, <1>6, <2>1, <2>2, <3>1, <3>2
    <3>3. CASE i > Len(x)
      <4>1. i - Len(x) \in 1 .. Len(y) - 1 /\ i - Len(x) \in 1 .. Len(f)
        BY <1>1, <1>6, <2>1, <2>2, <3>3
      <4>2. (x \o y)[i] = y[i - Len(x)]
        BY <1>1, <2>1, <2>2, <3>3, <4>1
      <4>3. (x \o f)[i] = f[i - Len(x)]
        BY <1>1, <1>6, <2>1, <2>2, <3>3, <4>1
      <4>4. f[i - Len(x)] = y[i - Len(x)]
        BY <1>6, <4>1
      <4>5. QED
        BY <3>1, <4>2, <4>3, <4>4
    <3>4. QED
      BY <1>1, <2>1, <2>2, <3>2, <3>3
  <2>3. QED
    BY <2>1, <2>2, SMTT(30)
<1>8. Front(x \o y) = x \o Front(y)
  BY <1>3, <1>4, <1>6
<1>9. QED
  BY <1>2, <1>5, <1>8

\* The innermost handler of an activation is that of the machine.
LEMMA LiveTop ==
  ASSUME NEW S, NEW x \in Seq(S), NEW y \in Seq(S), Live(y) # <<>>
  PROVE  /\ Live(x \o y) = x \o Live(y)
         /\ Live(x \o y) # <<>>
         /\ Last(Live(x \o y)) = Last(Live(y))
         /\ Live(y) \in Seq(S)
<1>1. y # <<>>
  BY DEF Live
<1>2. x \o y # <<>> /\ Last(x \o y) = Last(y) /\ Front(x \o y) = x \o Front(y)
  BY <1>1, TopFacts
<1>3. Front(y) \in Seq(S)
  BY <1>1, StackFacts
<1>4. Live(x \o y) = x \o Live(y) /\ Live(y) \in Seq(S)
  BY <1>1, <1>2, <1>3 DEF Live
<1>5. QED
  BY <1>4, TopFacts

-------------------------------------------------------------------------------
\* The activation on top is the one whose callback has run if it is one that
\* a callback was called from: callbacks are nested.
LEMMA InnermostEntered ==
  ASSUME NEW p, NEW w, NEW F, NEW H, NEW b \in Nat \ {0}, NEW L \in Seq(Level(p)),
         NEW N \in Seq(RunsOf(p)), Shape(p, w, F, H, N, b, L)
  PROVE  Entered(N, Len(L)) <=> N # <<>> /\ Last(N).depth = Len(L)
<1>1. Len(N) \in Nat /\ Len(L) \in Nat
  OBVIOUS
<1>2. ASSUME N # <<>>, Last(N).depth = Len(L) PROVE Entered(N, Len(L))
  BY <1>1, <1>2 DEF Last, Entered
<1>3. ASSUME Entered(N, Len(L)) PROVE N # <<>> /\ Last(N).depth = Len(L)
  <2>1. PICK i \in 1 .. Len(N) : N[i].depth = Len(L)
    BY <1>3 DEF Entered
  <2>2. N # <<>> /\ Len(N) \in 1 .. Len(N)
    BY <1>1, <2>1
  <2>3. ~(i < Len(N))
    <3> SUFFICES ASSUME i < Len(N) PROVE FALSE
      OBVIOUS
    <3>1. N[i].depth < N[Len(N)].depth /\ N[Len(N)].depth \in b .. Len(L)
      BY <2>2 DEF Shape
    <3>2. QED
      BY <3>1, <2>1, <1>1
  <2>4. QED
    BY <1>1, <2>1, <2>2, <2>3 DEF Last
<1>4. QED
  BY <1>2, <1>3

LEMMA LevelFacts ==
  ASSUME NEW p, NEW L \in Seq(Level(p)), NEW j \in 1 .. Len(L)
  PROVE  /\ L[j].at \in Addr(p)
         /\ L[j].below \in Seq(HandlersOf(p))
         /\ L[j].st \in StatesOf(p)
         /\ L[j].st.tries \in Seq(HandlersOf(p))
         /\ L[j].st.args \in Nat
<1>1. L[j] \in Level(p)
  OBVIOUS
<1>2. L[j].at \in Addr(p) /\ L[j].below \in Seq(HandlersOf(p)) /\ L[j].st \in StatesOf(p)
  BY <1>1 DEF Level
<1>3. QED
  BY <1>2 DEF StatesOf

LEMMA ConcatAt ==
  ASSUME NEW S, NEW x \in Seq(S), NEW y \in Seq(S), NEW i \in 1 .. Len(x \o y)
  PROVE  \/ i \in 1 .. Len(x) /\ (x \o y)[i] = x[i]
         \/ i - Len(x) \in 1 .. Len(y) /\ (x \o y)[i] = y[i - Len(x)]
  OBVIOUS

\* Every handler of the try stack belongs to an activation on the call stack.
LEMMA HandlersOwned ==
  ASSUME NEW p \in Programs, NEW w \in StatesAt(p), Checked(p, w),
         NEW F, NEW H, NEW N, NEW b \in Nat \ {0}, NEW L \in Seq(Level(p)),
         Shape(p, w, F, H, N, b, L)
  PROVE  \A i \in 1 .. Len(H) : \E k \in 1 .. Len(L) : F[k].fn = p.owner[H[i].to]
<1> DEFINE n == Len(L)
           x == L[n].below
           y == L[n].st.tries
<1>1. n \in Nat \ {0} /\ n \in 1 .. n
  BY DEF Shape
<1>2. /\ x \in Seq(HandlersOf(p))
      /\ y \in Seq(HandlersOf(p))
      /\ L[n].at \in Addr(p)
  BY <1>1, LevelFacts
<1>3. Fits(p, w, F, L, n)
  BY <1>1 DEF Shape
<1>4. \A i \in 1 .. Len(y) : p.owner[y[i].to] = F[n].fn
  BY <1>1, <1>2, <1>3, SMTT(30) DEF Checked, Allows, Fits
<1>5. H = x \o y
  BY DEF Shape
<1> HIDE DEF x, y
<1>7. ASSUME NEW i \in 1 .. Len(H)
      PROVE  \E k \in 1 .. n : F[k].fn = p.owner[H[i].to]
  <2>1. CASE i \in 1 .. Len(x) /\ H[i] = x[i]
    <3>1. \E k \in 1 .. n - 1 : F[k].fn = p.owner[x[i].to]
      BY <1>3, <2>1 DEF Fits, x
    <3>2. QED
      BY <1>1, <2>1, <3>1
  <2>2. CASE i - Len(x) \in 1 .. Len(y) /\ H[i] = y[i - Len(x)]
    BY <1>1, <1>4, <2>2
  <2>3. QED
    BY <1>2, <1>5, <2>1, <2>2, ConcatAt, SMTT(30)
<1>8. QED
  BY <1>7

-------------------------------------------------------------------------------
\* The activation on top goes on to address a in state s.
Moved(L, a, s) == [L EXCEPT ![Len(L)] = Activation(a, L[Len(L)].below, s)]

LEMMA MovedFacts ==
  ASSUME NEW p, NEW L \in Seq(Level(p)), L # <<>>,
         NEW a \in Addr(p), NEW s \in StatesOf(p)
  PROVE  /\ Moved(L, a, s) \in Seq(Level(p))
         /\ Len(Moved(L, a, s)) = Len(L)
         /\ Moved(L, a, s) # <<>>
         /\ Moved(L, a, s)[Len(L)] = Activation(a, L[Len(L)].below, s)
         /\ \A j \in 1 .. Len(L) : /\ Moved(L, a, s)[j].below = L[j].below
                                   /\ j # Len(L) => Moved(L, a, s)[j] = L[j]
<1>1. Len(L) \in 1 .. Len(L)
  OBVIOUS
<1>2. Activation(a, L[Len(L)].below, s) \in Level(p)
  BY <1>1, LevelFacts DEF Activation, Level
<1>3. Moved(L, a, s) \in Seq(Level(p)) /\ Len(Moved(L, a, s)) = Len(L)
  BY <1>1, <1>2 DEF Moved
<1>4. \A j \in 1 .. Len(L) :
        Moved(L, a, s)[j] = IF j = Len(L) THEN Activation(a, L[Len(L)].below, s) ELSE L[j]
  BY DEF Moved
<1>5. QED
  BY <1>1, <1>3, <1>4 DEF Activation

LEMMA MovesOn ==
  ASSUME NEW p \in Programs, NEW w \in StatesAt(p), NEW F, NEW H, NEW b \in Nat \ {0},
         NEW N \in Seq(RunsOf(p)), NEW L \in Seq(Level(p)),
         Shape(p, w, F, H, N, b, L), ~Entered(N, Len(L)),
         NEW a \in Addr(p), NEW s \in w[a], p.owner[a] = p.owner[L[Len(L)].at]
  PROVE  /\ Moved(L, a, s) \in Seq(Level(p))
         /\ Len(Moved(L, a, s)) = Len(L)
         /\ Moved(L, a, s)[Len(L)] = Activation(a, L[Len(L)].below, s)
         /\ Shape(p, w, F, L[Len(L)].below \o s.tries, N, b, Moved(L, a, s))
<1> DEFINE n == Len(L)
           M == Moved(L, a, s)
<1>0. s \in StatesOf(p)
  BY DEF StatesAt
<1>1. /\ n \in Nat \ {0}
      /\ n \in 1 .. n
      /\ L # <<>>
  BY DEF Shape
<1>2. /\ M \in Seq(Level(p)) /\ Len(M) = n /\ M # <<>>
      /\ M[n] = Activation(a, L[n].below, s)
      /\ \A j \in 1 .. n : M[j].below = L[j].below /\ (j # n => M[j] = L[j])
  BY <1>0, <1>1, MovedFacts
<1> HIDE DEF M
<1>3. M[n].at = a /\ M[n].st = s
  BY <1>2 DEF Activation
<1>4. ASSUME NEW j \in 1 .. n PROVE Fits(p, w, F, M, j)
  <2>1. Fits(p, w, F, L, j)
    BY DEF Shape
  <2>2. CASE j # n
    BY <2>1, <2>2, <1>2 DEF Fits
  <2>3. CASE j = n
    <3>1. F[n].fn = p.owner[M[n].at] /\ (F[n].fn = Global <=> n = 1) /\ M[n].st \in w[M[n].at]
      BY <2>1, <2>3, <1>3 DEF Fits
    <3>2. M[n].below = L[n].below
      BY <1>1, <1>2
    <3>3. \A i \in 1 .. Len(M[n].below) :
             \E k \in 1 .. n - 1 : F[k].fn = p.owner[M[n].below[i].to]
      BY <2>1, <2>3, <3>2 DEF Fits
    <3>4. QED
      BY <2>3, <3>1, <3>3 DEF Fits
  <2>4. QED
    BY <2>2, <2>3
<1>5. M[1].below = <<>>
  BY <1>1, <1>2 DEF Shape
<1>6. \A j \in 1 .. n - 1 : M[j + 1].below = M[j].below \o M[j].st.tries
  <2> TAKE j \in 1 .. n - 1
  <2>1. j \in 1 .. n /\ j + 1 \in 1 .. n /\ j # n
    BY <1>1
  <2>2. L[j + 1].below = L[j].below \o L[j].st.tries
    BY <1>1 DEF Shape
  <2>3. M[j] = L[j] /\ M[j + 1].below = L[j + 1].below
    BY <1>2, <2>1
  <2>4. QED
    BY <2>2, <2>3
<1>7. ASSUME NEW j \in 1 .. n - 1, b <= j PROVE Returns(p, F, N, M, j)
  <2>1. j \in 1 .. n /\ j # n /\ Returns(p, F, N, L, j)
    BY <1>1, <1>7 DEF Shape
  <2>2. M[j] = L[j]
    BY <1>2, <2>1
  <2>3. QED
    BY <2>1, <2>2 DEF Returns
<1>8. ASSUME NEW i \in 1 .. Len(N)
      PROVE  N[i].depth \in b .. n /\ N[i].saved = M[N[i].depth].at
  <2>1. N[i].depth \in b .. n /\ N[i].saved = L[N[i].depth].at
    BY DEF Shape
  <2>2. N[i].depth # n
    BY DEF Entered
  <2>3. N[i].depth \in 1 .. n
    BY <1>1, <2>1
  <2>4. QED
    BY <1>2, <2>1, <2>2, <2>3
<1>9. /\ Len(M) = Len(F)
      /\ M # <<>>
      /\ \A i, j \in 1 .. Len(N) : i < j => N[i].depth < N[j].depth
      /\ b > 1 /\ b <= Len(M) => F[b].ret = Len(p.code)
  BY <1>2 DEF Shape
<1>10. L[n].below \o s.tries = M[Len(M)].below \o M[Len(M)].st.tries
  BY <1>1, <1>2, <1>3
<1>11. Shape(p, w, F, L[n].below \o s.tries, N, b, M)
  BY <1>2, <1>4, <1>5, <1>6, <1>7, <1>8, <1>9, <1>10 DEF Shape
<1>12. QED
  BY <1>2, <1>11 DEF M

-------------------------------------------------------------------------------
\* The activation on top calls a native that calls back.
LEMMA NativeCalls ==
  ASSUME NEW p \in Programs, NEW w \in StatesAt(p), NEW F, NEW H, NEW b \in Nat \ {0},
         NEW N \in Seq(RunsOf(p)), NEW L \in Seq(Level(p)),
         Shape(p, w, F, H, N, b, L), ~Entered(N, Len(L)), b <= Len(L), NEW k \in Nat
  PROVE  LET N2 == Append(N, Nested(L[Len(L)].at, k, Len(L))) IN
         /\ N2 \in Seq(RunsOf(p))
         /\ Entered(N2, Len(L))
         /\ Shape(p, w, F, H, N2, b, L)
<1> DEFINE n == Len(L)
           e == Nested(L[n].at, k, n)
           N2 == Append(N, e)
<1>1. n \in Nat \ {0} /\ n \in 1 .. n /\ n \in b .. n
  BY DEF Shape
<1>2. e.depth = n /\ e.saved = L[n].at /\ e \in RunsOf(p)
  BY <1>1, LevelFacts DEF Nested, RunsOf
<1> HIDE DEF e
<1>3. /\ N2 \in Seq(RunsOf(p))
      /\ Len(N) \in Nat
      /\ Len(N2) = Len(N) + 1
      /\ N2[Len(N) + 1] = e
      /\ \A i \in 1 .. Len(N) : N2[i] = N[i]
  BY <1>2
<1> HIDE DEF N2
<1>4. Entered(N2, n)
  BY <1>2, <1>3 DEF Entered
<1>5. \A i \in 1 .. Len(N) : N[i].depth \in b .. n /\ N[i].depth < n
  BY <1>1 DEF Shape, Entered
<1>6. \A j \in 1 .. n - 1 : Entered(N2, j) <=> Entered(N, j)
  <2> TAKE j \in 1 .. n - 1
  <2>1. ASSUME Entered(N, j) PROVE Entered(N2, j)
    <3>1. PICK i \in 1 .. Len(N) : N[i].depth = j
      BY <2>1 DEF Entered
    <3>2. i \in 1 .. Len(N2) /\ N2[i].depth = j
      BY <1>3, <3>1
    <3>3. QED
      BY <3>2 DEF Entered
  <2>2. ASSUME Entered(N2, j) PROVE Entered(N, j)
    <3>1. PICK i \in 1 .. Len(N2) : N2[i].depth = j
      BY <2>2 DEF Entered
    <3>2. j # n
      BY <1>1
    <3>3. i # Len(N) + 1
      BY <1>2, <1>3, <3>1, <3>2
    <3>4. i \in 1 .. Len(N) /\ N[i].depth = j
      BY <1>3, <3>1, <3>3
    <3>5. QED
      BY <3>4 DEF Entered
  <2>3. QED
    BY <2>1, <2>2
<1>7. \A j \in 1 .. n - 1 : b <= j => Returns(p, F, N2, L, j)
  BY <1>6 DEF Shape, Returns
<1>8. \A i \in 1 .. Len(N2) : N2[i].depth \in b .. n /\ N2[i].saved = L[N2[i].depth].at
  <2> TAKE i \in 1 .. Len(N2)
  <2>1. CASE i = Len(N) + 1
    BY <1>1, <1>2, <1>3, <2>1
  <2>2. CASE i \in 1 .. Len(N)
    BY <1>3, <2>2 DEF Shape
  <2>3. QED
    BY <1>3, <2>1, <2>2
<1>9. \A i, j \in 1 .. Len(N2) : i < j => N2[i].depth < N2[j].depth
  <2> SUFFICES ASSUME NEW i \in 1 .. Len(N2), NEW j \in 1 .. Len(N2), i < j
               PROVE  N2[i].depth < N2[j].depth
    OBVIOUS
  <2>1. i \in 1 .. Len(N) /\ (j \in 1 .. Len(N) \/ j = Len(N) + 1)
    BY <1>3
  <2>2. QED
    BY <1>2, <1>3, <1>5, <2>1 DEF Shape
<1>10. Shape(p, w, F, H, N2, b, L)
  BY <1>7, <1>8, <1>9 DEF Shape
<1>11. QED
  BY <1>3, <1>4, <1>10 DEF N2, e

\* The native the activation on top has called is back from its callback.
LEMMA NativeEnds ==
  ASSUME NEW p \in Programs, NEW w \in StatesAt(p), NEW F, NEW H, NEW b \in Nat \ {0},
         NEW N \in Seq(RunsOf(p)), NEW L \in Seq(Level(p)),
         Shape(p, w, F, H, N, b, L), Entered(N, Len(L))
  PROVE  /\ b <= Len(L)
         /\ N # <<>>
         /\ Last(N).saved = L[Len(L)].at
         /\ Front(N) \in Seq(RunsOf(p))
         /\ ~Entered(Front(N), Len(L))
         /\ Shape(p, w, F, H, Front(N), b, L)
<1> DEFINE n == Len(L)
           N2 == Front(N)
<1>1. n \in Nat \ {0} /\ n \in 1 .. n
  BY DEF Shape
<1>2. N # <<>> /\ Last(N).depth = n
  BY InnermostEntered
<1>3. /\ Len(N) \in Nat \ {0}
      /\ Last(N) = N[Len(N)]
      /\ N2 \in Seq(RunsOf(p))
      /\ Len(N2) = Len(N) - 1
      /\ \A i \in 1 .. Len(N) - 1 : N2[i] = N[i]
  BY <1>2, StackFacts
<1> HIDE DEF N2
<1>4. Len(N) \in 1 .. Len(N) /\ N[Len(N)].depth = n
  BY <1>2, <1>3
<1>5. n \in b .. n /\ Last(N).saved = L[n].at
  BY <1>3, <1>4 DEF Shape
<1>6. \A i \in 1 .. Len(N2) : i \in 1 .. Len(N) /\ N2[i] = N[i] /\ N2[i].depth < n
  <2> TAKE i \in 1 .. Len(N2)
  <2>1. i \in 1 .. Len(N) /\ i < Len(N) /\ N2[i] = N[i]
    BY <1>3
  <2>2. QED
    BY <2>1, <1>4 DEF Shape
<1>7. ~Entered(N2, n)
  BY <1>1, <1>6 DEF Entered
<1>8. \A j \in 1 .. n - 1 : Entered(N2, j) <=> Entered(N, j)
  <2> TAKE j \in 1 .. n - 1
  <2>1. Entered(N2, j) => Entered(N, j)
    BY <1>6 DEF Entered
  <2>2. ASSUME Entered(N, j) PROVE Entered(N2, j)
    <3>1. PICK i \in 1 .. Len(N) : N[i].depth = j
      BY <2>2 DEF Entered
    <3>2. i # Len(N)
      BY <1>1, <1>4, <3>1
    <3>3. i \in 1 .. Len(N2) /\ N2[i] = N[i]
      BY <1>3, <3>2
    <3>4. QED
      BY <3>1, <3>3 DEF Entered
  <2>3. QED
    BY <2>1, <2>2
<1>9. \A j \in 1 .. n - 1 : b <= j => Returns(p, F, N2, L, j)
  BY <1>8 DEF Shape, Returns
<1>10. \A i \in 1 .. Len(N2) : N2[i].depth \in b .. n /\ N2[i].saved = L[N2[i].depth].at
  BY <1>6 DEF Shape
<1>11. \A i, j \in 1 .. Len(N2) : i < j => N2[i].depth < N2[j].depth
  BY <1>6 DEF Shape
<1>12. Shape(p, w, F, H, N2, b, L)
  BY <1>9, <1>10, <1>11 DEF Shape
<1>13. QED
  BY <1>1, <1>2, <1>3, <1>5, <1>7, <1>12 DEF N2

\* A new thread: its activations so far are copies that nothing returns to.
LEMMA Inherits ==
  ASSUME NEW p \in Programs, NEW w \in StatesAt(p), NEW F, NEW H, NEW b \in Nat \ {0},
         NEW N, NEW L \in Seq(Level(p)), Shape(p, w, F, H, N, b, L)
  PROVE  Shape(p, w, F, H, <<>>, Len(L) + 1, L)
<1>1. Len(L) \in Nat /\ Len(<<>>) = 0
  OBVIOUS
<1>2. \A j \in 1 .. Len(L) - 1 : ~(Len(L) + 1 <= j)
  BY <1>1
<1>3. ~(Len(L) + 1 <= Len(L))
  BY <1>1
<1>4. \A j \in 1 .. Len(L) - 1 : Len(L) + 1 <= j => Returns(p, F, <<>>, L, j)
  BY <1>2
<1>5. /\ \A i \in 1 .. Len(<<>>) : FALSE
      /\ \A i, j \in 1 .. Len(<<>>) : FALSE
  BY <1>1
<1>6. QED
  BY <1>3, <1>4, <1>5 DEF Shape

\* A function is entered.
LEMMA Pushes ==
  ASSUME NEW p \in Programs, NEW w \in StatesAt(p), Checked(p, w),
         NEW F \in Seq(FramesOf(p)), NEW H, NEW b \in Nat \ {0},
         NEW N \in Seq(RunsOf(p)), NEW L \in Seq(Level(p)),
         Shape(p, w, F, H, N, b, L),
         NEW f \in Func, NEW r \in Addr(p),
         b <= Len(L) => IF Entered(N, Len(L))
                        THEN r = Len(p.code)
                        ELSE r = L[Len(L)].at /\ L[Len(L)].st.args = 0,
         b <= Len(L) + 1,
         b = Len(L) + 1 => r = Len(p.code)
  PROVE  LET F2 == Append(F, Frame(f, r))
             L2 == Append(L, Activation(p.entry[f], H, Clean))
         IN  /\ L2 \in Seq(Level(p))
             /\ Len(L2) = Len(L) + 1
             /\ L2[Len(L2)] = Activation(p.entry[f], H, Clean)
             /\ ~Entered(N, Len(L2))
             /\ Shape(p, w, F2, H, N, b, L2)
<1>o. \A i \in 1 .. Len(H) : \E k \in 1 .. Len(L) : F[k].fn = p.owner[H[i].to]
  BY HandlersOwned
<1> DEFINE n == Len(L)
           F2 == Append(F, Frame(f, r))
           e == Activation(p.entry[f], H, Clean)
           L2 == Append(L, e)
<1>0. /\ p.entry[f] \in Addr(p) /\ p.owner[p.entry[f]] = f /\ f # Global /\ f \in Owner
      /\ Clean \in w[p.entry[f]] /\ Clean.tries = <<>>
      /\ Clean \in StatesOf(p)
  <2>1. WellFormed(p)
    BY ProgramsAssumption
  <2>2. QED
    BY <2>1, FuncAssumption DEF WellFormed, CallsEnterBodies, Checked, Owner, Clean, Pending, StatesOf
<1>1. n \in Nat \ {0} /\ n \in 1 .. n /\ Len(F) = n
  BY DEF Shape
<1>h. H \in Seq(HandlersOf(p))
  <2>1. L[n].below \in Seq(HandlersOf(p)) /\ L[n].st.tries \in Seq(HandlersOf(p))
    BY <1>1, LevelFacts
  <2>2. H = L[n].below \o L[n].st.tries
    BY DEF Shape
  <2>3. QED
    BY <2>1, <2>2
<1>2. e \in Level(p) /\ e.at = p.entry[f] /\ e.below = H /\ e.st = Clean
  BY <1>0, <1>h DEF Activation, Level
<1>3. Frame(f, r) \in FramesOf(p) /\ Frame(f, r).fn = f /\ Frame(f, r).ret = r
  BY <1>0 DEF Frame, FramesOf
<1>4. /\ L2 \in Seq(Level(p)) /\ Len(L2) = n + 1 /\ L2[n + 1] = e
      /\ \A j \in 1 .. n : L2[j] = L[j]
  BY <1>1, <1>2
<1>5. /\ Len(F2) = n + 1 /\ F2[n + 1] = Frame(f, r)
      /\ \A j \in 1 .. n : F2[j] = F[j]
  BY <1>1, <1>3
<1>e. e = Activation(p.entry[f], H, Clean)
  OBVIOUS
<1> HIDE DEF e, L2, F2
<1>6. \A j \in 1 .. n + 1 : Fits(p, w, F2, L2, j)
  <2> TAKE j \in 1 .. n + 1
  <2>1. CASE j \in 1 .. n
    <3>1. Fits(p, w, F, L, j)
      BY <2>1 DEF Shape
    <3>2. F2[j] = F[j] /\ L2[j] = L[j] /\ \A k \in 1 .. j - 1 : F2[k] = F[k]
      BY <1>1, <1>4, <1>5, <2>1
    <3>3. QED
      BY <3>1, <3>2 DEF Fits
  <2>2. CASE j = n + 1
    <3>1. \A i \in 1 .. Len(H) : \E k \in 1 .. n : F[k].fn = p.owner[H[i].to]
      BY <1>o
    <3>2. F2[j].fn = f /\ L2[j].at = p.entry[f] /\ L2[j].below = H /\ L2[j].st = Clean /\ j # 1
      BY <1>1, <1>2, <1>3, <1>4, <1>5, <2>2
    <3>3. \A i \in 1 .. Len(L2[j].below) :
             \E k \in 1 .. j - 1 : F2[k].fn = p.owner[L2[j].below[i].to]
      <4> TAKE i \in 1 .. Len(L2[j].below)
      <4>1. i \in 1 .. Len(H) /\ L2[j].below[i] = H[i]
        BY <3>2, Zenon
      <4>2. PICK k \in 1 .. n : F[k].fn = p.owner[H[i].to]
        BY <3>1, <4>1, Zenon
      <4>3. F2[k].fn = p.owner[L2[j].below[i].to]
        BY <1>5, <4>1, <4>2, Zenon
      <4>4. k \in 1 .. j - 1
        BY <1>1, <2>2
      <4> QED
        BY <4>3, <4>4, Zenon
    <3>4. QED
      BY <1>0, <3>2, <3>3 DEF Fits
  <2>3. QED
    BY <1>1, <2>1, <2>2
<1>7. L2[1].below = <<>>
  BY <1>1, <1>4 DEF Shape
<1>8. \A j \in 1 .. n : L2[j + 1].below = L2[j].below \o L2[j].st.tries
  <2> TAKE j \in 1 .. n
  <2>1. CASE j = n
    <3>1. H = L[n].below \o L[n].st.tries
      BY DEF Shape
    <3>2. L2[n] = L[n] /\ L2[n + 1].below = H
      BY <1>1, <1>2, <1>4
    <3>3. L2[n + 1].below = L2[n].below \o L2[n].st.tries
      BY <3>1, <3>2, Zenon
    <3>4. QED
      BY <2>1, <3>3, Zenon
  <2>2. CASE j \in 1 .. n - 1
    <3>1. j + 1 \in 1 .. n
      BY <1>1, <2>2
    <3>2. QED
      BY <1>4, <2>2, <3>1 DEF Shape
  <2>3. j = n \/ j \in 1 .. n - 1
    BY <1>1
  <2>4. QED
    BY <2>1, <2>2, <2>3, Zenon
<1>9. H = L2[n + 1].below \o L2[n + 1].st.tries
  <2>1. H \o <<>> = H
    BY <1>h
  <2>2. QED
    BY <1>0, <1>2, <1>4, <2>1
<1>10. \A j \in 1 .. n : b <= j => Returns(p, F2, N, L2, j)
  <2> SUFFICES ASSUME NEW j \in 1 .. n, b <= j PROVE Returns(p, F2, N, L2, j)
    OBVIOUS
  <2>1. CASE j = n
    BY <1>1, <1>3, <1>4, <1>5, <2>1 DEF Returns
  <2>2. CASE j \in 1 .. n - 1
    <3>1. j + 1 \in 1 .. n
      BY <1>1, <2>2
    <3>2. Returns(p, F, N, L, j)
      BY <2>2 DEF Shape
    <3>3. QED
      BY <1>4, <1>5, <2>2, <3>1, <3>2 DEF Returns
  <2>3. QED
    BY <1>1, <2>1, <2>2
<1>11. b > 1 /\ b <= n + 1 => F2[b].ret = Len(p.code)
  <2>1. CASE b = n + 1
    BY <1>3, <1>5, <2>1
  <2>2. CASE b <= n
    <3>1. b \in 1 .. n
      BY <1>1, <2>2
    <3>2. QED
      BY <1>5, <2>2, <3>1 DEF Shape
  <2>3. QED
    BY <1>1, <2>1, <2>2
<1>12. \A i \in 1 .. Len(N) : N[i].depth \in 1 .. n /\ N[i].depth \in b .. n
  BY <1>1 DEF Shape
<1>13. \A i \in 1 .. Len(N) : N[i].depth \in b .. n + 1 /\ N[i].saved = L2[N[i].depth].at
  BY <1>1, <1>4, <1>12 DEF Shape
<1>14. ~Entered(N, n + 1)
  BY <1>1, <1>12 DEF Entered
<1>15. /\ Len(L2) = Len(F2)
       /\ L2 # <<>>
       /\ Len(L2) - 1 = n
       /\ \A i, j \in 1 .. Len(N) : i < j => N[i].depth < N[j].depth
  BY <1>1, <1>4, <1>5 DEF Shape
<1>16. Shape(p, w, F2, H, N, b, L2)
  BY <1>4, <1>6, <1>7, <1>8, <1>9, <1>10, <1>11, <1>13, <1>15 DEF Shape
<1>17. QED
  BY <1>4, <1>14, <1>16, <1>e DEF L2, F2

\* The activation on top returns: it has left nothing on the try stack.
LEMMA Pops ==
  ASSUME NEW p \in Programs, NEW w \in StatesAt(p),
         NEW F \in Seq(FramesOf(p)), NEW H, NEW b \in Nat \ {0},
         NEW N \in Seq(RunsOf(p)), NEW L \in Seq(Level(p)),
         Shape(p, w, F, H, N, b, L), ~Entered(N, Len(L)), b <= Len(L),
         L[Len(L)].st = Clean, Len(L) # 1
  PROVE  /\ Front(L) \in Seq(Level(p))
         /\ Len(Front(L)) = Len(L) - 1
         /\ Shape(p, w, Front(F), H, N, b, Front(L))
         /\ IF b <= Len(L) - 1 /\ ~Entered(N, Len(L) - 1)
            THEN /\ Front(L)[Len(L) - 1].at = Last(F).ret
                 /\ Front(L)[Len(L) - 1].st.args = 0
            ELSE Last(F).ret = Len(p.code)
<1> DEFINE n == Len(L)
           F2 == Front(F)
           L2 == Front(L)
<1>1. n \in Nat \ {0, 1} /\ Len(F) = n /\ F # <<>> /\ L # <<>> /\ n - 1 \in 1 .. n /\ n \in 1 .. n
  BY DEF Shape
<1>2. /\ L2 \in Seq(Level(p)) /\ Len(L2) = n - 1
      /\ \A j \in 1 .. n - 1 : L2[j] = L[j]
  BY <1>1, StackFacts
<1>3. /\ Len(F2) = n - 1
      /\ \A j \in 1 .. n - 1 : F2[j] = F[j]
      /\ Last(F) = F[n]
  BY <1>1, StackFacts
<1> HIDE DEF L2, F2
<1>4. \A j \in 1 .. n - 1 : Fits(p, w, F2, L2, j)
  <2> TAKE j \in 1 .. n - 1
  <2>1. Fits(p, w, F, L, j)
    BY <1>1 DEF Shape
  <2>2. F2[j] = F[j] /\ L2[j] = L[j] /\ \A k \in 1 .. j - 1 : F2[k] = F[k]
    BY <1>1, <1>2, <1>3
  <2>3. QED
    BY <2>1, <2>2 DEF Fits
<1>5. L2[1].below = <<>>
  BY <1>1, <1>2 DEF Shape
<1>6. \A j \in 1 .. n - 2 : L2[j + 1].below = L2[j].below \o L2[j].st.tries
  <2> TAKE j \in 1 .. n - 2
  <2>1. j \in 1 .. n - 1 /\ j + 1 \in 1 .. n - 1
    BY <1>1
  <2>2. L[j + 1].below = L[j].below \o L[j].st.tries
    BY <2>1 DEF Shape
  <2>3. L2[j + 1] = L[j + 1] /\ L2[j] = L[j]
    BY <1>2, <2>1
  <2>4. QED
    BY <2>2, <2>3
<1>7. H = L2[n - 1].below \o L2[n - 1].st.tries
  <2>1. H = L[n].below \o L[n].st.tries
    BY DEF Shape
  <2>2. L[n].below \in Seq(HandlersOf(p)) /\ L[n].st.tries = <<>>
    BY <1>1, LevelFacts DEF Clean, Pending
  <2>3. H = L[n].below
    BY <2>1, <2>2
  <2>a. \A j \in 1 .. n - 1 : L[j + 1].below = L[j].below \o L[j].st.tries
    BY DEF Shape
  <2>b. n - 1 \in 1 .. n - 1
    BY <1>1
  <2>4. L[(n - 1) + 1].below = L[n - 1].below \o L[n - 1].st.tries
    BY <2>a, <2>b, Zenon
  <2>5. (n - 1) + 1 = n /\ L2[n - 1] = L[n - 1]
    BY <1>1, <1>2
  <2>6. QED
    BY <2>3, <2>4, <2>5, Zenon
<1>8. \A j \in 1 .. n - 2 : b <= j => Returns(p, F2, N, L2, j)
  <2> SUFFICES ASSUME NEW j \in 1 .. n - 2, b <= j PROVE Returns(p, F2, N, L2, j)
    OBVIOUS
  <2>1. j \in 1 .. n - 1 /\ j + 1 \in 1 .. n - 1
    BY <1>1
  <2>2. Returns(p, F, N, L, j)
    BY <2>1 DEF Shape
  <2>3. F2[j + 1] = F[j + 1] /\ L2[j] = L[j]
    BY <1>2, <1>3, <2>1
  <2>4. QED
    BY <2>2, <2>3 DEF Returns
<1>9. b > 1 /\ b <= n - 1 => F2[b].ret = Len(p.code)
  BY <1>1, <1>3 DEF Shape
<1>10. \A i \in 1 .. Len(N) : N[i].depth \in 1 .. n - 1 /\ N[i].depth \in b .. n - 1
  BY <1>1, SMTT(30) DEF Shape, Entered
<1>11. \A i \in 1 .. Len(N) : N[i].depth \in b .. n - 1 /\ N[i].saved = L2[N[i].depth].at
  BY <1>1, <1>2, <1>10 DEF Shape
<1>12. /\ Len(L2) = Len(F2)
       /\ L2 # <<>>
       /\ Len(L2) - 1 = n - 2
  BY <1>1, <1>2, <1>3
<1>b. \A i, j \in 1 .. Len(N) : i < j => N[i].depth < N[j].depth
  BY DEF Shape
<1>13. Shape(p, w, F2, H, N, b, L2)
  BY <1>b, <1>2, <1>4, <1>5, <1>6, <1>7, <1>8, <1>9, <1>11, <1>12 DEF Shape
<1>14. b <= n - 1 => Returns(p, F, N, L, n - 1)
  BY <1>1 DEF Shape
<1>15. (n - 1) + 1 = n
  BY <1>1
<1>16. CASE b <= n - 1
  BY <1>1, <1>2, <1>3, <1>13, <1>14, <1>15, <1>16 DEF Returns, L2, F2
<1>17. CASE b = n
  <2>1. F[n].ret = Len(p.code)
    BY <1>1, <1>17 DEF Shape
  <2>2. ~(b <= n - 1)
    BY <1>1, <1>17
  <2>3. QED
    BY <1>2, <1>3, <1>13, <2>1, <2>2 DEF L2, F2
<1>18. QED
  BY <1>1, <1>16, <1>17

-------------------------------------------------------------------------------
(***************************************************************************)
(* A VM in phase ph at address a whose stacks are in step with the script: *)
(* it has not begun, it has ended, or its activations account for them and *)
(* the one on top is where the VM is.  The exceptions are a callback that  *)
(* has come back to the OP_HALT, and a thread whose function has: the      *)
(* activation on top of its stack is that of the thread that started it.   *)
(***************************************************************************)
Active(p, w, t, a, F, H, k, N, b, L) ==
  /\ Shape(p, w, F, H, N, b, L)
  /\ t = Main => b = 1
  /\ b <= Len(L)
  /\ ~Entered(N, Len(L))
  /\ L[Len(L)].at = a
  /\ L[Len(L)].st.args = k

Suspended(p, w, t, ph, a, F, H, N, b, L) ==
  /\ Shape(p, w, F, H, N, b, L)
  /\ t = Main => b = 1
  /\ Entered(N, Len(L))
  /\ ph = "return" \/ (ph = "exec" /\ a = Len(p.code))

Over(p, w, t, F, H, N, b, L) ==
  /\ Shape(p, w, F, H, N, b, L)
  /\ t # Main
  /\ ~Entered(N, Len(L))
  /\ b > Len(L)

Sound(p, w, t, ph, a, F, H, k, N) ==
  \/ ph = "none" /\ t # Main /\ k = 0 /\ N = <<>>
  \/ ph = "done" /\ (t = Main => H = <<>> /\ Len(F) = 1)
  \/ /\ ph = "entry" /\ t = Main /\ a = 1
     /\ F = <<>> /\ H = <<>> /\ k = 0 /\ N = <<>>
  \/ \E b \in Nat \ {0}, L \in Seq(Level(p)) :
       \/ ph \in {"entry", "exec", "bind"} /\ Active(p, w, t, a, F, H, k, N, b, L)
       \/ Suspended(p, w, t, ph, a, F, H, N, b, L)
       \/ ph = "exec" /\ a = Len(p.code) /\ Over(p, w, t, F, H, N, b, L)

LEMMA ActiveIsSound ==
  ASSUME NEW p, NEW w, NEW t, NEW ph \in {"entry", "exec", "bind"}, NEW a, NEW F, NEW H,
         NEW k, NEW N, NEW b \in Nat \ {0}, NEW L \in Seq(Level(p)),
         Active(p, w, t, a, F, H, k, N, b, L)
  PROVE  Sound(p, w, t, ph, a, F, H, k, N)
  BY DEF Sound

\* The last instruction is an OP_HALT, so a VM that executes anything else is
\* inside an activation of its own.
LEMMA WhenActive ==
  ASSUME NEW p \in Programs, NEW w, NEW t, NEW ph \in {"exec", "bind"}, NEW a,
         NEW F, NEW H, NEW k, NEW N, Sound(p, w, t, ph, a, F, H, k, N),
         p.code[a].op # "HALT"
  PROVE  \E b \in Nat \ {0}, L \in Seq(Level(p)) : Active(p, w, t, a, F, H, k, N, b, L)
<1>1. p.code[Len(p.code)].op = "HALT"
  BY ProgramsAssumption DEF WellFormed, FallsThroughInside
<1>2. PICK b \in Nat \ {0}, L \in Seq(Level(p)) :
       \/ ph \in {"entry", "exec", "bind"} /\ Active(p, w, t, a, F, H, k, N, b, L)
       \/ Suspended(p, w, t, ph, a, F, H, N, b, L)
       \/ ph = "exec" /\ a = Len(p.code) /\ Over(p, w, t, F, H, N, b, L)
  BY DEF Sound
<1>3. ~Suspended(p, w, t, ph, a, F, H, N, b, L)
  BY <1>1 DEF Suspended
<1>4. QED
  BY <1>1, <1>2, <1>3

\* What is known of an instruction and of what may follow it.
LEMMA NextFacts ==
  ASSUME NEW p \in Programs, NEW w \in StatesAt(p), Checked(p, w),
         NEW a \in Addr(p), NEW s \in w[a]
  PROVE  /\ s \in StatesOf(p)
         /\ Allows(p, a, s)
         /\ \A e \in After(p, a, s) : /\ e[1] \in Addr(p)
                                      /\ p.owner[e[1]] = p.owner[a]
                                      /\ e[2] \in w[e[1]]
<1> DEFINE i == p.code[a]
<1>1. WellFormed(p)
  BY ProgramsAssumption
<1>2. s \in StatesOf(p) /\ s.tries \in Seq(HandlersOf(p))
  BY DEF StatesAt, StatesOf
<1>3. Allows(p, a, s) /\ \A e \in After(p, a, s) : e[2] \in w[e[1]]
  BY DEF Checked
<1>4. ASSUME i.op \notin NoReturn
      PROVE  a + 1 \in Addr(p) /\ p.owner[a + 1] = p.owner[a]
  BY <1>1, <1>4 DEF WellFormed, FallsThroughInside
<1>5. ASSUME i.op \in Jumps
      PROVE  i.to \in Addr(p) /\ p.owner[i.to] = p.owner[a]
  BY <1>1, <1>5 DEF WellFormed, JumpsStayInside
<1>6. ASSUME i.op \in Throwing
      PROVE  Last(Live(s.tries)).to \in Addr(p) /\ p.owner[Last(Live(s.tries)).to] = p.owner[a]
  <2>1. Live(s.tries) # <<>>
    BY <1>3, <1>6 DEF Allows
  <2>2. s.tries # <<>>
    BY <2>1 DEF Live
  <2>3. /\ Len(s.tries) \in Nat \ {0}
        /\ Front(s.tries) \in Seq(HandlersOf(p))
        /\ Len(Front(s.tries)) = Len(s.tries) - 1
        /\ \A k \in 1 .. Len(s.tries) - 1 : Front(s.tries)[k] = s.tries[k]
    BY <1>2, <2>2, StackFacts
  <2>4. Live(s.tries) \in Seq(HandlersOf(p))
    BY <1>2, <2>3 DEF Live
  <2>5. /\ Len(Live(s.tries)) \in 1 .. Len(Live(s.tries))
        /\ Last(Live(s.tries)) = Live(s.tries)[Len(Live(s.tries))]
        /\ Last(Live(s.tries)) \in HandlersOf(p)
    BY <2>1, <2>4, StackFacts
  <2>6. \E k \in 1 .. Len(s.tries) : Last(Live(s.tries)) = s.tries[k]
    <3>1. CASE Live(s.tries) = s.tries
      BY <2>5, <3>1
    <3>2. CASE Live(s.tries) = Front(s.tries)
      BY <2>3, <2>5, <3>2
    <3>3. QED
      BY <3>1, <3>2 DEF Live
  <2>7. \A k \in 1 .. Len(s.tries) : p.owner[s.tries[k].to] = p.owner[a]
    BY <1>2, <1>3 DEF Allows
  <2>8. QED
    BY <2>5, <2>6, <2>7 DEF HandlersOf
<1>7. QED
  BY <1>2, <1>3, <1>4, <1>5, <1>6 DEF After

\* The activation on top executes one instruction that moves no frame.
LEMMA Advances ==
  ASSUME NEW p \in Programs, NEW w \in StatesAt(p), Checked(p, w), NEW t,
         NEW a, NEW F, NEW H, NEW k, NEW N \in Seq(RunsOf(p)),
         NEW b \in Nat \ {0}, NEW L \in Seq(Level(p)), Active(p, w, t, a, F, H, k, N, b, L),
         NEW e \in After(p, a, L[Len(L)].st)
  PROVE  /\ Active(p, w, t, e[1], F, L[Len(L)].below \o e[2].tries, e[2].args, N, b,
                   Moved(L, e[1], e[2]))
         /\ Moved(L, e[1], e[2]) \in Seq(Level(p))
<1>1. Len(L) \in 1 .. Len(L) /\ Fits(p, w, F, L, Len(L)) /\ L[Len(L)].at = a
  BY DEF Active, Shape
<1>2. a \in Addr(p) /\ L[Len(L)].st \in w[a]
  BY <1>1, LevelFacts DEF Fits
<1>3. e[1] \in Addr(p) /\ p.owner[e[1]] = p.owner[a] /\ e[2] \in w[e[1]]
  BY <1>2, NextFacts
<1>4. /\ Moved(L, e[1], e[2]) \in Seq(Level(p))
      /\ Len(Moved(L, e[1], e[2])) = Len(L)
      /\ Moved(L, e[1], e[2])[Len(L)] = Activation(e[1], L[Len(L)].below, e[2])
      /\ Shape(p, w, F, L[Len(L)].below \o e[2].tries, N, b, Moved(L, e[1], e[2]))
  BY <1>1, <1>3, MovesOn DEF Active
<1>5. QED
  BY <1>4 DEF Active, Activation

\* The activation on top is in state s, above the handlers x, and executes the
\* instruction at a; whatever the instruction leads to is sound again.
GoesOn(p, w, t, a, F, H, k, N, x, s) ==
  /\ H = x \o s.tries
  /\ s.args = k
  /\ Allows(p, a, s)
  /\ F # <<>>
  /\ Last(F).fn = p.owner[a]
  /\ \A e \in After(p, a, s) :
       Sound(p, w, t, "exec", e[1], F, x \o e[2].tries, e[2].args, N)

LEMMA StepsOn ==
  ASSUME NEW p \in Programs, NEW w \in StatesAt(p), Checked(p, w), NEW t,
         NEW ph \in {"exec", "bind"}, NEW a, NEW F \in Seq(FramesOf(p)), NEW H, NEW k,
         NEW N \in Seq(RunsOf(p)), Sound(p, w, t, ph, a, F, H, k, N),
         p.code[a].op # "HALT"
  PROVE  \E x \in Seq(HandlersOf(p)), s \in StatesOf(p) : GoesOn(p, w, t, a, F, H, k, N, x, s)
<1>1. PICK b \in Nat \ {0}, L \in Seq(Level(p)) : Active(p, w, t, a, F, H, k, N, b, L)
  BY WhenActive
<1> DEFINE x == L[Len(L)].below
           s == L[Len(L)].st
<1>2. Len(L) \in 1 .. Len(L) /\ Fits(p, w, F, L, Len(L)) /\ L[Len(L)].at = a
  BY <1>1 DEF Active, Shape
<1>3. a \in Addr(p) /\ s \in w[a] /\ x \in Seq(HandlersOf(p)) /\ s \in StatesOf(p)
  BY <1>2, LevelFacts DEF Fits
<1>4. H = x \o s.tries /\ s.args = k /\ Len(L) = Len(F)
  BY <1>1 DEF Active, Shape
<1>5. Allows(p, a, s)
  BY <1>3, NextFacts
<1>6. F # <<>> /\ Last(F).fn = p.owner[a]
  <2>1. F[Len(F)].fn = p.owner[a]
    BY <1>2, <1>4 DEF Fits
  <2>2. F # <<>>
    BY <1>2, <1>4
  <2>3. QED
    BY <2>1, <2>2, StackFacts
<1>7. ASSUME NEW e \in After(p, a, s)
      PROVE  Sound(p, w, t, "exec", e[1], F, x \o e[2].tries, e[2].args, N)
  <2>1. /\ Active(p, w, t, e[1], F, x \o e[2].tries, e[2].args, N, b, Moved(L, e[1], e[2]))
        /\ Moved(L, e[1], e[2]) \in Seq(Level(p))
    BY <1>1, Advances
  <2>2. QED
    BY <2>1, ActiveIsSound
<1>8. GoesOn(p, w, t, a, F, H, k, N, x, s)
  BY <1>4, <1>5, <1>6, <1>7 DEF GoesOn
<1>9. QED
  BY <1>3, <1>8

LEMMA FallsOn ==
  ASSUME NEW p, NEW a, NEW s
  PROVE  /\ p.code[a].op \notin NoReturn => <<a + 1, Fallen(p.code[a], s)>> \in After(p, a, s)
         /\ p.code[a].op \in Jumps => <<p.code[a].to, s>> \in After(p, a, s)
         /\ p.code[a].op \in Throwing =>
              <<Last(Live(s.tries)).to, Pending(Live(s.tries), 0)>> \in After(p, a, s)
  BY DEF After

-------------------------------------------------------------------------------
(* What each handler does to the VM that executes it. *)

LEMMA BeginsSound ==
  ASSUME NEW p \in Programs, NEW w \in StatesAt(p), Checked(p, w), NEW t,
         NEW a, NEW F, NEW H, NEW k, NEW N,
         Sound(p, w, t, "entry", a, F, H, k, N)
  PROVE  Sound(p, w, t, "exec", a, IF F = <<>> THEN <<Frame(Global, 1)>> ELSE F, H, k, N)
<1>1. CASE /\ t = Main /\ a = 1
           /\ F = <<>> /\ H = <<>> /\ k = 0 /\ N = <<>>
  <2> DEFINE L == <<Activation(1, <<>>, Clean)>>
             G == <<Frame(Global, 1)>>
  <2>1. 1 \in Addr(p) /\ p.owner[1] = Global /\ Clean \in w[1] /\ Clean \in StatesOf(p)
    BY CodeFacts DEF Checked, StatesAt
  <2>2. Activation(1, <<>>, Clean) \in Level(p)
    BY <2>1 DEF Activation, Level
  <2>3. L \in Seq(Level(p)) /\ Len(L) = 1 /\ L[1] = Activation(1, <<>>, Clean)
    BY <2>2
  <2>4. Len(G) = 1 /\ G[1].fn = Global
    BY DEF Frame
  <2>5. L[1].at = 1 /\ L[1].below = <<>> /\ L[1].st = Clean
    BY <2>3 DEF Activation
  <2> HIDE DEF L, G
  <2>6. \A j \in 1 .. 1 : Fits(p, w, G, L, j)
    BY <2>1, <2>4, <2>5 DEF Fits
  <2>7. <<>> = L[1].below \o L[1].st.tries
    BY <2>5 DEF Clean, Pending
  <2>e. Len(<<>>) = 0
    OBVIOUS
  <2>8. L # <<>>
    <3> SUFFICES ASSUME L = <<>> PROVE FALSE
      OBVIOUS
    <3>1. Len(L) = 0
      BY <2>e, Zenon
    <3>2. QED
      BY <2>3, <3>1
  <2>a. /\ \A j \in 1 .. Len(L) - 1 : FALSE
        /\ \A i \in 1 .. Len(<<>>) : FALSE
        /\ ~(1 > 1)
    BY <2>3, <2>e
  <2>9. Shape(p, w, G, <<>>, <<>>, 1, L)
    BY <2>3, <2>4, <2>5, <2>6, <2>7, <2>8, <2>a, Zenon DEF Shape
  <2>10. Active(p, w, t, a, G, H, k, N, 1, L)
    BY <1>1, <2>3, <2>5, <2>8, <2>9 DEF Active, Entered, Clean, Pending
  <2>11. 1 \in Nat \ {0}
    OBVIOUS
  <2>12. Sound(p, w, t, "exec", a, G, H, k, N)
    BY <2>3, <2>10, <2>11, ActiveIsSound
  <2>13. QED
    BY <1>1, <2>12 DEF G
<1>2. CASE \E b \in Nat \ {0}, L \in Seq(Level(p)) : Active(p, w, t, a, F, H, k, N, b, L)
  <2>1. PICK b \in Nat \ {0}, L \in Seq(Level(p)) : Active(p, w, t, a, F, H, k, N, b, L)
    BY <1>2
  <2>2. F # <<>>
    BY <2>1 DEF Active, Shape
  <2>3. QED
    BY <2>1, <2>2, ActiveIsSound
<1>3. QED
  BY <1>1, <1>2 DEF Sound, Suspended

LEMMA LeavesSound ==
  ASSUME NEW p \in Programs, NEW w \in StatesAt(p), Checked(p, w), NEW t,
         NEW a, NEW F \in Seq(FramesOf(p)), NEW H, NEW k, NEW N \in Seq(RunsOf(p)),
         Sound(p, w, t, "exec", a, F, H, k, N),
         \/ p.code[a].op = "HALT"
         \/ p.code[a].op = "RET" /\ Last(F).fn = Global
  PROVE  IF N = <<>> THEN Sound(p, w, t, "done", a, F, H, k, N)
                     ELSE Sound(p, w, t, "return", Last(N).saved, F, H, k, N)
<1>1. PICK b \in Nat \ {0}, L \in Seq(Level(p)) :
       \/ Active(p, w, t, a, F, H, k, N, b, L)
       \/ Suspended(p, w, t, "exec", a, F, H, N, b, L)
       \/ Over(p, w, t, F, H, N, b, L)
  BY DEF Sound
<1>2. CASE Suspended(p, w, t, "exec", a, F, H, N, b, L)
  <2>1. Suspended(p, w, t, "return", Last(N).saved, F, H, N, b, L)
    BY <1>2 DEF Suspended
  <2>2. N # <<>>
    BY <1>2 DEF Suspended, Entered
  <2>3. QED
    BY <2>1, <2>2 DEF Sound
<1>3. CASE Over(p, w, t, F, H, N, b, L)
  <2>1. Len(L) \in Nat /\ \A i \in 1 .. Len(N) : N[i].depth \in b .. Len(L)
    BY <1>3 DEF Over, Shape
  <2>2. N = <<>>
    BY <1>3, <2>1 DEF Over
  <2>3. QED
    BY <1>3, <2>2 DEF Sound, Over
<1>4. CASE Active(p, w, t, a, F, H, k, N, b, L)
  <2>1. /\ Len(L) \in 1 .. Len(L) /\ L[Len(L)].at = a /\ Fits(p, w, F, L, Len(L))
        /\ Len(F) = Len(L) /\ F # <<>>
    BY <1>4 DEF Active, Shape
  <2>2. a \in Addr(p) /\ L[Len(L)].st \in w[a] /\ F[Len(L)].fn = p.owner[a]
    BY <2>1, LevelFacts DEF Fits
  <2>3. L[Len(L)].st = Clean /\ (p.code[a].op = "HALT" => p.owner[a] = Global)
    BY <2>2, NextFacts DEF Allows
  <2>4. F[Len(L)].fn = Global
    BY <2>1, <2>2, <2>3, StackFacts
  <2>5. Len(L) = 1
    BY <2>1, <2>4 DEF Fits
  <2>6. b = 1
    BY <1>4, <2>5 DEF Active
  <2>7. \A i \in 1 .. Len(N) : N[i].depth = 1
    BY <1>4, <2>5, <2>6 DEF Active, Shape
  <2>8. N = <<>>
    BY <1>4, <2>5, <2>7 DEF Active, Entered
  <2>9. H = L[1].below \o L[1].st.tries /\ L[1].below = <<>>
    BY <1>4, <2>5 DEF Active, Shape
  <2>10. H = <<>>
    BY <2>3, <2>5, <2>9 DEF Clean, Pending
  <2>11. QED
    BY <2>1, <2>5, <2>8, <2>10 DEF Sound
<1>5. QED
  BY <1>1, <1>2, <1>3, <1>4

LEMMA ReturnsSound ==
  ASSUME NEW p \in Programs, NEW w \in StatesAt(p), Checked(p, w), NEW t,
         NEW a, NEW F \in Seq(FramesOf(p)), NEW H, NEW k, NEW N \in Seq(RunsOf(p)),
         Sound(p, w, t, "exec", a, F, H, k, N),
         p.code[a].op \in {"RET", "LEAVE"}, p.code[a].op = "RET" => Last(F).fn # Global
  PROVE  /\ Len(F) # 1
         /\ Sound(p, w, t, "exec", Last(F).ret, Front(F), H, k, N)
<1>1. PICK b \in Nat \ {0}, L \in Seq(Level(p)) : Active(p, w, t, a, F, H, k, N, b, L)
  BY WhenActive
<1>2. /\ Len(L) \in 1 .. Len(L) /\ L[Len(L)].at = a /\ Fits(p, w, F, L, Len(L))
      /\ Len(F) = Len(L) /\ F # <<>>
  BY <1>1 DEF Active, Shape
<1>3. a \in Addr(p) /\ L[Len(L)].st \in w[a] /\ F[Len(L)].fn = p.owner[a]
  BY <1>2, LevelFacts DEF Fits
<1>4. L[Len(L)].st = Clean /\ (p.code[a].op = "LEAVE" => p.owner[a] # Global)
  BY <1>3, NextFacts DEF Allows
<1>5. F[Len(L)].fn # Global
  BY <1>2, <1>3, <1>4, StackFacts
<1>6. Len(L) # 1
  BY <1>2, <1>5 DEF Fits
<1>7. k = 0
  BY <1>1, <1>4 DEF Active, Clean, Pending
<1>8. /\ Front(L) \in Seq(Level(p))
      /\ Len(Front(L)) = Len(L) - 1
      /\ Shape(p, w, Front(F), H, N, b, Front(L))
      /\ IF b <= Len(L) - 1 /\ ~Entered(N, Len(L) - 1)
         THEN /\ Front(L)[Len(L) - 1].at = Last(F).ret
              /\ Front(L)[Len(L) - 1].st.args = 0
         ELSE Last(F).ret = Len(p.code)
  BY <1>1, <1>4, <1>6, Pops DEF Active
<1>9. t = Main => b = 1
  BY <1>1 DEF Active
<1>10. CASE Entered(N, Len(L) - 1)
  <2>1. Suspended(p, w, t, "exec", Last(F).ret, Front(F), H, N, b, Front(L))
    BY <1>8, <1>9, <1>10 DEF Suspended
  <2>2. QED
    BY <1>2, <1>6, <1>8, <2>1 DEF Sound
<1>11. CASE ~Entered(N, Len(L) - 1) /\ b <= Len(L) - 1
  <2>1. Active(p, w, t, Last(F).ret, Front(F), H, k, N, b, Front(L))
    BY <1>7, <1>8, <1>9, <1>11 DEF Active
  <2>2. QED
    BY <1>2, <1>6, <1>8, <2>1, ActiveIsSound
<1>12. CASE ~Entered(N, Len(L) - 1) /\ ~(b <= Len(L) - 1)
  <2>1. t # Main
    BY <1>2, <1>6, <1>9, <1>12
  <2>2. Over(p, w, t, Front(F), H, N, b, Front(L))
    BY <1>2, <1>8, <1>12, <2>1 DEF Over
  <2>3. QED
    BY <1>2, <1>6, <1>8, <1>12, <2>2 DEF Sound
<1>13. QED
  BY <1>10, <1>11, <1>12

\* The function f has been entered from an activation that goes on at r, is
\* called back by a native, or belongs to the thread that started this one.
LEMMA EntersSound ==
  ASSUME NEW p \in Programs, NEW w \in StatesAt(p), Checked(p, w), NEW t,
         NEW ph \in {"entry", "exec"},
         NEW F \in Seq(FramesOf(p)), NEW H, NEW b \in Nat \ {0},
         NEW N \in Seq(RunsOf(p)), NEW L \in Seq(Level(p)),
         Shape(p, w, F, H, N, b, L), t = Main => b = 1,
         NEW f \in Func, NEW r \in Addr(p),
         b <= Len(L) => IF Entered(N, Len(L))
                        THEN r = Len(p.code)
                        ELSE r = L[Len(L)].at /\ L[Len(L)].st.args = 0,
         b <= Len(L) + 1,
         b = Len(L) + 1 => r = Len(p.code)
  PROVE  Sound(p, w, t, ph, p.entry[f], Append(F, Frame(f, r)), H, 0, N)
<1> DEFINE L2 == Append(L, Activation(p.entry[f], H, Clean))
<1>1. /\ L2 \in Seq(Level(p))
      /\ Len(L2) = Len(L) + 1
      /\ L2[Len(L2)] = Activation(p.entry[f], H, Clean)
      /\ ~Entered(N, Len(L2))
      /\ Shape(p, w, Append(F, Frame(f, r)), H, N, b, L2)
  BY Pushes
<1> HIDE DEF L2
<1>2. Active(p, w, t, p.entry[f], Append(F, Frame(f, r)), H, 0, N, b, L2)
  BY <1>1 DEF Active, Activation, Clean, Pending
<1>3. QED
  BY <1>1, <1>2, ActiveIsSound

LEMMA CallsSound ==
  ASSUME NEW p \in Programs, NEW w \in StatesAt(p), Checked(p, w), NEW t,
         NEW a, NEW F \in Seq(FramesOf(p)), NEW H, NEW k, NEW N \in Seq(RunsOf(p)),
         Sound(p, w, t, "bind", a, F, H, k, N), p.code[a].op = "CALL"
  PROVE  /\ k = p.params[p.code[a].fn]
         /\ Sound(p, w, t, "exec", p.entry[p.code[a].fn],
                  Append(F, Frame(p.code[a].fn, a + 1)), H, 0, N)
<1>1. PICK b \in Nat \ {0}, L \in Seq(Level(p)) : Active(p, w, t, a, F, H, k, N, b, L)
  BY WhenActive
<1> DEFINE s == L[Len(L)].st
           e == <<a + 1, Pending(s.tries, 0)>>
<1>2. Len(L) \in 1 .. Len(L) /\ Fits(p, w, F, L, Len(L)) /\ L[Len(L)].at = a
  BY <1>1 DEF Active, Shape
<1>3. a \in Addr(p) /\ s \in w[a]
  BY <1>2, LevelFacts DEF Fits
<1>4. Allows(p, a, s)
  BY <1>3, NextFacts
<1>5. k = p.params[p.code[a].fn]
  BY <1>1, <1>4 DEF Allows, Active
<1>6. e \in After(p, a, s)
  BY FallsOn DEF NoReturn, Fallen
<1>7. e[1] = a + 1 /\ e[2].tries = s.tries /\ e[2].args = 0 /\ e[2] = Pending(s.tries, 0)
  BY DEF Pending
<1>8. a + 1 \in Addr(p) /\ p.code[a].fn \in Func
  BY <1>3, CodeFacts DEF NoReturn, Invoking
<1> DEFINE M == Moved(L, e[1], e[2])
<1>9. /\ Active(p, w, t, e[1], F, L[Len(L)].below \o e[2].tries, e[2].args, N, b, M)
      /\ M \in Seq(Level(p))
  BY <1>1, <1>6, Advances
<1> HIDE DEF M
<1>10. H = L[Len(L)].below \o s.tries
  BY <1>1 DEF Active, Shape
<1>11. Active(p, w, t, a + 1, F, H, 0, N, b, M)
  BY <1>7, <1>9, <1>10
<1>12. Len(M) \in Nat
  BY <1>9
<1>13. Sound(p, w, t, "exec", p.entry[p.code[a].fn],
             Append(F, Frame(p.code[a].fn, a + 1)), H, 0, N)
  <2>1. Shape(p, w, F, H, N, b, M) /\ (t = Main => b = 1) /\ b <= Len(M)
    BY <1>11 DEF Active
  <2>2. b <= Len(M) + 1 /\ b # Len(M) + 1
    BY <1>12, <2>1
  <2> DEFINE f == p.code[a].fn
             r == a + 1
  <2>3. f \in Func /\ r \in Addr(p)
    BY <1>8
  <2>4. b <= Len(M) => IF Entered(N, Len(M))
                       THEN r = Len(p.code)
                       ELSE r = M[Len(M)].at /\ M[Len(M)].st.args = 0
    BY <1>11 DEF Active
  <2> HIDE DEF f, r
  <2>5. Sound(p, w, t, "exec", p.entry[f], Append(F, Frame(f, r)), H, 0, N)
    BY <1>9, <2>1, <2>2, <2>3, <2>4, EntersSound
  <2>6. QED
    BY <2>5 DEF f, r
<1>14. QED
  BY <1>5, <1>13

LEMMA CallsBackSound ==
  ASSUME NEW p \in Programs, NEW w \in StatesAt(p), Checked(p, w), NEW t,
         NEW a, NEW F \in Seq(FramesOf(p)), NEW H, NEW k, NEW N \in Seq(RunsOf(p)),
         NEW b \in Nat \ {0}, NEW L \in Seq(Level(p)),
         Shape(p, w, F, H, N, b, L), t = Main => b = 1, b <= Len(L),
         ~Entered(N, Len(L)), L[Len(L)].at = a, p.code[a].op = "NATIVE", NEW j \in Nat
  PROVE  Sound(p, w, t, "entry", p.entry[p.code[a].fn],
               Append(F, Frame(p.code[a].fn, Len(p.code))), H, 0,
               Append(N, Nested(a, j, Len(F))))
<1>1. Len(F) = Len(L) /\ Len(L) \in 1 .. Len(L)
  BY DEF Shape
<1>2. a \in Addr(p)
  BY <1>1, LevelFacts
<1>3. Len(p.code) \in Addr(p) /\ p.code[a].fn \in Func
  BY <1>2, CodeFacts DEF Invoking
<1> DEFINE N2 == Append(N, Nested(L[Len(L)].at, j, Len(L)))
<1>4. N2 \in Seq(RunsOf(p)) /\ Entered(N2, Len(L)) /\ Shape(p, w, F, H, N2, b, L)
  BY NativeCalls
<1>5. N2 = Append(N, Nested(a, j, Len(F)))
  BY <1>1
<1> HIDE DEF N2
<1>6. Sound(p, w, t, "entry", p.entry[p.code[a].fn],
            Append(F, Frame(p.code[a].fn, Len(p.code))), H, 0, N2)
  <2>1. b <= Len(L) + 1
    BY <1>1
  <2>2. "entry" \in {"entry", "exec"}
    OBVIOUS
  <2> DEFINE f == p.code[a].fn
             r == Len(p.code)
  <2>3. f \in Func /\ r \in Addr(p)
    BY <1>3
  <2>4. /\ b <= Len(L) => IF Entered(N2, Len(L))
                          THEN r = Len(p.code)
                          ELSE r = L[Len(L)].at /\ L[Len(L)].st.args = 0
        /\ b = Len(L) + 1 => r = Len(p.code)
    BY <1>4
  <2> HIDE DEF f, r
  <2>5. Sound(p, w, t, "entry", p.entry[f], Append(F, Frame(f, r)), H, 0, N2)
    BY <1>4, <2>1, <2>2, <2>3, <2>4, EntersSound
  <2>6. QED
    BY <2>5 DEF f, r
<1>7. QED
  BY <1>5, <1>6

LEMMA NativeSound ==
  ASSUME NEW p \in Programs, NEW w \in StatesAt(p), Checked(p, w), NEW t,
         NEW a, NEW F \in Seq(FramesOf(p)), NEW H, NEW k, NEW N \in Seq(RunsOf(p)),
         Sound(p, w, t, "exec", a, F, H, k, N), p.code[a].op = "NATIVE", NEW j \in Nat
  PROVE  Sound(p, w, t, "entry", p.entry[p.code[a].fn],
               Append(F, Frame(p.code[a].fn, Len(p.code))), H, 0,
               Append(N, Nested(a, j, Len(F))))
<1>1. PICK b \in Nat \ {0}, L \in Seq(Level(p)) : Active(p, w, t, a, F, H, k, N, b, L)
  BY WhenActive
<1>2. QED
  BY <1>1, CallsBackSound DEF Active

LEMMA ResumesSound ==
  ASSUME NEW p \in Programs, NEW w \in StatesAt(p), Checked(p, w), NEW t,
         NEW a, NEW F \in Seq(FramesOf(p)), NEW H, NEW k, NEW N \in Seq(RunsOf(p)),
         Sound(p, w, t, "return", a, F, H, k, N),
         a = Last(N).saved, p.code[a].op = "NATIVE", NEW j \in Nat
  PROVE  /\ Last(N).depth = Len(F)
         /\ Sound(p, w, t, "entry", p.entry[p.code[a].fn],
                  Append(F, Frame(p.code[a].fn, Len(p.code))), H, 0,
                  Append(Front(N), Nested(a, j, Len(F))))
         /\ Sound(p, w, t, "exec", a + 1, F, H, 0, Front(N))
<1>1. PICK b \in Nat \ {0}, L \in Seq(Level(p)) : Suspended(p, w, t, "return", a, F, H, N, b, L)
  BY DEF Sound
<1>2. Shape(p, w, F, H, N, b, L) /\ Entered(N, Len(L)) /\ (t = Main => b = 1)
  BY <1>1 DEF Suspended
<1>3. /\ b <= Len(L)
      /\ Last(N).saved = L[Len(L)].at
      /\ Front(N) \in Seq(RunsOf(p))
      /\ ~Entered(Front(N), Len(L))
      /\ Shape(p, w, F, H, Front(N), b, L)
  BY <1>2, NativeEnds
<1>a. Last(N).depth = Len(L)
  BY <1>2, InnermostEntered
<1>4. Last(N).depth = Len(F)
  BY <1>2, <1>a DEF Shape
<1>5. Sound(p, w, t, "entry", p.entry[p.code[a].fn],
            Append(F, Frame(p.code[a].fn, Len(p.code))), H, 0,
            Append(Front(N), Nested(a, j, Len(F))))
  BY <1>2, <1>3, CallsBackSound
<1>6. Active(p, w, t, a, F, H, L[Len(L)].st.args, Front(N), b, L)
  BY <1>2, <1>3 DEF Active
<1> DEFINE s == L[Len(L)].st
           e == <<a + 1, Pending(s.tries, 0)>>
<1>7. e \in After(p, a, s)
  BY FallsOn DEF NoReturn, Fallen
<1>8. e[1] = a + 1 /\ e[2].tries = s.tries /\ e[2].args = 0
  BY DEF Pending
<1>9. /\ Active(p, w, t, e[1], F, L[Len(L)].below \o e[2].tries, e[2].args, Front(N), b,
                Moved(L, e[1], e[2]))
      /\ Moved(L, e[1], e[2]) \in Seq(Level(p))
  BY <1>3, <1>6, <1>7, Advances
<1>10. H = L[Len(L)].below \o s.tries
  BY <1>2 DEF Shape
<1>11. Sound(p, w, t, "exec", a + 1, F, H, 0, Front(N))
  BY <1>8, <1>9, <1>10, ActiveIsSound
<1>12. QED
  BY <1>4, <1>5, <1>11

LEMMA StartsSound ==
  ASSUME NEW p \in Programs, NEW w \in StatesAt(p), Checked(p, w), NEW t, NEW u,
         NEW a, NEW F \in Seq(FramesOf(p)), NEW H, NEW k, NEW N \in Seq(RunsOf(p)),
         Sound(p, w, t, "exec", a, F, H, k, N), p.code[a].op = "SPAWN", u # Main
  PROVE  Sound(p, w, u, "entry", p.entry[p.code[a].fn],
               Append(F, Frame(p.code[a].fn, Len(p.code))), H, 0, <<>>)
<1>1. PICK b \in Nat \ {0}, L \in Seq(Level(p)) : Active(p, w, t, a, F, H, k, N, b, L)
  BY WhenActive
<1>s. Shape(p, w, F, H, N, b, L)
  BY <1>1 DEF Active
<1>2. Len(L) \in 1 .. Len(L) /\ L[Len(L)].at = a
  BY <1>1 DEF Active, Shape
<1>3. a \in Addr(p)
  BY <1>2, LevelFacts
<1>4. Len(p.code) \in Addr(p) /\ p.code[a].fn \in Func
  BY <1>3, CodeFacts DEF Invoking
<1>5. Shape(p, w, F, H, <<>>, Len(L) + 1, L)
  BY <1>s, Inherits
<1>6. Len(L) + 1 \in Nat \ {0} /\ ~(Len(L) + 1 <= Len(L)) /\ Len(L) + 1 <= Len(L) + 1
  BY <1>2
<1>7. <<>> \in Seq(RunsOf(p))
  OBVIOUS
<1>8. QED
  BY <1>4, <1>5, <1>6, <1>7, EntersSound

-------------------------------------------------------------------------------
VMSound(w, t) ==
  Sound(prog, w, t, phase[t], pc[t], frames[t], tries[t], args[t], natives[t])

InStep(w) == Checked(prog, w) /\ \A t \in Vm : VMSound(w, t)

StackInv == TypeInv /\ \E w \in StatesAt(prog) : InStep(w)

\* No fields of VM u but those given are changed.
Keeps(u) ==
  /\ phase'[u] = phase[u] /\ pc'[u] = pc[u] /\ frames'[u] = frames[u]
  /\ tries'[u] = tries[u] /\ args'[u] = args[u] /\ natives'[u] = natives[u]

LEMMA KeepsSound ==
  ASSUME NEW w, NEW u \in Vm, VMSound(w, u), prog' = prog, Keeps(u)
  PROVE  VMSound(w, u)'
  BY DEF VMSound, Keeps

LEMMA Becomes ==
  ASSUME NEW w, NEW t \in Vm, prog' = prog,
         Sound(prog, w, t, phase'[t], pc'[t], frames'[t], tries'[t], args'[t], natives'[t])
  PROVE  VMSound(w, t)'
  BY DEF VMSound

LEMMA VMFacts ==
  ASSUME TypeInv, NEW t \in Vm
  PROVE  /\ prog \in Programs
         /\ pc[t] \in Addr(prog)
         /\ frames[t] \in Seq(FramesOf(prog))
         /\ tries[t] \in Seq(HandlersOf(prog))
         /\ natives[t] \in Seq(RunsOf(prog))
         /\ phase \in [Vm -> Phase] /\ pc \in [Vm -> Addr(prog)]
         /\ frames \in [Vm -> Seq(FramesOf(prog))] /\ tries \in [Vm -> Seq(HandlersOf(prog))]
         /\ args \in [Vm -> Nat] /\ natives \in [Vm -> Seq(RunsOf(prog))]
         /\ StackOK(t)
  BY DEF TypeInv, ProgramOK, TypeOK, StacksOK, Frames, FramesOf, Handlers, HandlersOf,
         NestedRuns, RunsOf

LEMMA VMStepsOn ==
  ASSUME TypeInv, NEW w \in StatesAt(prog), InStep(w), NEW t \in Vm,
         phase[t] = "exec", Ins(t).op # "HALT"
  PROVE  \E x \in Seq(HandlersOf(prog)), s \in StatesOf(prog) :
           GoesOn(prog, w, t, pc[t], frames[t], tries[t], args[t], natives[t], x, s)
<1>1. Sound(prog, w, t, "exec", pc[t], frames[t], tries[t], args[t], natives[t])
  BY DEF InStep, VMSound
<1>2. /\ prog \in Programs /\ Checked(prog, w) /\ "exec" \in {"exec", "bind"}
      /\ frames[t] \in Seq(FramesOf(prog)) /\ natives[t] \in Seq(RunsOf(prog))
      /\ prog.code[pc[t]].op # "HALT"
  BY VMFacts DEF InStep, Ins
<1>3. QED
  BY <1>1, <1>2, StepsOn

\* What a step of t that moves no frame must show.
LEMMA Stays ==
  ASSUME TypeInv, NEW w \in StatesAt(prog), InStep(w), NEW t \in Vm, prog' = prog,
         Sound(prog, w, t, phase'[t], pc'[t], frames'[t], tries'[t], args'[t], natives'[t]),
         \A u \in Vm \ {t} : Keeps(u)
  PROVE  \A u \in Vm : VMSound(w, u)'
<1>1. VMSound(w, t)'
  BY Becomes
<1>2. \A u \in Vm \ {t} : VMSound(w, u)'
  BY KeepsSound DEF InStep
<1>3. QED
  BY <1>1, <1>2

\* Instructions that leave both stacks alone.
LEMMA PlainSound ==
  ASSUME TypeInv, NEW w \in StatesAt(prog), InStep(w), NEW t \in Vm,
         \/ Eval(t) \/ Jump(t) \/ JumpIfZero(t) \/ JumpIfNotZero(t) \/ Lock(t) \/ Unlock(t)
  PROVE  \A u \in Vm : VMSound(w, u)'
<1>a. /\ phase[t] = "exec"
      /\ Ins(t).op \in {"EVAL", "JMP", "JMPZ", "JMPNZ", "LOCK", "UNLOCK"}
      /\ \/ Ins(t).op # "JMP" /\ pc' = [pc EXCEPT ![t] = pc[t] + 1]
         \/ Ins(t).op \in Jumps /\ pc' = [pc EXCEPT ![t] = Ins(t).to]
      /\ UNCHANGED <<prog, phase, frames, tries, args, natives>>
  BY DEF Eval, Jump, JumpIfZero, JumpIfNotZero, Lock, Unlock, At, Goto, Jumps
<1>1. PICK x \in Seq(HandlersOf(prog)), s \in StatesOf(prog) :
           GoesOn(prog, w, t, pc[t], frames[t], tries[t], args[t], natives[t], x, s)
  BY <1>a, VMStepsOn
<1>2. /\ Ins(t).op # "JMP" => <<pc[t] + 1, s>> \in After(prog, pc[t], s)
      /\ Ins(t).op \in Jumps => <<Ins(t).to, s>> \in After(prog, pc[t], s)
  BY <1>a, FallsOn DEF Ins, NoReturn, Fallen
<1>3. /\ Ins(t).op # "JMP" =>
           Sound(prog, w, t, "exec", pc[t] + 1, frames[t], tries[t], args[t], natives[t])
      /\ Ins(t).op \in Jumps =>
           Sound(prog, w, t, "exec", Ins(t).to, frames[t], tries[t], args[t], natives[t])
  BY <1>1, <1>2 DEF GoesOn
<1>4. \A u \in Vm \ {t} : Keeps(u)
  BY <1>a, VMFacts DEF Keeps
<1>5. Sound(prog, w, t, phase'[t], pc'[t], frames'[t], tries'[t], args'[t], natives'[t])
  BY <1>a, <1>3, VMFacts
<1>6. QED
  BY <1>a, <1>4, <1>5, Stays

\* Instructions that send or consume arguments.
LEMMA ArgsSound ==
  ASSUME TypeInv, NEW w \in StatesAt(prog), InStep(w), NEW t \in Vm, NEW k,
         phase[t] = "exec",
         \/ Ins(t).op = "SEND" /\ k = args[t] + 1
         \/ Ins(t).op \in {"JOIN", "NATIVE", "SPAWN", "RAISE"} /\ k = 0
  PROVE  Sound(prog, w, t, "exec", pc[t] + 1, frames[t], tries[t], k, natives[t])
<1>1. PICK x \in Seq(HandlersOf(prog)), s \in StatesOf(prog) :
           GoesOn(prog, w, t, pc[t], frames[t], tries[t], args[t], natives[t], x, s)
  BY VMStepsOn
<1>2. s.args = args[t] /\ tries[t] = x \o s.tries
  BY <1>1 DEF GoesOn
<1>3. Fallen(Ins(t), s) = Pending(s.tries, k)
  BY <1>2 DEF Fallen
<1>4. <<pc[t] + 1, Pending(s.tries, k)>> \in After(prog, pc[t], s)
  BY <1>3, FallsOn DEF Ins, NoReturn
<1>5. QED
  BY <1>1, <1>2, <1>4 DEF GoesOn, Pending

LEMMA SendSound ==
  ASSUME TypeInv, NEW w \in StatesAt(prog), InStep(w), NEW t \in Vm, SendVal(t) \/ Join(t)
  PROVE  \A u \in Vm : VMSound(w, u)'
<1>1. \E k : /\ Sound(prog, w, t, "exec", pc[t] + 1, frames[t], tries[t], k, natives[t])
             /\ args' = [args EXCEPT ![t] = k]
  <2>1. CASE SendVal(t)
    <3>1. Sound(prog, w, t, "exec", pc[t] + 1, frames[t], tries[t], args[t] + 1, natives[t])
      BY <2>1, ArgsSound DEF SendVal, At
    <3>2. QED
      BY <2>1, <3>1 DEF SendVal
  <2>2. CASE Join(t)
    <3>1. Sound(prog, w, t, "exec", pc[t] + 1, frames[t], tries[t], 0, natives[t])
      BY <2>2, ArgsSound DEF Join, At
    <3>2. QED
      BY <2>2, <3>1 DEF Join
  <2>3. QED
    BY <2>1, <2>2
<1>2. /\ phase[t] = "exec" /\ pc' = [pc EXCEPT ![t] = pc[t] + 1]
      /\ UNCHANGED <<prog, phase, frames, tries, natives>>
  BY DEF SendVal, Join, At, Goto
<1>3. Sound(prog, w, t, phase'[t], pc'[t], frames'[t], tries'[t], args'[t], natives'[t])
  BY <1>1, <1>2, VMFacts
<1>4. \A u \in Vm \ {t} : Keeps(u)
  BY <1>1, <1>2, VMFacts DEF Keeps
<1>5. QED
  BY <1>2, <1>3, <1>4, Stays

LEMMA TrySound ==
  ASSUME TypeInv, NEW w \in StatesAt(prog), InStep(w), NEW t \in Vm, Try(t)
  PROVE  \A u \in Vm : VMSound(w, u)'
<1> DEFINE h == Handler(Ins(t).to, 1)
<1>a. phase[t] = "exec" /\ Ins(t).op = "TRY"
  BY DEF Try, At
<1>1. PICK x \in Seq(HandlersOf(prog)), s \in StatesOf(prog) :
           GoesOn(prog, w, t, pc[t], frames[t], tries[t], args[t], natives[t], x, s)
  BY <1>a, VMStepsOn
<1>2. s.args = args[t] /\ tries[t] = x \o s.tries /\ s.tries \in Seq(HandlersOf(prog))
  BY <1>1 DEF GoesOn, StatesOf
<1>3. h \in HandlersOf(prog)
  BY <1>a, VMFacts, CodeFacts DEF Handler, HandlersOf, Ins
<1>4. <<pc[t] + 1, Pending(Append(s.tries, h), s.args)>> \in After(prog, pc[t], s)
  BY <1>a, FallsOn DEF Ins, NoReturn, Fallen
<1>5. Sound(prog, w, t, "exec", pc[t] + 1, frames[t], x \o Append(s.tries, h), args[t], natives[t])
  BY <1>1, <1>2, <1>4 DEF GoesOn, Pending
<1> HIDE DEF h
<1>6. Append(tries[t], h) = x \o Append(s.tries, h)
  <2>1. ASSUME NEW y \in Seq(HandlersOf(prog)), NEW e \in HandlersOf(prog)
        PROVE  Append(x \o y, e) = x \o Append(y, e)
    OBVIOUS
  <2>2. QED
    BY <1>2, <1>3, <2>1, Zenon
<1>7. Sound(prog, w, t, phase'[t], pc'[t], frames'[t], tries'[t], args'[t], natives'[t])
  BY <1>a, <1>5, <1>6, VMFacts DEF Try, Goto, h
<1>8. prog' = prog /\ \A u \in Vm \ {t} : Keeps(u)
  BY VMFacts DEF Try, Goto, Keeps
<1>9. QED
  BY <1>7, <1>8, Stays

LEMMA CatchSound ==
  ASSUME TypeInv, NEW w \in StatesAt(prog), InStep(w), NEW t \in Vm, Catch(t) \/ EndTry(t)
  PROVE  \A u \in Vm : VMSound(w, u)'
<1>a. phase[t] = "exec" /\ Ins(t).op \in {"CATCH", "ETRY"}
  BY DEF Catch, EndTry, At
<1>1. PICK x \in Seq(HandlersOf(prog)), s \in StatesOf(prog) :
           GoesOn(prog, w, t, pc[t], frames[t], tries[t], args[t], natives[t], x, s)
  BY <1>a, VMStepsOn
<1>2. s.args = args[t] /\ tries[t] = x \o s.tries /\ s.tries \in Seq(HandlersOf(prog))
  BY <1>1 DEF GoesOn, StatesOf
<1>3. s.tries # <<>>
  BY <1>a, <1>1 DEF GoesOn, Allows, Ins
<1>4. /\ tries[t] # <<>>
      /\ Last(tries[t]) = Last(s.tries)
      /\ Front(tries[t]) = x \o Front(s.tries)
  BY <1>2, <1>3, TopFacts
<1>5. Front(s.tries) \in Seq(HandlersOf(prog)) /\ Last(s.tries) \in HandlersOf(prog)
  BY <1>2, <1>3, StackFacts
<1> DEFINE h == Handler(Last(tries[t]).to, 2)
           H == IF Ins(t).op = "CATCH" THEN Append(Front(tries[t]), h) ELSE Front(tries[t])
           y == IF Ins(t).op = "CATCH" THEN Append(Front(s.tries), h) ELSE Front(s.tries)
<1>6. h \in HandlersOf(prog)
  BY <1>4, <1>5 DEF Handler, HandlersOf
<1>7. H = x \o y
  <2>1. Append(x \o Front(s.tries), h) = x \o Append(Front(s.tries), h)
    BY <1>5, <1>6
  <2>2. QED
    BY <1>4, <2>1, Zenon
<1>8. Fallen(Ins(t), s) = Pending(y, s.args)
  BY <1>a, <1>4 DEF Fallen
<1>9. <<pc[t] + 1, Pending(y, s.args)>> \in After(prog, pc[t], s)
  BY <1>a, <1>8, FallsOn DEF Ins, NoReturn
<1> HIDE DEF y
<1>10. Sound(prog, w, t, "exec", pc[t] + 1, frames[t], H, args[t], natives[t])
  BY <1>1, <1>2, <1>7, <1>9 DEF GoesOn, Pending
<1>11. /\ tries' = [tries EXCEPT ![t] = H] /\ pc' = [pc EXCEPT ![t] = pc[t] + 1]
       /\ UNCHANGED <<prog, phase, frames, args, natives>>
  BY <1>4 DEF Catch, EndTry, At, Goto
<1> HIDE DEF H
<1>12. Sound(prog, w, t, phase'[t], pc'[t], frames'[t], tries'[t], args'[t], natives'[t])
  BY <1>a, <1>10, <1>11, VMFacts
<1>13. \A u \in Vm \ {t} : Keeps(u)
  BY <1>11, VMFacts DEF Keeps
<1>14. QED
  BY <1>11, <1>12, <1>13, Stays

LEMMA ThrowSound ==
  ASSUME TypeInv, NEW w \in StatesAt(prog), InStep(w), NEW t \in Vm, Throw(t) \/ Raise(t)
  PROVE  \A u \in Vm : VMSound(w, u)'
<1>a. phase[t] = "exec" /\ Ins(t).op \in Throwing
  BY DEF Throw, Raise, At, Throwing
<1>1. PICK x \in Seq(HandlersOf(prog)), s \in StatesOf(prog) :
           GoesOn(prog, w, t, pc[t], frames[t], tries[t], args[t], natives[t], x, s)
  BY <1>a, VMStepsOn DEF Throwing
<1>2. /\ s.args = args[t] /\ tries[t] = x \o s.tries /\ s.tries \in Seq(HandlersOf(prog))
      /\ Last(frames[t]).fn = prog.owner[pc[t]]
  BY <1>1 DEF GoesOn, StatesOf
<1>3. /\ Ins(t).op = "THROW" => s.args = 0
      /\ Live(s.tries) # <<>>
      /\ prog.code[Last(Live(s.tries)).to].n < prog.vals[prog.owner[pc[t]]]
  BY <1>a, <1>1 DEF GoesOn, Allows, Ins
<1> DEFINE live == Live(tries[t])
<1>4. live = x \o Live(s.tries) /\ live # <<>> /\ Last(live) = Last(Live(s.tries))
  BY <1>2, <1>3, LiveTop
<1>5. <<Last(Live(s.tries)).to, Pending(Live(s.tries), 0)>> \in After(prog, pc[t], s)
  BY <1>a, FallsOn DEF Ins
<1>6. Sound(prog, w, t, "exec", Last(live).to, frames[t], live, 0, natives[t])
  BY <1>1, <1>4, <1>5 DEF GoesOn, Pending
<1>7. CASE Raise(t) /\ Goto(t, pc[t] + 1) /\ UNCHANGED <<phase, frames, tries>>
  <2>1. Sound(prog, w, t, "exec", pc[t] + 1, frames[t], tries[t], 0, natives[t])
    BY <1>7, ArgsSound DEF Raise, At
  <2>2. Sound(prog, w, t, phase'[t], pc'[t], frames'[t], tries'[t], args'[t], natives'[t])
    BY <1>a, <1>7, <2>1, VMFacts DEF Raise, Goto
  <2>3. prog' = prog /\ \A u \in Vm \ {t} : Keeps(u)
    BY <1>7, VMFacts DEF Raise, Goto, Keeps
  <2>4. QED
    BY <2>2, <2>3, Stays
<1>8. CASE ThrowException(t)
  <2>1. /\ tries' = [tries EXCEPT ![t] = live]
        /\ pc' = [pc EXCEPT ![t] = Last(live).to]
        /\ phase' = [phase EXCEPT ![t] = "exec"]
        /\ UNCHANGED frames
    BY <1>2, <1>3, <1>4, <1>8 DEF ThrowException, Goto, Enter, Live
  <2>2. /\ UNCHANGED <<prog, natives>>
        /\ args'[t] = 0 /\ \A u \in Vm \ {t} : args'[u] = args[u]
    BY <1>2, <1>3, VMFacts DEF Throw, Raise, At
  <2> HIDE DEF live
  <2>3. Sound(prog, w, t, phase'[t], pc'[t], frames'[t], tries'[t], args'[t], natives'[t])
    BY <1>6, <2>1, <2>2, VMFacts
  <2>4. \A u \in Vm \ {t} : Keeps(u)
    BY <2>1, <2>2, VMFacts DEF Keeps
  <2>5. QED
    BY <2>2, <2>3, <2>4, Stays
<1>9. QED
  BY <1>7, <1>8 DEF Throw, Raise

LEMMA RunEntrySound ==
  ASSUME TypeInv, NEW w \in StatesAt(prog), InStep(w), NEW t \in Vm, RunEntry(t)
  PROVE  \A u \in Vm : VMSound(w, u)'
<1>1. Sound(prog, w, t, "entry", pc[t], frames[t], tries[t], args[t], natives[t])
  BY DEF RunEntry, InStep, VMSound
<1>2. Sound(prog, w, t, "exec", pc[t], IF frames[t] = <<>> THEN <<Frame(Global, 1)>> ELSE frames[t],
            tries[t], args[t], natives[t])
  BY <1>1, VMFacts, BeginsSound DEF InStep
<1>3. Sound(prog, w, t, phase'[t], pc'[t], frames'[t], tries'[t], args'[t], natives'[t])
  BY <1>2, VMFacts DEF RunEntry, Enter
<1>4. prog' = prog /\ \A u \in Vm \ {t} : Keeps(u)
  BY VMFacts DEF RunEntry, Enter, Keeps
<1>5. QED
  BY <1>3, <1>4, Stays

\* The label exit, from OP_HALT or from an OP_RET of the global environment.
LEMMA ExitSound ==
  ASSUME TypeInv, NEW w \in StatesAt(prog), InStep(w), NEW t \in Vm, phase[t] = "exec",
         Ins(t).op = "HALT" \/ (Ins(t).op = "RET" /\ Last(frames[t]).fn = Global),
         LeaveRun(t), UNCHANGED <<prog, frames, tries, args, natives>>
  PROVE  \A u \in Vm : VMSound(w, u)'
<1>1. Sound(prog, w, t, "exec", pc[t], frames[t], tries[t], args[t], natives[t])
  BY DEF InStep, VMSound
<1>2. IF natives[t] = <<>>
      THEN Sound(prog, w, t, "done", pc[t], frames[t], tries[t], args[t], natives[t])
      ELSE Sound(prog, w, t, "return", Last(natives[t]).saved, frames[t], tries[t], args[t], natives[t])
  BY <1>1, VMFacts, LeavesSound DEF InStep, Ins
<1>3. Sound(prog, w, t, phase'[t], pc'[t], frames'[t], tries'[t], args'[t], natives'[t])
  BY <1>2, VMFacts DEF LeaveRun, Enter, Goto
<1>4. \A u \in Vm \ {t} : Keeps(u)
  BY VMFacts DEF LeaveRun, Enter, Goto, Keeps
<1>5. QED
  BY <1>3, <1>4, Stays

LEMMA RetSound ==
  ASSUME TypeInv, NEW w \in StatesAt(prog), InStep(w), NEW t \in Vm, Ret(t) \/ Leave(t)
  PROVE  \A u \in Vm : VMSound(w, u)'
<1>1. CASE Ret(t) /\ Last(frames[t]).fn = Global
  BY <1>1, ExitSound DEF Ret, At
<1>2. CASE Leave(t) \/ (Ret(t) /\ Last(frames[t]).fn # Global)
  <2>1. /\ phase[t] = "exec" /\ Ins(t).op \in {"RET", "LEAVE"}
        /\ Ins(t).op = "RET" => Last(frames[t]).fn # Global
        /\ PopFrame(t)
        /\ UNCHANGED <<prog, tries, args, natives>>
    BY <1>2 DEF Ret, Leave, At
  <2>2. Sound(prog, w, t, "exec", pc[t], frames[t], tries[t], args[t], natives[t])
    BY <2>1 DEF InStep, VMSound
  <2>3. /\ Len(frames[t]) # 1
        /\ Sound(prog, w, t, "exec", Last(frames[t]).ret, Front(frames[t]), tries[t], args[t], natives[t])
    BY <2>1, <2>2, VMFacts, ReturnsSound DEF InStep, Ins
  <2>4. Sound(prog, w, t, phase'[t], pc'[t], frames'[t], tries'[t], args'[t], natives'[t])
    BY <2>1, <2>3, VMFacts DEF PopFrame, Enter, Goto
  <2>5. \A u \in Vm \ {t} : Keeps(u)
    BY <2>1, VMFacts DEF PopFrame, Enter, Goto, Keeps
  <2>6. QED
    BY <2>1, <2>4, <2>5, Stays
<1>3. QED
  BY <1>1, <1>2

LEMMA CallLockSound ==
  ASSUME TypeInv, NEW w \in StatesAt(prog), InStep(w), NEW t \in Vm, CallLock(t)
  PROVE  \A u \in Vm : VMSound(w, u)'
<1>1. Sound(prog, w, t, "exec", pc[t], frames[t], tries[t], args[t], natives[t])
  BY DEF CallLock, At, InStep, VMSound
<1>2. prog.code[pc[t]].op # "HALT"
  BY DEF CallLock, At, Ins
<1>3. Sound(prog, w, t, "bind", pc[t], frames[t], tries[t], args[t], natives[t])
  BY <1>1, <1>2, VMFacts, WhenActive, ActiveIsSound
<1>4. Sound(prog, w, t, phase'[t], pc'[t], frames'[t], tries'[t], args'[t], natives'[t])
  BY <1>3, VMFacts DEF CallLock, Enter
<1>5. prog' = prog /\ \A u \in Vm \ {t} : Keeps(u)
  BY VMFacts DEF CallLock, Enter, Keeps
<1>6. QED
  BY <1>4, <1>5, Stays

LEMMA CallBindSound ==
  ASSUME TypeInv, NEW w \in StatesAt(prog), InStep(w), NEW t \in Vm, CallBind(t)
  PROVE  (\A u \in Vm : VMSound(w, u)') /\ mutex' = Unlocked
<1>1. Sound(prog, w, t, "bind", pc[t], frames[t], tries[t], args[t], natives[t])
  BY DEF CallBind, InStep, VMSound
<1>2. prog.code[pc[t]].op = "CALL"
  BY VMFacts DEF CallBind, StackOK, Ins
<1>3. /\ args[t] = prog.params[Ins(t).fn]
      /\ Sound(prog, w, t, "exec", prog.entry[Ins(t).fn],
               Append(frames[t], Frame(Ins(t).fn, pc[t] + 1)), tries[t], 0, natives[t])
  BY <1>1, <1>2, VMFacts, CallsSound DEF InStep, Ins
<1>4. /\ frames' = [frames EXCEPT ![t] = Append(frames[t], Frame(Ins(t).fn, pc[t] + 1))]
      /\ args' = [args EXCEPT ![t] = 0]
      /\ pc' = [pc EXCEPT ![t] = prog.entry[Ins(t).fn]]
      /\ phase' = [phase EXCEPT ![t] = "exec"]
      /\ UNCHANGED <<prog, tries, natives>>
      /\ mutex' = Unlocked
  BY <1>3 DEF CallBind, Goto, Enter
<1>5. Sound(prog, w, t, phase'[t], pc'[t], frames'[t], tries'[t], args'[t], natives'[t])
  BY <1>3, <1>4, VMFacts
<1>6. \A u \in Vm \ {t} : Keeps(u)
  BY <1>4, VMFacts DEF Keeps
<1>7. QED
  BY <1>4, <1>5, <1>6, Stays

LEMMA NativeCallSound ==
  ASSUME TypeInv, NEW w \in StatesAt(prog), InStep(w), NEW t \in Vm, NativeCall(t)
  PROVE  \A u \in Vm : VMSound(w, u)'
<1>a. phase[t] = "exec" /\ Ins(t).op = "NATIVE" /\ prog.code[pc[t]].op = "NATIVE"
  BY DEF NativeCall, At, Ins
<1>1. CASE Ins(t).n = 0
  <2>1. Sound(prog, w, t, "exec", pc[t] + 1, frames[t], tries[t], 0, natives[t])
    BY <1>a, ArgsSound
  <2>2. Sound(prog, w, t, phase'[t], pc'[t], frames'[t], tries'[t], args'[t], natives'[t])
    BY <1>1, <1>a, <2>1, VMFacts DEF NativeCall, Goto
  <2>3. prog' = prog /\ \A u \in Vm \ {t} : Keeps(u)
    BY <1>1, VMFacts DEF NativeCall, Goto, Keeps
  <2>4. QED
    BY <2>2, <2>3, Stays
<1>2. CASE Ins(t).n # 0
  <2>1. Ins(t).n - 1 \in Nat
    <3>1. Ins(t).n \in Nat
      BY VMFacts, CodeFacts DEF Ins, Instr
    <3>2. QED
      BY <1>2, <3>1
  <2>2. Sound(prog, w, t, "exec", pc[t], frames[t], tries[t], args[t], natives[t])
    BY <1>a DEF InStep, VMSound
  <2>3. Sound(prog, w, t, "entry", prog.entry[Ins(t).fn],
              Append(frames[t], Frame(Ins(t).fn, Halt)), tries[t], 0,
              Append(natives[t], Nested(pc[t], Ins(t).n - 1, Len(frames[t]))))
    BY <1>a, <2>1, <2>2, VMFacts, NativeSound DEF InStep, Ins, Halt
  <2>4. /\ natives' = [natives EXCEPT ![t] =
                         Append(natives[t], Nested(pc[t], Ins(t).n - 1, Len(frames[t])))]
        /\ frames' = [frames EXCEPT ![t] = Append(frames[t], Frame(Ins(t).fn, Halt))]
        /\ args' = [args EXCEPT ![t] = 0]
        /\ pc' = [pc EXCEPT ![t] = prog.entry[Ins(t).fn]]
        /\ phase' = [phase EXCEPT ![t] = "entry"]
        /\ UNCHANGED <<prog, tries>>
    BY <1>2 DEF NativeCall, RunFunction, Goto, Enter
  <2>5. Sound(prog, w, t, phase'[t], pc'[t], frames'[t], tries'[t], args'[t], natives'[t])
    BY <2>3, <2>4, VMFacts
  <2>6. \A u \in Vm \ {t} : Keeps(u)
    BY <2>4, VMFacts DEF Keeps
  <2>7. QED
    BY <2>4, <2>5, <2>6, Stays
<1>3. QED
  BY <1>1, <1>2

LEMMA NativeResumeSound ==
  ASSUME TypeInv, NEW w \in StatesAt(prog), InStep(w), NEW t \in Vm, NativeResume(t)
  PROVE  \A u \in Vm : VMSound(w, u)'
<1> DEFINE N == natives[t]
           j == Last(N).left - 1
<1>a. /\ phase[t] = "return" /\ N # <<>> /\ pc[t] = Last(N).saved
      /\ N \in Seq(RunsOf(prog))
      /\ \A i \in DOMAIN N : prog.code[N[i].saved].op = "NATIVE"
  BY VMFacts DEF NativeResume, StackOK
<1>b. /\ Last(N) = N[Len(N)] /\ Len(N) \in DOMAIN N /\ Last(N) \in RunsOf(prog)
  BY <1>a, StackFacts
<1>c. prog.code[pc[t]].op = "NATIVE" /\ Last(N).left \in Nat
  BY <1>a, <1>b DEF RunsOf
<1>d. Sound(prog, w, t, "return", pc[t], frames[t], tries[t], args[t], N)
  BY <1>a DEF InStep, VMSound
<1>e. \A k \in Nat :
        /\ Sound(prog, w, t, "entry", prog.entry[Ins(t).fn],
                 Append(frames[t], Frame(Ins(t).fn, Halt)), tries[t], 0,
                 Append(Front(N), Nested(pc[t], k, Len(frames[t]))))
        /\ Sound(prog, w, t, "exec", pc[t] + 1, frames[t], tries[t], 0, Front(N))
  BY <1>a, <1>c, <1>d, VMFacts, ResumesSound DEF InStep, Ins, Halt
<1>1. CASE Last(N).left > 0
  <2>1. j \in Nat
    BY <1>1, <1>c
  <2>2. /\ natives' = [natives EXCEPT ![t] = Append(Front(N), Nested(pc[t], j, Len(frames[t])))]
        /\ frames' = [frames EXCEPT ![t] = Append(frames[t], Frame(Ins(t).fn, Halt))]
        /\ args' = [args EXCEPT ![t] = 0]
        /\ pc' = [pc EXCEPT ![t] = prog.entry[Ins(t).fn]]
        /\ phase' = [phase EXCEPT ![t] = "entry"]
        /\ UNCHANGED <<prog, tries>>
    BY <1>1 DEF NativeResume, RunFunction, Goto, Enter
  <2> HIDE DEF j, N
  <2>3. Sound(prog, w, t, phase'[t], pc'[t], frames'[t], tries'[t], args'[t], natives'[t])
    BY <1>e, <2>1, <2>2, VMFacts
  <2>4. \A u \in Vm \ {t} : Keeps(u)
    BY <2>2, VMFacts DEF Keeps
  <2>5. QED
    BY <2>2, <2>3, <2>4, Stays
<1>2. CASE ~(Last(N).left > 0)
  <2>1. /\ natives' = [natives EXCEPT ![t] = Front(N)]
        /\ args' = [args EXCEPT ![t] = 0]
        /\ pc' = [pc EXCEPT ![t] = pc[t] + 1]
        /\ phase' = [phase EXCEPT ![t] = "exec"]
        /\ UNCHANGED <<prog, tries, frames>>
    BY <1>2 DEF NativeResume, Goto, Enter
  <2> HIDE DEF j, N
  <2>2. Sound(prog, w, t, "exec", pc[t] + 1, frames[t], tries[t], 0, Front(N))
    BY <1>e, 0 \in Nat
  <2>3. Sound(prog, w, t, phase'[t], pc'[t], frames'[t], tries'[t], args'[t], natives'[t])
    BY <2>1, <2>2, VMFacts
  <2>4. \A u \in Vm \ {t} : Keeps(u)
    BY <2>1, VMFacts DEF Keeps
  <2>5. QED
    BY <2>1, <2>3, <2>4, Stays
<1>3. QED
  BY <1>1, <1>2

LEMMA SpawnSound ==
  ASSUME TypeInv, NEW w \in StatesAt(prog), InStep(w), NEW t \in Vm, Spawn(t)
  PROVE  \A u \in Vm : VMSound(w, u)'
<1>c. PICK c \in Vm : c = Ins(t).n
  BY DEF Spawn
<1>a. /\ phase[t] = "exec" /\ Ins(t).op = "SPAWN" /\ prog.code[pc[t]].op = "SPAWN"
      /\ phase[c] = "none" /\ c # t
  BY <1>c DEF Spawn, At, Ins
<1>1. /\ frames' = [frames EXCEPT ![c] = Append(frames[t], Frame(Ins(t).fn, Halt))]
      /\ tries' = [tries EXCEPT ![c] = tries[t]]
      /\ pc' = [pc EXCEPT ![t] = pc[t] + 1, ![c] = prog.entry[Ins(t).fn]]
      /\ phase' = [phase EXCEPT ![c] = "entry"]
      /\ args' = [args EXCEPT ![t] = 0]
      /\ UNCHANGED <<prog, natives>>
  BY <1>c DEF Spawn
<1>2. c # Main /\ args[c] = 0 /\ natives[c] = <<>>
  <2>1. Sound(prog, w, c, "none", pc[c], frames[c], tries[c], args[c], natives[c])
    BY <1>a DEF InStep, VMSound
  <2>2. QED
    BY <2>1 DEF Sound, Suspended
<1>3. Sound(prog, w, t, "exec", pc[t], frames[t], tries[t], args[t], natives[t])
  BY <1>a DEF InStep, VMSound
<1>4. Sound(prog, w, c, "entry", prog.entry[Ins(t).fn],
            Append(frames[t], Frame(Ins(t).fn, Halt)), tries[t], 0, <<>>)
  BY <1>a, <1>2, <1>3, VMFacts, StartsSound DEF InStep, Ins, Halt
<1>5. VMSound(w, c)'
  <2>1. Sound(prog, w, c, phase'[c], pc'[c], frames'[c], tries'[c], args'[c], natives'[c])
    BY <1>a, <1>1, <1>2, <1>4, VMFacts
  <2>2. QED
    BY <1>a, <1>1, <2>1, Becomes
<1>6. Sound(prog, w, t, "exec", pc[t] + 1, frames[t], tries[t], 0, natives[t])
  BY <1>a, ArgsSound
<1>7. VMSound(w, t)'
  <2>1. Sound(prog, w, t, phase'[t], pc'[t], frames'[t], tries'[t], args'[t], natives'[t])
    BY <1>a, <1>1, <1>6, VMFacts
  <2>2. QED
    BY <1>1, <2>1, Becomes
<1>8. ASSUME NEW u \in Vm, u # t, u # c PROVE VMSound(w, u)'
  <2>1. Keeps(u)
    BY <1>1, <1>8, VMFacts DEF Keeps
  <2>2. QED
    BY <1>1, <2>1, KeepsSound DEF InStep
<1>9. QED
  BY <1>5, <1>7, <1>8

-------------------------------------------------------------------------------
LEMMA StackInit ==
  ASSUME Init, NEW w \in StatesAt(prog), Checked(prog, w)
  PROVE  InStep(w)
<1>1. Main \in Vm
  BY NThreadsAssumption DEF Main, Vm
<1>2. ASSUME NEW t \in Vm PROVE VMSound(w, t)
  <2>1. /\ phase[t] = (IF t = Main THEN "entry" ELSE "none") /\ pc[t] = 1 /\ frames[t] = <<>>
        /\ tries[t] = <<>> /\ args[t] = 0 /\ natives[t] = <<>>
    BY DEF Init, Start
  <2>2. QED
    BY <2>1 DEF VMSound, Sound
<1>3. QED
  BY <1>2 DEF InStep

LEMMA StackStep ==
  ASSUME TypeInv, NEW w \in StatesAt(prog), InStep(w), [Next]_vars
  PROVE  prog' = prog /\ InStep(w)'
<1>1. ASSUME NEW t \in Vm, Step(t) PROVE \A u \in Vm : VMSound(w, u)'
  <2>1. CASE \/ Eval(t) \/ Jump(t) \/ JumpIfZero(t) \/ JumpIfNotZero(t) \/ Lock(t) \/ Unlock(t)
    BY <2>1, PlainSound
  <2>2. CASE SendVal(t) \/ Join(t)
    BY <2>2, SendSound
  <2>3. CASE Try(t)
    BY <2>3, TrySound
  <2>4. CASE Catch(t) \/ EndTry(t)
    BY <2>4, CatchSound
  <2>5. CASE Throw(t) \/ Raise(t)
    BY <2>5, ThrowSound
  <2>6. CASE RunEntry(t)
    BY <2>6, RunEntrySound
  <2>7. CASE HaltRun(t)
    BY <2>7, ExitSound DEF HaltRun, At
  <2>8. CASE Ret(t) \/ Leave(t)
    BY <2>8, RetSound
  <2>9. CASE CallLock(t)
    BY <2>9, CallLockSound
  <2>10. CASE CallBind(t)
    BY <2>10, CallBindSound
  <2>11. CASE NativeCall(t)
    BY <2>11, NativeCallSound
  <2>12. CASE NativeResume(t)
    BY <2>12, NativeResumeSound
  <2>13. CASE Spawn(t)
    BY <2>13, SpawnSound
  <2>14. QED
    BY <1>1, <2>1, <2>2, <2>3, <2>4, <2>5, <2>6, <2>7, <2>8, <2>9, <2>10, <2>11, <2>12, <2>13
       DEF Step
<1>2. ASSUME UNCHANGED vars PROVE \A u \in Vm : VMSound(w, u)'
  BY <1>2, KeepsSound DEF vars, Keeps, InStep
<1>3. prog' = prog
  BY DEF Next, Step, vars, RunEntry, HaltRun, Eval, SendVal, Jump, JumpIfZero, JumpIfNotZero,
         CallLock, CallBind, Ret, Leave, NativeCall, NativeResume, Throw, Raise, Try, Catch,
         EndTry, Lock, Unlock, Spawn, Join
<1>4. \A u \in Vm : VMSound(w, u)'
  BY <1>1, <1>2 DEF Next
<1>5. QED
  BY <1>3, <1>4 DEF InStep

LEMMA StackNext == StackInv /\ [Next]_vars => StackInv'
<1> SUFFICES ASSUME StackInv, [Next]_vars PROVE StackInv'
  OBVIOUS
<1>1. TypeInv'
  BY TypeNext DEF StackInv
<1>2. PICK w \in StatesAt(prog) : InStep(w)
  BY DEF StackInv
<1>3. prog' = prog /\ InStep(w)'
  BY <1>2, StackStep DEF StackInv
<1>4. StatesAt(prog)' = StatesAt(prog)
  BY <1>3
<1>5. QED
  BY <1>1, <1>3, <1>4 DEF StackInv

\* The stacks of every VM are accounted for as long as scripts are disciplined.
LEMMA StackHolds ==
  ASSUME \A p \in Programs : Disciplined(p)
  PROVE  Spec => []StackInv
<1>1. Init => StackInv
  <2> SUFFICES ASSUME Init PROVE StackInv
    OBVIOUS
  <2>1. PICK w \in StatesAt(prog) : Checked(prog, w)
    BY DEF Init, Disciplined, StatesAt
  <2>2. InStep(w)
    BY <2>1, StackInit
  <2>3. QED
    BY <2>2, TypeInit DEF StackInv
<1>2. QED
  BY <1>1, StackNext, PTL DEF Spec

LEMMA StackIsSound ==
  ASSUME StackInv
  PROVE  \E w \in StatesAt(prog) :
           /\ Checked(prog, w)
           /\ \A t \in Vm : Sound(prog, w, t, phase[t], pc[t], frames[t], tries[t], args[t], natives[t])
  BY DEF StackInv, InStep, VMSound

-------------------------------------------------------------------------------
\* Nothing that core/vm.cc leaves undefined is executed, no assertion fails, no
\* exception is left uncaught and no call gets the wrong number of arguments:
\* VM::run (core/vm.cc:379-1000) comes to no error() and no assert().
THEOREM NothingFails ==
  ASSUME \A p \in Programs : Disciplined(p)
  PROVE  Spec => []NoFailure
<1>1. StackInv => NoFailure
  BY StackIsSound DEF NoFailure, Sound, Suspended
<1>2. QED
  BY <1>1, StackHolds, PTL

\* The environment on top of the call stack belongs to the code that runs: every
\* call, callback and new thread pushes what its return pops (core/vm.cc:213-281).
THEOREM FramesFollowCode ==
  ASSUME \A p \in Programs : Disciplined(p)
  PROVE  Spec => []FrameMatchesCode
<1>1. ASSUME StackInv PROVE FrameMatchesCode
  <2> SUFFICES ASSUME NEW t \in Vm, phase[t] \in {"exec", "bind"}, pc[t] # Halt
               PROVE  Last(frames[t]).fn = prog.owner[pc[t]]
    BY DEF FrameMatchesCode, Running
  <2>1. PICK w \in StatesAt(prog) :
          Sound(prog, w, t, phase[t], pc[t], frames[t], tries[t], args[t], natives[t])
    BY <1>1, StackIsSound
  <2>2. PICK b \in Nat \ {0}, L \in Seq(Level(prog)) :
          Active(prog, w, t, pc[t], frames[t], tries[t], args[t], natives[t], b, L)
    BY <2>1 DEF Sound, Suspended, Halt
  <2>3. /\ Len(L) \in 1 .. Len(L) /\ Len(frames[t]) = Len(L)
        /\ Fits(prog, w, frames[t], L, Len(L)) /\ L[Len(L)].at = pc[t]
    BY <2>2 DEF Active, Shape
  <2>4. frames[t][Len(frames[t])].fn = prog.owner[pc[t]]
    BY <2>3 DEF Fits
  <2>5. QED
    BY <2>4 DEF Last
<1>2. QED
  BY <1>1, StackHolds, PTL

\* A throw cannot land in a body that has returned: OP_RET and OP_LEAVE leave no
\* handler of their function on m_try_stack (core/vm.cc:388, 502).
THEOREM HandlersStayLive ==
  ASSUME \A p \in Programs : Disciplined(p)
  PROVE  Spec => []HandlersAreLive
<1>1. ASSUME StackInv PROVE HandlersAreLive
  <2> SUFFICES ASSUME NEW t \in Vm, phase[t] \in {"exec", "bind"}, NEW i \in DOMAIN tries[t]
               PROVE  \E j \in DOMAIN frames[t] : frames[t][j].fn = prog.owner[tries[t][i].to]
    BY DEF HandlersAreLive, Running
  <2>1. PICK w \in StatesAt(prog) :
          /\ Checked(prog, w)
          /\ Sound(prog, w, t, phase[t], pc[t], frames[t], tries[t], args[t], natives[t])
    BY <1>1, StackIsSound
  <2>2. PICK b \in Nat \ {0}, L \in Seq(Level(prog)) :
          Shape(prog, w, frames[t], tries[t], natives[t], b, L)
    BY <2>1 DEF Sound, Active, Suspended, Over
  <2>3. prog \in Programs /\ frames[t] \in Seq(FramesOf(prog)) /\ tries[t] \in Seq(HandlersOf(prog))
    BY <1>1, VMFacts DEF StackInv
  <2>4. \A k \in 1 .. Len(tries[t]) : \E j \in 1 .. Len(L) : frames[t][j].fn = prog.owner[tries[t][k].to]
    BY <2>1, <2>2, <2>3, HandlersOwned, SMTT(30)
  <2>5. DOMAIN tries[t] = 1 .. Len(tries[t]) /\ DOMAIN frames[t] = 1 .. Len(L)
    BY <2>2, <2>3 DEF Shape
  <2>6. QED
    BY <2>4, <2>5
<1>2. QED
  BY <1>1, StackHolds, PTL

\* VM::runFunction gives control back to the native with the call stack it was
\* called with (core/vm.cc:256-281).
THEOREM CallbacksComeBack ==
  ASSUME \A p \in Programs : Disciplined(p)
  PROVE  Spec => []CallbacksBalanced
<1>1. ASSUME StackInv PROVE CallbacksBalanced
  <2> SUFFICES ASSUME NEW t \in Vm, phase[t] = "return"
               PROVE  Len(frames[t]) = Last(natives[t]).depth
    BY DEF CallbacksBalanced
  <2>1. PICK w \in StatesAt(prog) :
          Sound(prog, w, t, phase[t], pc[t], frames[t], tries[t], args[t], natives[t])
    BY <1>1, StackIsSound
  <2>2. PICK b \in Nat \ {0}, L \in Seq(Level(prog)) :
          Suspended(prog, w, t, phase[t], pc[t], frames[t], tries[t], natives[t], b, L)
    BY <2>1 DEF Sound
  <2>3. natives[t] \in Seq(RunsOf(prog))
    BY <1>1, VMFacts DEF StackInv
  <2>4. /\ Shape(prog, w, frames[t], tries[t], natives[t], b, L)
        /\ Entered(natives[t], Len(L))
    BY <2>2 DEF Suspended
  <2>5. Last(natives[t]).depth = Len(L)
    BY <2>3, <2>4, InnermostEntered
  <2>6. Len(L) = Len(frames[t])
    BY <2>4 DEF Shape
  <2>7. QED
    BY <2>5, <2>6
<1>2. QED
  BY <1>1, StackHolds, PTL

\* The main script leaves no handler and no call behind when VM::run comes to its
\* end at OP_HALT or at an OP_RET of the global environment (core/vm.cc:388-412).
THEOREM MainEndsClean ==
  ASSUME \A p \in Programs : Disciplined(p)
  PROVE  Spec => []EndsClean
<1>1. ASSUME StackInv PROVE EndsClean
  <2> SUFFICES ASSUME phase[Main] = "done"
               PROVE  tries[Main] = <<>> /\ Len(frames[Main]) = 1
    BY DEF EndsClean
  <2>1. Main \in Vm
    BY NThreadsAssumption DEF Main, Vm
  <2>2. PICK w \in StatesAt(prog) :
          Sound(prog, w, Main, phase[Main], pc[Main], frames[Main], tries[Main], args[Main], natives[Main])
    BY <1>1, <2>1, StackIsSound
  <2>3. QED
    BY <2>2 DEF Sound, Suspended
<1>2. QED
  BY <1>1, StackHolds, PTL

-------------------------------------------------------------------------------
(* Loops. *)

LoopInv == TypeInv /\ \E w \in StatesAt(prog) : InStep(w) /\ TestsAreClean(prog, w)

LEMMA LoopNext == LoopInv /\ [Next]_vars => LoopInv'
<1> SUFFICES ASSUME LoopInv, [Next]_vars PROVE LoopInv'
  OBVIOUS
<1>1. TypeInv'
  BY TypeNext DEF LoopInv
<1>2. PICK w \in StatesAt(prog) : InStep(w) /\ TestsAreClean(prog, w)
  BY DEF LoopInv
<1>3. prog' = prog /\ InStep(w)'
  BY <1>2, StackStep DEF LoopInv
<1>4. StatesAt(prog)' = StatesAt(prog) /\ TestsAreClean(prog, w)'
  BY <1>2, <1>3 DEF TestsAreClean
<1>5. QED
  BY <1>1, <1>3, <1>4 DEF LoopInv

\* Every round of a loop of the top-level code begins with the stacks as they
\* were before the loop, whatever the body calls and catches: what OP_TRY pushes
\* OP_ETRY pops, what a call pushes its return pops (core/vm.cc:388-510, 911-935).
THEOREM RoundsBeginClean ==
  ASSUME \A p \in Programs : LoopsOutside(p)
  PROVE  Spec => []RoundsLeaveNothing
<1>1. Init => LoopInv
  <2> SUFFICES ASSUME Init PROVE LoopInv
    OBVIOUS
  <2>1. PICK w \in StatesAt(prog) : Checked(prog, w) /\ TestsAreClean(prog, w)
    BY DEF Init, LoopsOutside, StatesAt
  <2>2. InStep(w)
    BY <2>1, StackInit
  <2>3. QED
    BY <2>1, <2>2, TypeInit DEF LoopInv
<1>2. ASSUME LoopInv PROVE RoundsLeaveNothing
  <2> SUFFICES ASSUME phase[Main] = "exec", prog.code[pc[Main]].op = "JMPNZ",
                      prog.owner[pc[Main]] = Global
               PROVE  tries[Main] = <<>> /\ Len(frames[Main]) = 1 /\ args[Main] = 0
    BY DEF RoundsLeaveNothing, AtTest
  <2>1. Main \in Vm
    BY NThreadsAssumption DEF Main, Vm
  <2>2. PICK w \in StatesAt(prog) : InStep(w) /\ TestsAreClean(prog, w)
    BY <1>2 DEF LoopInv
  <2>3. Sound(prog, w, Main, phase[Main], pc[Main], frames[Main], tries[Main], args[Main], natives[Main])
    BY <2>1, <2>2 DEF InStep, VMSound
  <2>4. prog \in Programs /\ pc[Main] \in Addr(prog)
    BY <1>2, <2>1, VMFacts DEF LoopInv
  <2>5. PICK b \in Nat \ {0}, L \in Seq(Level(prog)) :
          Active(prog, w, Main, pc[Main], frames[Main], tries[Main], args[Main], natives[Main], b, L)
    BY <2>3, <2>4, WhenActive
  <2>6. /\ Len(L) \in 1 .. Len(L) /\ Len(frames[Main]) = Len(L)
        /\ Fits(prog, w, frames[Main], L, Len(L)) /\ L[Len(L)].at = pc[Main]
        /\ L[Len(L)].st.args = args[Main] /\ L[1].below = <<>>
        /\ tries[Main] = L[Len(L)].below \o L[Len(L)].st.tries
    BY <2>5 DEF Active, Shape
  <2>7. Len(L) = 1
    BY <2>6 DEF Fits
  <2>8. L[Len(L)].st \in w[pc[Main]]
    BY <2>6 DEF Fits
  <2>9. L[Len(L)].st = Clean
    BY <2>2, <2>4, <2>8 DEF TestsAreClean
  <2>10. Clean.tries = <<>> /\ Clean.args = 0
    BY DEF Clean, Pending
  <2>11. tries[Main] = <<>> \o <<>>
    BY <2>6, <2>7, <2>9, <2>10
  <2>12. QED
    BY <2>6, <2>7, <2>9, <2>10, <2>11
<1>3. QED
  BY <1>1, <1>2, LoopNext, PTL DEF Spec

-------------------------------------------------------------------------------
(* The mutex is not left behind. *)

LEMMA KeptInside ==
  ASSUME NEW p \in Programs, KeepsCritical(p), NEW a \in Addr(p)
  PROVE  /\ p.code[a].op = "LOCK" => a + 1 \in p.crit
         /\ a \in p.crit =>
              /\ p.code[a].op \notin {"RET", "LEAVE", "THROW", "RAISE", "NATIVE", "HALT"}
              /\ p.code[a].op \in Jumps => p.code[a].to \in p.crit
              /\ p.code[a].op \notin NoReturn \cup {"UNLOCK"} => a + 1 \in p.crit
  BY DEF KeepsCritical

\* A step of the owner itself: it stays inside or has unlocked.
LEMMA OwnerSteps ==
  ASSUME StackInv, KeepsCritical(prog), NEW t \in Vm, mutex = t, InCritical(t), Step(t)
  PROVE  mutex' = Unlocked \/ InCritical(t)'
<1>a. /\ pc[t] \in Addr(prog) /\ prog \in Programs /\ pc \in [Vm -> Addr(prog)]
      /\ phase \in [Vm -> Phase] /\ mutex # Unlocked /\ TypeInv
  BY VMFacts, NThreadsAssumption DEF StackInv, Vm, Unlocked
<1>w. PICK w \in StatesAt(prog) : InStep(w)
  BY DEF StackInv
<1>1. CASE phase[t] = "bind"
  <2>1. CallBind(t)
    BY <1>1 DEF Step, RunEntry, HaltRun, Eval, SendVal, Jump, JumpIfZero, JumpIfNotZero,
         CallLock, Ret, Leave, NativeCall, NativeResume, Throw, Raise, Try, Catch, EndTry,
         Lock, Unlock, Spawn, Join, At
  <2>2. QED
    BY <1>a, <1>w, <2>1, CallBindSound
<1>2. CASE phase[t] = "exec" /\ pc[t] \in prog.crit
  <2>1. /\ Ins(t).op \notin {"RET", "LEAVE", "THROW", "RAISE", "NATIVE", "HALT"}
        /\ Ins(t).op \in Jumps => Ins(t).to \in prog.crit
        /\ Ins(t).op \notin NoReturn \cup {"UNLOCK"} => pc[t] + 1 \in prog.crit
    BY <1>a, <1>2, KeptInside DEF Ins
  <2>2. CASE Unlock(t)
    BY <2>2 DEF Unlock
  <2>3. CASE Jump(t)
    <3>1. phase'[t] = "exec" /\ pc'[t] \in prog.crit /\ prog' = prog
      BY <1>a, <1>2, <2>1, <2>3 DEF Jump, At, Goto, Jumps
    <3>2. QED
      BY <3>1 DEF InCritical
  <2>4. CASE JumpIfZero(t) \/ JumpIfNotZero(t)
    <3>1. Ins(t).to \in prog.crit /\ pc[t] + 1 \in prog.crit
      BY <2>1, <2>4 DEF JumpIfZero, JumpIfNotZero, At, Jumps, NoReturn
    <3>2. phase'[t] = "exec" /\ pc'[t] \in prog.crit /\ prog' = prog
      BY <1>a, <1>2, <2>4, <3>1 DEF JumpIfZero, JumpIfNotZero, At, Goto
    <3>3. QED
      BY <3>2 DEF InCritical
  <2>5. CASE Eval(t) \/ SendVal(t) \/ Try(t) \/ Spawn(t) \/ Join(t)
    <3>1. pc[t] + 1 \in prog.crit
      BY <2>1, <2>5 DEF Eval, SendVal, Try, Spawn, Join, At, NoReturn
    <3>2. phase'[t] = "exec" /\ pc'[t] \in prog.crit /\ prog' = prog
      BY <1>a, <1>2, <2>5, <3>1 DEF Eval, SendVal, Try, Spawn, Join, At, Goto
    <3>3. QED
      BY <3>2 DEF InCritical
  <2>6. CASE Catch(t) \/ EndTry(t)
    <3>1. pc[t] + 1 \in prog.crit
      BY <2>1, <2>6 DEF Catch, EndTry, At, NoReturn
    <3>2. tries[t] # <<>>
      <4>1. PICK x \in Seq(HandlersOf(prog)), s \in StatesOf(prog) :
              GoesOn(prog, w, t, pc[t], frames[t], tries[t], args[t], natives[t], x, s)
        BY <1>a, <1>w, <1>2, <2>1, VMStepsOn
      <4>2. s.tries # <<>> /\ s.tries \in Seq(HandlersOf(prog)) /\ tries[t] = x \o s.tries
        BY <2>6, <4>1 DEF Catch, EndTry, At, GoesOn, Allows, Ins, StatesOf
      <4>3. QED
        BY <4>2, TopFacts
    <3>3. phase'[t] = "exec" /\ pc'[t] \in prog.crit /\ prog' = prog
      BY <1>a, <1>2, <2>6, <3>1, <3>2 DEF Catch, EndTry, At, Goto
    <3>4. QED
      BY <3>3 DEF InCritical
  <2>7. ~CallLock(t) /\ ~Lock(t) /\ ~RunEntry(t) /\ ~CallBind(t) /\ ~NativeResume(t)
    BY <1>a, <1>2 DEF CallLock, Lock, RunEntry, CallBind, NativeResume
  <2>8. ~Ret(t) /\ ~Leave(t) /\ ~Throw(t) /\ ~Raise(t) /\ ~NativeCall(t) /\ ~HaltRun(t)
    BY <2>1 DEF Ret, Leave, Throw, Raise, NativeCall, HaltRun, At
  <2>9. QED
    BY <2>2, <2>3, <2>4, <2>5, <2>6, <2>7, <2>8 DEF Step
<1>3. QED
  BY <1>1, <1>2 DEF InCritical

\* A step of another thread: nobody else's place is changed, except that of a
\* thread that has not begun.
LEMMA OthersStep ==
  ASSUME TypeInv, NEW t \in Vm, NEW u \in Vm, u # t, Step(t), InCritical(u)
  PROVE  InCritical(u)'
<1>1. phase \in [Vm -> Phase] /\ pc \in [Vm -> Addr(prog)] /\ phase[u] # "none"
  BY VMFacts DEF InCritical
<1>2. prog' = prog /\ phase'[u] = phase[u] /\ pc'[u] = pc[u]
  BY <1>1 DEF Step, RunEntry, HaltRun, LeaveRun, Eval, SendVal, Jump, JumpIfZero, JumpIfNotZero,
     CallLock, CallBind, Ret, Leave, PopFrame, NativeCall, NativeResume, RunFunction, Throw, Raise,
     ThrowException, Try, Catch, EndTry, Lock, Unlock, Spawn, Join, At, Goto, Enter
<1>3. QED
  BY <1>2 DEF InCritical

\* A thread that takes the mutex is inside with the same step.
LEMMA TakenInside ==
  ASSUME TypeInv, KeepsCritical(prog), NEW t \in Vm, Step(t),
         NEW u \in Vm, mutex # u, mutex' = u
  PROVE  u = t /\ InCritical(u)'
<1>a. /\ pc[t] \in Addr(prog) /\ prog \in Programs /\ pc \in [Vm -> Addr(prog)]
      /\ phase \in [Vm -> Phase] /\ u # Unlocked
  <2>1. /\ pc[t] \in Addr(prog) /\ prog \in Programs /\ pc \in [Vm -> Addr(prog)]
        /\ phase \in [Vm -> Phase]
    BY VMFacts, Zenon
  <2>2. u # Unlocked
    BY NThreadsAssumption DEF Vm, Unlocked
  <2> QED
    BY <2>1, <2>2
<1>1. CallLock(t) \/ Lock(t)
  BY <1>a DEF Step, RunEntry, HaltRun, Eval, SendVal, Jump, JumpIfZero, JumpIfNotZero, CallBind,
     Ret, Leave, NativeCall, NativeResume, Throw, Raise, Try, Catch, EndTry, Unlock, Spawn, Join
<1>2. u = t
  BY <1>1 DEF CallLock, Lock
<1>3. CASE CallLock(t)
  BY <1>a, <1>2, <1>3 DEF CallLock, Enter, InCritical
<1>4. CASE Lock(t)
  <2>1. pc[t] + 1 \in prog.crit
    BY <1>a, <1>4, KeptInside DEF Lock, At, Ins
  <2>2. phase'[u] = "exec" /\ pc'[u] \in prog.crit /\ prog' = prog
    BY <1>a, <1>2, <1>4, <2>1 DEF Lock, At, Goto
  <2>3. QED
    BY <1>2, <2>2 DEF InCritical
<1>5. QED
  BY <1>1, <1>2, <1>3, <1>4

\* The mutex all VMs share is never left locked by a thread that has moved on:
\* prepareCall unlocks it (core/vm.cc:213-234), and so does the OP_UNLOCK every
\* OP_LOCK leads to.
THEOREM OwnerStaysInside ==
  ASSUME \A p \in Programs : Disciplined(p),
         \A p \in Programs : KeepsCritical(p)
  PROVE  Spec => []OwnerIsInside
<1>1. Init => OwnerIsInside
  BY NThreadsAssumption DEF Init, Start, OwnerIsInside, Vm, Unlocked
<1>2. ASSUME StackInv, OwnerIsInside, [Next]_vars PROVE OwnerIsInside'
  <2>1. TypeInv /\ KeepsCritical(prog)
    BY <1>2 DEF StackInv, TypeInv, ProgramOK
  <2>2. ASSUME NEW t \in Vm, Step(t), NEW u \in Vm, mutex' = u PROVE InCritical(u)'
    <3>1. CASE mutex # u
      BY <2>1, <2>2, <3>1, TakenInside
    <3>2. CASE mutex = u /\ u = t
      <4>1. InCritical(t) /\ mutex' # Unlocked
        BY <1>2, <2>2, <3>2, NThreadsAssumption DEF OwnerIsInside, Vm, Unlocked
      <4>2. QED
        BY <1>2, <2>1, <2>2, <3>2, <4>1, OwnerSteps
    <3>3. CASE mutex = u /\ u # t
      <4>1. InCritical(u)
        BY <1>2, <3>3 DEF OwnerIsInside
      <4>2. QED
        BY <2>1, <2>2, <3>3, <4>1, OthersStep
    <3>4. QED
      BY <3>1, <3>2, <3>3
  <2>3. CASE UNCHANGED vars
    BY <1>2, <2>3 DEF vars, OwnerIsInside, InCritical
  <2>4. CASE Next
    BY <2>2, <2>4 DEF Next, OwnerIsInside
  <2>5. QED
    BY <1>2, <2>3, <2>4
<1>3. QED
  BY <1>1, <1>2, StackHolds, PTL DEF Spec

===============================================================================
