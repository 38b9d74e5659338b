---------------------------------- MODULE VM ----------------------------------
(***************************************************************************)
(* The virtual machine of core/vm.cc: the dispatch loop of VM::run over    *)
(* the call stack, the try stack and the program counter of every VM       *)
(* object of the process, and the one mutex all of them share.             *)
(*                                                                         *)
(* VM 0 is the one Interpreter::execute runs.  VM k > 0 is the copy that   *)
(* Thread.start makes for thread object k (new VM( *clever->vm )); it runs *)
(* in a thread of its own.  Every step below is one instruction of one VM, *)
(* split where the code takes or gives up the mutex, so that the threads   *)
(* interleave at the points where they can see each other.                 *)
(*                                                                         *)
(* An operator with "Mutant" in its name is a deliberately wrong variant   *)
(* of the definition after it, against which the properties are tested.    *)
(***************************************************************************)
EXTENDS IR, SequencesExt

CONSTANTS
  NThreads,   \* how many thread objects a script may start
  Programs    \* the compiled scripts that are run

ASSUME NThreadsAssumption == NThreads \in Nat
ASSUME FuncAssumption     == Global \notin Func
ASSUME ProgramsAssumption == \A p \in Programs : WellFormed(p)

VARIABLES
  prog,     \* m_inst and the functions of the script: the same in every VM
  phase,    \* how far a VM is in its handler; see Phase
  pc,       \* m_pc
  frames,   \* m_call_stack: the function of each entry, its return address
  tries,    \* m_try_stack: <<catch address, 1 in the try block, 2 in a catch>>
  args,     \* Len(m_call_args)
  natives,  \* the VM::runFunction calls in progress, innermost last
  mutex     \* who locked *m_mutex, or Unlocked

vars == <<prog, phase, pc, frames, tries, args, natives, mutex>>

Vm       == 0 .. NThreads
Main     == 0
Unlocked == NThreads + 1

\* "entry": waiting for the mutex at the top of run(); "exec": dispatching;
\* "bind": in prepareCall with the mutex held; "return": run() has returned
\* to the native that called runFunction.  The last five are final.
Final == {"done", "uncaught", "badargs", "assert", "undefined"}
Phase == {"none", "entry", "exec", "bind", "return"} \cup Final

Frame(f, r)   == [fn |-> f, ret |-> r]
Handler(a, s) == [to |-> a, state |-> s]
Nested(a, k, d) == [saved |-> a, left |-> k, depth |-> d]

\* runFunction without the "- 1" of m_inst.size() - 1.
MutantHaltPastEnd == Len(prog.code) + 1

Halt == Len(prog.code)
Ins(t) == prog.code[pc[t]]

\* Past an assertion failure or undefined behaviour nothing is said about the
\* process; a child that longjmps to the main thread's jmp_buf is one such.
Lost == \/ \E t \in Vm : phase[t] \in {"assert", "undefined"}
        \/ \E t \in Vm \ {Main} : phase[t] \in {"uncaught", "badargs"}

At(t, op) == ~Lost /\ phase[t] = "exec" /\ Ins(t).op = op

Goto(t, a)  == pc' = [pc EXCEPT ![t] = a]
Enter(t, q) == phase' = [phase EXCEPT ![t] = q]

-------------------------------------------------------------------------------
\* VM(const IRVector&) and run() of the main VM: nothing is stacked yet.
Start ==
  /\ phase   = [t \in Vm |-> IF t = Main THEN "entry" ELSE "none"]
  /\ pc      = [t \in Vm |-> 1]
  /\ frames  = [t \in Vm |-> <<>>]
  /\ tries   = [t \in Vm |-> <<>>]
  /\ args    = [t \in Vm |-> 0]
  /\ natives = [t \in Vm |-> <<>>]
  /\ mutex   = Unlocked

Init == prog \in Programs /\ Start

\* The head of VM::run: under the mutex, an empty call stack gets the entry
\* of the global environment, whose m_ret_addr is 0.
RunEntry(t) ==
  /\ ~Lost
  /\ phase[t] = "entry"
  /\ mutex = Unlocked
  /\ frames' = [frames EXCEPT ![t] = IF @ = <<>> THEN <<Frame(Global, 1)>> ELSE @]
  /\ Enter(t, "exec")
  /\ UNCHANGED <<prog, pc, tries, args, natives, mutex>>

\* The label exit: run() returns to runFunction, which restores m_pc, or the
\* VM is finished.
LeaveRun(t) ==
  IF natives[t] = <<>>
  THEN Enter(t, "done") /\ UNCHANGED pc
  ELSE Enter(t, "return") /\ Goto(t, Last(natives[t]).saved)

HaltRun(t) ==
  /\ At(t, "HALT")
  /\ LeaveRun(t)
  /\ UNCHANGED <<prog, frames, tries, args, natives, mutex>>

Eval(t) ==
  /\ At(t, "EVAL")
  /\ Goto(t, pc[t] + 1)
  /\ UNCHANGED <<prog, phase, frames, tries, args, natives, mutex>>

SendVal(t) ==
  /\ At(t, "SEND")
  /\ args' = [args EXCEPT ![t] = @ + 1]
  /\ Goto(t, pc[t] + 1)
  /\ UNCHANGED <<prog, phase, frames, tries, natives, mutex>>

Jump(t) ==
  /\ At(t, "JMP")
  /\ Goto(t, Ins(t).to)
  /\ UNCHANGED <<prog, phase, frames, tries, args, natives, mutex>>

\* A condition reads script values: it holds or it does not.
JumpIfZero(t) ==
  /\ At(t, "JMPZ")
  /\ \E value \in BOOLEAN : Goto(t, IF value THEN pc[t] + 1 ELSE Ins(t).to)
  /\ UNCHANGED <<prog, phase, frames, tries, args, natives, mutex>>

JumpIfNotZero(t) ==
  /\ At(t, "JMPNZ")
  /\ \E value \in BOOLEAN : Goto(t, IF value THEN Ins(t).to ELSE pc[t] + 1)
  /\ UNCHANGED <<prog, phase, frames, tries, args, natives, mutex>>

-------------------------------------------------------------------------------
(* Calls of user functions. *)

\* prepareCall, first line: getMutex()->lock().  The mutex is not recursive.
CallLock(t) ==
  /\ At(t, "CALL")
  /\ mutex = Unlocked
  /\ mutex' = t
  /\ Enter(t, "bind")
  /\ UNCHANGED <<prog, pc, frames, tries, args, natives>>

\* prepareCall without its last line, the unlock.
MutantBindKeepsLock(t) ==
  /\ ~Lost
  /\ phase[t] = "bind"
  /\ frames' = [frames EXCEPT ![t] = Append(@, Frame(Ins(t).fn, pc[t] + 1))]
  /\ args' = [args EXCEPT ![t] = 0]
  /\ Goto(t, prog.entry[Ins(t).fn])
  /\ Enter(t, "exec")
  /\ UNCHANGED <<prog, tries, natives, mutex>>

\* The rest of prepareCall.  The entry is pushed before the arguments are
\* counted, and error() does not come back to unlock.
CallBind(t) ==
  /\ ~Lost
  /\ phase[t] = "bind"
  /\ frames' = [frames EXCEPT ![t] = Append(@, Frame(Ins(t).fn, pc[t] + 1))]
  /\ IF args[t] = prog.params[Ins(t).fn]
     THEN /\ args' = [args EXCEPT ![t] = 0]
          /\ mutex' = Unlocked
          /\ Goto(t, prog.entry[Ins(t).fn])
          /\ Enter(t, "exec")
     ELSE /\ Enter(t, "badargs")
          /\ UNCHANGED <<pc, args, mutex>>
  /\ UNCHANGED <<prog, tries, natives>>

\* Popping the last entry leaves a stack whose top() the next instruction reads.
PopFrame(t) ==
  /\ frames' = [frames EXCEPT ![t] = Front(@)]
  /\ Goto(t, Last(frames[t]).ret)
  /\ Enter(t, IF Len(frames[t]) = 1 THEN "undefined" ELSE "exec")

\* OP_RET that goes back without m_call_stack.pop().
MutantRetNoPop(t) ==
  /\ At(t, "RET")
  /\ Goto(t, Last(frames[t]).ret)
  /\ UNCHANGED <<prog, phase, frames, tries, args, natives, mutex>>

\* OP_RET: from the global environment it ends the run instead of popping.
Ret(t) ==
  /\ At(t, "RET")
  /\ IF Last(frames[t]).fn # Global
     THEN PopFrame(t)
     ELSE LeaveRun(t) /\ UNCHANGED frames
  /\ UNCHANGED <<prog, tries, args, natives, mutex>>

\* OP_LEAVE that goes back without m_call_stack.pop().
MutantLeaveNoPop(t) ==
  /\ At(t, "LEAVE")
  /\ Goto(t, Last(frames[t]).ret)
  /\ UNCHANGED <<prog, phase, frames, tries, args, natives, mutex>>

Leave(t) ==
  /\ At(t, "LEAVE")
  /\ PopFrame(t)
  /\ UNCHANGED <<prog, tries, args, natives, mutex>>

\* VM::runFunction: the callee returns to the OP_HALT at the end of the code.
RunFunction(t, f) ==
  /\ frames' = [frames EXCEPT ![t] = Append(@, Frame(f, Halt))]
  /\ args' = [args EXCEPT ![t] = 0]
  /\ Goto(t, prog.entry[f])
  /\ Enter(t, "entry")

\* A native that calls a user function back Ins(t).n times.
NativeCall(t) ==
  /\ At(t, "NATIVE")
  /\ IF Ins(t).n = 0
     THEN /\ args' = [args EXCEPT ![t] = 0]
          /\ Goto(t, pc[t] + 1)
          /\ UNCHANGED <<phase, frames, natives>>
     ELSE /\ natives' = [natives EXCEPT ![t] =
                           Append(@, Nested(pc[t], Ins(t).n - 1, Len(frames[t])))]
          /\ RunFunction(t, Ins(t).fn)
  /\ UNCHANGED <<prog, tries, mutex>>

\* Back in the native: it calls the function again or returns to OP_*CALL,
\* which clears m_call_args.
NativeResume(t) ==
  /\ ~Lost
  /\ phase[t] = "return"
  /\ IF Last(natives[t]).left > 0
     THEN /\ natives' = [natives EXCEPT ![t] = Append(Front(@),
                           Nested(pc[t], Last(@).left - 1, Len(frames[t])))]
          /\ RunFunction(t, Ins(t).fn)
     ELSE /\ natives' = [natives EXCEPT ![t] = Front(@)]
          /\ args' = [args EXCEPT ![t] = 0]
          /\ Goto(t, pc[t] + 1)
          /\ Enter(t, "exec")
          /\ UNCHANGED frames
  /\ UNCHANGED <<prog, tries, mutex>>

-------------------------------------------------------------------------------
(* Exceptions. *)

\* throw_exception with ">= 1" for "> 1": a handler in its try block is dropped.
MutantDropsHandler(t) ==
  LET live == IF tries[t] = <<>> THEN <<>> ELSE Front(tries[t])
  IN /\ tries' = [tries EXCEPT ![t] = live]
     /\ IF live = <<>> THEN Enter(t, "uncaught") /\ UNCHANGED pc
                       ELSE Goto(t, Last(live).to) /\ UNCHANGED phase
     /\ UNCHANGED frames

\* The label throw_exception.  A handler whose catch block is running is
\* dropped; then the innermost one gets the exception, whose catch variable is
\* looked up in the environment on top of the call stack, whichever that is
\* (the assertion of Environment::getValue).  The call stack is not unwound;
\* without a handler the trace printer empties it and the process is told.
ThrowException(t) ==
  LET live == IF tries[t] # <<>> /\ Last(tries[t]).state > 1
              THEN Front(tries[t]) ELSE tries[t]
      catch == Last(live).to
  IN /\ tries' = [tries EXCEPT ![t] = live]
     /\ IF live = <<>>
        THEN /\ frames' = [frames EXCEPT ![t] = <<>>]
             /\ Enter(t, "uncaught")
             /\ UNCHANGED pc
        ELSE /\ Goto(t, catch)
             /\ Enter(t, IF prog.code[catch].n < prog.vals[Last(frames[t]).fn]
                         THEN "exec" ELSE "assert")
             /\ UNCHANGED frames

Throw(t) ==
  /\ At(t, "THROW")
  /\ ThrowException(t)
  /\ UNCHANGED <<prog, args, natives, mutex>>

\* An operator or a native call: m_exception is tested once it is back.  A
\* native call clears m_call_args; when an operator runs no argument of its
\* own statement is pending, because sendArgs computes all of them first.
Raise(t) ==
  /\ At(t, "RAISE")
  /\ \/ Goto(t, pc[t] + 1) /\ UNCHANGED <<phase, frames, tries>>
     \/ ThrowException(t)
  /\ args' = [args EXCEPT ![t] = 0]
  /\ UNCHANGED <<prog, natives, mutex>>

Try(t) ==
  /\ At(t, "TRY")
  /\ tries' = [tries EXCEPT ![t] = Append(@, Handler(Ins(t).to, 1))]
  /\ Goto(t, pc[t] + 1)
  /\ UNCHANGED <<prog, phase, frames, args, natives, mutex>>

\* OP_CATCH that does not mark the handler.
MutantCatchUnmarked(t) ==
  /\ At(t, "CATCH")
  /\ Goto(t, pc[t] + 1)
  /\ UNCHANGED <<prog, phase, frames, tries, args, natives, mutex>>

Catch(t) ==
  /\ At(t, "CATCH")
  /\ IF tries[t] = <<>>
     THEN Enter(t, "undefined") /\ UNCHANGED <<pc, tries>>
     ELSE /\ tries' = [tries EXCEPT ![t] =
                         Append(Front(@), Handler(Last(@).to, 2))]
          /\ Goto(t, pc[t] + 1)
          /\ UNCHANGED phase
  /\ UNCHANGED <<prog, frames, args, natives, mutex>>

\* OP_ETRY that does not pop the handler.
MutantEndTryNoPop(t) ==
  /\ At(t, "ETRY")
  /\ Goto(t, pc[t] + 1)
  /\ UNCHANGED <<prog, phase, frames, tries, args, natives, mutex>>

MutantEndTryLeavesCaught(t) ==
  /\ At(t, "ETRY")
  /\ tries' = IF Last(tries[t]).state = 1 THEN [tries EXCEPT ![t] = Front(@)] ELSE tries
  /\ Goto(t, pc[t] + 1)
  /\ UNCHANGED <<prog, phase, frames, args, natives, mutex>>

EndTry(t) ==
  /\ At(t, "ETRY")
  /\ IF tries[t] = <<>>
     THEN Enter(t, "undefined") /\ UNCHANGED <<pc, tries>>
     ELSE /\ tries' = [tries EXCEPT ![t] = Front(@)]
          /\ Goto(t, pc[t] + 1)
          /\ UNCHANGED phase
  /\ UNCHANGED <<prog, frames, args, natives, mutex>>

-------------------------------------------------------------------------------
(* Critical blocks and threads. *)

\* OP_LOCK that does not wait.
MutantLockNoWait(t) ==
  /\ At(t, "LOCK")
  /\ mutex' = t
  /\ Goto(t, pc[t] + 1)
  /\ UNCHANGED <<prog, phase, frames, tries, args, natives>>

Lock(t) ==
  /\ At(t, "LOCK")
  /\ mutex = Unlocked
  /\ mutex' = t
  /\ Goto(t, pc[t] + 1)
  /\ UNCHANGED <<prog, phase, frames, tries, args, natives>>

\* OP_UNLOCK that leaves the mutex locked.
MutantUnlockSkipped(t) ==
  /\ At(t, "UNLOCK")
  /\ Goto(t, pc[t] + 1)
  /\ UNCHANGED <<prog, phase, frames, tries, args, natives, mutex>>

\* pthread_mutex_unlock of a default mutex frees it whoever calls it.
Unlock(t) ==
  /\ At(t, "UNLOCK")
  /\ mutex' = Unlocked
  /\ Goto(t, pc[t] + 1)
  /\ UNCHANGED <<prog, phase, frames, tries, args, natives>>

\* VM(const VM&) without the copy of m_call_stack.
MutantSpawnEmptyStack(t) ==
  /\ At(t, "SPAWN")
  /\ LET u == Ins(t).n IN
     /\ u \in Vm
     /\ phase[u] = "none"
     /\ frames'  = [frames EXCEPT ![u] = <<Frame(Ins(t).fn, Halt)>>]
     /\ tries'   = [tries EXCEPT ![u] = tries[t]]
     /\ pc'      = [pc EXCEPT ![t] = @ + 1, ![u] = prog.entry[Ins(t).fn]]
     /\ phase'   = [phase EXCEPT ![u] = "entry"]
     /\ args'    = [args EXCEPT ![t] = 0]
  /\ UNCHANGED <<prog, natives, mutex>>

\* Thread.start on a new thread object, and the start of ThreadHandler: the
\* copy shares mutex and code and takes over both stacks, then runFunction.
Spawn(t) ==
  /\ At(t, "SPAWN")
  /\ LET u == Ins(t).n IN
     /\ u \in Vm
     /\ phase[u] = "none"
     /\ frames'  = [frames EXCEPT ![u] = Append(frames[t], Frame(Ins(t).fn, Halt))]
     /\ tries'   = [tries EXCEPT ![u] = tries[t]]
     /\ pc'      = [pc EXCEPT ![t] = @ + 1, ![u] = prog.entry[Ins(t).fn]]
     /\ phase'   = [phase EXCEPT ![u] = "entry"]
     /\ args'    = [args EXCEPT ![t] = 0]
  /\ UNCHANGED <<prog, natives, mutex>>

\* Thread.wait: pthread_join comes back once ThreadHandler has ended.
Join(t) ==
  /\ At(t, "JOIN")
  /\ Ins(t).n \in Vm
  /\ phase[Ins(t).n] = "done"
  /\ Goto(t, pc[t] + 1)
  /\ args' = [args EXCEPT ![t] = 0]
  /\ UNCHANGED <<prog, phase, frames, tries, natives, mutex>>

-------------------------------------------------------------------------------
Step(t) ==
  \/ RunEntry(t) \/ HaltRun(t) \/ Eval(t) \/ SendVal(t) \/ Jump(t)
  \/ JumpIfZero(t) \/ JumpIfNotZero(t)
  \/ CallLock(t) \/ CallBind(t) \/ Ret(t) \/ Leave(t)
  \/ NativeCall(t) \/ NativeResume(t)
  \/ Throw(t) \/ Raise(t) \/ Try(t) \/ Catch(t) \/ EndTry(t)
  \/ Lock(t) \/ Unlock(t) \/ Spawn(t) \/ Join(t)

Next == \E t \in Vm : Step(t)

Spec == Init /\ [][Next]_vars

\* Every VM runs in an OS thread of its own, which the scheduler does not starve.
FairSpec == Spec /\ \A t \in Vm : WF_vars(Step(t))
===============================================================================
