----------------------------- MODULE VMProperties -----------------------------
(***************************************************************************)
(* What a run of the virtual machine must keep.                            *)
(***************************************************************************)
EXTENDS VM

Frames     == [fn : Owner, ret : Addr(prog)]
Handlers   == [to : Addr(prog), state : {1, 2}]
NestedRuns == [saved : Addr(prog), left : Nat, depth : Nat]

\* The type invariant: addresses stay inside the script (core/vm.cc:379-1000).
TypeOK ==
  /\ phase   \in [Vm -> Phase]
  /\ pc      \in [Vm -> Addr(prog)]
  /\ frames  \in [Vm -> Seq(Frames)]
  /\ tries   \in [Vm -> Seq(Handlers)]
  /\ args    \in [Vm -> Nat]
  /\ natives \in [Vm -> Seq(NestedRuns)]
  /\ mutex   \in Vm \cup {Unlocked}

Running(t) == phase[t] \in {"exec", "bind"}

\* Inside prepareCall or between OP_LOCK and OP_UNLOCK.
InCritical(t) == phase[t] = "bind" \/ (phase[t] = "exec" /\ pc[t] \in prog.crit)

\* No two threads are in code the VM mutex protects (critical blocks, and the
\* parameter binding of prepareCall) at the same time.
MutualExclusion ==
  \A t, u \in Vm : InCritical(t) /\ InCritical(u) => t = u

\* The mutex is never left locked by code that has moved on: its owner is in
\* prepareCall or in a critical block, so it will come to the unlock.
OwnerIsInside ==
  \A t \in Vm : mutex = t => InCritical(t)

\* The environment on top of the call stack, the one operands are fetched
\* from, is an activation of the function whose code is being executed.  (A
\* callback returns to the final OP_HALT, which fetches nothing.)
FrameMatchesCode ==
  \A t \in Vm : Running(t) /\ pc[t] # Halt => Last(frames[t]).fn = prog.owner[pc[t]]

\* Every handler of the try stack belongs to a function that is still active:
\* a throw cannot land in a body that has returned.
HandlersAreLive ==
  \A t \in Vm : Running(t) =>
    \A i \in DOMAIN tries[t] : \E j \in DOMAIN frames[t] :
      frames[t][j].fn = prog.owner[tries[t][i].to]

\* A native that called a script function back gets control back with the
\* call stack it had before.
CallbacksBalanced ==
  \A t \in Vm : phase[t] = "return" => Len(frames[t]) = Last(natives[t]).depth

\* A script that ran to its end left no handler and no call behind.
EndsClean ==
  phase[Main] = "done" => tries[Main] = <<>> /\ Len(frames[Main]) = 1

\* No assertion of the debug build fails, nothing undefined is executed, and
\* no exception or argument error ends the process.
NoFailure ==
  \A t \in Vm : phase[t] \in {"none", "entry", "exec", "bind", "return", "done"}

\* The operand an instruction names is a value of the environment it is read
\* from: Environment::getValue never fails its bounds assertion
\* (core/environment.cc:48).
AssertionsHold == \A t \in Vm : phase[t] # "assert"

\* The end of a round of a do-while loop of the top-level code.
AtTest(t) == phase[t] = "exec" /\ prog.code[pc[t]].op = "JMPNZ"

\* A loop of the top-level code leaves nothing behind, however many rounds it
\* makes: its test finds the stacks as they were before the loop.
RoundsLeaveNothing ==
  AtTest(Main) /\ prog.owner[pc[Main]] = Global =>
    tries[Main] = <<>> /\ Len(frames[Main]) = 1 /\ args[Main] = 0

\* Threads that loop forever never come to wait for each other all at once:
\* again and again some round ends.  Which thread's is not promised: the mutex
\* of core/cthread.cc gives nobody a turn.
RoundsEnd ==
  []<>((\E t \in Vm : AtTest(t)) \/ \A t \in Vm : phase[t] \in {"none", "done"})

\* A script without loops comes to its end, in every thread: nobody waits
\* forever for the mutex or for a thread.
HasLoop == \E a \in Addr(prog) : prog.code[a].op = "JMPNZ"

EveryThreadEnds ==
  \A t \in Vm : (phase[t] = "entry" /\ ~HasLoop) ~> phase[t] = "done"
===============================================================================
