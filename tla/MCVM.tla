--------------------------------- MODULE MCVM ---------------------------------
(***************************************************************************)
(* Scripts for the virtual machine, compiled by the code generator.        *)
(***************************************************************************)
EXTENDS VMProperties, Codegen, Discipline

CONSTANTS f, g

TwoFuncs == {f, g}

Compiled(scripts) == {Compile(s) : s \in scripts}

(***************************************************************************)
(* One thread: f is called twice, its body a try statement; g is called    *)
(* from every part of it, by a call or by a native that calls back.  What  *)
(* may raise is in a try statement of the same body, and no statement      *)
(* leaves a try statement by a jump.                                       *)
(***************************************************************************)
GBodies == { <<EvalStmt(2)>>,
             <<IfStmt(1, <<ReturnStmt>>, <<>>), EvalStmt(2)>>,
             <<TryStmt(<<RaiseStmt(3)>>, <<<<EvalStmt(2)>>>>, <<>>)>> }

TryBlocks == { <<ThrowStmt>>,
               <<RaiseStmt(3), CallStmt(g, 0)>>,
               <<NativeStmt(g, 2), RaiseStmt(3)>>,
               <<TryStmt(<<RaiseStmt(3)>>, <<<<ThrowStmt>>>>, <<>>)>> }

CatchBlocks == { <<CallStmt(g, 0)>>,
                 <<TryStmt(<<ThrowStmt>>, <<<<EvalStmt(2)>>>>, <<EvalStmt(2)>>)>> }

FinallyBlocks == { <<>>, <<NativeStmt(g, 1)>> }

TryScripts ==
  { Script(<<Declare(g, 0, bg),
             Declare(f, 1, <<TryStmt(tb, <<cb>>, fb)>>)>>,
           <<CallStmt(f, 1), NativeStmt(f, 0), CallStmt(f, 1)>>) :
    bg \in GBodies, tb \in TryBlocks, cb \in CatchBlocks, fb \in FinallyBlocks }

TryPrograms == Compiled(TryScripts)

(***************************************************************************)
(* Threads: the main script and two thread objects, started from the main  *)
(* script, from inside a try block or from another thread, with critical   *)
(* blocks that only compute.                                               *)
(***************************************************************************)
Update == CriticalStmt(<<EvalStmt(2), IfStmt(1, <<EvalStmt(2)>>, <<>>)>>)

WorkerBodies == { <<Update, Update>>,
                  <<TryStmt(<<Update, ThrowStmt>>, <<<<Update>>>>, <<>>)>>,
                  <<CallStmt(g, 0), Update>>,
                  <<NativeStmt(g, 1), IfStmt(1, <<ReturnStmt>>, <<>>), Update>> }

Mains == { <<SpawnStmt(f, 1), SpawnStmt(f, 2), Update, JoinStmt(1), JoinStmt(2)>>,
           <<TryStmt(<<SpawnStmt(f, 1), RaiseStmt(3), Update>>, <<<<CallStmt(g, 0)>>>>, <<>>),
             SpawnStmt(g, 2), CallStmt(g, 0), JoinStmt(2), JoinStmt(1)>> }

NestedMain == <<SpawnStmt(f, 1), Update, CallStmt(g, 0), JoinStmt(1), JoinStmt(2)>>

ThreadScripts ==
  { Script(<<Declare(g, 0, <<Update>>), Declare(f, 0, b)>>, m) : b \in WorkerBodies, m \in Mains }
  \cup
  { Script(<<Declare(g, 0, b), Declare(f, 0, <<SpawnStmt(g, 2), Update>>)>>, NestedMain) :
    b \in { <<Update>>, <<IfStmt(1, <<Update>>, <<EvalStmt(2)>>)>> } }

ThreadPrograms == Compiled(ThreadScripts)

(***************************************************************************)
(* Two threads in loops that take the mutex and catch exceptions.          *)
(***************************************************************************)
Round == { <<CallStmt(f, 0)>>, <<NativeStmt(f, 1), EvalStmt(2)>>,
           <<TryStmt(<<RaiseStmt(3), CallStmt(f, 0)>>, <<<<EvalStmt(2)>>>>, <<>>)>> }

LoopScripts ==
  { Script(<<Declare(f, 0, <<TryStmt(<<Update, ThrowStmt>>, <<<<EvalStmt(2)>>>>, <<>>)>>),
             Declare(g, 0, <<DoWhileStmt(9, <<Update>>)>>)>>,
           <<SpawnStmt(g, 1), DoWhileStmt(9, r), JoinStmt(1)>>) : r \in Round }

LoopPrograms == Compiled(LoopScripts)

SoundPrograms == TryPrograms \cup ThreadPrograms \cup LoopPrograms

(***************************************************************************)
(* Scripts that leave a try statement other than through its end.          *)
(***************************************************************************)

\* try { g(); } catch (e) { } where g throws: an exception crosses a call.
CrossingScripts ==
  { Script(<<Declare(g, 0, bg), Declare(f, 0, <<EvalStmt(2)>>)>>,
           <<EvalStmt(2), TryStmt(<<CallStmt(g, 0)>>, <<cb>>, fb)>>) :
    bg \in { <<ThrowStmt>>, <<RaiseStmt(3), IfStmt(1, <<ThrowStmt>>, <<ReturnStmt>>)>> },
    cb \in { <<EvalStmt(2)>>, <<RaiseStmt(3)>>, <<NativeStmt(g, 1)>> },
    fb \in FinallyBlocks }

CrossingPrograms == Compiled(CrossingScripts)

(***************************************************************************)
(* The proofs about the stacks assume that scripts are disciplined.  The   *)
(* least states an activation of p can be in show for every sound script   *)
(* that it is, and for every one whose exceptions cross a call that it is  *)
(* not.                                                                    *)
(***************************************************************************)
RECURSIVE Closure(_, _, _)
Closure(p, seen, new) ==
  IF new = {} THEN seen
  ELSE LET next == UNION {IF Allows(p, x[1], x[2]) THEN After(p, x[1], x[2]) ELSE {} : x \in new}
       IN  Closure(p, seen \cup new, next \ (seen \cup new))

Least(p) ==
  LET all == Closure(p, {}, {<<1, Clean>>} \cup {<<p.entry[h], Clean>> : h \in Func})
  IN  [a \in Addr(p) |-> {x[2] : x \in {y \in all : y[1] = a}}]

ASSUME SoundAreDisciplined ==
  \A p \in SoundPrograms : Checked(p, Least(p)) /\ TestsAreClean(p, Least(p)) /\ KeepsCritical(p)
ASSUME CrossingAreNot      == \A p \in CrossingPrograms : ~Checked(p, Least(p))
===============================================================================
