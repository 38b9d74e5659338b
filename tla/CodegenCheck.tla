----------------------------- MODULE CodegenCheck -----------------------------
(***************************************************************************)
(* The code generator and the virtual machine together against the meaning *)
(* of a script: the main VM runs the compiled script, and every step of it *)
(* that shows something is a step of the machine of Source.  What the      *)
(* machine does without showing anything it does first.                    *)
(***************************************************************************)
EXTENDS VM, Source

CONSTANT Scripts    \* the scripts that are compiled and run

VARIABLES
  script,   \* the script that runs
  src       \* what is left of it to do

cvars == <<vars, script, src>>

Shows == {"EVAL", "JMPZ", "JMPNZ", "RAISE", "THROW"}

Showing == phase[Main] = "exec" /\ Ins(Main).op \in Shows

\* The next thing the VM shows is the next visible thing of the script.
Agrees ==
  /\ src # <<>>
  /\ CASE Ins(Main).op = "EVAL"            -> Head(src) = EvalStmt(Ins(Main).n)
       [] Ins(Main).op = "RAISE"           -> Head(src) = RaiseStmt(Ins(Main).n)
       [] Ins(Main).op = "THROW"           -> Head(src) = ThrowStmt
       [] Ins(Main).op \in {"JMPZ", "JMPNZ"} -> Head(src).kind = "test"

FellThrough == pc'[Main] = pc[Main] + 1

Follow ==
  src' = IF ~Showing \/ ~Agrees THEN src ELSE
         CASE Ins(Main).op = "EVAL"  -> Computed(src)
           [] Ins(Main).op = "RAISE" -> IF FellThrough THEN Computed(src)
                                                       ELSE Raised(src)
           [] Ins(Main).op = "THROW" -> Raised(src)
           [] Ins(Main).op = "JMPZ"  -> Decided(src, FellThrough)
           [] Ins(Main).op = "JMPNZ" -> Decided(src, ~FellThrough)

CheckInit == /\ script \in Scripts
             /\ prog = Compile(script)
             /\ Start
             /\ src = script.body

RunVM == Settled(src) /\ Step(Main) /\ Follow /\ UNCHANGED script

UnfoldSource == /\ ~Settled(src)
                /\ src' = Unfolded(script, src)
                /\ UNCHANGED <<vars, script>>

CheckNext == RunVM \/ UnfoldSource

CheckSpec == CheckInit /\ [][CheckNext]_cvars /\ WF_cvars(CheckNext)

-------------------------------------------------------------------------------
\* The compiled script does what the script says: it computes the expressions
\* the script computes, in that order, whichever way each condition and each
\* operation that may raise goes; it ends where the script ends and is ended by
\* an exception only if nobody catches it (Codegen::visit of every statement).
FollowsSource == Settled(src) =>
  /\ Showing => Agrees
  /\ phase[Main] = "done" => src = <<>>
  /\ phase[Main] = "uncaught" => src = <<Uncaught>>
  /\ phase[Main] \notin {"badargs", "assert", "undefined"}

\* Compiled code never jumps around forever without doing anything.
KeepsShowing == []<>(Showing \/ phase[Main] \in Final)
===============================================================================
