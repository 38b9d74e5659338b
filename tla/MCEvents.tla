------------------------------- MODULE MCEvents -------------------------------
(***************************************************************************)
(* Scripts that use one Events object.                                     *)
(***************************************************************************)
EXTENDS EventsProperties

CONSTANTS main, worker, click, press, foo, bar, argA, argB, noarg

Users   == {main, worker}
Events  == {click, press}
Actions == {foo, bar}
Args    == {argA, argB, noarg}
Keys    == {1, 2}
Vals    == {0, 1, 2}

\* As tests/std.events/events_001.test, with a second thread that emits too.
Connections == { <<Connect(click, foo), Connect(click, bar), Connect(press, bar)>>,
                 <<Connect("exit", foo), Connect(click, bar)>> }

MainCalls   == { <<Emit(click, argA), Emit(press, argB)>>, <<>> }

WorkerCalls == { <<Emit(click, argB), Emit(click, argA)>>,
                 <<Emit(press, argA), Emit("exit", noarg), Emit(click, argA)>>,
                 <<>> }

\* As events_002.test: the keys of a call of set are not those of another one,
\* and no requisition has keys of two of them.
Requisitions == { <<Require(1 :> 1, foo), Require(2 :> 2, bar), Connect("set", bar)>>,
                  <<Require(1 :> 1, foo), Require(2 :> 0, foo), Connect(click, bar)>> }

MainSets     == { <<SetTo(1 :> 1, argA), Emit(click, argB)>>, <<SetTo(1 :> 1, argA), SetTo(2 :> 2, argB)>> }

WorkerSets   == { <<SetTo(2 :> 2, argA)>>, <<Emit(click, argA), Emit(click, argB)>> }

WholeSets    == { <<Require(1 :> 1 @@ 2 :> 2, foo), Require(2 :> 2, bar)>> \o
                  <<Start(worker, w), SetTo(1 :> a @@ 2 :> 2, argA)>> :
                  w \in {<<Emit(click, argB)>>}, a \in {1, 2} }

Endings == { <<Join(worker), Finalize, Drop>>, <<Finalize, Join(worker), Drop>>,
             <<Join(worker), Drop>> }

Bodies ==
  { c \o <<Start(worker, w)>> \o m : c \in Connections, w \in WorkerCalls, m \in MainCalls }
  \cup
  { c \o <<Start(worker, w)>> \o SubSeq(m, 1, IF w[1].call = "set" THEN 1 ELSE 2) :
      c \in Requisitions, w \in WorkerSets, m \in MainSets }
  \cup WholeSets

EmitScripts == { c \o e : c \in Bodies, e \in Endings }

\* Two calls of set for one key, each of which fulfils a requisition.
OverwritingScripts ==
  { <<Require(1 :> 1, foo), Require(1 :> 2, bar), SetTo(1 :> 1, argA), SetTo(1 :> 2, argB), Finalize>> }

\* The calls of a script and of the scripts it starts.
CallsOf(s) ==
  ToSet(s) \cup UNION { ToSet(c.script) : c \in { d \in ToSet(s) : d.call = "start" } }

CallsMade == UNION { CallsOf(s) : s \in EmitScripts \cup OverwritingScripts }

\* What the theorems ask of scripts, these scripts do.
ASSUME NeverEmitsAssumption == NeverEmitsSet
ASSUME RulesAssumption == \A s \in EmitScripts : InOrder(s) /\ KeepsRules(CallsOf(s))
===============================================================================
