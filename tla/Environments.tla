--------------------------- MODULE Environments ---------------------------
(***************************************************************************)
(* The environments of a running script (environment.cc, vm.cc): calls     *)
(* activate copies of the environments the Resolver made, function values  *)
(* and instances bring theirs along, and reference counts decide when one  *)
(* is freed.  The script does, in any order, what its functions allow.     *)
(*                                                                         *)
(* `maker' is the activation a script means by the code around a function; *)
(* `sound' is FALSE for what a script got by one of these ways, which the  *)
(* code does not support:                                                  *)
(*   - a named function, or a class, inside a function: its outer          *)
(*     environment is the one of the resolver and no activation;           *)
(*   - a named function inside a method: it is a method of the same class, *)
(*     and its outer environment is the instance instead of the activation *)
(*     around it;                                                          *)
(*   - a function value called after its declaration was evaluated by      *)
(*     another activation: they share one outer environment;               *)
(*   - a function value returned by a function other than its maker;       *)
(*   - a closure or an instance made during a callback, used after it.     *)
(***************************************************************************)
EXTENDS Scopes

CONSTANTS MaxFrames,       \* calls open at once, the main script included
          MaxEnvironments, \* environments ever made by a running script
          MaxValues        \* function values and instances kept

VARIABLES envs,      \* every Environment: the resolver's, then the activations
          frames,    \* m_call_stack, the top first
          store,     \* m_obj_store, the top first
          values,    \* the function values and instances the script keeps
          evaluated, \* by which activation each declaration was evaluated last
          fault      \* "none", or whose freed environment was activated:
                     \* "excused" of an unsound value, "real" of a sound one

machineVars == <<envs, frames, store, values, evaluated, fault>>

vars == <<resolverVars, machineVars>>

Frame == frames[1]
Top == Frame.env
Running == phase = "running" /\ fault = "none" /\ frames # <<>>

Declared(env) == CHOOSE f \in functions : f.env = env
Inside == {f \in functions : f.parent = envs[Top].of}
Level == Cardinality({i \in DOMAIN frames : frames[i].callback})

(* Reference counts: the last reference frees an environment, which drops  *)
(* the one it holds on its outer environment before what was due already.  *)
AddRef(es, e) == IF e = 0 THEN es ELSE [es EXCEPT ![e].refs = @ + 1]

DelFirst(s) ==
  IF s.due = <<>> THEN s
  ELSE IF Head(s.due) = 0 THEN [envs |-> s.envs, due |-> Tail(s.due)]
  ELSE LET e == Head(s.due)
       IN [envs |-> [s.envs EXCEPT ![e].refs = @ - 1],
           due  |-> (IF s.envs[e].refs = 1 THEN <<s.envs[e].outer>> ELSE <<>>) \o Tail(s.due)]

\* Every delRef() frees an environment or leaves less to be given up.
MaxDels(es, due) == Len(es) + Len(due)

DelRefs(es, due) ==
  LET after[n \in 0 .. MaxDels(es, due)] ==
        IF n = 0 THEN [envs |-> es, due |-> due] ELSE DelFirst(after[n - 1])
  IN after[MaxDels(es, due)].envs

DelRef(es, e) == DelRefs(es, <<e>>)

(* activate: a copy, whose outer environment is that of the original       *)
(* unless another is given; the new environment has one reference.         *)
Activate(es, e, outer, maker, sound) ==
  LET up == IF outer = 0 THEN es[e].outer ELSE outer
  IN Append(AddRef(es, up), [of |-> es[e].of, outer |-> up, refs |-> 1, maker |-> maker, sound |-> sound])

MutantSetOuter(es, e, outer) == AddRef([es EXCEPT ![e].outer = outer], outer)
SetOuter(es, e, outer) == AddRef(DelRef([es EXCEPT ![e].outer = outer], es[e].outer), outer)

(* Environment::getValue, the environments it passes included.             *)
Way(e, depth) == LET go[d \in 0..depth] == IF d = 0 THEN <<e>>
                                           ELSE LET w == go[d - 1] IN
                                             IF Last(w) = 0 THEN w ELSE Append(w, envs[Last(w)].outer)
                 IN go[depth]

(* The environment a script means: the activation around it, so often.     *)
Meant(e, depth) == LET go[d \in 0..depth] == IF d = 0 THEN e ELSE envs[go[d - 1]].maker IN go[depth]

(* The activations around one, and the one of the function around f.       *)
Surroundings(e) == LET s[x \in 0..Len(envs)] == IF x = 0 THEN <<>> ELSE <<x>> \o s[envs[x].maker] IN s[e]
MakersOf(f) == SelectSeq(Surroundings(Top), LAMBDA e : envs[e].of = f.parent)
Sees(f) == MakersOf(f) # <<>>
MakerOf(f) == MakersOf(f)[1]

Room == Len(frames) < MaxFrames /\ Len(envs) - Len(blueprints) < MaxEnvironments
Keeps(v) == Cardinality(values \cup {v}) <= MaxValues

Fault(sound) == IF sound THEN "real" ELSE "excused"

(* prepareCall and runFunction.                                            *)
Enter(source, outer, maker, sound, callback) ==
  /\ Room
  /\ IF envs[source].refs = 0
     THEN /\ fault' = Fault(sound)
          /\ UNCHANGED <<envs, frames>>
     ELSE /\ envs' = Activate(envs, source, outer, maker, sound)
          /\ frames' = <<[env |-> Len(envs) + 1, callback |-> callback]>> \o frames
          /\ UNCHANGED fault
  /\ UNCHANGED <<values, evaluated, resolverVars>>

(* OP_FCALL of a function by its name.                                     *)
CallNamed(f) ==
  /\ Running /\ f.kind = "function" /\ f.class = 0 /\ Sees(f)
  /\ Enter(f.env, 0, MakerOf(f), envs[Top].sound /\ f.parent = 1, FALSE)
  /\ UNCHANGED store

(* OP_BIND, where an anonymous function is written: the environment all    *)
(* activations share gets the top one as its outer environment.            *)
Bind(f) ==
  /\ Running /\ f.kind = "anonymous" /\ f \in Inside
  /\ LET v == [decl |-> f.env, env |-> f.env, maker |-> Top, sound |-> envs[Top].sound, level |-> 0]
     IN Keeps(v) /\ values' = values \cup {v}
  /\ envs' = IF envs[f.env].outer # 0 THEN SetOuter(envs, f.env, Top) ELSE envs
  /\ evaluated' = [evaluated EXCEPT ![f.env] = Top]
  /\ UNCHANGED <<frames, store, fault, resolverVars>>

Callable == {v \in values : Declared(v.decl).kind = "anonymous"}
Unchanged(v) == v.env # v.decl \/ evaluated[v.decl] = v.maker

(* OP_FCALL of a function value, and a native that calls one back: the     *)
(* callback opens a level of m_obj_store.                                  *)
CallValue(v) == Running /\ Enter(v.env, 0, v.maker, v.sound /\ Unchanged(v), FALSE) /\ UNCHANGED store

MutantCallBack(v) == Running /\ Enter(v.env, 0, v.maker, v.sound /\ Unchanged(v), TRUE) /\ UNCHANGED store

CallBack(v) ==
  /\ Running
  /\ Enter(v.env, 0, v.maker, v.sound /\ Unchanged(v), TRUE)
  /\ store' = IF fault' = "none" THEN <<<<>>>> \o store ELSE store

(* What is kept until the run ends, in a level made on demand.             *)
Stored(e) == IF store = <<>> THEN <<<<e>>>> ELSE <<Append(store[1], e)>> \o Tail(store)

(* OP_NEW of a class: the instance holds an activation of the environment  *)
(* of the class; a constructor is a method.                                *)
New(f) ==
  /\ Running /\ f.kind = "class" /\ Sees(f) /\ Len(envs) - Len(blueprints) < MaxEnvironments
  /\ LET sound == envs[Top].sound /\ f.parent = 1
         maker == MakerOf(f)
         v == [decl |-> f.env, env |-> Len(envs) + 1, maker |-> maker, sound |-> sound, level |-> Level]
     IN /\ Keeps(v) /\ values' = values \cup {v}
        /\ envs' = Activate(envs, f.env, 0, maker, sound)
  /\ store' = Stored(Len(envs) + 1)
  /\ UNCHANGED <<frames, evaluated, fault, resolverVars>>

InClass(f) == f.parent = f.class

(* OP_MCALL: a method runs over the environment of its instance.           *)
CallMethod(v, f) ==
  /\ Running /\ f.kind = "function" /\ f.class # 0 /\ f.class = v.decl
  /\ Room
  /\ IF envs[v.env].refs = 0
     THEN fault' = Fault(v.sound) /\ UNCHANGED <<envs, frames>>
     ELSE /\ envs' = Activate(envs, f.env, v.env, v.env, v.sound /\ InClass(f))
          /\ frames' = <<[env |-> Len(envs) + 1, callback |-> FALSE]>> \o frames
          /\ UNCHANGED fault
  /\ UNCHANGED <<store, values, evaluated, resolverVars>>

(* OP_SMCALL: a static method runs over the environment of its class.      *)
CallStatic(f) ==
  /\ Running /\ f.kind = "static" /\ Sees(Declared(f.class))
  /\ Enter(f.env, 0, f.class, envs[Top].sound /\ InClass(f) /\ Declared(f.class).parent = 1, FALSE)
  /\ UNCHANGED store

(* The end of a call: the frame's reference goes, and a callback also ends *)
(* its run(), which drops the level of the store on top.                   *)
Leave(es, kept, newValues) ==
  /\ frames' = Tail(frames)
  /\ IF Frame.callback /\ kept # <<>>
     THEN /\ envs' = DelRefs(DelRef(es, Top), kept[1])
          /\ store' = Tail(kept)
          /\ values' = {[v EXCEPT !.sound = @ /\ v.level < Level] : v \in newValues}
     ELSE /\ envs' = DelRef(es, Top)
          /\ store' = kept
          /\ values' = newValues
  /\ UNCHANGED <<evaluated, fault, resolverVars>>

(* OP_LEAVE, or OP_RET of something else than a closure.                   *)
Return == Running /\ Len(frames) > 1 /\ Leave(envs, store, values)

(* OP_RET of a closure: the caller gets another one, over a copy of its    *)
(* environment whose outer environment is the one of the returning frame.  *)
ReturnClosure(v) ==
  /\ Running /\ Len(frames) > 1 /\ Len(envs) - Len(blueprints) < MaxEnvironments
  /\ LET new == [v EXCEPT !.env = Len(envs) + 1, !.sound = @ /\ v.maker = Top, !.level = Level]
     IN /\ Keeps(new)
        /\ IF envs[v.env].refs = 0
           THEN /\ fault' = Fault(new.sound)
                /\ UNCHANGED <<envs, frames, store, values, evaluated, resolverVars>>
           ELSE Leave(Activate(envs, v.env, Top, v.maker, new.sound), Stored(Len(envs) + 1), values \cup {new})

(* OP_HALT: the store is emptied, the environment of the script stays.     *)
Halt ==
  /\ Running /\ Len(frames) = 1
  /\ frames' = <<>>
  /\ envs' = IF store = <<>> THEN envs ELSE DelRefs(envs, store[1])
  /\ store' = IF store = <<>> THEN store ELSE Tail(store)
  /\ values' = {}
  /\ UNCHANGED <<evaluated, fault, resolverVars>>

(* Compiled: the main script runs in the environment of the global scope.  *)
Start ==
  /\ Resolved
  /\ envs' = [b \in DOMAIN blueprints |->
       [of |-> b, outer |-> blueprints[b].outer, maker |-> blueprints[b].outer, sound |-> b = 1,
        refs |-> 1 + Cardinality({c \in DOMAIN blueprints : blueprints[c].outer = b})]]
  /\ evaluated' = [b \in DOMAIN blueprints |-> 0]
  /\ frames' = <<[env |-> 1, callback |-> FALSE]>>
  /\ UNCHANGED <<store, values, fault>>

MachineInit == envs = <<>> /\ frames = <<>> /\ store = <<>> /\ values = {} /\ evaluated = <<>> /\ fault = "none"

(* Nothing more happens.                                                   *)
Ended ==
  /\ phase \in {"failed", "crashed"} \/ (phase = "running" /\ (frames = <<>> \/ fault # "none"))
  /\ UNCHANGED vars

Init == ResolverInit /\ MachineInit

Resolve == Visit /\ UNCHANGED machineVars

Next ==
  \/ Resolve \/ Start \/ Ended
  \/ \E f \in functions : CallNamed(f) \/ Bind(f) \/ New(f) \/ CallStatic(f)
  \/ \E v \in values : \E f \in functions : CallMethod(v, f)
  \/ \E v \in Callable : CallValue(v) \/ CallBack(v) \/ ReturnClosure(v)
  \/ Return \/ Halt

Spec == Init /\ [][Next]_vars
=============================================================================
