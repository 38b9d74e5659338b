---------------------- MODULE EnvironmentsProperties ----------------------
(***************************************************************************)
(* What the resolver and the environments of a running script promise each *)
(* other: a name means what the text around it says, and the slot it is    *)
(* compiled to is found in the activation the text means.                  *)
(***************************************************************************)
EXTENDS Environments

(* The nodes open before the i-th one, the innermost first: from the text  *)
(* alone.                                                                  *)
OpenBefore ==
  LET o[i \in 1..(Len(program) + 1)] ==
        IF i = 1 THEN <<>>
        ELSE IF program[i - 1].op \in Openers THEN <<i - 1>> \o o[i - 1]
        ELSE IF program[i - 1].op = "end" THEN Tail(o[i - 1]) ELSE o[i - 1]
  IN o

ImportNames(n) ==
  {<<IF n.namespaced /\ n.word = "" THEN n.module ELSE "", w>> :
     w \in {w \in Range(ModuleNames[n.module]) : n.word \in {"", w}}}
  \cup UNION {{<<Prefix(n, m), w>> : w \in Range(ModuleNames[m])} : m \in Range(SubModules[n.module])}

Reached(n) == {n.module} \cup Range(SubModules[n.module])

(* The names a node declares around it, and for the nodes inside it.       *)
Around(n) == CASE n.op \in {"var", "class"} -> {n.name}
               [] n.op = "function" /\ ~n.anonymous -> {n.name}
               [] n.op = "import" -> ImportNames(n)
               [] OTHER -> {}
Within(n) == CASE n.op = "function" -> Range(n.args)
               [] n.op \in {"catch", "foreach"} -> {n.name}
               [] n.op = "class" -> {This}
               [] OTHER -> {}

IsMethod(opened, j) == program[j].op = "function" /\ opened[j] # <<>> /\ program[opened[j][1]].op = "class"

(* The declaration a name means at i: the last one among the nodes around. *)
Means(opened, i, name) ==
  LET seen == {j \in 1..(i - 1) : \/ name \in Around(program[j]) /\ ~IsMethod(opened, j) /\ IsSuffix(opened[j], opened[i])
                                  \/ name \in Within(program[j]) /\ j \in Range(opened[i])}
  IN IF seen = {} THEN 0 ELSE Max(seen)

\* The variable of a catch is in the scope of its block.
Again(opened, i) ==
  \/ \E j \in 1..(i - 1) : opened[j] = opened[i] /\ Around(program[j]) \cap Around(program[i]) # {}
  \/ /\ opened[i] # <<>>
     /\ \E c \in {program[opened[i][1]]} : c.op = "catch" /\ c.name \in Around(program[i])

Member(opened, i) ==
  \E j \in 1..(i - 1) : /\ opened[j] = opened[i] /\ program[j].op \in {"attribute", "function"}
                        /\ program[j].name = program[i].name

(* What a script must not do to be resolved as it reads: name a class or   *)
(* import a name over one of the same scope, import from a module twice,   *)
(* or declare a function or a class inside a method or a class inside one. *)
Misread(opened, i) ==
  \E j \in 1..(i - 1) :
    \/ program[j].op \in {"class", "import"} /\ Again(opened, j)
    \/ program[j].op = "import" /\ \E k \in 1..(j - 1) :
         program[k].op = "import" /\ Reached(program[k]) \cap Reached(program[j]) # {}
    \/ /\ \/ program[j].op = "class"
          \/ program[j].op = "function" /\ ~program[j].anonymous /\ ~IsMethod(opened, j)
       /\ \E c \in Range(opened[j]) : program[c].op = "class"

InStatic(opened, i) ==
  LET around == SelectSeq(opened[i], LAMBDA j : program[j].op = "function")
  IN around # <<>> /\ IsMethod(opened, around[1]) /\ program[around[1]].static

(* What the text does wrong at i: a name nobody declared, or declared twice *)
(* in one scope, in one class or in one list of arguments.                 *)
Wrong(opened, i) ==
  \E n \in {program[i]} :
    \/ n.op = "use" /\ Means(opened, i, n.name) = 0
    \/ n.op \in {"var", "function"} /\ Again(opened, i)
    \/ n.op = "function" /\ ~IsInjective(n.args)
    \/ n.op \in {"attribute", "function"} /\ Member(opened, i)

(* An identifier is given the declaration the text says, and an offset     *)
(* that leads to the slot of that declaration; the compiler stops where    *)
(* the text has an error, the first one, and nowhere else.  The scopes,    *)
(* tables, offsets and the resolver's stack have to agree for it (scope.cc,*)
(* Resolver::visit).                                                       *)
NamesResolve ==
  \E opened \in {OpenBefore} :
    /\ \A u \in uses :
         LET out[d \in 0..u.offset[1]] == IF d = 0 THEN u.env ELSE IF out[d - 1] = 0 THEN 0 ELSE blueprints[out[d - 1]].outer
             env == out[u.offset[1]]
         IN /\ env # 0
            /\ IF u.offset[2] \in DOMAIN blueprints[env].data
               THEN blueprints[env].data[u.offset[2]] = u.symbol.node ELSE FALSE
            /\ Misread(opened, u.node) \/ u.symbol.node = Means(opened, u.node, program[u.node].name)
    /\ phase = "failed" =>
         \/ Misread(opened, at) \/ Wrong(opened, at)
         \/ Node.op = "use" /\ Node.name = This /\ InStatic(opened, at)
    /\ phase = "running" => \A i \in DOMAIN program : Wrong(opened, i) => Misread(opened, i)
    /\ phase = "crashed" => Misread(opened, at)

(* A name used in a running function is found in the very activation that  *)
(* the text means, which is not freed before: through calls, recursion,    *)
(* callbacks, closures that outlive their makers and methods, unless the   *)
(* script does what the head of Environments lists (OP_BIND, OP_RET,       *)
(* prepareCall, runFunction, Environment::activate).                       *)
ReachesMaker ==
  /\ fault # "real"
  /\ \A i \in DOMAIN frames : \E e \in {frames[i].env} : envs[e].sound =>
       \A u \in {u \in uses : u.env = envs[e].of} :
         \E way \in {Way(e, u.offset[1])} :
           /\ Last(way) = Meant(e, u.offset[1])
           /\ \A k \in Range(way) : envs[k].refs > 0

(* Every environment has one reference for each of its holders, so that it *)
(* is freed with the last of them and never twice: frames, the object      *)
(* store, the environments inside it and the scopes of the compiler        *)
(* (OP_RET, OP_LEAVE, setOuter, the end of run).                           *)
Holders(e) ==
  /\ envs[e].refs >= 0
  /\ envs[e].refs = (IF e <= Len(blueprints) THEN 1 ELSE 0)
                    + Cardinality({i \in DOMAIN frames : frames[i].env = e /\ e # 1})
                    + Cardinality({i \in DOMAIN FlattenSeq(store) : FlattenSeq(store)[i] = e})
                    + Cardinality({x \in DOMAIN envs : envs[x].refs > 0 /\ envs[x].outer = e})

EachHolderCounts == \A e \in DOMAIN envs : Holders(e)
=============================================================================
