------------------------------ MODULE Scopes ------------------------------
(***************************************************************************)
(* Names (resolver.cc, scope.cc, modmanager.cc): the Resolver walks the    *)
(* tree of a script, opens scopes, enters declarations in their symbol     *)
(* tables and in the environment of the function around them, and gives    *)
(* every identifier a symbol and a ValueOffset: how many environments to   *)
(* go out, and which slot to take there.                                   *)
(*                                                                         *)
(* The tree is the sequence of its nodes in the order they are visited;    *)
(* "end" closes the innermost node that is open.  Names are pairs of a     *)
(* namespace ("" for none) and a word.                                     *)
(***************************************************************************)
EXTENDS Integers, SequencesExt

CONSTANTS Programs,   \* the scripts, each a sequence of nodes
          ModuleNames, \* the names each native module defines
          SubModules   \* the modules inside each

VARIABLES program, at,  \* the script and the node being visited
          scopes, here, \* every Scope and m_scope
          blueprints,   \* the environments made while resolving
          stack,        \* m_stack, the environments of the open functions
          klass,        \* m_class, 0 for NULL
          static,       \* m_func is a static method
          functions,    \* the functions and classes declared
          members,      \* the members of the classes
          loaded,       \* the modules that are loaded
          open,         \* the nodes that are open
          uses,         \* what each identifier was resolved to
          phase         \* "resolving", "failed" (error), "crashed" or "running"

resolverVars == <<program, at, scopes, here, blueprints, stack, klass, static,
                  functions, members, loaded, open, uses, phase>>

Openers == {"block", "catch", "foreach", "function", "class"}

(* A script is a tree: every "end" has a node to close.                    *)
Opened(p, i) == Cardinality({j \in 1 .. i : p[j].op \in Openers})
Closed(p, i) == Cardinality({j \in 1 .. i : p[j].op = "end"})

ASSUME ProgramsAssumption ==
  \A p \in Programs : Len(p) \in Nat /\ \A i \in 1 .. Len(p) : Closed(p, i) <= Opened(p, i)

Plain(word) == <<"", word>>
This == Plain("this")
Anonymous(n) == <<"anonymous", ToString(n)>>

Node == program[at]
Visiting(op) == phase = "resolving" /\ at <= Len(program) /\ Node.op = op

(* A Scope, and the symbol its table gives for a name.                     *)
NewScope(parent, env) == [parent |-> parent, env |-> env, symbols |-> <<>>, table |-> <<>>]

NoSymbol == [name |-> Plain(""), slot |-> 0, node |-> 0]

GetLocal(s, name) ==
  LET table == scopes[s].table
  IN IF \E i \in DOMAIN table : table[i][1] = name
     THEN scopes[s].symbols[(CHOOSE e \in Range(table) : e[1] = name)[2]]
     ELSE NoSymbol

Parents(s) == LET up[k \in 0..Len(scopes)] == IF k = 0 THEN <<>> ELSE <<k>> \o up[scopes[k].parent]
              IN up[s]

GetAny(s, name) ==
  LET found == SelectSeq(Parents(s), LAMBDA k : GetLocal(k, name) # NoSymbol)
  IN IF found = <<>> THEN NoSymbol ELSE GetLocal(found[1], name)

MutantOffset(s, symbol) ==
  LET way == Parents(s)
      owner == CHOOSE k \in 1..Len(way) : symbol \in Range(scopes[way[k]].symbols)
  IN <<owner - 1, symbol.slot>>

(* How far out a symbol is: one for each change of environment on the way. *)
GetOffset(s, symbol) ==
  LET way == Parents(s)
      owner == CHOOSE k \in 1..Len(way) : /\ symbol \in Range(scopes[way[k]].symbols)
                                          /\ \A j \in 1..(k - 1) : symbol \notin Range(scopes[way[j]].symbols)
  IN <<Cardinality({k \in 2..owner : scopes[way[k]].env # scopes[way[k - 1]].env}), symbol.slot>>

(* pushValue: the table keeps the first entry of a name, with the number   *)
(* of names it holds as the index, while every symbol takes a place.       *)
PushAll(list, s, names) ==
  FoldLeft(LAMBDA acc, name :
      LET sc == acc.list[s]
          slot == Len(acc.data) + 1
      IN [list |-> [acc.list EXCEPT ![s].symbols = Append(@, [name |-> name, slot |-> slot, node |-> at]),
                                    ![s].table = IF \E e \in Range(sc.table) : e[1] = name THEN @
                                                 ELSE Append(@, <<name, Len(sc.table) + 1>>)],
          data |-> Append(acc.data, at)],
    [list |-> list, data |-> blueprints[list[s].env].data], names)

PushValues(s, names) ==
  \E pushed \in {PushAll(scopes, s, names)} :
    /\ scopes' = pushed.list
    /\ blueprints' = [blueprints EXCEPT ![scopes[s].env].data = pushed.data]

(* Compiler::errorf ends the program.                                      *)
Fails == /\ phase' = "failed"
         /\ UNCHANGED <<program, at, scopes, here, blueprints, stack, klass, static, functions,
                        members, loaded, open, uses>>

Passes == at' = at + 1 /\ UNCHANGED <<program, phase>>

(* A block, or a `for' with an initializer: a scope over the environment   *)
(* of the function it is in.                                               *)
EnterBlock ==
  /\ Visiting("block")
  /\ scopes' = Append(scopes, NewScope(here, stack[1]))
  /\ here' = Len(scopes) + 1
  /\ open' = <<at>> \o open
  /\ Passes
  /\ UNCHANGED <<blueprints, stack, klass, static, functions, members, loaded, uses>>

(* `catch': one scope for its variable and for what its block declares.    *)
EnterCatch ==
  /\ Visiting("catch")
  /\ \E pushed \in {PushAll(Append(scopes, NewScope(here, stack[1])), Len(scopes) + 1, <<Node.name>>)} :
       /\ scopes' = pushed.list
       /\ blueprints' = [blueprints EXCEPT ![stack[1]].data = pushed.data]
  /\ here' = Len(scopes) + 1
  /\ open' = <<at>> \o open
  /\ Passes
  /\ UNCHANGED <<stack, klass, static, functions, members, loaded, uses>>

(* `for (x in ...)': a scope for x, and one more for the block.            *)
EnterForEach ==
  /\ Visiting("foreach")
  /\ \E pushed \in {PushAll(Append(scopes, NewScope(here, stack[1])), Len(scopes) + 1, <<Node.name>>)} :
       /\ scopes' = Append(pushed.list, NewScope(Len(scopes) + 1, stack[1]))
       /\ blueprints' = [blueprints EXCEPT ![stack[1]].data = pushed.data]
  /\ here' = Len(scopes) + 2
  /\ open' = <<at>> \o open
  /\ Passes
  /\ UNCHANGED <<stack, klass, static, functions, members, loaded, uses>>

(* A variable is declared before its initializer is visited.               *)
Declare ==
  /\ Visiting("var")
  /\ IF GetLocal(here, Node.name) # NoSymbol THEN Fails
     ELSE /\ PushValues(here, <<Node.name>>)
          /\ Passes
          /\ UNCHANGED <<here, stack, klass, static, functions, members, loaded, open, uses>>

(* A function: a value in the scope around it, or a member of the class    *)
(* being defined; its scope has an environment of its own, whose outer one *)
(* is that of the function around it.  Its arguments are declared there as *)
(* variables are, no two of one name.  Its block is one more scope.        *)
Function(isMember) ==
  LET name == IF Node.anonymous THEN Anonymous(at) ELSE Node.name
      env == Len(blueprints) + 1
      own == Len(scopes) + 1
      clash == IF isMember THEN <<klass, name>> \in members ELSE FALSE
  IN IF GetLocal(here, name) # NoSymbol \/ clash \/ ~IsInjective(Node.args) THEN Fails
     ELSE \E outside \in {IF isMember THEN [list |-> scopes, data |-> blueprints[scopes[here].env].data]
                          ELSE PushAll(scopes, here, <<name>>)} :
       /\ scopes' = Append(
            Append(outside.list, [NewScope(here, env) EXCEPT
              !.symbols = [i \in DOMAIN Node.args |-> [name |-> Node.args[i], slot |-> i, node |-> at]],
              !.table = [i \in DOMAIN Node.args |-> <<Node.args[i], i>>]]),
            NewScope(own, env))
       /\ blueprints' = Append([blueprints EXCEPT ![scopes[here].env].data = outside.data],
                               [outer |-> stack[1], data |-> [i \in DOMAIN Node.args |-> at]])
       /\ here' = own + 1
       /\ stack' = <<env>> \o stack
       /\ static' = (isMember /\ Node.static)
       /\ functions' = functions \cup
            {[env |-> env, parent |-> stack[1], name |-> name, class |-> IF isMember THEN klass ELSE 0,
              kind |-> IF Node.anonymous THEN "anonymous" ELSE IF isMember /\ Node.static THEN "static" ELSE "function"]}
       /\ members' = IF isMember THEN members \cup {<<klass, name>>} ELSE members
       /\ open' = <<at>> \o open
       /\ Passes
       /\ UNCHANGED <<klass, loaded, uses>>

EnterFunction == Visiting("function") /\ Function(klass # 0 /\ ~Node.anonymous)

(* A class: its name is entered unchecked, `this' is the first slot of the *)
(* environment of its instances.                                           *)
EnterClass ==
  /\ Visiting("class")
  /\ \E outside \in {PushAll(scopes, here, <<Node.name>>)}, env \in {Len(blueprints) + 1} :
       /\ scopes' = Append(outside.list, [NewScope(here, env) EXCEPT
            !.symbols = <<[name |-> This, slot |-> 1, node |-> at]>>, !.table = <<<<This, 1>>>>])
       /\ blueprints' = Append([blueprints EXCEPT ![scopes[here].env].data = outside.data],
                               [outer |-> stack[1], data |-> <<at>>])
       /\ stack' = <<env>> \o stack
       /\ klass' = env
       /\ functions' = functions \cup {[env |-> env, parent |-> stack[1], name |-> Node.name,
                                        class |-> env, kind |-> "class"]}
  /\ here' = Len(scopes) + 1
  /\ open' = <<at>> \o open
  /\ Passes
  /\ UNCHANGED <<static, members, loaded, uses>>

(* An attribute is a member of m_class, which is NULL after an inner class.*)
Attribute ==
  /\ Visiting("attribute")
  /\ IF klass = 0 THEN phase' = "crashed"
                       /\ UNCHANGED <<program, at, scopes, here, blueprints, stack, klass, static,
                                      functions, members, loaded, open, uses>>
     ELSE IF <<klass, Node.name>> \in members THEN Fails
     ELSE /\ members' = members \cup {<<klass, Node.name>>}
          /\ Passes
          /\ UNCHANGED <<scopes, here, blueprints, stack, klass, static, functions, loaded, open, uses>>

(* The end of a node: the scopes it opened are left, m_func and m_class    *)
(* become NULL whatever they were before it.                               *)
Close ==
  /\ Visiting("end")
  /\ LET op == program[open[1]].op
         grand == scopes[scopes[here].parent].parent
     IN /\ here' = IF op \in {"function", "foreach"} THEN grand ELSE scopes[here].parent
        /\ stack' = IF op \in {"function", "class"} THEN Tail(stack) ELSE stack
        /\ static' = IF op = "function" THEN FALSE ELSE static
        /\ klass' = IF op = "class" THEN 0 ELSE klass
  /\ open' = Tail(open)
  /\ Passes
  /\ UNCHANGED <<scopes, blueprints, functions, members, loaded, uses>>

(* Ident and Type: the symbol and its offset, or the end of the program.   *)
Use ==
  /\ Visiting("use")
  /\ \E symbol \in {GetAny(here, Node.name)} :
       IF symbol = NoSymbol \/ (static /\ Node.name = This) THEN Fails
       ELSE /\ uses' = uses \cup {[node |-> at, symbol |-> symbol, env |-> stack[1], offset |-> GetOffset(here, symbol)]}
            /\ Passes
            /\ UNCHANGED <<scopes, here, blueprints, stack, klass, static, functions, members, loaded, open>>

(* `import m.*', `import m.name', and both with a namespace: the names of  *)
(* a native module go to the scope of the import, those of the modules     *)
(* inside it with a prefix, but only the first time a module is reached,   *)
(* whatever was taken of it then.                                          *)
Contents(m, prefix) == [i \in DOMAIN ModuleNames[m] |-> <<prefix, ModuleNames[m][i]>>]

NewInside == SelectSeq(SubModules[Node.module], LAMBDA m : m \notin loaded)

Own == IF Node.module \in loaded THEN <<>>
       ELSE IF Node.word # "" THEN SelectSeq(Contents(Node.module, ""), LAMBDA n : n[2] = Node.word)
       ELSE Contents(Node.module, IF Node.namespaced THEN Node.module ELSE "")

Prefix(n, m) == IF n.namespaced THEN n.module \o ":" \o m ELSE m

Import ==
  /\ Visiting("import")
  /\ PushValues(here, FlattenSeq([k \in DOMAIN NewInside |-> Contents(NewInside[k], Prefix(Node, NewInside[k]))]) \o Own)
  /\ loaded' = loaded \cup {Node.module} \cup Range(SubModules[Node.module])
  /\ Passes
  /\ UNCHANGED <<here, stack, klass, static, functions, members, open, uses>>

(* The script is resolved and compiled.                                    *)
Resolved ==
  /\ phase = "resolving" /\ at > Len(program)
  /\ phase' = "running"
  /\ UNCHANGED <<program, at, scopes, here, blueprints, stack, klass, static, functions, members,
                 loaded, open, uses>>

(* initGlobalScope.                                                        *)
ResolverInit ==
  /\ program \in Programs
  /\ at = 1 /\ here = 1 /\ klass = 0 /\ static = FALSE /\ open = <<>> /\ phase = "resolving"
  /\ scopes = <<[parent |-> 0, env |-> 1, symbols |-> <<>>, table |-> <<>>]>>
  /\ blueprints = <<[outer |-> 0, data |-> <<>>]>>
  /\ stack = <<1>>
  /\ functions = {} /\ members = {} /\ loaded = {} /\ uses = {}

Visit ==
  \/ EnterBlock \/ EnterCatch \/ EnterForEach \/ Declare \/ EnterFunction \/ EnterClass \/ Attribute
  \/ Close \/ Use \/ Import
=============================================================================
