---------------------------------- MODULE IR ----------------------------------
(***************************************************************************)
(* The instructions the code generator emits and the virtual machine runs  *)
(* (core/opcode.h, core/ir.h), reduced to what moves control.              *)
(*                                                                         *)
(* Every operand that only carries a value is dropped.  What is kept:      *)
(*   to  the jump address (1-based: address a of the model is m_inst[a-1]),*)
(*   fn  the user function that is called, called back or started,         *)
(*   n   a count or an index: the callbacks a native makes, the index a    *)
(*       catch variable has in its environment, the thread object, or the  *)
(*       label of the expression an EVAL or a RAISE computes.              *)
(*                                                                         *)
(* Opcodes with the same effect on control share one name:                 *)
(*   EVAL    assignments and expression steps that cannot raise            *)
(*   RAISE   operators and native calls that may leave an exception        *)
(*   JMPZ    OP_JMPZ, OP_AND      JMPNZ   OP_JMPNZ, OP_OR                   *)
(*   CALL    OP_FCALL, OP_MCALL, OP_SMCALL, OP_NEW of a user function      *)
(*   NATIVE  a native that calls a user function back n times through      *)
(*           VM::runFunction (Array.each, a comparator of Set, ...)        *)
(*   SPAWN, JOIN  Thread.start and Thread.wait of std.concurrent           *)
(***************************************************************************)
EXTENDS Naturals, Sequences

CONSTANTS
  Func,     \* the user functions of a script
  Global    \* the owner of top-level code: the NULL Function* of m_global_env

Owner == Func \cup {Global}

Opcode == { "EVAL", "RAISE", "JMP", "JMPZ", "JMPNZ", "SEND", "CALL", "RET",
            "LEAVE", "NATIVE", "TRY", "CATCH", "THROW", "ETRY", "LOCK", "UNLOCK",
            "SPAWN", "JOIN", "HALT" }

Instr == [op : Opcode, to : Nat, fn : Owner, n : Nat]

Plain(op)        == [op |-> op, to |-> 0, fn |-> Global, n |-> 0]
JumpTo(op, a)    == [op |-> op, to |-> a, fn |-> Global, n |-> 0]
Compute(op, k)   == [op |-> op, to |-> 0, fn |-> Global, n |-> k]
CatchInto(v)     == [op |-> "CATCH", to |-> 0, fn |-> Global, n |-> v]
Invoke(op, f, k) == [op |-> op, to |-> 0, fn |-> f, n |-> k]

(***************************************************************************)
(* A compiled script.  `owner' says whose body an address belongs to,      *)
(* `params' how many arguments a function takes, `vals' how many values    *)
(* the environment of an owner holds, and `crit' is the set of addresses   *)
(* that run between an OP_LOCK and its OP_UNLOCK in the same body.         *)
(***************************************************************************)
Program == [ code   : Seq(Instr),
             owner  : Seq(Owner),
             entry  : [Func -> Nat],
             params : [Func -> Nat],
             vals   : [Owner -> Nat],
             crit   : SUBSET Nat ]

Addr(p) == 1 .. Len(p.code)

Jumps     == {"JMP", "JMPZ", "JMPNZ"}
NoReturn  == {"JMP", "RET", "LEAVE", "THROW", "HALT"}
Invoking  == {"CALL", "NATIVE", "SPAWN"}

\* The last instruction is the OP_HALT that Compiler::genCode pushes, and
\* everything else that is not a jump is followed by code of the same body.
FallsThroughInside(p) ==
  /\ Len(p.code) > 0
  /\ p.code[Len(p.code)].op = "HALT"
  /\ \A a \in Addr(p) :
       p.code[a].op \notin NoReturn => /\ a + 1 \in Addr(p)
                                       /\ p.owner[a + 1] = p.owner[a]

JumpsStayInside(p) ==
  \A a \in Addr(p) : p.code[a].op \in Jumps \cup {"TRY"} =>
     /\ p.code[a].to \in Addr(p)
     /\ p.owner[p.code[a].to] = p.owner[a]

TryLeadsToCatch(p) ==
  \A a \in Addr(p) : p.code[a].op = "TRY" => p.code[p.code[a].to].op = "CATCH"

CallsEnterBodies(p) ==
  /\ \A f \in Func : p.entry[f] \in Addr(p) /\ p.owner[p.entry[f]] = f
  /\ \A a \in Addr(p) : p.code[a].op \in Invoking => p.code[a].fn \in Func

\* Critical code is entered by OP_LOCK alone and every OP_UNLOCK is inside;
\* no function body, catch block or end of script lies in critical code.
CriticalIsBracketed(p) ==
  /\ \A a \in Addr(p) \ p.crit :
       /\ p.code[a].op # "UNLOCK"
       /\ p.code[a].op \in Jumps => p.code[a].to \notin p.crit
       /\ p.code[a].op \notin NoReturn \cup {"LOCK"} => a + 1 \notin p.crit
  /\ \A a \in Addr(p) : p.code[a].op = "UNLOCK" => a + 1 \notin p.crit
  /\ \A a \in Addr(p) : p.code[a].op = "TRY" => p.code[a].to \notin p.crit
  /\ \A f \in Func : p.entry[f] \notin p.crit
  /\ 1 \notin p.crit
  /\ Len(p.code) \notin p.crit

WellFormed(p) ==
  /\ p \in Program
  /\ Len(p.owner) = Len(p.code)
  /\ FallsThroughInside(p)
  /\ JumpsStayInside(p)
  /\ TryLeadsToCatch(p)
  /\ CallsEnterBodies(p)
  /\ CriticalIsBracketed(p)
===============================================================================
