------------------------------ MODULE Discipline ------------------------------
(***************************************************************************)
(* When the virtual machine can run a script without failing: the check a  *)
(* bytecode verifier would make.  The code has none; its code generator is *)
(* meant to emit nothing else, and for scripts on the sound side of        *)
(* section 3.1 of the README it does.                                      *)
(*                                                                         *)
(* The check knows, for every address, which states an activation may be   *)
(* in when it comes there: the handlers it has put on the try stack itself *)
(* and the number of arguments it has sent.                                *)
(***************************************************************************)
EXTENDS VM

HandlersOf(p) == [to : Addr(p), state : {1, 2}]
StatesOf(p)   == [tries : Seq(HandlersOf(p)), args : Nat]

Pending(h, k) == [tries |-> h, args |-> k]
Clean         == Pending(<<>>, 0)

\* The handlers that are left when an exception is thrown; see ThrowException.
Live(h) == IF h # <<>> /\ Last(h).state > 1 THEN Front(h) ELSE h

Throwing == {"THROW", "RAISE"}

\* What the next instruction finds when instruction i falls through.
Fallen(i, s) ==
  CASE i.op = "SEND"  -> Pending(s.tries, s.args + 1)
    [] i.op \in {"CALL", "NATIVE", "SPAWN", "JOIN", "RAISE"} -> Pending(s.tries, 0)
    [] i.op = "TRY"   -> Pending(Append(s.tries, Handler(i.to, 1)), s.args)
    [] i.op = "CATCH" -> Pending(Append(Front(s.tries), Handler(Last(s.tries).to, 2)), s.args)
    [] i.op = "ETRY"  -> Pending(Front(s.tries), s.args)
    [] OTHER -> s

\* Where an activation in state s at address a can be next, and in which state.
After(p, a, s) ==
  LET i == p.code[a] IN
  (IF i.op \in NoReturn THEN {} ELSE {<<a + 1, Fallen(i, s)>>})
  \cup (IF i.op \in Jumps THEN {<<i.to, s>>} ELSE {})
  \cup (IF i.op \in Throwing
        THEN {<<Last(Live(s.tries)).to, Pending(Live(s.tries), 0)>>} ELSE {})

\* What must hold of state s for the instruction at a: no handler of another
\* body, none left at the end of a body, the right number of arguments, and for
\* an exception a handler of this body whose variable the environment holds.
Allows(p, a, s) ==
  LET i == p.code[a] IN
  /\ \A k \in DOMAIN s.tries : p.owner[s.tries[k].to] = p.owner[a]
  /\ i.op \in {"CATCH", "ETRY"} => s.tries # <<>>
  /\ i.op = "CALL" => s.args = p.params[i.fn]
  /\ i.op \in {"RET", "LEAVE", "HALT"} => s = Clean
  /\ i.op = "LEAVE" => p.owner[a] # Global
  /\ i.op = "HALT" => p.owner[a] = Global
  /\ i.op = "THROW" => s.args = 0
  /\ i.op \in Throwing =>
       /\ Live(s.tries) # <<>>
       /\ p.code[Last(Live(s.tries)).to].n < p.vals[p.owner[a]]

\* w[a] holds every state in which an activation can come to address a.
Checked(p, w) ==
  /\ p.owner[1] = Global
  /\ Clean \in w[1]
  /\ \A f \in Func : Clean \in w[p.entry[f]]
  /\ \A a \in Addr(p) : \A s \in w[a] :
       /\ Allows(p, a, s)
       /\ \A x \in After(p, a, s) : x[2] \in w[x[1]]

Disciplined(p) == \E w \in [Addr(p) -> SUBSET StatesOf(p)] : Checked(p, w)

\* The loops of the top-level code are outside its try statements.
TestsAreClean(p, w) ==
  \A a \in Addr(p) : p.code[a].op = "JMPNZ" /\ p.owner[a] = Global => w[a] \subseteq {Clean}

LoopsOutside(p) ==
  \E w \in [Addr(p) -> SUBSET StatesOf(p)] : Checked(p, w) /\ TestsAreClean(p, w)

\* A critical block is left through its OP_UNLOCK only, and nothing in it
\* raises, calls back or waits for the mutex that is held.
KeepsCritical(p) ==
  \A a \in Addr(p) :
    /\ p.code[a].op = "LOCK" => a + 1 \in p.crit
    /\ a \in p.crit =>
         /\ p.code[a].op \notin {"RET", "LEAVE", "THROW", "RAISE", "NATIVE", "HALT"}
         /\ p.code[a].op \in Jumps => p.code[a].to \in p.crit
         /\ p.code[a].op \notin NoReturn \cup {"UNLOCK"} => a + 1 \in p.crit
===============================================================================
