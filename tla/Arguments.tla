------------------------------ MODULE Arguments ------------------------------
(***************************************************************************)
(* check_args (core/clever.cc:200): whether the values of a call fit what a*)
(* native asks for.  A specification is a sequence of letters; a value is  *)
(* seen by its type only, which for null is no type at all.                *)
(***************************************************************************)
EXTENDS Integers, Sequences, FiniteSets

Types == {"Null", "Bool", "Int", "Double", "String", "Array", "Map", "Function",
          "Self", "Mutex", "Object"}
NotNull == Types \ {"Null"}

Void == <<"void">>       \* the specification NULL: no argument is taken
Free == <<"*">>          \* no check is made

\* The types that a letter lets through; `c' is the type of the receiver.
Accepts(letter) ==
  CASE letter = "f" -> {"Function"}
    [] letter = "s" -> {"String"}
    [] letter = "i" -> {"Int"}
    [] letter = "d" -> {"Double"}
    [] letter = "a" -> {"Array"}
    [] letter = "m" -> {"Map"}
    [] letter = "b" -> {"Bool"}
    [] letter = "n" -> {"Int", "Double"}
    [] letter = "c" -> {"Self"}
    [] letter = "." -> NotNull
    [] OTHER        -> Types

Marks == {"*", "|"}

\* Fault: `|' counts as an argument, what follows it is compared one too far.
MutantPlace(spec, k) == k

\* The argument that letter k is about: `|' takes none.
Place(spec, k) == k - Cardinality({j \in 1 .. k - 1 : spec[j] = "|"})
\* Letters behind a `*' are not looked at.
Looks(spec, k) == spec[k] \notin Marks /\ \A j \in 1 .. k - 1 : spec[j] # "*"

\* Enough arguments, and not too many where the specification has no mark.
Counts(args, spec) ==
  Len(spec) # Len(args) => \E k \in DOMAIN spec : spec[k] \in Marks /\ k - 1 <= Len(args)

CheckArgs(args, spec) ==
  IF spec = Void THEN args = <<>>
  ELSE /\ Counts(args, spec)
       /\ \A k \in DOMAIN spec :
            Looks(spec, k) /\ Place(spec, k) <= Len(args) => args[Place(spec, k)] \in Accepts(spec[k])

=============================================================================
