---------------------------- MODULE ArgumentsProofs ----------------------------
(***************************************************************************)
(* What a native may rely on once check_args has let its arguments through,*)
(* for any number of arguments and any specification.                      *)
(***************************************************************************)
EXTENDS Arguments, FiniteSetTheorems, TLAPS

Letters == STRING

LEMMA NoBarsBefore ==
  ASSUME NEW spec, NEW k \in Nat, \A j \in 1 .. k - 1 : spec[j] # "|"
  PROVE  Place(spec, k) = k
<1>1. {j \in 1 .. k - 1 : spec[j] = "|"} = {}
  OBVIOUS
<1> QED BY <1>1, FS_EmptySet DEF Place

\* A letter in front of every mark is an argument that is there, at the same
\* place, with the type the letter asks for (core/clever.cc:200-353): natives
\* take such arguments by position and cast them unseen.
THEOREM RequiredArgumentsFit ==
  ASSUME NEW args \in Seq(Types), NEW spec \in Seq(Letters), spec # Void,
         CheckArgs(args, spec),
         NEW k \in 1 .. Len(spec), \A j \in 1 .. k : spec[j] \notin Marks
  PROVE  k <= Len(args) /\ args[k] \in Accepts(spec[k])
<1>1. Counts(args, spec) /\ (Looks(spec, k) /\ Place(spec, k) <= Len(args)
                               => args[Place(spec, k)] \in Accepts(spec[k]))
  BY DEF CheckArgs
<1>2. Place(spec, k) = k
  BY NoBarsBefore DEF Marks
<1>3. Looks(spec, k)
  BY DEF Looks, Marks
<1>4. k <= Len(args)
  <2>1. CASE Len(spec) = Len(args)
    BY <2>1
  <2>2. CASE Len(spec) # Len(args)
    <3>1. PICK m \in 1 .. Len(spec) : spec[m] \in Marks /\ m - 1 <= Len(args)
      BY <1>1, <2>2 DEF Counts
    <3>2. m > k
      BY <3>1
    <3> QED BY <3>1, <3>2
  <2> QED BY <2>1, <2>2
<1> QED BY <1>1, <1>2, <1>3, <1>4

===============================================================================
