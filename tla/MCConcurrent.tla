------------------------------ MODULE MCConcurrent ------------------------------
(***************************************************************************)
(* Scripts that use the objects of std.concurrent.                         *)
(***************************************************************************)
EXTENDS Concurrent

Objects3 == 1 .. 3
Entries  == {1, 2}

On(o)    == {Call(op, o) : op \in {"start", "wait", "result", "drop"}}
Plain(O) == {Call(op, None) : op \in O}
Only(c)  == {c}
Do(op)   == {Call(op, None)}
Skippable(C) == C \cup Do("skip")

Sound(O, m, t) == [objects |-> O, main |-> m, thread |-> t, sound |-> TRUE]
Free(O, m, t)  == [objects |-> O, main |-> m, thread |-> t, sound |-> FALSE]

\* Any calls on two objects, in any order, and threads that use the second one
\* or fail.  Then calls on two objects that were started, by the main thread and
\* by the two threads, which may use their own object too.  Object 3 was given
\* no function.
AnyCall == Skippable(On(1) \cup On(2))
AnyUse  == Skippable({Call(op, o) : op \in {"wait", "result", "drop"}, o \in {1, 2}})

FreeScripts ==
  { Free({3}, <<{Call("start", 3)}, Skippable({Call("wait", 3), Call("drop", 3)})>>, <<>>),
    Free({1, 2}, <<On(1), AnyCall, AnyCall, AnyCall>>,
         <<Skippable({Call("start", 2), Call("wait", 2), Call("result", 2)} \cup Do("fail"))>>),
    Free({1, 2}, <<{Call("start", 1)}, {Call("start", 2)}, AnyUse, AnyUse>>, <<AnyUse>>) }

\* Any calls on the locks by three threads.
Locks == Plain({"lock", "trylock", "unlock", "cwait", "signal", "nextID", "skip"})

FreeLocks ==
  { Free({1, 2}, <<{Call("start", 1)}, {Call("start", 2)}, Locks, Do("nextID"),
           Skippable({Call("setID", v) : v \in {0, 2}}), {Call("wait", 1)}, {Call("wait", 2)}>>,
         <<Do("nextID"), Locks>>) }

\* The handshake of tests/std.concurrent/condition_001.test, two threads that
\* wait for the same one, turns of a Sync object, an object dropped after its
\* thread was started.
SoundScripts ==
  { Sound({1}, <<Do("lock"), {Call("start", 1)}, Do("cwait"), Do("unlock"), {Call("wait", 1)}>>,
          <<Do("lock"), Plain({"broadcast", "signal"}), Do("unlock")>>),
    Sound({1, 2}, <<{Call("start", 2)}, {Call("start", 1)}, Skippable({Call("wait", 2)}), {Call("wait", 1)},
            {Call("wait", 2)}, Skippable({Call("result", 2), Call("drop", 2)})>>,
          <<Do("nextID")>>),
    Sound({1, 2}, <<{Call("start", 1)}, {Call("start", 2)}, Do("lock"), Do("nextID"), Do("unlock"),
            {Call("wait", 1), Call("drop", 1)}, {Call("wait", 2)}>>,
          <<Do("lock"), Do("nextID"), Do("unlock")>>) }

AllScripts == FreeScripts \cup FreeLocks \cup SoundScripts
===============================================================================
