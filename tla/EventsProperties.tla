--------------------------- MODULE EventsProperties ---------------------------
(***************************************************************************)
(* What an Events object promises to the script that uses it.              *)
(***************************************************************************)
EXTENDS Events

\* The type invariant (EventData, events.h:42).
TypeOK ==
  /\ todo \in [User -> Seq(Calls \cup {WaitEnd})]
  /\ mutex \in {Handler, Free}
  /\ queue \in Seq(Signal)
  /\ actions \in [Name -> Seq(Action)]
  /\ state \in [Key -> Val]
  /\ required \in Seq([map : Requisition, action : Action])
  /\ sets \in Seq(Key)
  /\ setArgs \in Seq(Arg)
  /\ handler \in {"asleep", "loop", "run", "ended"}
  /\ current \in Name \cup {"none"}
  /\ runs \in Seq(Run)
  /\ delivered \in Seq(Run)
  /\ joined \in BOOLEAN
  /\ lost \in BOOLEAN
  /\ history \in Seq([name : Name, due : Seq(Run)])

\* What the signals up to the n-th, or up to the first "exit", are due.
Due(n) == FlattenSeq([i \in 1 .. n |-> history[i].due])

Taken == Len(history) - Len(queue)

\* Every signal that has been taken off the queue has led to the functions that
\* were connected to it when it was queued, with its own arguments, each of them
\* once and in the order of the calls of emit and set.
DeliversWhatIsDue ==
  IF handler = "run" THEN IsPrefix(delivered \o runs, Due(Taken))
                     ELSE delivered = Due(Taken)

\* The argument lists of the "set" signals in a queue.
SetArgsIn(q) == FlattenSeq([i \in DOMAIN q |-> IF q[i].name = "set" THEN <<q[i].arg>> ELSE <<>>])

\* The name and the arguments the handler takes from m_sets_queue and
\* m_args_queue belong to the "set" signal it has taken from m_event_queue: the
\* three queues stay in step.
QueuesInStep ==
  /\ Len(sets) = Len(setArgs)
  /\ IF current = "set" THEN setArgs # <<>> /\ SetArgsIn(queue) = Tail(setArgs)
                        ELSE SetArgsIn(queue) = setArgs

\* The functions run for a "set" signal are those whose requisition that very
\* call of set fulfilled, with the arguments of that call, as the three sets of
\* tests/std.events/events_002.test:25-27 run foo1 with 1 2, foo2 with 3 4 and
\* foo3 with 5 6 (events.cc:43-97).
SetRunsItsOwn ==
  [][ TakeSet /\ ~lost' => delivered \o runs' = Due(Taken) ]_vars

\* finalize() comes back only when everything queued before its "exit" has run,
\* and the handler holds no lock any more.
FinalizeCompletes ==
  [][ \A u \in User : DoWait(u) /\ ~lost' =>
        /\ \E i \in 1 .. Taken : history[i].name = "exit" /\ delivered = Due(i)
        /\ mutex # Handler ]_vars

\* No call of the script executes undefined behaviour.
NothingLost == ~lost

\* Every script thread gets through its calls: nobody waits forever for the
\* mutex, and finalize comes back.
EveryCallReturns == \A u \in User : []<>(todo[u] = <<>>)

(***************************************************************************)
(* The rules a script keeps to get all this.                               *)
(***************************************************************************)
\* "set" is for the object to emit.
NeverEmitsSet == \A c \in Calls : c.call = "emit" => c.name # "set"

\* Calls that belong in one script.  A thread it starts only uses the object.
\* All calls of set give a key the same value, and a requisition that has the
\* key a call of set is filed under has no key that call does not set.
KeepsRules(D) ==
  /\ D \subseteq Calls
  /\ \A c \in D : c.call = "start" =>
       /\ c.script \in Seq(D)
       /\ \A i \in DOMAIN c.script : c.script[i].call \in {"emit", "set", "start", "join"}
  /\ \A c \in D : c.call = "set" =>
       /\ DOMAIN c.map # {}
       /\ \A d \in D : d.call = "set" => \A k \in DOMAIN c.map \cap DOMAIN d.map : c.map[k] = d.map[k]
       /\ \A d \in D : d.call = "require" /\ FirstKey(c.map) \in DOMAIN d.map =>
            DOMAIN d.map \subseteq DOMAIN c.map

Connecting == {"connect", "require"}

\* A script connects everything first, waits for the handler once, and does
\* not touch the object once it is dropped.
InOrder(s) ==
  \A i, j \in DOMAIN s : i < j =>
    /\ s[j].call \in Connecting => s[i].call \in Connecting
    /\ s[j].call \in {"finalize", "wait"} => s[i].call \notin {"finalize", "wait", "drop"}
    /\ s[j].call = "drop" => s[i].call # "drop"

\* The main script is such a script.
StartsWith(D) == todo[Main] \in Seq(D) /\ InOrder(todo[Main])

(***************************************************************************)
(* The abstract object: runs that are due, and how many of them are done.  *)
(***************************************************************************)
BeforeExit ==
  LET e == SelectInSeq(history, LAMBDA s : s.name = "exit")
  IN Due(IF e = 0 THEN Len(history) ELSE e)

Abstract == INSTANCE Delivery WITH due <- BeforeExit, done <- delivered

\* An Events object is a mailbox: it runs what is due, in order, once, and all
\* of it in the end.
IsMailbox      == Abstract!Spec
DeliversAll    == Abstract!AllDone
===============================================================================
