-------------------------------- MODULE Events --------------------------------
(***************************************************************************)
(* One object of std.events (modules/std/events/events.cc), the script     *)
(* threads that use it and its handler thread.                             *)
(*                                                                         *)
(* A script thread is the sequence of calls it makes.  A call that holds   *)
(* the object's mutex from its first to its last access is one step; what  *)
(* the handler does under the mutex is split at every function it runs,    *)
(* since connect takes no lock and may come in between.                    *)
(*                                                                         *)
(* An argument list is one value; a function that is run is a step that    *)
(* records it.  Functions that call the object back, and functions that    *)
(* end the process, are left out.                                          *)
(***************************************************************************)
EXTENDS Naturals, SequencesExt

CONSTANTS
  User,      \* script threads
  Main,      \* the one of them that runs the script
  Event,     \* names of events
  Action,    \* functions of the script
  Arg,       \* argument lists
  NoArgs,    \* the empty one
  Key,       \* keys of requisitions: numbers, ordered like the strings they stand for
  Val,       \* their values
  Calls,     \* the calls scripts make
  Scripts    \* the sequences of them Main makes

ASSUME MainAssumption == Main \in User
ASSUME EventAssumption == {"exit", "set", "none"} \cap Event = {}
ASSUME ArgAssumption  == NoArgs \in Arg
ASSUME KeyAssumption  == Key \subseteq Nat /\ 0 \in Val

\* Names the object uses itself, and the ones scripts make up.
Name == Event \cup {"exit", "set"}

\* A requisition: a map with integer values.
Requisition == UNION {[ks -> Val] : ks \in SUBSET Key}

\* What the methods of std.events ask of their arguments.
WellTyped(c) ==
  /\ c.call \in {"connect", "require", "emit", "set", "wait", "finalize", "drop",
                 "start", "join"}
  /\ c.call \in {"connect", "emit"} => c.name \in Name
  /\ c.call \in {"require", "set"} => c.map \in Requisition
  /\ c.call \in {"connect", "require"} => c.action \in Action
  /\ c.call \in {"emit", "set"} => c.arg \in Arg
  /\ c.call = "start" => c.user \in User \ {Main} /\ c.script \in Seq(Calls)
  /\ c.call = "join" => c.user \in User

ASSUME CallAssumption == \A c \in Calls : WellTyped(c)
ASSUME ScriptAssumption == Scripts \subseteq Seq(Calls)

VARIABLES
  todo,       \* the calls each script thread has still to make
  mutex,      \* who holds intern->mutex
  queue,      \* m_event_queue
  actions,    \* m_event_map: the functions connected to each name
  state,      \* m_requisitions; operator[] reads 0 where nothing was set
  required,   \* m_requisition_map: <<requisition, function>> as connected
  sets,       \* m_sets_queue
  setArgs,    \* m_args_queue
  handler,    \* where the handler thread is
  current,    \* the name of the signal it has taken
  runs,       \* the functions it is about to run
  joined,     \* the handler has been waited for: ~m_is_running
  lost,       \* undefined behaviour has been executed
  history,    \* ghost: every signal ever queued, with the runs due for it
  delivered   \* ghost: the functions that have been run, with their arguments

vars == <<todo, mutex, queue, actions, state, required, sets, setArgs, handler,
          current, runs, joined, lost, history, delivered>>

Handler == "handler"
Free    == "free"
Signal  == [name : Name, arg : Arg]
Run     == [action : Action, arg : Arg]

(* The calls. *)
Connect(e, a)  == [call |-> "connect", name |-> e, action |-> a]
Require(r, a)  == [call |-> "require", map |-> r, action |-> a]
Emit(e, x)     == [call |-> "emit", name |-> e, arg |-> x]
SetTo(r, x)    == [call |-> "set", map |-> r, arg |-> x]
Finalize       == [call |-> "finalize"]
WaitEnd        == [call |-> "wait"]
Drop           == [call |-> "drop"]      \* the last reference goes: ~EventData
Start(u, s)    == [call |-> "start", user |-> u, script |-> s]
Join(u)        == [call |-> "join", user |-> u]

\* The functions `as' with the argument list x.
RunsOf(as, x) == [i \in DOMAIN as |-> [action |-> as[i], arg |-> x]]

Satisfied(s, r) == \A k \in DOMAIN r : s[k] = r[k]

\* m_requisition_map[k][v] lists every requisition with v under k, in the order
\* connected; of these the ones run have all their keys satisfied by s.
Matches(s, k, r) == k \in DOMAIN r /\ r[k] = s[k] /\ Satisfied(s, r)

Matching(s, k) ==
  FlattenSeq([i \in DOMAIN required |->
                IF Matches(s, k, required[i].map) THEN <<required[i].action>> ELSE <<>>])

\* map.begin()->first.
FirstKey(r) == CHOOSE k \in DOMAIN r : \A l \in DOMAIN r : k <= l

\* m_requisitions after the loop of Events.set.
Merge(s, r) == [k \in Key |-> IF k \in DOMAIN r THEN r[k] ELSE s[k]]

Init ==
  /\ todo \in [User -> Scripts \cup {<<>>}]
  /\ \A u \in User : u # Main <=> todo[u] = <<>>
  /\ mutex = Free
  /\ queue = <<>> /\ sets = <<>> /\ setArgs = <<>>
  /\ actions = [n \in Name |-> <<>>]
  /\ state = [k \in Key |-> 0]
  /\ required = <<>>
  /\ handler = "asleep" /\ current = "none" /\ runs = <<>>
  /\ joined = FALSE /\ lost = FALSE
  /\ history = <<>> /\ delivered = <<>>

-------------------------------------------------------------------------------
(* Calls of the script threads. *)

Makes(u, call) == /\ ~lost
                  /\ todo[u] # <<>>
                  /\ Head(todo[u]).call = call

Calling(u)  == Head(todo[u])
Returns(u)  == todo' = [todo EXCEPT ![u] = Tail(@)]

\* Events.connect takes no lock.  While the handler works on a signal it reads
\* the maps and iterates over the vectors connect changes: a race.
RacesWithHandler == handler = "run" \/ (handler = "loop" /\ queue # <<>>)

DoConnect(u) ==
  /\ Makes(u, "connect")
  /\ actions' = [actions EXCEPT ![Calling(u).name] = Append(@, Calling(u).action)]
  /\ lost' \in {FALSE, RacesWithHandler}
  /\ Returns(u)
  /\ UNCHANGED <<mutex, queue, state, required, sets, setArgs, handler, current, runs,
                 joined, history, delivered>>

DoRequire(u) ==
  /\ Makes(u, "require")
  /\ required' = Append(required, [map |-> Calling(u).map, action |-> Calling(u).action])
  /\ lost' \in {FALSE, RacesWithHandler}
  /\ Returns(u)
  /\ UNCHANGED <<mutex, queue, actions, state, sets, setArgs, handler, current, runs,
                 joined, history, delivered>>

\* m_event_queue.push(s), under the mutex; `due' is what it should lead to.
Enqueue(name, x, due) ==
  /\ mutex = Free
  /\ queue' = Append(queue, [name |-> name, arg |-> x])
  /\ history' = Append(history, [name |-> name, due |-> due])

\* emit that takes the arguments from the first one on: the name is one too.
MutantEmitsName(u) ==
  /\ Makes(u, "emit")
  /\ LET e == Calling(u) IN Enqueue(e.name, e.name, RunsOf(actions[e.name], e.arg))
  /\ Returns(u)
  /\ UNCHANGED <<mutex, actions, state, required, sets, setArgs, handler, current, runs,
                 joined, lost, delivered>>

DoEmit(u) ==
  /\ Makes(u, "emit")
  /\ LET e == Calling(u) IN Enqueue(e.name, e.arg, RunsOf(actions[e.name], e.arg))
  /\ Returns(u)
  /\ UNCHANGED <<mutex, actions, state, required, sets, setArgs, handler, current, runs,
                 joined, lost, delivered>>

\* Events.set; the least key of an empty map does not exist.
DoSet(u) ==
  /\ Makes(u, "set")
  /\ LET r == Calling(u).map
         x == Calling(u).arg
         s == Merge(state, r)
     IN IF DOMAIN r = {}
        THEN /\ mutex = Free
             /\ lost' = TRUE
             /\ UNCHANGED <<state, queue, sets, setArgs, history>>
        ELSE /\ Enqueue("set", x, RunsOf(actions["set"], x) \o RunsOf(Matching(s, FirstKey(r)), x))
             /\ state' = s
             /\ sets' = Append(sets, FirstKey(r))
             /\ setArgs' = Append(setArgs, x)
             /\ UNCHANGED lost
  /\ Returns(u)
  /\ UNCHANGED <<mutex, actions, required, handler, current, runs, joined, delivered>>

\* Events.finalize up to the unlock, and ~EventData while the handler runs: the
\* signal "exit", then handler.wait().  An EventData whose handler has been
\* waited for is deleted without more.
ToWait(u) == todo' = [todo EXCEPT ![u] = <<WaitEnd>> \o Tail(@)]

DoFinalize(u) ==
  /\ \/ Makes(u, "finalize")
     \/ Makes(u, "drop") /\ ~joined
  /\ Enqueue("exit", NoArgs, RunsOf(actions["exit"], NoArgs))
  /\ ToWait(u)
  /\ UNCHANGED <<mutex, actions, state, required, sets, setArgs, handler, current, runs,
                 joined, lost, delivered>>

\* ~EventData that does not ask isRunning().
MutantDropAlwaysWaits(u) ==
  /\ Makes(u, "drop")
  /\ joined
  /\ ToWait(u)
  /\ UNCHANGED <<mutex, queue, actions, state, required, sets, setArgs, handler, current,
                 runs, joined, lost, history, delivered>>

DoDrop(u) ==
  /\ Makes(u, "drop")
  /\ joined
  /\ Returns(u)
  /\ UNCHANGED <<mutex, queue, actions, state, required, sets, setArgs, handler, current,
                 runs, joined, lost, history, delivered>>

\* A wait that does not wait.
MutantWaitReturns(u) ==
  /\ Makes(u, "wait")
  /\ joined' = TRUE
  /\ Returns(u)
  /\ UNCHANGED <<mutex, queue, actions, state, required, sets, setArgs, handler, current,
                 runs, lost, history, delivered>>

\* CThread::wait: pthread_join, which may be called for a thread once.
DoWait(u) ==
  /\ Makes(u, "wait")
  /\ IF joined THEN lost' = TRUE /\ UNCHANGED joined
               ELSE handler = "ended" /\ joined' = TRUE /\ UNCHANGED lost
  /\ Returns(u)
  /\ UNCHANGED <<mutex, queue, actions, state, required, sets, setArgs, handler, current,
                 runs, history, delivered>>

(* Thread.start and Thread.wait of the script threads. *)
DoStart(u) ==
  /\ Makes(u, "start")
  /\ todo' = [todo EXCEPT ![u] = Tail(@), ![Calling(u).user] = Calling(u).script]
  /\ UNCHANGED <<mutex, queue, actions, state, required, sets, setArgs, handler, current,
                 runs, joined, lost, history, delivered>>

DoJoin(u) ==
  /\ Makes(u, "join")
  /\ todo[Calling(u).user] = <<>>
  /\ Returns(u)
  /\ UNCHANGED <<mutex, queue, actions, state, required, sets, setArgs, handler, current,
                 runs, joined, lost, history, delivered>>

Call(u) ==
  \/ DoConnect(u) \/ DoRequire(u) \/ DoEmit(u) \/ DoSet(u)
  \/ DoFinalize(u) \/ DoDrop(u) \/ DoWait(u) \/ DoStart(u) \/ DoJoin(u)

-------------------------------------------------------------------------------
(* The handler thread, _events_handler. *)

At(where) == ~lost /\ handler = where

\* intern->mutex.lock() at the top of the outer loop.
Wake ==
  /\ At("asleep")
  /\ mutex = Free
  /\ mutex' = Handler
  /\ handler' = "loop"
  /\ UNCHANGED <<todo, queue, actions, state, required, sets, setArgs, current, runs,
                 joined, lost, history, delivered>>

\* The handler returns when it finds the queue empty.
MutantRestEnds ==
  /\ At("loop")
  /\ queue = <<>>
  /\ mutex' = Free
  /\ handler' = "ended"
  /\ UNCHANGED <<todo, queue, actions, state, required, sets, setArgs, current, runs,
                 joined, lost, history, delivered>>

\* The queue is empty: unlock and sleep.
Rest ==
  /\ At("loop")
  /\ queue = <<>>
  /\ mutex' = Free
  /\ handler' = "asleep"
  /\ UNCHANGED <<todo, queue, actions, state, required, sets, setArgs, current, runs,
                 joined, lost, history, delivered>>

\* The queue taken for a stack.
MutantTakesLast ==
  /\ At("loop")
  /\ queue # <<>>
  /\ queue' = Front(queue)
  /\ current' = Last(queue).name
  /\ runs' = RunsOf(actions[Last(queue).name], Last(queue).arg)
  /\ handler' = "run"
  /\ UNCHANGED <<todo, mutex, actions, state, required, sets, setArgs,
                 joined, lost, history, delivered>>

Take ==
  /\ At("loop")
  /\ queue # <<>>
  /\ queue' = Tail(queue)
  /\ current' = Head(queue).name
  /\ runs' = RunsOf(actions[Head(queue).name], Head(queue).arg)
  /\ handler' = "run"
  /\ UNCHANGED <<todo, mutex, actions, state, required, sets, setArgs,
                 joined, lost, history, delivered>>

\* runFunction(*it, u.second).
RunAction ==
  /\ At("run")
  /\ runs # <<>>
  /\ delivered' = Append(delivered, Head(runs))
  /\ runs' = Tail(runs)
  /\ UNCHANGED <<todo, mutex, queue, actions, state, required, sets, setArgs, handler,
                 current, joined, lost, history>>

Ran(name) == At("run") /\ runs = <<>> /\ current = name

\* The return on "exit" that forgets to unlock.
MutantEndKeepsLock ==
  /\ Ran("exit")
  /\ handler' = "ended"
  /\ UNCHANGED <<todo, mutex, queue, actions, state, required, sets, setArgs, current,
                 runs, joined, lost, history, delivered>>

End ==
  /\ Ran("exit")
  /\ mutex' = Free
  /\ handler' = "ended"
  /\ UNCHANGED <<todo, queue, actions, state, required, sets, setArgs, current, runs,
                 joined, lost, history, delivered>>

\* TakeSet without m_args_queue.pop().
MutantSetKeepsArgs ==
  /\ Ran("set")
  /\ IF sets = <<>>
     THEN lost' = TRUE /\ UNCHANGED <<sets, runs, current>>
     ELSE /\ sets' = Tail(sets)
          /\ runs' = RunsOf(Matching(state, Head(sets)), Head(setArgs))
          /\ current' = "none"
          /\ UNCHANGED lost
  /\ UNCHANGED <<todo, mutex, queue, actions, state, required, handler, joined, setArgs,
                 history, delivered>>

\* The functions whose requisitions m_requisitions satisfies now.
TakeSet ==
  /\ Ran("set")
  /\ IF sets = <<>>
     THEN lost' = TRUE /\ UNCHANGED <<sets, setArgs, runs, current>>
     ELSE /\ sets' = Tail(sets)
          /\ setArgs' = Tail(setArgs)
          /\ runs' = RunsOf(Matching(state, Head(sets)), Head(setArgs))
          /\ current' = "none"
          /\ UNCHANGED lost
  /\ UNCHANGED <<todo, mutex, queue, actions, state, required, handler, joined,
                 history, delivered>>

Again ==
  /\ \E n \in Event \cup {"none"} : Ran(n)
  /\ handler' = "loop"
  /\ current' = "none"
  /\ UNCHANGED <<todo, mutex, queue, actions, state, required, sets, setArgs, runs,
                 joined, lost, history, delivered>>

Handle == Wake \/ Rest \/ Take \/ RunAction \/ End \/ TakeSet \/ Again

Next == Handle \/ \E u \in User : Call(u)

Spec == Init /\ [][Next]_vars

\* The handler is not starved.  It lets go of the mutex and sleeps in every
\* round, so a script thread that waits for the mutex gets it at last.
FairSpec == Spec /\ WF_vars(Handle) /\ \A u \in User : SF_vars(Call(u))
===============================================================================
