------------------------------ MODULE Concurrent ------------------------------
(***************************************************************************)
(* The objects of std.concurrent: Thread (modules/std/concurrent/          *)
(* thread.cc over core/cthread.cc), Mutex, Condition and Sync, used by the *)
(* main thread of a script and by the threads it starts, and the end of    *)
(* the process under them (Interpreter::execute and shutdown).             *)
(*                                                                         *)
(* Every start makes one VM and one thread; both have the number of the    *)
(* start, and the main thread is number 0.  Steps are split where a lock   *)
(* is taken or given up, where a call blocks and where a value is read     *)
(* that another thread may change.  `lost' is set where the code does      *)
(* something undefined: afterwards nothing happens.                        *)
(*                                                                         *)
(* What a script calls is a sequence of sets of calls: the i-th call is a  *)
(* member of the i-th set.  `breach' remembers, from the calls alone, how  *)
(* the script broke the order of calls that the objects rely on.           *)
(***************************************************************************)
EXTENDS Integers, Sequences, FiniteSets

CONSTANTS
  Objects,    \* the Thread objects, numbers
  HasEntry,   \* those constructed with a function
  NIds,       \* the argument of Sync.new()
  MaxStarts,  \* bound on the calls of start
  Scripts     \* what is run: [objects : those it constructs,
              \* main, thread : Seq(SUBSET Call), sound : BOOLEAN]

ASSUME ObjectsAssumption == Objects \subseteq Nat \ {0} /\ HasEntry \subseteq Objects
ASSUME BoundsAssumption  == NIds \in Nat /\ MaxStarts \in Nat

VARIABLES
  script,   \* the script that is run
  next,     \* the position of each thread in it
  doing,    \* the call in which each thread is, or Idle
  data,     \* ThreadData of each object
  thread,   \* the threads the process has made
  deleted,  \* the VMs that were deleted
  mutex,    \* the owner of the Mutex object, or Nobody
  sync,     \* the SyncObject: who locked it, next_id
  issued,   \* what nextID has returned since the last setID
  calls,    \* history: how often each object was started, whether a wait came back
  breach,   \* history: how the script broke the order of calls
  over,     \* the main thread has left VM::run: its VM is gone, its values go
  lost      \* something undefined has happened

vars == <<script, next, doing, data, thread, deleted, mutex, sync, issued, calls, breach, over, lost>>
objVars  == <<data, thread, deleted>>
lockVars == <<mutex, sync, issued>>

Starts == 1 .. MaxStarts
Actor  == 0 .. MaxStarts
Main   == 0
None   == 0          \* NULL, an uninitialized handle, the VM of no start
Nobody == MaxStarts + 1

Call(op, on) == [op |-> op, on |-> on]
Idle == Call("idle", None)

-------------------------------------------------------------------------------
Unstarted(o) == [entry |-> o \in HasEntry, vm |-> None, result |-> FALSE, joined |-> FALSE,
                 running |-> FALSE, handler |-> None, lock |-> Nobody, alive |-> o \in script.objects]

Init ==
  /\ script \in Scripts
  /\ next    = [a \in Actor |-> 1]
  /\ doing   = [a \in Actor |-> Idle]
  /\ data    = [o \in Objects |-> Unstarted(o)]
  /\ thread  = [k \in Starts |-> [state |-> "none", of |-> None, vm |-> None]]
  /\ deleted = {}
  /\ mutex   = Nobody
  /\ sync    = [holder |-> Nobody, next |-> 0]
  /\ issued  = <<>>
  /\ calls   = [o \in Objects |-> [starts |-> 0, waited |-> FALSE]]
  /\ breach  = {}
  /\ over    = FALSE
  /\ lost    = FALSE

State(k)  == thread[k].state
Made      == Cardinality({k \in Starts : State(k) # "none"})
Body(a)   == IF a = Main THEN script.main ELSE script.thread
Active(a) == IF a = Main THEN ~over ELSE State(a) = "running"
AtEnd(a)  == next[a] > Len(Body(a)) /\ doing[a] = Idle

\* Thread a makes the call c, the next one of its script.
Calls(a, c) ==
  /\ ~lost /\ Active(a) /\ doing[a] = Idle
  /\ next[a] <= Len(Body(a)) /\ c \in Body(a)[next[a]]
  /\ next' = [next EXCEPT ![a] = @ + 1]

In(a, c)   == ~lost /\ doing[a] = c
Begins(a, c) == doing' = [doing EXCEPT ![a] = c]
Returns(a) == Begins(a, Idle)
Broken(how, when) == IF when THEN {how} ELSE {}
Break(how, when)  == breach' = breach \cup Broken(how, when)

\* The main VM is deleted with its mutex, the builder with the constants: a
\* thread that goes on uses them after that.
Orphan(a) == a # Main /\ over

\* After undefined behaviour nothing is said about the rest.
Undefined == lost' = TRUE /\ UNCHANGED <<objVars, lockVars>>

Upd(o, new) == data' = [data EXCEPT ![o] = new]

-------------------------------------------------------------------------------
(* Thread. *)

\* A script has no reference to an object whose destructor runs.
Usable(o) == data[o].alive /\ \A b \in Actor : doing[b] # Call("drop", o)

\* Thread b is in a wait for the object, before or after it has the lock, or in
\* its destructor.
InWait(b, o) == doing[b] \in {Call("wait", o), Call("join", o)}
Using(b, o)  == InWait(b, o) \/ doing[b] = Call("drop", o)

\* A thread waits for its own object or drops it, or does so with the object of
\* a thread that does it with its own.
Circle(a, o) ==
  a # Main /\ (thread[a].of = o \/ \E k \in Starts : thread[k].of = o /\ Using(k, thread[a].of))

\* A start that comes back without unlocking the object.
MutantStart(a, o) ==
  /\ Calls(a, Call("start", o))
  /\ Usable(o) /\ data[o].entry /\ data[o].lock = Nobody
  /\ Made < MaxStarts
  /\ Upd(o, [data[o] EXCEPT !.vm = Made + 1, !.handler = Made + 1, !.running = TRUE, !.lock = a])
  /\ thread' = [thread EXCEPT ![Made + 1] = [state |-> "ready", of |-> o, vm |-> None]]
  /\ calls' = [calls EXCEPT ![o].starts = @ + 1]
  /\ Break("started twice", calls[o].starts > 0)
  /\ lost' = Orphan(a)
  /\ UNCHANGED <<script, doing, deleted, lockVars, over>>

\* Thread.start: a new VM and a new thread, under the lock of the object; the
\* handle and the VM of an earlier start are overwritten.
Start(a, o) ==
  /\ Calls(a, Call("start", o))
  /\ Usable(o)
  /\ IF data[o].entry
     THEN /\ data[o].lock = Nobody
          /\ Made < MaxStarts
          /\ LET k == Made + 1 IN
             /\ Upd(o, [data[o] EXCEPT !.vm = k, !.handler = k, !.running = TRUE])
             /\ thread' = [thread EXCEPT ![k] = [state |-> "ready", of |-> o, vm |-> None]]
          /\ calls' = [calls EXCEPT ![o].starts = @ + 1]
     ELSE UNCHANGED <<data, thread, calls>>
  /\ Break("started twice", calls[o].starts > 0)
  /\ lost' = Orphan(a)
  /\ UNCHANGED <<script, doing, deleted, lockVars, over>>

\* ThreadHandler up to the script function: the VM of the object at that time.
HandlerBegins(k) ==
  /\ ~lost /\ State(k) = "ready"
  /\ LET d == data[thread[k].of] IN
     IF ~d.alive \/ d.vm \in deleted \/ over
     THEN Undefined
     ELSE /\ thread' = [thread EXCEPT ![k].state = "running", ![k].vm = d.vm]
          /\ UNCHANGED <<data, deleted, lockVars, lost>>
  /\ UNCHANGED <<script, next, doing, calls, breach, over>>

\* The VM is deleted by one thread while another one runs on it.
RunsOn(k, vm) == State(k) = "running" /\ thread[k].vm = vm

\* delete intern->vm without the result of runFunction.
MutantHandlerEnds(k) ==
  /\ ~lost /\ State(k) = "running" /\ AtEnd(k)
  /\ LET o == thread[k].of IN
     /\ thread'  = [thread EXCEPT ![k].state = "ended"]
     /\ deleted' = deleted \cup {data[o].vm}
     /\ UNCHANGED <<data, lockVars, lost>>
  /\ UNCHANGED <<script, next, doing, calls, breach, over>>

\* The rest of ThreadHandler: the result, delete intern->vm, pthread_exit.
HandlerEnds(k) ==
  /\ ~lost /\ State(k) = "running" /\ AtEnd(k)
  /\ LET o == thread[k].of
         d == data[o] IN
     IF ~d.alive \/ d.vm \in deleted \/ over \/ \E j \in Starts \ {k} : RunsOn(j, d.vm)
     THEN Undefined
     ELSE /\ Upd(o, [d EXCEPT !.result = TRUE])
          /\ thread'  = [thread EXCEPT ![k].state = "ended"]
          /\ deleted' = deleted \cup {d.vm}
          /\ UNCHANGED <<lockVars, lost>>
  /\ UNCHANGED <<script, next, doing, calls, breach, over>>

\* VM::error or an unhandled exception: longjmp to a buffer of the main
\* thread's stack.
HandlerFails(k) ==
  /\ Calls(k, Call("fail", None)) /\ k # Main
  /\ Break("error in a thread", TRUE)
  /\ Undefined
  /\ UNCHANGED <<script, doing, calls, over>>

Garbage(h) == h = None \/ State(h) = "reaped"

\* A thread that is in pthread_join for the object o.
InJoin(b, o) ==
  \/ doing[b] = Call("join", o)
  \/ doing[b] = Call("drop", o) /\ (data[o].alive => ~data[o].joined)
Joiners(h) == {b \in Actor : \E o \in Objects : data[o].handler = h /\ InJoin(b, o)}

\* CThread::wait: pthread_join of the handle, whose answer is dropped.  It comes
\* back when the thread has ended, and at once (EDEADLK) for the calling thread
\* and for a thread that joins the calling one.  A handle that was never set,
\* was joined before or is being joined by another thread is undefined.
Refused(a, h)   == a # Main /\ (h = a \/ h \in Joiners(a))
Joins(a, h)     == IF Garbage(h) THEN TRUE ELSE State(h) = "ended" \/ Refused(a, h)
Misjoined(a, h) == Garbage(h) \/ Joiners(h) # {a}
Reap(h)         == thread' = [thread EXCEPT ![h].state = IF @ = "ended" THEN "reaped" ELSE @]

Wait(a, o) ==
  /\ Calls(a, Call("wait", o))
  /\ Usable(o)
  /\ Begins(a, Call("wait", o))
  /\ breach' = breach \cup Broken("waited for before start", calls[o].starts = 0)
                      \cup Broken("joins in a circle", Circle(a, o))
  /\ lost' = Orphan(a)
  /\ UNCHANGED <<script, objVars, lockVars, calls, over>>

\* joined set before the join, and the lock given up for it.
MutantWaitLocks(a, o) ==
  /\ In(a, Call("wait", o))
  /\ data[o].alive /\ data[o].lock = Nobody
  /\ IF data[o].joined
     THEN calls' = [calls EXCEPT ![o].waited = TRUE] /\ Returns(a) /\ UNCHANGED data
     ELSE Upd(o, [data[o] EXCEPT !.joined = TRUE]) /\ Begins(a, Call("join", o)) /\ UNCHANGED calls
  /\ UNCHANGED <<script, next, thread, deleted, lockVars, breach, over, lost>>

\* Thread.wait takes the lock of the object, and keeps it while it joins.
WaitLocks(a, o) ==
  /\ In(a, Call("wait", o))
  /\ IF ~data[o].alive \/ Orphan(a)
     THEN Undefined /\ UNCHANGED <<doing, calls>>
     ELSE /\ data[o].lock = Nobody
          /\ IF data[o].joined
             THEN calls' = [calls EXCEPT ![o].waited = TRUE] /\ Returns(a) /\ UNCHANGED data
             ELSE Upd(o, [data[o] EXCEPT !.lock = a]) /\ Begins(a, Call("join", o)) /\ UNCHANGED calls
          /\ UNCHANGED <<thread, deleted, lockVars, lost>>
  /\ UNCHANGED <<script, next, breach, over>>

WaitJoins(a, o) ==
  /\ In(a, Call("join", o))
  /\ LET h == data[o].handler IN
     /\ Joins(a, h)
     /\ IF Misjoined(a, h) \/ ~data[o].alive \/ Orphan(a)
        THEN Undefined /\ UNCHANGED <<doing, calls>>
        ELSE /\ Reap(h)
             /\ Upd(o, [data[o] EXCEPT !.joined = TRUE, !.running = FALSE, !.lock = Nobody])
             /\ calls' = [calls EXCEPT ![o].waited = TRUE]
             /\ Returns(a)
             /\ UNCHANGED <<deleted, lockVars, lost>>
  /\ UNCHANGED <<script, next, breach, over>>

\* Thread.result copies from intern->result, NULL until the thread has ended.
GetResult(a, o) ==
  /\ Calls(a, Call("result", o))
  /\ Usable(o)
  /\ Break("result before wait", ~calls[o].waited)
  /\ IF data[o].result /\ ~Orphan(a)
     THEN UNCHANGED <<objVars, lockVars, lost>>
     ELSE Undefined
  /\ UNCHANGED <<script, doing, calls, over>>

\* The last reference to the object goes: by an assignment of a script, or with
\* the values of the main VM when the process shuts down.  A call in progress
\* holds no reference.
Dtor(a, o) ==
  /\ Usable(o)
  /\ Begins(a, Call("drop", o))
  /\ breach' = breach \cup Broken("dropped before start", calls[o].starts = 0)
                      \cup Broken("dropped while waited for", \E b \in Actor : InWait(b, o))
                      \cup Broken("joins in a circle", Circle(a, o))
  /\ lost' = Orphan(a)
  /\ UNCHANGED <<script, objVars, lockVars, calls, over>>

Drop(a, o) == Calls(a, Call("drop", o)) /\ Dtor(a, o)

ShutdownDrops(o) == ~lost /\ over /\ doing[Main] = Idle /\ Dtor(Main, o) /\ UNCHANGED next

\* ~ThreadData joins unless joined is set, then frees arguments and result;
\* ~CThread joins again what still counts as running.
DtorJoins(a, o) ==
  /\ In(a, Call("drop", o)) /\ data[o].alive /\ ~data[o].joined
  /\ LET h == data[o].handler IN
     /\ Joins(a, h)
     /\ IF Misjoined(a, h)
        THEN Undefined /\ UNCHANGED doing
        ELSE /\ Reap(h)
             /\ Upd(o, [data[o] EXCEPT !.running = FALSE, !.alive = FALSE])
             /\ Returns(a)
             /\ UNCHANGED <<deleted, lockVars, lost>>
  /\ UNCHANGED <<script, next, calls, breach, over>>

DtorFrees(a, o) ==
  /\ In(a, Call("drop", o)) /\ data[o].alive /\ data[o].joined
  /\ Upd(o, [data[o] EXCEPT !.alive = FALSE])
  /\ IF data[o].running THEN UNCHANGED doing ELSE Returns(a)
  /\ UNCHANGED <<script, next, thread, deleted, lockVars, calls, breach, over, lost>>

CThreadDtor(a, o) ==
  /\ In(a, Call("drop", o)) /\ ~data[o].alive
  /\ LET h == data[o].handler IN
     /\ Joins(a, h)
     /\ IF Misjoined(a, h)
        THEN Undefined /\ UNCHANGED doing
        ELSE Reap(h) /\ Returns(a) /\ UNCHANGED <<data, deleted, lockVars, lost>>
  /\ UNCHANGED <<script, next, calls, breach, over>>

-------------------------------------------------------------------------------
(* Mutex and Condition: pthread objects, not recursive, not checked. *)

Lock(a) ==
  /\ Calls(a, Call("lock", None))
  /\ mutex = Nobody
  /\ mutex' = a
  /\ lost' = Orphan(a)
  /\ UNCHANGED <<script, doing, objVars, sync, issued, calls, breach, over>>

TryLock(a) ==
  /\ Calls(a, Call("trylock", None))
  /\ mutex' = IF mutex = Nobody THEN a ELSE mutex
  /\ lost' = Orphan(a)
  /\ UNCHANGED <<script, doing, objVars, sync, issued, calls, breach, over>>

Unlock(a) ==
  /\ Calls(a, Call("unlock", None))
  /\ mutex' = Nobody
  /\ lost' = Orphan(a)
  /\ UNCHANGED <<script, doing, objVars, sync, issued, calls, breach, over>>

\* Condition.wait gives the mutex up and waits, in one step.
CondWait(a) ==
  /\ Calls(a, Call("cwait", None))
  /\ mutex' = Nobody
  /\ Begins(a, Call("waiting", None))
  /\ lost' = Orphan(a)
  /\ UNCHANGED <<script, objVars, sync, issued, calls, breach, over>>

Waiting == {a \in Actor : doing[a].op = "waiting"}
Wake(A) == doing' = [a \in Actor |-> IF a \in A THEN Call("woken", None) ELSE doing[a]]

\* Nothing is kept of a signal for which nobody waits.
Signal(a) ==
  /\ Calls(a, Call("signal", None))
  /\ IF Waiting = {} THEN UNCHANGED doing ELSE \E w \in Waiting : Wake({w})
  /\ lost' = Orphan(a)
  /\ UNCHANGED <<script, objVars, lockVars, calls, breach, over>>

Broadcast(a) ==
  /\ Calls(a, Call("broadcast", None))
  /\ Wake(Waiting)
  /\ lost' = Orphan(a)
  /\ UNCHANGED <<script, objVars, lockVars, calls, breach, over>>

\* The wait returns true with the mutex taken again, whatever woke it.
CondReturns(a) ==
  /\ In(a, Call("woken", None))
  /\ mutex = Nobody
  /\ mutex' = a
  /\ Returns(a)
  /\ lost' = Orphan(a)
  /\ UNCHANGED <<script, next, objVars, sync, issued, calls, breach, over>>

-------------------------------------------------------------------------------
(* Sync. *)

\* SyncObject::nextID without its lock.
MutantNextIDLocks(a) ==
  /\ Calls(a, Call("nextID", None))
  /\ Begins(a, Call("nextID", None))
  /\ Break("no ids", NIds = 0)
  /\ lost' = Orphan(a)
  /\ UNCHANGED <<script, objVars, lockVars, calls, over>>

NextIDLocks(a) ==
  /\ Calls(a, Call("nextID", None))
  /\ sync.holder = Nobody
  /\ sync' = [sync EXCEPT !.holder = a]
  /\ Begins(a, Call("nextID", None))
  /\ Break("no ids", NIds = 0)
  /\ lost' = Orphan(a)
  /\ UNCHANGED <<script, objVars, mutex, issued, calls, over>>

NextIDReads(a) ==
  /\ In(a, Call("nextID", None))
  /\ Begins(a, Call("nextID+1", sync.next))
  /\ UNCHANGED <<script, next, objVars, lockVars, calls, breach, over, lost>>

\* next_id = (next_id + 1) % n_ids: a division by zero without ids.
NextIDWrites(a) ==
  /\ ~lost /\ doing[a].op = "nextID+1"
  /\ IF NIds = 0 \/ Orphan(a)
     THEN Undefined /\ UNCHANGED doing
     ELSE /\ sync' = [sync EXCEPT !.holder = Nobody, !.next = (doing[a].on + 1) % NIds]
          /\ issued' = Append(issued, doing[a].on)
          /\ Returns(a)
          /\ UNCHANGED <<objVars, mutex, lost>>
  /\ UNCHANGED <<script, next, calls, breach, over>>

\* setID takes any number, also one that is not below n_ids.
SetID(a, v) ==
  /\ Calls(a, Call("setID", v))
  /\ sync.holder = Nobody
  /\ sync' = [sync EXCEPT !.next = v]
  /\ issued' = <<>>
  /\ lost' = Orphan(a)
  /\ UNCHANGED <<script, doing, objVars, mutex, calls, breach, over>>

-------------------------------------------------------------------------------
\* A call the script leaves out.
Skip(a) ==
  /\ Calls(a, Call("skip", None))
  /\ UNCHANGED <<script, doing, objVars, lockVars, calls, breach, over, lost>>

\* The main thread leaves run(), by its end, an unhandled exception or a fatal
\* error: execute returns and shutdown frees what the VMs share.
Unwaited(o) == calls[o].starts > 0 /\ ~calls[o].waited /\ data[o].alive

MainEnds ==
  /\ ~lost /\ ~over /\ AtEnd(Main)
  /\ over' = TRUE
  /\ Break("ended before its threads", \E o \in Objects : Unwaited(o))
  /\ UNCHANGED <<script, next, doing, objVars, lockVars, calls, lost>>

OnObject(a, o) ==
  \/ Start(a, o) \/ Wait(a, o) \/ WaitLocks(a, o) \/ WaitJoins(a, o) \/ GetResult(a, o)
  \/ Drop(a, o)  \/ DtorJoins(a, o) \/ DtorFrees(a, o) \/ CThreadDtor(a, o)

OnLocks(a) ==
  \/ Lock(a) \/ TryLock(a) \/ Unlock(a)
  \/ CondWait(a) \/ Signal(a) \/ Broadcast(a) \/ CondReturns(a)
  \/ NextIDLocks(a) \/ NextIDReads(a) \/ NextIDWrites(a)
  \/ \E v \in 0 .. NIds + 1 : SetID(a, v)

Step(a) == OnLocks(a) \/ Skip(a) \/ \E o \in Objects : OnObject(a, o)

Handler(k) == HandlerBegins(k) \/ HandlerEnds(k) \/ HandlerFails(k)

Next ==
  \/ \E a \in Actor : Step(a)
  \/ \E k \in Starts : Handler(k)
  \/ MainEnds
  \/ \E o \in Objects : ShutdownDrops(o)

Spec == Init /\ [][Next]_vars

Shutdown == MainEnds \/ \E o \in Objects : ShutdownDrops(o)

\* The system schedules every thread, and who waits for a mutex gets it when
\* it is free again and again.
FairSpec ==
  /\ Spec
  /\ \A a \in Actor  : SF_vars(Step(a))
  /\ \A k \in Starts : WF_vars(Handler(k))
  /\ WF_vars(Shutdown)
-------------------------------------------------------------------------------
(* Properties. *)

\* Every order of calls that does something undefined is one of those `breach'
\* names: no other sequence of calls of several threads joins a thread twice or
\* one that was never made, uses a deleted VM, a freed object or a null result
\* (modules/std/concurrent/thread.cc:22-128, core/cthread.h:54-58).
UndefinedOnlyByBreach == lost => breach # {}

\* In a script that keeps the order, who comes back from wait finds the thread
\* at its end, its result there and its VM gone, also when several threads
\* wait for the same object (modules/std/concurrent/thread.cc:103-119).
WaitMeansEnded ==
  breach = {} => \A o \in Objects : calls[o].waited =>
    /\ \A k \in Starts : thread[k].of = o => State(k) = "reaped" /\ thread[k].vm \in deleted
    /\ data[o].result

\* nextID hands its numbers out in turn, to however many threads: no two
\* threads get the same one in a round (modules/std/concurrent/sync.h:32-38).
IdsInTurn ==
  \A i \in 1 .. Len(issued) - 1 : issued[i + 1] = (issued[i] + 1) % NIds

\* A script that starts, waits and locks in order comes to its end, nothing of
\* its threads is left, and no signal it relies on is lost
\* (tests/std.concurrent/condition_001.test, thread_003.test).
SoundScriptsEnd ==
  script.sound ~>
    /\ over /\ ~lost
    /\ \A k \in Starts : State(k) \in {"none", "reaped"}
    /\ \A k \in Starts : State(k) # "none" => k \in deleted
    /\ \A o \in Objects : data[o].alive => calls[o].starts = 0

===============================================================================
