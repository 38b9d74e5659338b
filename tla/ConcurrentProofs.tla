---------------------------- MODULE ConcurrentProofs ----------------------------
(***************************************************************************)
(* Two facts about the objects of std.concurrent, for any scripts and any  *)
(* number of threads, objects, starts and ids.                             *)
(*                                                                         *)
(* Sync.nextID hands its numbers out in turn: SyncInv is inductive.  What  *)
(* matters of the state is who is in nextID, the SyncObject and what was   *)
(* handed out; all calls but nextID and setID leave that alone.            *)
(*                                                                         *)
(* A script that keeps the order of calls does nothing undefined and finds *)
(* what it waits for: OrderInv is inductive.  While no rule is broken, an  *)
(* object and its thread know each other (Ownership), a thread runs on the *)
(* VM of its start, which is deleted when it ends (Lifecycle), an object   *)
(* is joined once and before it is freed (Joining), and who is in a call   *)
(* holds what the call is about (Blocked).  No threads join each other in a*)
(* circle, so pthread_join never comes back before the end of the thread it*)
(* is asked for.                                                           *)
(***************************************************************************)
EXTENDS Concurrent, FiniteSetTheorems, TLAPS

Inside   == {"nextID", "nextID+1"}
DoingSet == [op : Inside \cup {"idle", "wait", "join", "drop", "waiting", "woken"}, on : Int]

\* The lock of the SyncObject belongs to whoever is between its lock and its
\* unlock; what that thread has read is still there.
LockedInside ==
  \A a \in Actor : doing[a].op \in Inside =>
    /\ sync.holder = a
    /\ doing[a].op = "nextID+1" => doing[a].on = sync.next

\* The next number follows the last one handed out.
FollowsLast == issued # <<>> => sync.next = (issued[Len(issued)] + 1) % NIds

SyncType ==
  /\ doing \in [Actor -> DoingSet]
  /\ sync \in [holder : Int, next : Int]
  /\ issued \in Seq(Int)

SyncInv == SyncType /\ LockedInside /\ FollowsLast /\ IdsInTurn

\* A step that has nothing to do with the SyncObject.
Elsewhere ==
  /\ UNCHANGED <<sync, issued>>
  /\ doing' \in [Actor -> DoingSet]
  /\ \A a \in Actor : doing'[a] = doing[a] \/ doing'[a].op \notin Inside

-------------------------------------------------------------------------------
LEMMA ActorFacts == Actor \subseteq Int /\ Main \in Actor /\ Nobody \notin Actor
  BY BoundsAssumption DEF Actor, Main, Nobody

LEMMA IdleType == Idle \in DoingSet /\ Idle.op \notin Inside
  BY DEF Idle, None, Inside, Call, DoingSet

LEMMA InitSync == Init => SyncInv
<1> SUFFICES ASSUME Init PROVE SyncInv
  OBVIOUS
<1>1. SyncType
  BY IdleType, BoundsAssumption DEF Init, SyncType, Nobody
<1>2. LockedInside
  BY IdleType DEF Init, LockedInside
<1>3. FollowsLast /\ IdsInTurn
  BY DEF Init, FollowsLast, IdsInTurn
<1> QED BY <1>1, <1>2, <1>3 DEF SyncInv

LEMMA ElsewhereKeeps == SyncInv /\ Elsewhere => SyncInv'
  BY DEF SyncInv, SyncType, LockedInside, FollowsLast, IdsInTurn, Elsewhere

\* A call that one thread begins or ends outside nextID.
LEMMA BeginsElsewhere ==
  ASSUME SyncType, NEW a \in Actor, NEW c \in DoingSet, c.op \notin Inside,
         Begins(a, c), UNCHANGED <<sync, issued>>
  PROVE  Elsewhere
  BY DEF SyncType, Begins, Elsewhere

-------------------------------------------------------------------------------
(* Thread objects. *)

LEMMA ObjectStep ==
  ASSUME SyncType, NEW a \in Actor, NEW o \in Objects, OnObject(a, o)
  PROVE  Elsewhere
<1>0. o \in Int BY ObjectsAssumption
<1>1. Idle \in DoingSet /\ Idle.op \notin Inside
  BY IdleType
<1>2. \A op \in {"wait", "join", "drop"} : Call(op, o) \in DoingSet /\ Call(op, o).op \notin Inside
  BY <1>0 DEF Inside, Call, DoingSet
<1>3. ASSUME UNCHANGED <<doing, sync, issued>> PROVE Elsewhere
  BY <1>3 DEF SyncType, Elsewhere
<1>4. CASE Start(a, o)     BY <1>3, <1>4 DEF Start, lockVars
<1>5. CASE Wait(a, o)      BY <1>2, <1>5, BeginsElsewhere DEF Wait, lockVars
<1>12. CASE WaitLocks(a, o)
  BY <1>1, <1>2, <1>3, <1>12, BeginsElsewhere DEF WaitLocks, Undefined, Returns, lockVars
<1>6. CASE WaitJoins(a, o)
  BY <1>1, <1>3, <1>6, BeginsElsewhere DEF WaitJoins, Undefined, Returns, lockVars
<1>7. CASE GetResult(a, o) BY <1>3, <1>7 DEF GetResult, Undefined, lockVars
<1>8. CASE Drop(a, o)      BY <1>2, <1>8, BeginsElsewhere DEF Drop, Dtor, lockVars
<1>9. CASE DtorJoins(a, o)
  BY <1>1, <1>3, <1>9, BeginsElsewhere DEF DtorJoins, Undefined, Returns, lockVars
<1>10. CASE DtorFrees(a, o)
  BY <1>1, <1>3, <1>10, BeginsElsewhere DEF DtorFrees, Returns, lockVars
<1>11. CASE CThreadDtor(a, o)
  BY <1>1, <1>3, <1>11, BeginsElsewhere DEF CThreadDtor, Undefined, Returns, lockVars
<1> QED BY <1>4, <1>5, <1>6, <1>7, <1>8, <1>9, <1>10, <1>11, <1>12 DEF OnObject

-------------------------------------------------------------------------------
(* The locks of scripts. *)

LEMMA LockStep ==
  ASSUME SyncType, NEW a \in Actor,
         \/ Lock(a) \/ TryLock(a) \/ Unlock(a)
         \/ CondWait(a) \/ Signal(a) \/ Broadcast(a) \/ CondReturns(a)
  PROVE  Elsewhere
<1>1. \A op \in {"waiting", "woken"} : Call(op, None) \in DoingSet /\ Call(op, None).op \notin Inside
  BY DEF None, Inside, Call, DoingSet
<1>2. ASSUME UNCHANGED <<doing, sync, issued>> PROVE Elsewhere
  BY <1>2 DEF SyncType, Elsewhere
<1>3. ASSUME NEW A \in SUBSET Actor, Wake(A), UNCHANGED <<sync, issued>> PROVE Elsewhere
  BY <1>1, <1>3 DEF SyncType, Wake, Elsewhere
<1>4. CASE Lock(a)      BY <1>2, <1>4 DEF Lock
<1>5. CASE TryLock(a)   BY <1>2, <1>5 DEF TryLock
<1>6. CASE Unlock(a)    BY <1>2, <1>6 DEF Unlock
<1>7. CASE CondWait(a)  BY <1>1, <1>7, BeginsElsewhere DEF CondWait
<1>8. CASE Signal(a)
  <2>1. CASE Waiting = {} BY <1>2, <1>8, <2>1 DEF Signal, lockVars
  <2>2. CASE Waiting # {}
    <3>1. PICK w \in Waiting : Wake({w}) BY <1>8, <2>2 DEF Signal
    <3>2. {w} \in SUBSET Actor BY DEF Waiting
    <3> QED BY <1>3, <1>8, <3>1, <3>2 DEF Signal, lockVars
  <2> QED BY <2>1, <2>2
<1>9. CASE Broadcast(a)
  <2>1. Waiting \in SUBSET Actor BY DEF Waiting
  <2> QED BY <1>3, <1>9, <2>1 DEF Broadcast, lockVars
<1>10. CASE CondReturns(a) BY <1>10, IdleType, BeginsElsewhere DEF CondReturns, Returns
<1> QED BY <1>4, <1>5, <1>6, <1>7, <1>8, <1>9, <1>10

-------------------------------------------------------------------------------
(* The SyncObject. *)

LEMMA NextIDLocksKeeps ==
  ASSUME SyncInv, NEW a \in Actor, NextIDLocks(a)
  PROVE  SyncInv'
<1> USE DEF SyncInv
<1>1. Call("nextID", None) \in DoingSet /\ Call("nextID", None).op = "nextID"
  BY DEF None, Call, DoingSet, Inside
<1>2. /\ sync.holder = Nobody /\ sync' = [sync EXCEPT !.holder = a]
      /\ doing' = [doing EXCEPT ![a] = Call("nextID", None)] /\ issued' = issued
  BY DEF NextIDLocks, Begins
<1>3. SyncType'
  BY <1>1, <1>2, ActorFacts DEF SyncType
<1>4. \A b \in Actor : doing[b].op \notin Inside
  BY <1>2, ActorFacts DEF LockedInside
<1>5. LockedInside'
  BY <1>1, <1>2, <1>4 DEF SyncType, LockedInside
<1>6. FollowsLast' /\ IdsInTurn'
  BY <1>2 DEF SyncType, FollowsLast, IdsInTurn
<1> QED BY <1>3, <1>5, <1>6

LEMMA NextIDReadsKeeps ==
  ASSUME SyncInv, NEW a \in Actor, NextIDReads(a)
  PROVE  SyncInv'
<1> USE DEF SyncInv
<1>1. /\ Call("nextID+1", sync.next) \in DoingSet
      /\ Call("nextID+1", sync.next).op = "nextID+1" /\ Call("nextID+1", sync.next).on = sync.next
  BY DEF SyncType, Call, DoingSet, Inside
<1>2. /\ doing[a] = Call("nextID", None) /\ UNCHANGED <<sync, issued>>
      /\ doing' = [doing EXCEPT ![a] = Call("nextID+1", sync.next)]
  BY DEF NextIDReads, In, Begins, lockVars
<1>3. sync.holder = a
  BY <1>2 DEF LockedInside, Inside, None, Call
<1>4. SyncType'
  BY <1>1, <1>2 DEF SyncType
<1>5. LockedInside'
  BY <1>1, <1>2, <1>3 DEF SyncType, LockedInside
<1>6. FollowsLast' /\ IdsInTurn'
  BY <1>2 DEF FollowsLast, IdsInTurn
<1> QED BY <1>4, <1>5, <1>6

LEMMA NextIDWritesKeeps ==
  ASSUME SyncInv, NEW a \in Actor, NextIDWrites(a)
  PROVE  SyncInv'
<1> USE DEF SyncInv
<1>1. CASE NIds = 0 \/ Orphan(a)
  <2>1. Elsewhere BY <1>1 DEF NextIDWrites, Undefined, lockVars, SyncType, Elsewhere
  <2> QED BY <2>1, ElsewhereKeeps
<1>2. CASE ~(NIds = 0 \/ Orphan(a))
  <2> DEFINE id == sync.next
  <2>1. /\ doing[a].op = "nextID+1" /\ doing[a].on = id /\ sync.holder = a
    BY DEF NextIDWrites, LockedInside, Inside
  <2>2. /\ sync' = [sync EXCEPT !.holder = Nobody, !.next = (id + 1) % NIds]
        /\ issued' = Append(issued, id)
        /\ doing' = [doing EXCEPT ![a] = Idle]
    BY <1>2, <2>1 DEF NextIDWrites, Returns, Begins
  <2>3. NIds \in Nat \ {0} /\ id \in Int /\ (id + 1) % NIds \in Int /\ Nobody \in Int
    BY <1>2, BoundsAssumption DEF SyncType, Nobody
  <2>4. SyncType'
    <3>1. doing' \in [Actor -> DoingSet] BY <2>2, IdleType DEF SyncType
    <3>2. sync' \in [holder : Int, next : Int]
      <4>1. \A n, h \in Int : [sync EXCEPT !.holder = h, !.next = n] \in [holder : Int, next : Int]
        BY DEF SyncType
      <4> QED BY <2>2, <2>3, <4>1
    <3>3. issued' \in Seq(Int) BY <2>2, <2>3 DEF SyncType
    <3> QED BY <3>1, <3>2, <3>3 DEF SyncType
  <2>5. \A b \in Actor : doing'[b].op \notin Inside
    BY <2>1, <2>2, IdleType DEF SyncType, LockedInside
  <2>6. LockedInside'
    BY <2>5 DEF LockedInside
  <2>7. FollowsLast'
    BY <2>2, <2>3 DEF SyncType, FollowsLast
  <2>8. IdsInTurn'
    <3> SUFFICES ASSUME NEW i \in 1 .. Len(issued') - 1
                 PROVE  issued'[i + 1] = (issued'[i] + 1) % NIds
      BY DEF IdsInTurn
    <3>1. Len(issued') = Len(issued) + 1 /\ issued'[Len(issued) + 1] = id
      BY <2>2, <2>3 DEF SyncType
    <3>2. \A j \in 1 .. Len(issued) : issued'[j] = issued[j]
      BY <2>2, <2>3 DEF SyncType
    <3>3. CASE i < Len(issued)
      BY <3>1, <3>2, <3>3 DEF SyncType, IdsInTurn
    <3>4. CASE i = Len(issued)
      BY <3>1, <3>2, <3>4 DEF SyncType, FollowsLast
    <3> QED BY <3>1, <3>3, <3>4 DEF SyncType
  <2> QED BY <2>4, <2>6, <2>7, <2>8
<1> QED BY <1>1, <1>2

LEMMA SetIDKeeps ==
  ASSUME SyncInv, NEW a \in Actor, NEW v \in 0 .. NIds + 1, SetID(a, v)
  PROVE  SyncInv'
<1> USE DEF SyncInv
<1>1. /\ sync.holder = Nobody /\ sync' = [sync EXCEPT !.next = v]
      /\ issued' = <<>> /\ doing' = doing
  BY DEF SetID
<1>2. SyncType' BY <1>1 DEF SyncType
<1>3. LockedInside' BY <1>1, ActorFacts DEF LockedInside
<1>4. FollowsLast' /\ IdsInTurn' BY <1>1 DEF FollowsLast, IdsInTurn
<1> QED BY <1>2, <1>3, <1>4

-------------------------------------------------------------------------------
LEMMA NextKeeps == SyncInv /\ [Next]_vars => SyncInv'
<1> SUFFICES ASSUME SyncInv, [Next]_vars PROVE SyncInv'
  OBVIOUS
<1>1. SyncType BY DEF SyncInv
<1>2. ASSUME UNCHANGED <<doing, sync, issued>> PROVE Elsewhere
  BY <1>1, <1>2 DEF SyncType, Elsewhere
<1>3. ASSUME Elsewhere PROVE SyncInv'
  BY <1>3, ElsewhereKeeps
<1>4. CASE UNCHANGED vars
  BY <1>2, <1>3, <1>4 DEF vars
<1>5. ASSUME NEW a \in Actor, Step(a) PROVE SyncInv'
  <2>1. CASE Skip(a) BY <1>2, <1>3, <2>1 DEF Skip, lockVars
  <2>2. CASE \E o \in Objects : OnObject(a, o) BY <1>1, <1>3, <2>2, ObjectStep
  <2>3. CASE \/ Lock(a) \/ TryLock(a) \/ Unlock(a)
             \/ CondWait(a) \/ Signal(a) \/ Broadcast(a) \/ CondReturns(a)
    BY <1>1, <1>3, <2>3, LockStep
  <2>4. CASE NextIDLocks(a)  BY <2>4, NextIDLocksKeeps
  <2>5. CASE NextIDReads(a)  BY <2>5, NextIDReadsKeeps
  <2>6. CASE NextIDWrites(a) BY <2>6, NextIDWritesKeeps
  <2>7. CASE \E v \in 0 .. NIds + 1 : SetID(a, v) BY <2>7, SetIDKeeps
  <2> QED BY <1>5, <2>1, <2>2, <2>3, <2>4, <2>5, <2>6, <2>7 DEF Step, OnLocks
<1>6. ASSUME NEW k \in Starts, Handler(k) PROVE SyncInv'
  <2>1. CASE HandlerBegins(k) BY <1>2, <1>3, <2>1 DEF HandlerBegins, Undefined, lockVars
  <2>2. CASE HandlerEnds(k)   BY <1>2, <1>3, <2>2 DEF HandlerEnds, Undefined, lockVars
  <2>3. CASE HandlerFails(k)  BY <1>2, <1>3, <2>3 DEF HandlerFails, Undefined, lockVars
  <2> QED BY <1>6, <2>1, <2>2, <2>3 DEF Handler
<1>7. CASE MainEnds BY <1>2, <1>3, <1>7 DEF MainEnds, lockVars
<1>8. ASSUME NEW o \in Objects, ShutdownDrops(o) PROVE SyncInv'
  <2>1. Call("drop", o) \in DoingSet /\ Call("drop", o).op \notin Inside
    BY ObjectsAssumption DEF Inside, Call, DoingSet
  <2>2. Begins(Main, Call("drop", o)) /\ UNCHANGED <<sync, issued>>
    BY <1>8 DEF ShutdownDrops, Dtor, lockVars
  <2> QED BY <1>1, <1>3, <2>1, <2>2, ActorFacts, BeginsElsewhere
<1> QED BY <1>4, <1>5, <1>6, <1>7, <1>8 DEF Next

\* Whatever the scripts do and however many threads they make, Sync.nextID
\* hands its numbers out in turn (modules/std/concurrent/sync.h:32-38): the
\* lock of the SyncObject covers the read and the write of next_id.
THEOREM IdsAlwaysInTurn == Spec => []IdsInTurn
<1>1. Init => SyncInv
  BY InitSync
<1>2. SyncInv /\ [Next]_vars => SyncInv'
  BY NextKeeps
<1>3. SyncInv => IdsInTurn
  BY DEF SyncInv
<1> QED BY <1>1, <1>2, <1>3, PTL DEF Spec
-------------------------------------------------------------------------------
(* Starting, waiting and dropping in order. *)

ThreadData == [entry : BOOLEAN, vm : Int, result : BOOLEAN, joined : BOOLEAN, running : BOOLEAN,
               handler : Int, lock : Int, alive : BOOLEAN]
Alive == {"ready", "running"}
Past  == {"ended", "reaped"}
Made1 == [state : {"none"} \cup Alive \cup Past, of : Int, vm : Int]

ObjectType ==
  /\ data \in [Objects -> ThreadData]
  /\ thread \in [Starts -> Made1]
  /\ \A k \in Starts : State(k) # "none" => thread[k].of \in Objects
  /\ calls \in [Objects -> [starts : Nat, waited : BOOLEAN]]
  /\ over \in BOOLEAN /\ lost \in BOOLEAN

\* Starts are numbered without gaps.
Numbered == \E m \in 0 .. MaxStarts : \A k \in Starts : State(k) # "none" <=> k <= m

\* An object and its thread know each other.
Ownership ==
  /\ \A k \in Starts :
       IF State(k) = "none"
       THEN thread[k].of = None
       ELSE LET o == thread[k].of IN
            /\ o \in Objects /\ calls[o].starts = 1
            /\ data[o].vm = k /\ data[o].handler = k
  /\ \A o \in Objects : calls[o].starts # 0 =>
       calls[o].starts = 1 /\ data[o].handler \in Starts /\ thread[data[o].handler].of = o

\* What is left of a thread.
Lifecycle ==
  /\ \A k \in Starts : State(k) \in {"running"} \cup Past => thread[k].vm = k
  /\ \A k \in Starts : k \in deleted <=> State(k) \in Past
  /\ over => \A k \in Starts : State(k) \in {"none", "reaped"}

\* An object is joined once, before it is freed.
Joining ==
  \A o \in Objects :
    /\ calls[o].starts = 0 => ~data[o].joined
    /\ calls[o].waited => calls[o].starts = 1 /\ data[o].joined
    /\ calls[o].starts = 1 =>
         LET s == State(data[o].handler) IN
         /\ data[o].running <=> s # "reaped"
         /\ IF data[o].alive THEN data[o].joined <=> s = "reaped" ELSE s = "reaped"
         /\ s \in Past => data[o].result

\* Who uses an object finds it there and its thread at work on something else;
\* who joins has the lock, and who drops it is alone.
InCall(a, o) ==
  /\ Using(a, o) => calls[o].starts = 1 /\ data[o].alive /\ ~Circle(a, o)
  /\ doing[a] = Call("join", o) => ~data[o].joined /\ data[o].lock = a
  /\ doing[a] = Call("drop", o) => \A b \in Actor : b # a => ~Using(b, o)

\* Who is in a call.
Blocked ==
  /\ \A k \in Starts : doing[k] # Idle => State(k) = "running"
  /\ over => doing[Main].op \in {"idle", "drop"}
  /\ \A a \in Actor : doing[a].op \in Inside => NIds # 0
  /\ \A a \in Actor : \A o \in Objects : InCall(a, o)

Ordered == Ownership /\ Lifecycle /\ Joining /\ Blocked

OrderInv ==
  /\ SyncType /\ ObjectType /\ Numbered
  /\ breach = {} => ~lost /\ Ordered

-------------------------------------------------------------------------------
LEMMA CallFacts ==
  /\ \A x, y, o, p : Call(x, o) = Call(y, p) <=> x = y /\ o = p
  /\ \A x, o : Call(x, o).op = x /\ Call(x, o).on = o
  BY DEF Call

LEMMA StartFacts ==
  /\ Starts \subseteq Actor /\ Starts \subseteq Int /\ Main \notin Starts /\ None \notin Starts
  /\ \A a \in Actor : a = Main \/ a \in Starts
  /\ Nobody \notin Actor /\ Actor \subseteq Int /\ Main \in Actor /\ None \notin Objects
  /\ Nobody \in Int /\ None \in Int
  BY BoundsAssumption, ObjectsAssumption DEF Starts, Actor, Main, None, Nobody

LEMMA BreakFacts ==
  ASSUME NEW how, NEW when \in BOOLEAN, Break(how, when), breach' = {}
  PROVE  breach = {} /\ ~when
  BY DEF Break, Broken

LEMMA UsingFacts ==
  /\ \A a, o : Using(a, o) => doing[a] # Idle /\ doing[a].op \in {"wait", "join", "drop"}
  /\ \A a, o, p : Using(a, o) /\ Using(a, p) => o = p
  BY CallFacts DEF Using, InWait, Idle

\* The thread `a' can do something: it has not ended.
Mover(a) == a # Main => a \in Starts /\ State(a) = "running"

LEMMA ActiveFacts ==
  ASSUME Ordered, NEW a \in Actor, Active(a)
  PROVE  Mover(a) /\ ~over /\ ~Orphan(a)
  BY StartFacts DEF Ordered, Lifecycle, Active, Mover, Orphan

LEMMA InFacts ==
  ASSUME Ordered, NEW a \in Actor, doing[a] # Idle
  PROVE  Mover(a) /\ ~Orphan(a) /\ (over => doing[a].op \in {"idle", "drop"})
<1>1. a = Main \/ a \in Starts BY StartFacts
<1> QED BY <1>1, StartFacts DEF Ordered, Blocked, Lifecycle, Mover, Orphan

\* What a step asks of the state, that all who still use an object keep to it.
UsesStay ==
  /\ \A b \in Actor : \A p \in Objects : Using(b, p)' =>
       /\ Using(b, p)
       /\ calls'[p].starts = calls[p].starts /\ data'[p].alive = data[p].alive
       /\ doing'[b] = Call("drop", p) => doing[b] = Call("drop", p)
       /\ doing'[b] = Call("join", p) =>
            \/ ~data'[p].joined /\ data'[p].lock = b
            \/ /\ doing[b] = Call("join", p)
               /\ data'[p].joined = data[p].joined /\ data'[p].lock = data[p].lock
  /\ \A k \in Starts : State(k) = "running" => thread'[k].of = thread[k].of

LEMMA UsesKept ==
  ASSUME Ordered, UsesStay
  PROVE  \A b \in Actor : \A p \in Objects : InCall(b, p)'
<1> SUFFICES ASSUME NEW b \in Actor, NEW p \in Objects PROVE InCall(b, p)'
  OBVIOUS
<1>1. InCall(b, p) BY DEF Ordered, Blocked
<1>2. \A k \in Starts : \A q : Using(k, q)' /\ q \in Objects =>
        /\ Using(k, q) /\ thread'[k].of = thread[k].of /\ thread[k].of \in Objects
  <2> SUFFICES ASSUME NEW k \in Starts, NEW q \in Objects, Using(k, q)'
               PROVE  Using(k, q) /\ thread'[k].of = thread[k].of /\ thread[k].of \in Objects
    OBVIOUS
  <2>1. Using(k, q) BY StartFacts DEF UsesStay
  <2>2. State(k) = "running" BY <2>1, UsingFacts DEF Ordered, Blocked
  <2> QED BY <2>1, <2>2 DEF UsesStay, Ordered, Ownership
<1>3. ASSUME Using(b, p)', Circle(b, p)' PROVE FALSE
  <2>1. b \in Starts /\ Using(b, p) /\ thread'[b].of = thread[b].of /\ thread[b].of \in Objects
    BY <1>2, <1>3, StartFacts DEF Circle
  <2>2. ~Circle(b, p) BY <1>1, <2>1 DEF InCall
  <2>3. PICK k \in Starts : thread'[k].of = p /\ Using(k, thread[b].of)'
    BY <1>3, <2>1, <2>2 DEF Circle, Using, InWait
  <2>4. thread[k].of = p /\ Using(k, thread[b].of) BY <1>2, <2>1, <2>3
  <2> QED BY <2>1, <2>2, <2>4, StartFacts DEF Circle
<1>4. Using(b, p)' => calls'[p].starts = 1 /\ data'[p].alive /\ ~Circle(b, p)'
  BY <1>1, <1>3 DEF UsesStay, InCall
<1>5. doing'[b] = Call("join", p) => ~data'[p].joined /\ data'[p].lock = b
  BY <1>1 DEF UsesStay, InCall, Using, InWait
<1>6. doing'[b] = Call("drop", p) => \A c \in Actor : c # b => ~Using(c, p)'
  BY <1>1 DEF UsesStay, InCall, Using, InWait
<1> QED BY <1>4, <1>5, <1>6 DEF InCall

\* A thread that does nothing else begins to use an object.
LEMMA UseBegins ==
  ASSUME Ordered, SyncType, NEW a \in Actor, NEW o \in Objects, NEW op \in {"wait", "drop"},
         Begins(a, Call(op, o)), Mover(a), UNCHANGED <<data, thread, calls>>, doing[a] = Idle,
         calls[o].starts = 1, data[o].alive, ~Circle(a, o),
         \A b \in Actor : doing[b] # Call("drop", o),
         op = "drop" => \A b \in Actor : ~InWait(b, o)
  PROVE  \A b \in Actor : \A p \in Objects : InCall(b, p)'
<1> SUFFICES ASSUME NEW b \in Actor, NEW p \in Objects PROVE InCall(b, p)'
  OBVIOUS
<1>1. doing'[a] = Call(op, o) /\ \A c \in Actor : c # a => doing'[c] = doing[c]
  BY DEF Begins, SyncType
<1>2. /\ \A q : Using(a, q)' <=> q = o
      /\ \A c \in Actor : c # a => \A q : Using(c, q)' <=> Using(c, q)
  BY <1>1, CallFacts DEF Using, InWait
<1>3. /\ calls' = calls /\ data' = data /\ \A k \in Starts : thread'[k].of = thread[k].of
  OBVIOUS
<1>4. CASE b = a /\ p = o
  <2>1. ~Circle(a, o)'
    <3> SUFFICES ASSUME Circle(a, o)' PROVE FALSE
      OBVIOUS
    <3>1. a # Main /\ a \in Starts /\ thread[a].of # o BY StartFacts DEF Circle
    <3>2. PICK k \in Starts : thread[k].of = o /\ Using(k, thread[a].of)'
      BY <1>3, <3>1 DEF Circle, Using, InWait
    <3>3. k # a /\ k \in Actor BY <3>1, <3>2, StartFacts
    <3>4. Using(k, thread[a].of) BY <1>2, <3>2, <3>3
    <3> QED BY <3>1, <3>2, <3>4 DEF Circle
  <2>2. doing'[a] # Call("join", o) BY <1>1, CallFacts
  <2>3. doing'[a] = Call("drop", o) => op = "drop" BY <1>1 DEF Call
  <2>4. doing'[a] = Call("drop", o) => \A c \in Actor : c # a => ~Using(c, o)'
    BY <1>2, <2>3 DEF Using
  <2> QED BY <1>3, <1>4, <2>1, <2>2, <2>4 DEF InCall
<1>5. CASE b = a /\ p # o
  BY <1>2, <1>5 DEF InCall, Using, InWait
<1>6. CASE b # a
  <2>1. InCall(b, p) BY DEF Ordered, Blocked
  <2>2. Using(b, p)' => ~Circle(b, p)'
    <3> SUFFICES ASSUME Using(b, p), Circle(b, p)' PROVE FALSE
      BY <1>2, <1>6
    <3>1. b \in Starts /\ ~Circle(b, p) /\ thread[b].of # p
      BY <2>1, <1>3, StartFacts DEF InCall, Circle
    <3>2. PICK k \in Starts : thread[k].of = p /\ Using(k, thread[b].of)'
      BY <1>3, <3>1 DEF Circle, Using, InWait
    <3>3. k = a
      <4>1. CASE k # a
        <5>1. Using(k, thread[b].of) BY <1>2, <3>2, <4>1, StartFacts
        <5> QED BY <3>1, <3>2, <5>1, StartFacts DEF Circle
      <4> QED BY <4>1
    <3>4. thread[b].of = o BY <1>2, <3>2, <3>3
    <3> QED BY <3>1, <3>2, <3>3, <3>4, StartFacts DEF Circle
  <2>3. doing'[b] = Call("drop", p) => p # o BY <1>1, <1>6
  <2>4. doing'[b] = Call("drop", p) => \A c \in Actor : c # b => ~Using(c, p)'
    BY <1>1, <1>2, <1>6, <2>1, <2>3 DEF InCall
  <2> QED BY <1>1, <1>2, <1>3, <1>6, <2>1, <2>2, <2>4 DEF InCall
<1> QED BY <1>4, <1>5, <1>6

\* A step that changes at most who is in a call that uses no object.
LEMMA ElsewhereOrdered ==
  ASSUME Ordered, UNCHANGED <<data, thread, deleted, calls, over>>,
         \A a \in Actor : doing'[a] = doing[a] \/
           /\ Mover(a)
           /\ doing'[a].op \notin {"wait", "join", "drop"}
           /\ over => doing'[a].op = "idle"
           /\ doing'[a].op \in Inside => NIds # 0
  PROVE  Ordered'
<1>1. Ownership' /\ Lifecycle' /\ Joining' BY DEF Ordered, Ownership, Lifecycle, Joining, State
<1>2. Blocked'
  <2>1. \A k \in Starts : doing'[k] # Idle => State(k)' = "running"
    <3> SUFFICES ASSUME NEW k \in Starts, doing'[k] # Idle PROVE State(k) = "running"
      BY DEF State
    <3>1. k \in Actor /\ k # Main BY StartFacts
    <3>2. doing'[k] = doing[k] \/ Mover(k) BY <3>1
    <3> QED BY <3>1, <3>2 DEF Ordered, Blocked, Mover
  <2>2. over' => doing'[Main].op \in {"idle", "drop"} BY StartFacts DEF Ordered, Blocked
  <2>3. \A a \in Actor : doing'[a].op \in Inside => NIds # 0 BY DEF Ordered, Blocked
  <2>4. \A a \in Actor : doing'[a] = doing[a] \/ \A o : ~Using(a, o)'
    BY CallFacts DEF Using, InWait
  <2>5. UsesStay BY <2>4 DEF UsesStay, Using, InWait
  <2>6. \A a \in Actor : \A o \in Objects : InCall(a, o)' BY <2>5, UsesKept
  <2> QED BY <2>1, <2>2, <2>3, <2>6 DEF Blocked
<1> QED BY <1>1, <1>2 DEF Ordered

\* The locks of scripts, and Sync.
LEMMA LocksOrdered ==
  ASSUME SyncType, ObjectType, Ordered, ~lost, NEW a \in Actor, OnLocks(a) \/ Skip(a), breach' = {}
  PROVE  Ordered' /\ ~lost'
<1>1. ASSUME NEW c \in DoingSet, Begins(a, c), Mover(a), c.op \notin {"wait", "join", "drop"},
             over => c.op = "idle", c.op \in Inside => NIds # 0,
             UNCHANGED <<data, thread, deleted, calls, over>>
      PROVE  Ordered'
  <2>1. \A b \in Actor : doing'[b] = doing[b] \/ (b = a /\ doing'[b] = c)
    BY <1>1 DEF Begins, SyncType
  <2> QED BY <1>1, <2>1, ElsewhereOrdered
<1>2. ASSUME NEW A \in SUBSET Waiting, Wake(A), ~over, UNCHANGED <<data, thread, deleted, calls, over>>
      PROVE  Ordered'
  <2>1. Call("woken", None).op = "woken" /\ "woken" \notin Inside BY CallFacts DEF Inside
  <2>2. \A b \in Actor : doing'[b] = doing[b] \/ (b \in Waiting /\ doing'[b] = Call("woken", None))
    BY <1>2 DEF Wake
  <2>3. \A b \in Waiting : b \in Actor /\ doing[b] # Idle BY CallFacts DEF Waiting, Idle
  <2>4. \A b \in Waiting : Mover(b) BY <2>3, InFacts
  <2> QED BY <1>2, <2>1, <2>2, <2>4, ElsewhereOrdered
<1>3. ASSUME UNCHANGED <<doing, data, thread, deleted, calls, over>> PROVE Ordered'
  BY <1>3, ElsewhereOrdered
<1>4. ASSUME NEW c, Calls(a, c) PROVE Mover(a) /\ ~over /\ ~Orphan(a)
  BY <1>4, ActiveFacts DEF Calls
<1>5. Idle \in DoingSet /\ Idle.op = "idle" BY IdleType, CallFacts DEF Idle
<1>6. \A op \in {"waiting", "woken", "nextID"} :
         Call(op, None) \in DoingSet /\ Call(op, None).op = op /\ Call(op, None) # Idle
  BY DEF None, Inside, Call, DoingSet, Idle
<1> USE DEF objVars, lockVars
<1>7. CASE Lock(a)      BY <1>3, <1>4, <1>7 DEF Lock
<1>8. CASE TryLock(a)   BY <1>3, <1>4, <1>8 DEF TryLock
<1>9. CASE Unlock(a)    BY <1>3, <1>4, <1>9 DEF Unlock
<1>10. CASE CondWait(a) BY <1>1, <1>4, <1>6, <1>10 DEF CondWait, Inside
<1>11. CASE Signal(a)
  <2>1. ~over /\ ~lost' BY <1>4, <1>11 DEF Signal
  <2>2. CASE Waiting = {} BY <1>3, <1>11, <2>1, <2>2 DEF Signal
  <2>3. CASE Waiting # {}
    <3>1. PICK w \in Waiting : Wake({w}) BY <1>11, <2>3 DEF Signal
    <3> QED BY <1>2, <1>11, <2>1, <3>1 DEF Signal
  <2> QED BY <2>2, <2>3
<1>12. CASE Broadcast(a)
  <2>1. ~over /\ ~lost' BY <1>4, <1>12 DEF Broadcast
  <2> QED BY <1>2, <1>12, <2>1 DEF Broadcast
<1>13. CASE CondReturns(a)
  <2>1. doing[a] = Call("woken", None) /\ doing[a] # Idle /\ doing[a].op = "woken"
    BY <1>6, <1>13 DEF CondReturns, In
  <2>2. Mover(a) /\ ~Orphan(a) BY <2>1, InFacts
  <2> QED BY <1>1, <1>5, <1>13, <2>2 DEF CondReturns, Returns, Inside
<1>14. CASE NextIDLocks(a)
  <2>1. NIds # 0 BY <1>14, BreakFacts DEF NextIDLocks
  <2> QED BY <1>1, <1>4, <1>6, <1>14, <2>1 DEF NextIDLocks
<1>15. CASE NextIDReads(a)
  <2>1. doing[a] = Call("nextID", None) /\ doing[a] # Idle /\ doing[a].op = "nextID"
    BY <1>6, <1>15 DEF NextIDReads, In
  <2>2. Mover(a) /\ ~Orphan(a) /\ ~over /\ NIds # 0
    BY <2>1, InFacts DEF Ordered, Blocked, Inside
  <2>3. Call("nextID+1", sync.next) \in DoingSet /\ Call("nextID+1", sync.next).op = "nextID+1"
    BY DEF SyncType, Inside, Call, DoingSet
  <2> QED BY <1>1, <1>15, <2>2, <2>3 DEF NextIDReads
<1>16. CASE NextIDWrites(a)
  <2>1. doing[a].op = "nextID+1" /\ doing[a] # Idle BY <1>5, <1>16 DEF NextIDWrites
  <2>2. Mover(a) /\ ~Orphan(a) /\ NIds # 0
    BY <2>1, InFacts DEF Ordered, Blocked, Inside
  <2> QED BY <1>1, <1>5, <1>16, <2>2 DEF NextIDWrites, Returns, Inside
<1>17. CASE \E v \in 0 .. NIds + 1 : SetID(a, v) BY <1>3, <1>4, <1>17 DEF SetID
<1>18. CASE Skip(a) BY <1>3, <1>18 DEF Skip
<1> QED BY <1>7, <1>8, <1>9, <1>10, <1>11, <1>12, <1>13, <1>14, <1>15, <1>16, <1>17, <1>18 DEF OnLocks

-------------------------------------------------------------------------------
(* The calls of Thread. *)

\* The number of starts made so far.
LEMMA MadeIs ==
  ASSUME Numbered
  PROVE  Made \in 0 .. MaxStarts /\ \A k \in Starts : State(k) # "none" <=> k <= Made
<1>1. PICK m \in 0 .. MaxStarts : \A k \in Starts : State(k) # "none" <=> k <= m BY DEF Numbered
<1>2. {k \in Starts : State(k) # "none"} = 1 .. m BY <1>1, BoundsAssumption DEF Starts
<1>3. Cardinality(1 .. m) = m BY <1>1, BoundsAssumption, FS_Interval
<1>4. Made = m BY <1>2, <1>3, Zenon DEF Made
<1> QED BY <1>1, <1>4

\* An object that was started has a thread of its own.
LEMMA OwnThread ==
  ASSUME Ordered, NEW o \in Objects, calls[o].starts # 0
  PROVE  /\ calls[o].starts = 1 /\ data[o].handler \in Starts /\ data[o].handler # None
         /\ thread[data[o].handler].of = o /\ State(data[o].handler) # "none"
         /\ data[o].vm = data[o].handler
         /\ \A k \in Starts : thread[k].of = o => k = data[o].handler
<1>1. /\ calls[o].starts = 1 /\ data[o].handler \in Starts
      /\ thread[data[o].handler].of = o /\ o # None
  BY StartFacts DEF Ordered, Ownership
<1>2. \A k \in Starts : thread[k].of = o => State(k) # "none" /\ data[o].handler = k /\ data[o].vm = k
  BY <1>1 DEF Ordered, Ownership
<1> QED BY <1>1, <1>2, StartFacts

LEMMA StartOrdered ==
  ASSUME SyncType, ObjectType, Numbered, Ordered, ~lost,
         NEW a \in Actor, NEW o \in Objects, Start(a, o), breach' = {}
  PROVE  Ordered' /\ ~lost'
<1> USE DEF State
<1>1. Mover(a) /\ ~over /\ ~Orphan(a) BY ActiveFacts DEF Start, Calls
<1>2. calls[o].starts = 0 /\ data[o].alive /\ ~lost' /\ over' = over /\ doing' = doing /\ deleted' = deleted
  <2>1. ~(calls[o].starts > 0) BY BreakFacts DEF Start
  <2>2. calls[o].starts \in Nat BY DEF ObjectType
  <2>3. calls[o].starts = 0 BY <2>1, <2>2
  <2>4. data[o].alive BY DEF Start, Usable
  <2>5. lost' = Orphan(a) /\ UNCHANGED <<over, doing, deleted>> BY DEF Start
  <2> QED BY <1>1, <2>3, <2>4, <2>5
<1>3. CASE ~data[o].entry
  <2>1. UNCHANGED <<data, thread, calls>> BY <1>3 DEF Start
  <2> QED BY <1>2, <2>1, ElsewhereOrdered
<1>4. CASE data[o].entry
  <2> DEFINE k == Made + 1
  <2>1. k \in Starts /\ State(k) = "none"
    <3>1. Made < MaxStarts /\ Made \in Nat
      <4>1. Made < MaxStarts BY <1>4 DEF Start
      <4>2. Made \in 0 .. MaxStarts BY MadeIs
      <4> QED BY <4>1, <4>2, BoundsAssumption
    <3>2. k \in Starts /\ ~(k <= Made) BY <3>1, BoundsAssumption DEF Starts
    <3> QED BY <3>2, MadeIs
  <2>2. /\ data' = [data EXCEPT ![o] = [data[o] EXCEPT !.vm = k, !.handler = k, !.running = TRUE]]
        /\ thread' = [thread EXCEPT ![k] = [state |-> "ready", of |-> o, vm |-> None]]
        /\ calls' = [calls EXCEPT ![o].starts = @ + 1]
    BY <1>4 DEF Start, Upd
  <2> HIDE DEF k
  <2>3. /\ data'[o].vm = k /\ data'[o].handler = k /\ data'[o].running
        /\ data'[o].joined = data[o].joined /\ data'[o].alive = data[o].alive
        /\ data'[o].lock = data[o].lock /\ data'[o].result = data[o].result
        /\ \A p \in Objects : p # o => data'[p] = data[p]
    BY <2>2 DEF ObjectType, ThreadData
  <2>4. /\ thread'[k].state = "ready" /\ thread'[k].of = o
        /\ \A j \in Starts : j # k => thread'[j] = thread[j]
    BY <2>1, <2>2 DEF ObjectType, State
  <2>5. /\ calls'[o].starts = 1 /\ calls'[o].waited = calls[o].waited
        /\ \A p \in Objects : p # o => calls'[p] = calls[p]
    BY <1>2, <2>2 DEF ObjectType
  <2>6. \A j \in Starts : j # k /\ State(j) # "none" => thread[j].of # o /\ thread[j].of \in Objects
    BY <1>2 DEF Ordered, Ownership
  <2>7. Ownership'
    <3>1. ASSUME NEW j \in Starts
          PROVE  IF thread'[j].state = "none"
                 THEN thread'[j].of = None
                 ELSE /\ thread'[j].of \in Objects /\ calls'[thread'[j].of].starts = 1
                      /\ data'[thread'[j].of].vm = j /\ data'[thread'[j].of].handler = j
      <4>1. CASE j = k BY <2>3, <2>4, <2>5, <4>1
      <4>2. CASE j # k BY <2>3, <2>4, <2>5, <2>6, <4>2 DEF Ordered, Ownership
      <4> QED BY <4>1, <4>2
    <3>2. ASSUME NEW p \in Objects, calls'[p].starts # 0
          PROVE  calls'[p].starts = 1 /\ data'[p].handler \in Starts /\ thread'[data'[p].handler].of = p
      <4>1. CASE p = o BY <2>1, <2>3, <2>4, <2>5, <4>1
      <4>2. CASE p # o
        <5>1. calls[p].starts # 0 BY <2>5, <3>2, <4>2
        <5>2. data[p].handler # k BY <2>1, <5>1, OwnThread
        <5> QED BY <2>3, <2>4, <2>5, <4>2, <5>1, <5>2, OwnThread
      <4> QED BY <4>1, <4>2
    <3> QED BY <3>1, <3>2 DEF Ownership
  <2>8. Lifecycle'
    <3>1. k \notin deleted BY <2>1 DEF Ordered, Lifecycle, Past
    <3> QED BY <1>1, <1>2, <2>4, <3>1 DEF Ordered, Lifecycle, Past
  <2>9. Joining'
    <3> SUFFICES ASSUME NEW p \in Objects
                 PROVE  /\ calls'[p].starts = 0 => ~data'[p].joined
                        /\ calls'[p].waited => calls'[p].starts = 1 /\ data'[p].joined
                        /\ calls'[p].starts = 1 =>
                             /\ data'[p].running <=> thread'[data'[p].handler].state # "reaped"
                             /\ IF data'[p].alive THEN data'[p].joined <=> thread'[data'[p].handler].state = "reaped"
                                                  ELSE thread'[data'[p].handler].state = "reaped"
                             /\ thread'[data'[p].handler].state \in Past => data'[p].result
      BY DEF Joining, State
    <3>1. CASE p = o
      <4>1. ~data[o].joined /\ ~calls[o].waited BY <1>2 DEF Ordered, Joining
      <4> QED BY <1>2, <2>3, <2>4, <2>5, <3>1, <4>1 DEF Past
    <3>2. CASE p # o
      <4>1. data'[p] = data[p] /\ calls'[p] = calls[p] BY <2>3, <2>5, <3>2
      <4>2. calls[p].starts # 0 => thread'[data[p].handler].state = thread[data[p].handler].state
        BY <2>1, <2>4, OwnThread
      <4> QED BY <4>1, <4>2 DEF Ordered, Joining
    <3> QED BY <3>1, <3>2
  <2>10. Blocked'
    <3>1. \A j \in Starts : doing'[j] # Idle => thread'[j].state = "running"
      BY <1>2, <2>1, <2>4 DEF Ordered, Blocked
    <3>2. \A b \in Actor : \A p \in Objects : Using(b, p) => p # o
      BY <1>2 DEF Ordered, Blocked, InCall
    <3>3. UsesStay
      <4>1. \A b \in Actor : \A p \in Objects : Using(b, p)' =>
              Using(b, p) /\ doing'[b] = doing[b] /\ data'[p] = data[p] /\ calls'[p] = calls[p]
        BY <1>2, <2>3, <2>5, <3>2 DEF Using, InWait
      <4>2. \A j \in Starts : State(j) = "running" => thread'[j].of = thread[j].of
        BY <2>1, <2>4
      <4> QED BY <4>1, <4>2 DEF UsesStay
    <3>4. over' => doing'[Main].op \in {"idle", "drop"} BY <1>1, <1>2
    <3>5. \A b \in Actor : doing'[b].op \in Inside => NIds # 0 BY <1>2 DEF Ordered, Blocked
    <3>6. \A b \in Actor : \A p \in Objects : InCall(b, p)' BY <3>3, UsesKept
    <3> QED BY <3>1, <3>4, <3>5, <3>6 DEF Blocked
  <2> QED BY <1>2, <2>7, <2>8, <2>9, <2>10 DEF Ordered
<1> QED BY <1>3, <1>4

\* The thread of an object is joined, by who waits for the object or drops it.
LEMMA ReapOrdered ==
  ASSUME SyncType, ObjectType, Ordered, NEW a \in Actor, NEW o \in Objects, NEW d \in ThreadData,
         calls[o].starts = 1, State(data[o].handler) = "ended", Reap(data[o].handler),
         data' = [data EXCEPT ![o] = d],
         d.vm = data[o].vm, d.handler = data[o].handler, d.result = data[o].result, ~d.running,
         d.alive => d.joined,
         calls' = calls \/ (d.joined /\ calls' = [calls EXCEPT ![o].waited = TRUE]),
         data[o].joined => d.joined,
         Returns(a), doing[a] # Idle, UNCHANGED <<deleted, over>>,
         d.alive \/ \A b \in Actor : b # a => ~Using(b, o),
         \A b \in Actor : b # a => doing[b] # Call("join", o), data[o].alive
  PROVE  Ordered'
<1> USE DEF State
<1> DEFINE h == data[o].handler
<1>1. /\ h \in Starts /\ thread[h].of = o /\ data[o].vm = h
      /\ \A k \in Starts : thread[k].of = o => k = h
      /\ \A p \in Objects : p # o /\ calls[p].starts # 0 => data[p].handler # h
  <2>1. h \in Starts /\ thread[h].of = o /\ data[o].vm = h /\ \A k \in Starts : thread[k].of = o => k = h
    BY OwnThread
  <2>2. \A p \in Objects : p # o /\ calls[p].starts # 0 => thread[data[p].handler].of = p BY OwnThread
  <2> QED BY <2>1, <2>2
<1>2. thread[h].state = "ended" /\ thread' = [thread EXCEPT ![h].state = "reaped"] BY DEF Reap
<1> HIDE DEF h
<1>3. /\ thread'[h].state = "reaped" /\ thread'[h].of = o /\ thread'[h].vm = thread[h].vm
      /\ \A k \in Starts : k # h => thread'[k] = thread[k]
      /\ \A k \in Starts : thread'[k].of = thread[k].of /\ thread'[k].vm = thread[k].vm
      /\ \A k \in Starts : thread'[k].state = "none" <=> thread[k].state = "none"
  BY <1>1, <1>2 DEF ObjectType, Made1
<1>4. data'[o] = d /\ d.handler = h /\ d.vm = h /\ \A p \in Objects : p # o => data'[p] = data[p]
  BY <1>1 DEF ObjectType, h
<1>5. /\ \A p \in Objects : calls'[p].starts = calls[p].starts
      /\ \A p \in Objects : p # o => calls'[p] = calls[p]
      /\ calls'[o].waited => calls[o].waited \/ d.joined
  BY DEF ObjectType
<1>6. doing'[a] = Idle /\ \A b \in Actor : b # a => doing'[b] = doing[b]
  BY DEF Returns, Begins, SyncType
<1>7. Ownership'
  <2>1. ASSUME NEW k \in Starts
        PROVE  IF thread'[k].state = "none"
               THEN thread'[k].of = None
               ELSE /\ thread'[k].of \in Objects /\ calls'[thread'[k].of].starts = 1
                    /\ data'[thread'[k].of].vm = k /\ data'[thread'[k].of].handler = k
    <3>1. CASE k = h BY <1>1, <1>3, <1>4, <1>5, <3>1
    <3>2. CASE k # h
      <4>1. thread[k].of # o BY <1>1, <3>2
      <4> QED BY <1>3, <1>4, <1>5, <3>2, <4>1 DEF Ordered, Ownership
    <3> QED BY <3>1, <3>2
  <2>2. ASSUME NEW p \in Objects, calls'[p].starts # 0
        PROVE  calls'[p].starts = 1 /\ data'[p].handler \in Starts /\ thread'[data'[p].handler].of = p
    <3>1. calls[p].starts # 0 /\ data'[p].handler = data[p].handler BY <1>4, <1>5, <2>2 DEF h
    <3> QED BY <1>3, <1>5, <3>1, OwnThread
  <2> QED BY <2>1, <2>2 DEF Ownership
<1>8. Lifecycle' BY <1>1, <1>2, <1>3 DEF Ordered, Lifecycle, Past
<1>9. Joining'
  <2> SUFFICES ASSUME NEW p \in Objects
               PROVE  /\ calls'[p].starts = 0 => ~data'[p].joined
                      /\ calls'[p].waited => calls'[p].starts = 1 /\ data'[p].joined
                      /\ calls'[p].starts = 1 =>
                           /\ data'[p].running <=> thread'[data'[p].handler].state # "reaped"
                           /\ IF data'[p].alive THEN data'[p].joined <=> thread'[data'[p].handler].state = "reaped"
                                                ELSE thread'[data'[p].handler].state = "reaped"
                           /\ thread'[data'[p].handler].state \in Past => data'[p].result
    BY DEF Joining
  <2>1. CASE p = o
    <3>1. data[o].result /\ (calls[o].waited => data[o].joined) BY <1>2 DEF Ordered, Joining, Past, h
    <3>2. calls'[o].starts = 1 BY <1>5
    <3>3. calls'[o].waited => d.joined BY <1>5, <3>1
    <3>4. thread'[data'[o].handler].state = "reaped" BY <1>3, <1>4
    <3>5. data'[o].result /\ ~data'[o].running /\ data'[o].joined = d.joined /\ data'[o].alive = d.alive
      BY <1>4, <3>1
    <3> QED BY <2>1, <3>2, <3>3, <3>4, <3>5
  <2>2. CASE p # o
    <3>1. data'[p] = data[p] /\ calls'[p] = calls[p] BY <1>4, <1>5, <2>2
    <3>2. calls[p].starts # 0 => data[p].handler \in Starts /\ data[p].handler # h BY <1>1, <2>2, OwnThread
    <3>3. calls[p].starts # 0 => thread'[data[p].handler].state = thread[data[p].handler].state
      BY <1>3, <3>2
    <3> QED BY <3>1, <3>3 DEF Ordered, Joining
  <2> QED BY <2>1, <2>2
<1>10. Blocked'
  <2>1. \A k \in Starts : doing'[k] # Idle => thread'[k].state = "running"
    <3> SUFFICES ASSUME NEW k \in Starts, doing'[k] # Idle PROVE thread'[k].state = "running"
      OBVIOUS
    <3>1. k # a /\ doing'[k] = doing[k] BY <1>6, StartFacts
    <3>2. thread[k].state = "running" BY <3>1 DEF Ordered, Blocked
    <3>3. k # h BY <1>2, <3>2
    <3> QED BY <1>3, <3>2, <3>3
  <2>2. Idle.op = "idle" BY CallFacts DEF Idle
  <2>3. over' => doing'[Main].op \in {"idle", "drop"} BY <1>6, <2>2, StartFacts DEF Ordered, Blocked
  <2>4. \A b \in Actor : doing'[b].op \in Inside => NIds # 0 BY <1>6, <2>2 DEF Ordered, Blocked, Inside
  <2>5. UsesStay
    <3>1. ASSUME NEW b \in Actor, NEW p \in Objects, Using(b, p)'
          PROVE  /\ b # a /\ doing'[b] = doing[b] /\ Using(b, p)
                 /\ data'[p].alive = data[p].alive
                 /\ doing[b] = Call("join", p) => data'[p] = data[p]
      <4>1. b # a BY <1>6, <3>1, UsingFacts, CallFacts DEF Idle, Using, InWait
      <4>2. doing[b] = doing'[b] /\ Using(b, p) BY <1>6, <3>1, <4>1 DEF Using, InWait
      <4>3. p = o => d.alive /\ doing[b] # Call("join", p) BY <4>1, <4>2
      <4>4. d.alive \in BOOLEAN /\ data[o].alive \in BOOLEAN BY DEF ObjectType, ThreadData
      <4>5. data'[p].alive = data[p].alive
        <5>1. CASE p = o BY <1>4, <4>3, <4>4, <5>1
        <5>2. CASE p # o BY <1>4, <5>2
        <5> QED BY <5>1, <5>2
      <4> QED BY <1>4, <4>1, <4>2, <4>3, <4>5
    <3> QED BY <1>3, <1>5, <3>1 DEF UsesStay
  <2>6. \A b \in Actor : \A p \in Objects : InCall(b, p)' BY <2>5, UsesKept
  <2> QED BY <2>1, <2>3, <2>4, <2>6 DEF Blocked
<1> QED BY <1>7, <1>8, <1>9, <1>10 DEF Ordered

\* Who joins the thread of an object is the only one, and finds it at its end.
LEMMA JoinsFacts ==
  ASSUME Ordered, NEW a \in Actor, NEW o \in Objects, InJoin(a, o), data[o].alive
  PROVE  /\ calls[o].starts = 1 /\ ~data[o].joined /\ ~Garbage(data[o].handler)
         /\ \A b \in Actor : b # a => ~InJoin(b, o)
         /\ ~Misjoined(a, data[o].handler)
         /\ Joins(a, data[o].handler) => State(data[o].handler) = "ended"
<1> DEFINE h == data[o].handler
<1>1. Using(a, o) /\ InCall(a, o) BY DEF InJoin, Using, InWait, Ordered, Blocked
<1>2. calls[o].starts = 1 /\ ~data[o].joined /\ ~Circle(a, o) BY <1>1 DEF InCall, InJoin
<1>3. h \in Starts /\ h # None /\ thread[h].of = o BY <1>2, OwnThread
<1>4. ~Garbage(h)
  <2>1. State(h) # "reaped" BY <1>2 DEF Ordered, Joining
  <2> QED BY <1>3, <2>1 DEF Garbage
<1>5. \A b \in Actor : b # a => ~InJoin(b, o)
  <2> SUFFICES ASSUME NEW b \in Actor, b # a, InJoin(b, o) PROVE FALSE
    OBVIOUS
  <2>1. Using(b, o) /\ InCall(b, o) BY DEF InJoin, Using, InWait, Ordered, Blocked
  <2>2. doing[a] = Call("join", o) /\ doing[b] = Call("join", o) BY <1>1, <2>1 DEF InCall, InJoin
  <2> QED BY <1>1, <2>1, <2>2 DEF InCall
<1>6. \A b \in Actor : \A p \in Objects : InJoin(b, p) =>
        Using(b, p) /\ data[p].handler \in Starts /\ thread[data[p].handler].of = p
  <2> SUFFICES ASSUME NEW b \in Actor, NEW p \in Objects, InJoin(b, p)
               PROVE  Using(b, p) /\ data[p].handler \in Starts /\ thread[data[p].handler].of = p
    OBVIOUS
  <2>1. Using(b, p) /\ InCall(b, p) BY DEF InJoin, Using, InWait, Ordered, Blocked
  <2> QED BY <2>1, OwnThread DEF InCall
<1> HIDE DEF h
<1>7. Joiners(h) = {a}
  <2>1. a \in Joiners(h) BY DEF Joiners, h
  <2>2. ASSUME NEW b \in Joiners(h) PROVE b = a
    <3>1. PICK p \in Objects : data[p].handler = h /\ InJoin(b, p) BY <2>2 DEF Joiners
    <3>2. b \in Actor BY <2>2 DEF Joiners
    <3>3. p = o BY <1>3, <1>6, <3>1, <3>2
    <3> QED BY <1>5, <3>1, <3>2, <3>3
  <2> QED BY <2>1, <2>2
<1>8. ~Refused(a, h)
  <2> SUFFICES ASSUME a # Main, h = a \/ h \in Joiners(a) PROVE FALSE
    BY DEF Refused
  <2>1. CASE h = a BY <1>2, <1>3, <2>1 DEF Circle
  <2>2. CASE h \in Joiners(a)
    <3>1. PICK p \in Objects : data[p].handler = a /\ InJoin(h, p) BY <2>2 DEF Joiners
    <3>2. h \in Actor BY <2>2 DEF Joiners
    <3>3. Using(h, p) /\ thread[a].of = p BY <1>6, <3>1, <3>2
    <3> QED BY <1>2, <1>3, <3>3 DEF Circle
  <2> QED BY <2>1, <2>2
<1>9. Joins(a, h) => State(h) = "ended" BY <1>4, <1>8 DEF Joins
<1>10. ~Misjoined(a, h) BY <1>4, <1>7 DEF Misjoined
<1> QED BY <1>2, <1>4, <1>5, <1>9, <1>10 DEF h

LEMMA WaitJoinsOrdered ==
  ASSUME SyncType, ObjectType, Ordered, ~lost, NEW a \in Actor, NEW o \in Objects, WaitJoins(a, o)
  PROVE  Ordered' /\ ~lost'
<1>1. doing[a] = Call("join", o) /\ doing[a] # Idle /\ Using(a, o) /\ InJoin(a, o)
  BY CallFacts DEF WaitJoins, In, Idle, Using, InWait, InJoin
<1>2. Mover(a) /\ ~Orphan(a) BY <1>1, InFacts
<1>3. data[o].alive BY <1>1 DEF Ordered, Blocked, InCall
<1>4. /\ calls[o].starts = 1 /\ State(data[o].handler) = "ended" /\ ~Misjoined(a, data[o].handler)
      /\ \A b \in Actor : b # a => ~InJoin(b, o)
  BY <1>1, <1>3, JoinsFacts DEF WaitJoins
<1> DEFINE d == [data[o] EXCEPT !.joined = TRUE, !.running = FALSE, !.lock = Nobody]
<1>5. /\ Reap(data[o].handler) /\ data' = [data EXCEPT ![o] = d]
      /\ calls' = [calls EXCEPT ![o].waited = TRUE]
      /\ Returns(a) /\ UNCHANGED <<deleted, over, lost>>
  BY <1>2, <1>3, <1>4 DEF WaitJoins, Upd
<1>6. data[o] \in ThreadData /\ Nobody \in Int BY StartFacts DEF ObjectType
<1>7. /\ d \in ThreadData /\ d.vm = data[o].vm /\ d.handler = data[o].handler /\ d.result = data[o].result
      /\ ~d.running /\ d.joined /\ d.alive = data[o].alive
  BY <1>6 DEF ThreadData
<1>8. \A b \in Actor : b # a => doing[b] # Call("join", o) BY <1>4 DEF InJoin
<1> HIDE DEF d
<1>9. Ordered' BY <1>1, <1>3, <1>4, <1>5, <1>7, <1>8, ReapOrdered
<1> QED BY <1>5, <1>9

LEMMA DtorJoinsOrdered ==
  ASSUME SyncType, ObjectType, Ordered, ~lost, NEW a \in Actor, NEW o \in Objects, DtorJoins(a, o)
  PROVE  Ordered' /\ ~lost'
<1>1. /\ doing[a] = Call("drop", o) /\ doing[a] # Idle /\ data[o].alive /\ InJoin(a, o)
  BY CallFacts DEF DtorJoins, In, Idle, InJoin
<1>2. \A b \in Actor : b # a => ~Using(b, o)
  BY <1>1 DEF Ordered, Blocked, InCall
<1>3. /\ calls[o].starts = 1 /\ State(data[o].handler) = "ended" /\ ~Misjoined(a, data[o].handler)
      /\ ~data[o].joined
  BY <1>1, JoinsFacts DEF DtorJoins
<1> DEFINE d == [data[o] EXCEPT !.running = FALSE, !.alive = FALSE]
<1>4. /\ Reap(data[o].handler) /\ data' = [data EXCEPT ![o] = d]
      /\ Returns(a) /\ UNCHANGED <<calls, deleted, over, lost>>
  BY <1>3 DEF DtorJoins, Upd
<1>5. data[o] \in ThreadData BY DEF ObjectType
<1>6. /\ d \in ThreadData /\ d.vm = data[o].vm /\ d.handler = data[o].handler /\ d.result = data[o].result
      /\ ~d.running /\ ~d.alive /\ d.joined = data[o].joined
  BY <1>5 DEF ThreadData
<1>7. \A b \in Actor : b # a => doing[b] # Call("join", o)
  BY <1>2 DEF Using, InWait
<1> HIDE DEF d
<1>8. Ordered' BY <1>1, <1>2, <1>3, <1>4, <1>6, <1>7, ReapOrdered
<1> QED BY <1>4, <1>8

\* A step that neither makes nor moves a thread.
LEMMA SameThreads ==
  ASSUME Ordered, UNCHANGED <<thread, deleted, over>>,
         \A p \in Objects : /\ calls'[p].starts = calls[p].starts
                            /\ data'[p].vm = data[p].vm /\ data'[p].handler = data[p].handler
  PROVE  Ownership' /\ Lifecycle'
<1> USE DEF State
<1>1. Ownership' BY DEF Ordered, Ownership
<1>2. Lifecycle' BY DEF Ordered, Lifecycle
<1> QED BY <1>1, <1>2

\* A thread that has not ended begins a call that uses an object.
LEMMA UseOrdered ==
  ASSUME SyncType, Ordered, NEW a \in Actor, NEW c, Begins(a, c), Mover(a),
         UNCHANGED <<data, thread, deleted, calls, over>>,
         c.op \in {"wait", "drop"}, over => c.op = "drop",
         \A b \in Actor : \A p \in Objects : InCall(b, p)'
  PROVE  Ordered'
<1> USE DEF State
<1>1. doing'[a] = c /\ \A b \in Actor : b # a => doing'[b] = doing[b] BY DEF Begins, SyncType
<1>2. Ownership' /\ Lifecycle' /\ Joining' BY DEF Ordered, Ownership, Lifecycle, Joining
<1>3. \A k \in Starts : doing'[k] # Idle => thread'[k].state = "running"
  BY <1>1, StartFacts DEF Ordered, Blocked, Mover
<1>4. \A b \in Actor : doing'[b].op \in Inside => NIds # 0
  BY <1>1 DEF Ordered, Blocked, Inside
<1>5. over' => doing'[Main].op \in {"idle", "drop"} BY <1>1, StartFacts DEF Ordered, Blocked
<1>6. Blocked' BY <1>3, <1>4, <1>5 DEF Blocked
<1> QED BY <1>2, <1>6 DEF Ordered

LEMMA WaitOrdered ==
  ASSUME SyncType, ObjectType, Ordered, ~lost,
         NEW a \in Actor, NEW o \in Objects, Wait(a, o), breach' = {}
  PROVE  Ordered' /\ ~lost'
<1>1. Mover(a) /\ ~over /\ ~Orphan(a) BY ActiveFacts DEF Wait, Calls
<1>2. calls[o].starts # 0 /\ ~Circle(a, o) BY DEF Wait, Broken
<1>3. calls[o].starts = 1 BY <1>2, OwnThread
<1>4. /\ data[o].alive /\ ~lost' /\ UNCHANGED <<data, thread, deleted, calls, over>>
      /\ doing[a] = Idle /\ Begins(a, Call("wait", o))
      /\ \A b \in Actor : doing[b] # Call("drop", o)
  BY <1>1 DEF Wait, Usable, Calls, objVars
<1>5. \A b \in Actor : \A p \in Objects : InCall(b, p)'
  BY <1>1, <1>2, <1>3, <1>4, UseBegins
<1>6. Ordered' BY <1>1, <1>4, <1>5, CallFacts, UseOrdered
<1> QED BY <1>4, <1>6

\* Who has the lock joins, if that was not done.
LEMMA WaitLocksOrdered ==
  ASSUME SyncType, ObjectType, Ordered, ~lost, NEW a \in Actor, NEW o \in Objects, WaitLocks(a, o)
  PROVE  Ordered' /\ ~lost'
<1> USE DEF State
<1>1. doing[a] = Call("wait", o) /\ doing[a] # Idle /\ Using(a, o) /\ doing[a].op = "wait"
  BY CallFacts DEF WaitLocks, In, Idle, Using, InWait
<1>2. Mover(a) /\ ~Orphan(a) /\ ~over
  <2>1. Mover(a) /\ ~Orphan(a) /\ (over => doing[a].op \in {"idle", "drop"}) BY <1>1, InFacts
  <2> QED BY <1>1, <2>1
<1>3. calls[o].starts = 1 /\ data[o].alive BY <1>1 DEF Ordered, Blocked, InCall
<1>4. data[o].lock = Nobody /\ UNCHANGED <<thread, deleted, over, lost>>
  BY <1>2, <1>3 DEF WaitLocks
<1>5. CASE data[o].joined
  <2>1. calls' = [calls EXCEPT ![o].waited = TRUE] /\ Returns(a) /\ data' = data
    BY <1>2, <1>3, <1>5 DEF WaitLocks
  <2>2. /\ \A p \in Objects : calls'[p].starts = calls[p].starts
        /\ \A p \in Objects : calls'[p].waited => calls[p].waited \/ p = o
    BY <2>1 DEF ObjectType
  <2>3. Ownership' /\ Lifecycle' BY <1>4, <2>1, <2>2, SameThreads
  <2>4. Joining' BY <1>3, <1>4, <1>5, <2>1, <2>2 DEF Ordered, Joining
  <2>5. doing'[a] = Idle /\ \A b \in Actor : b # a => doing'[b] = doing[b]
    BY <2>1 DEF Returns, Begins, SyncType
  <2>6. Idle.op = "idle" /\ \A p : ~Using(a, p)' BY <2>5, CallFacts DEF Idle, Using, InWait
  <2>7. UsesStay BY <1>4, <2>1, <2>2, <2>5, <2>6 DEF UsesStay, Using, InWait
  <2>8. \A b \in Actor : \A p \in Objects : InCall(b, p)' BY <2>7, UsesKept
  <2>9. Blocked'
    <3>1. \A k \in Starts : doing'[k] # Idle => thread'[k].state = "running"
      BY <1>4, <2>5, StartFacts DEF Ordered, Blocked
    <3>2. \A b \in Actor : doing'[b].op \in Inside => NIds # 0
      BY <2>5, <2>6 DEF Ordered, Blocked, Inside
    <3> QED BY <1>2, <1>4, <2>8, <3>1, <3>2 DEF Blocked
  <2> QED BY <1>4, <2>3, <2>4, <2>9 DEF Ordered
<1>6. CASE ~data[o].joined
  <2>1. data' = [data EXCEPT ![o] = [data[o] EXCEPT !.lock = a]] /\ Begins(a, Call("join", o)) /\ calls' = calls
    BY <1>2, <1>3, <1>6 DEF WaitLocks, Upd
  <2>2. /\ \A p \in Objects : p # o => data'[p] = data[p]
        /\ data'[o] = [data[o] EXCEPT !.lock = a]
    BY <2>1 DEF ObjectType
  <2>3. /\ data'[o].lock = a
        /\ \A p \in Objects : /\ data'[p].vm = data[p].vm /\ data'[p].handler = data[p].handler
                              /\ data'[p].joined = data[p].joined /\ data'[p].running = data[p].running
                              /\ data'[p].alive = data[p].alive /\ data'[p].result = data[p].result
    BY <2>2 DEF ObjectType, ThreadData
  <2>4. Ownership' /\ Lifecycle' BY <1>4, <2>1, <2>3, SameThreads
  <2>5. Joining' BY <1>4, <2>1, <2>3 DEF Ordered, Joining
  <2>6. doing'[a] = Call("join", o) /\ \A b \in Actor : b # a => doing'[b] = doing[b]
    BY <2>1 DEF Begins, SyncType
  <2>7. doing'[a].op = "join" /\ "join" \notin Inside BY <2>6, CallFacts DEF Inside
  <2>8. UsesStay
    <3>1. ASSUME NEW b \in Actor, NEW p \in Objects, Using(b, p)'
          PROVE  /\ Using(b, p)
                 /\ doing'[b] = Call("drop", p) => doing[b] = Call("drop", p)
                 /\ doing'[b] = Call("join", p) =>
                      \/ ~data'[p].joined /\ data'[p].lock = b
                      \/ /\ doing[b] = Call("join", p)
                         /\ data'[p].joined = data[p].joined /\ data'[p].lock = data[p].lock
      <4>1. CASE b = a
        <5>1. p = o BY <2>6, <3>1, <4>1, CallFacts DEF Using, InWait
        <5> QED BY <1>1, <1>6, <2>3, <2>6, <4>1, <5>1, CallFacts
      <4>2. CASE b # a
        <5>1. doing'[b] = doing[b] /\ Using(b, p) BY <2>6, <3>1, <4>2 DEF Using, InWait
        <5>2. doing[b] = Call("join", p) => data[p].lock = b BY DEF Ordered, Blocked, InCall
        <5>3. doing[b] = Call("join", p) => p # o BY <1>4, <5>2, StartFacts
        <5> QED BY <2>2, <5>1, <5>3
      <4> QED BY <4>1, <4>2
    <3> QED BY <1>4, <2>1, <2>3, <3>1 DEF UsesStay
  <2>9. \A b \in Actor : \A p \in Objects : InCall(b, p)' BY <2>8, UsesKept
  <2>10. Blocked'
    <3>1. \A k \in Starts : doing'[k] # Idle => thread'[k].state = "running"
      BY <1>2, <1>4, <2>6, StartFacts DEF Ordered, Blocked, Mover
    <3>2. \A b \in Actor : doing'[b].op \in Inside => NIds # 0 BY <2>6, <2>7 DEF Ordered, Blocked
    <3> QED BY <1>2, <1>4, <2>9, <3>1, <3>2 DEF Blocked
  <2> QED BY <1>4, <2>4, <2>5, <2>10 DEF Ordered
<1> QED BY <1>5, <1>6

LEMMA GetResultOrdered ==
  ASSUME SyncType, ObjectType, Ordered, ~lost,
         NEW a \in Actor, NEW o \in Objects, GetResult(a, o), breach' = {}
  PROVE  Ordered' /\ ~lost'
<1>1. Mover(a) /\ ~over /\ ~Orphan(a) BY ActiveFacts DEF GetResult, Calls
<1>2. calls[o].waited
  <2>1. calls[o].waited \in BOOLEAN BY DEF ObjectType
  <2> QED BY <2>1, BreakFacts DEF GetResult
<1>3. data[o].alive BY DEF GetResult, Usable
<1>4. data[o].result BY <1>2, <1>3 DEF Ordered, Joining, Past
<1>5. UNCHANGED <<objVars, lost>> /\ UNCHANGED <<doing, calls, over>> BY <1>1, <1>4 DEF GetResult
<1>6. Ordered' BY <1>5, ElsewhereOrdered DEF objVars
<1> QED BY <1>5, <1>6

\* The destructor of an object begins in a thread that was in no call.
LEMMA DtorOrdered ==
  ASSUME SyncType, ObjectType, Ordered, NEW a \in Actor, NEW o \in Objects, Dtor(a, o),
         doing[a] = Idle, Mover(a), ~Orphan(a), breach' = {}
  PROVE  Ordered' /\ ~lost'
<1>1. calls[o].starts # 0 /\ ~Circle(a, o) /\ \A b \in Actor : ~InWait(b, o) BY DEF Dtor, Broken
<1>2. calls[o].starts = 1 BY <1>1, OwnThread
<1>3. /\ data[o].alive /\ ~lost' /\ UNCHANGED <<data, thread, deleted, calls, over>>
      /\ Begins(a, Call("drop", o)) /\ \A b \in Actor : doing[b] # Call("drop", o)
  BY DEF Dtor, Usable, objVars
<1>4. \A b \in Actor : \A p \in Objects : InCall(b, p)' BY <1>1, <1>2, <1>3, UseBegins
<1>5. Ordered' BY <1>3, <1>4, CallFacts, UseOrdered
<1> QED BY <1>3, <1>5

LEMMA DtorFreesOrdered ==
  ASSUME SyncType, ObjectType, Ordered, ~lost, NEW a \in Actor, NEW o \in Objects, DtorFrees(a, o)
  PROVE  Ordered' /\ ~lost'
<1> USE DEF State
<1>1. doing[a] = Call("drop", o) /\ data[o].alive /\ data[o].joined BY DEF DtorFrees, In
<1>2. calls[o].starts = 1 /\ \A b \in Actor : b # a => ~Using(b, o)
  BY <1>1 DEF Ordered, Blocked, InCall, Using
<1>3. thread[data[o].handler].state = "reaped" /\ ~data[o].running BY <1>1, <1>2 DEF Ordered, Joining
<1>4. /\ data' = [data EXCEPT ![o] = [data[o] EXCEPT !.alive = FALSE]] /\ Returns(a)
      /\ UNCHANGED <<thread, deleted, calls, over, lost>>
  BY <1>3 DEF DtorFrees, Upd
<1>5. /\ \A p \in Objects : p # o => data'[p] = data[p]
      /\ data'[o] = [data[o] EXCEPT !.alive = FALSE]
  BY <1>4 DEF ObjectType
<1>6. /\ ~data'[o].alive
      /\ \A p \in Objects : /\ data'[p].vm = data[p].vm /\ data'[p].handler = data[p].handler
                            /\ data'[p].joined = data[p].joined /\ data'[p].running = data[p].running
                            /\ data'[p].result = data[p].result
  BY <1>5 DEF ObjectType, ThreadData
<1>7. Ownership' /\ Lifecycle' BY <1>4, <1>6, SameThreads
<1>8. Joining'
  <2> SUFFICES ASSUME NEW p \in Objects
               PROVE  /\ calls'[p].starts = 0 => ~data'[p].joined
                      /\ calls'[p].waited => calls'[p].starts = 1 /\ data'[p].joined
                      /\ calls'[p].starts = 1 =>
                           /\ data'[p].running <=> thread'[data'[p].handler].state # "reaped"
                           /\ IF data'[p].alive THEN data'[p].joined <=> thread'[data'[p].handler].state = "reaped"
                                                ELSE thread'[data'[p].handler].state = "reaped"
                           /\ thread'[data'[p].handler].state \in Past => data'[p].result
    BY DEF Joining
  <2>1. CASE p = o BY <1>2, <1>3, <1>4, <1>6, <2>1 DEF Ordered, Joining
  <2>2. CASE p # o BY <1>4, <1>5, <2>2 DEF Ordered, Joining
  <2> QED BY <2>1, <2>2
<1>9. doing'[a] = Idle /\ \A b \in Actor : b # a => doing'[b] = doing[b]
  BY <1>4 DEF Returns, Begins, SyncType
<1>10. Blocked'
  <2>1. Idle.op = "idle" /\ \A p : ~Using(a, p)' BY <1>9, CallFacts DEF Idle, Using, InWait
  <2>2. \A k \in Starts : doing'[k] # Idle => thread'[k].state = "running"
    BY <1>4, <1>9, StartFacts DEF Ordered, Blocked
  <2>3. \A b \in Actor : doing'[b].op \in Inside => NIds # 0 BY <1>9, <2>1 DEF Ordered, Blocked, Inside
  <2>4. over' => doing'[Main].op \in {"idle", "drop"} BY <1>4, <1>9, <2>1, StartFacts DEF Ordered, Blocked
  <2>5. UsesStay
    <3>1. \A b \in Actor : \A p \in Objects : Using(b, p)' =>
            b # a /\ doing'[b] = doing[b] /\ Using(b, p) /\ p # o
      BY <1>2, <1>9, <2>1 DEF Using, InWait
    <3> QED BY <1>4, <1>5, <3>1 DEF UsesStay
  <2>6. \A b \in Actor : \A p \in Objects : InCall(b, p)' BY <2>5, UsesKept
  <2> QED BY <2>2, <2>3, <2>4, <2>6 DEF Blocked
<1> QED BY <1>4, <1>7, <1>8, <1>10 DEF Ordered

-------------------------------------------------------------------------------
(* The threads, and the end of the main thread. *)

\* The object of a thread that has not ended is there, and so is its VM.
LEMMA HandlerFacts ==
  ASSUME ObjectType, Ordered, NEW k \in Starts, State(k) \in Alive
  PROVE  /\ thread[k].of \in Objects /\ calls[thread[k].of].starts = 1
         /\ data[thread[k].of].alive /\ data[thread[k].of].vm = k /\ data[thread[k].of].handler = k
         /\ k \notin deleted /\ ~over
<1>1. /\ thread[k].of \in Objects /\ calls[thread[k].of].starts = 1
      /\ data[thread[k].of].vm = k /\ data[thread[k].of].handler = k
  BY DEF Ordered, Ownership, Alive
<1>2. data[thread[k].of].alive BY <1>1 DEF Ordered, Joining, Alive
<1>3. k \notin deleted /\ ~over BY DEF Ordered, Lifecycle, Alive, Past
<1> QED BY <1>1, <1>2, <1>3

LEMMA HandlerBeginsOrdered ==
  ASSUME SyncType, ObjectType, Ordered, ~lost, NEW k \in Starts, HandlerBegins(k)
  PROVE  Ordered' /\ ~lost'
<1> USE DEF State
<1>1. thread[k].state = "ready" BY DEF HandlerBegins
<1>2. /\ data[thread[k].of].alive /\ data[thread[k].of].vm = k /\ k \notin deleted /\ ~over
  BY <1>1, HandlerFacts DEF Alive
<1>3. /\ thread' = [thread EXCEPT ![k].state = "running", ![k].vm = k]
      /\ UNCHANGED <<data, deleted, doing, calls, over, lost>>
  BY <1>2 DEF HandlerBegins
<1>4. /\ thread'[k].state = "running" /\ thread'[k].vm = k /\ thread'[k].of = thread[k].of
      /\ \A j \in Starts : j # k => thread'[j] = thread[j]
  BY <1>3 DEF ObjectType, Made1
<1>5. \A j \in Starts : /\ thread'[j].of = thread[j].of
                        /\ thread'[j].state = "none" <=> thread[j].state = "none"
  BY <1>1, <1>4
<1>6. Ownership'
  <2>1. \A p \in Objects : calls'[p].starts = calls[p].starts /\ data'[p].vm = data[p].vm
                           /\ data'[p].handler = data[p].handler
    BY <1>3
  <2>2. ASSUME NEW j \in Starts
        PROVE  IF thread'[j].state = "none"
               THEN thread'[j].of = None
               ELSE /\ thread'[j].of \in Objects /\ calls'[thread'[j].of].starts = 1
                    /\ data'[thread'[j].of].vm = j /\ data'[thread'[j].of].handler = j
    BY <1>5, <2>1 DEF Ordered, Ownership
  <2>3. ASSUME NEW p \in Objects, calls'[p].starts # 0
        PROVE  calls'[p].starts = 1 /\ data'[p].handler \in Starts /\ thread'[data'[p].handler].of = p
    BY <1>5, <2>1, <2>3, OwnThread
  <2> QED BY <2>2, <2>3 DEF Ownership
<1>7. Lifecycle' BY <1>1, <1>2, <1>3, <1>4 DEF Ordered, Lifecycle, Past
<1>8. Joining'
  <2>1. \A p \in Objects : calls[p].starts # 0 =>
          /\ thread'[data[p].handler].state = "reaped" <=> thread[data[p].handler].state = "reaped"
          /\ thread'[data[p].handler].state \in Past <=> thread[data[p].handler].state \in Past
    BY <1>1, <1>4, OwnThread DEF Past
  <2>2. \A p \in Objects : calls'[p] = calls[p] /\ data'[p] = data[p] BY <1>3
  <2> QED BY <2>1, <2>2 DEF Ordered, Joining
<1>9. Blocked'
  <2>1. \A j \in Starts : doing'[j] # Idle => thread'[j].state = "running"
    BY <1>3, <1>4 DEF Ordered, Blocked
  <2>2. UsesStay
    <3>1. \A b \in Actor : \A p \in Objects : Using(b, p)' => Using(b, p) BY <1>3 DEF Using, InWait
    <3>2. data' = data /\ doing' = doing /\ calls' = calls BY <1>3
    <3>3. \A j \in Starts : thread'[j].of = thread[j].of BY <1>5
    <3> QED BY <3>1, <3>2, <3>3, Zenon DEF UsesStay
  <2>3. \A b \in Actor : \A p \in Objects : InCall(b, p)' BY <2>2, UsesKept
  <2> QED BY <1>3, <2>1, <2>3 DEF Ordered, Blocked
<1> QED BY <1>3, <1>6, <1>7, <1>8, <1>9 DEF Ordered

LEMMA HandlerEndsOrdered ==
  ASSUME SyncType, ObjectType, Ordered, ~lost, NEW k \in Starts, HandlerEnds(k)
  PROVE  Ordered' /\ ~lost'
<1> USE DEF State
<1> DEFINE o == thread[k].of
<1>1. thread[k].state = "running" /\ doing[k] = Idle BY DEF HandlerEnds, AtEnd
<1>2. /\ o \in Objects /\ data[o].alive /\ data[o].vm = k /\ data[o].handler = k
      /\ calls[o].starts = 1 /\ k \notin deleted /\ ~over
  BY <1>1, HandlerFacts DEF Alive
<1>3. \A j \in Starts \ {k} : ~RunsOn(j, k) BY DEF RunsOn, Ordered, Lifecycle
<1>4. /\ data' = [data EXCEPT ![o] = [data[o] EXCEPT !.result = TRUE]]
      /\ thread' = [thread EXCEPT ![k].state = "ended"]
      /\ deleted' = deleted \cup {k}
      /\ UNCHANGED <<doing, calls, over, lost>>
  BY <1>2, <1>3 DEF HandlerEnds, Upd
<1>5. \A j \in Starts : thread[j].of = o => j = k BY <1>2, OwnThread
<1> HIDE DEF o
<1>6. /\ thread'[k].state = "ended"
      /\ \A j \in Starts : thread'[j].of = thread[j].of /\ thread'[j].vm = thread[j].vm
      /\ \A j \in Starts : j # k => thread'[j] = thread[j]
  BY <1>4 DEF ObjectType, Made1
<1>7. /\ \A p \in Objects : p # o => data'[p] = data[p]
      /\ data'[o] = [data[o] EXCEPT !.result = TRUE]
  BY <1>2, <1>4 DEF ObjectType
<1>8. /\ data'[o].result
      /\ \A p \in Objects : /\ data'[p].vm = data[p].vm /\ data'[p].handler = data[p].handler
                            /\ data'[p].joined = data[p].joined /\ data'[p].running = data[p].running
                            /\ data'[p].alive = data[p].alive /\ data'[p].lock = data[p].lock
  BY <1>7 DEF ObjectType, ThreadData
<1>9. Ownership' BY <1>1, <1>4, <1>6, <1>8 DEF Ordered, Ownership
<1>10. Lifecycle'
  <2>1. \A j \in Starts : thread'[j].state \in {"running"} \cup Past => thread'[j].vm = j
    BY <1>1, <1>6 DEF Ordered, Lifecycle, Past
  <2>2. \A j \in Starts : j \in deleted' <=> thread'[j].state \in Past
    BY <1>4, <1>6 DEF Ordered, Lifecycle, Past
  <2> QED BY <1>2, <1>4, <2>1, <2>2 DEF Lifecycle
<1>11. Joining'
  <2>1. \A p \in Objects : calls[p].starts # 0 =>
          LET h == data[p].handler IN
          /\ thread'[h].state = "reaped" <=> thread[h].state = "reaped"
          /\ p # o => thread'[h].state = thread[h].state
    <3> SUFFICES ASSUME NEW p \in Objects, calls[p].starts # 0
                 PROVE  /\ thread'[data[p].handler].state = "reaped" <=> thread[data[p].handler].state = "reaped"
                        /\ p # o => thread'[data[p].handler].state = thread[data[p].handler].state
      OBVIOUS
    <3>1. data[p].handler \in Starts /\ thread[data[p].handler].of = p BY OwnThread
    <3>2. data[p].handler = k => p = o BY <3>1 DEF o
    <3> QED BY <1>1, <1>6, <3>1, <3>2
  <2>2. \A p \in Objects : p # o => data'[p].result = data[p].result BY <1>7
  <2>3. \A p \in Objects : data[p].result => data'[p].result BY <1>8, <2>2
  <2> QED BY <1>4, <1>8, <2>1, <2>2, <2>3 DEF Ordered, Joining
<1>12. Blocked'
  <2>1. \A j \in Starts : doing'[j] # Idle => thread'[j].state = "running"
    BY <1>1, <1>4, <1>6 DEF Ordered, Blocked
  <2>2. UsesStay BY <1>4, <1>6, <1>8 DEF UsesStay, Using, InWait
  <2>3. \A b \in Actor : \A p \in Objects : InCall(b, p)' BY <2>2, UsesKept
  <2> QED BY <1>4, <2>1, <2>3 DEF Ordered, Blocked
<1> QED BY <1>4, <1>9, <1>10, <1>11, <1>12 DEF Ordered

\* The main thread ends when every thread was waited for, or its object dropped.
LEMMA MainEndsOrdered ==
  ASSUME SyncType, ObjectType, Ordered, ~lost, MainEnds, breach' = {}
  PROVE  Ordered' /\ ~lost'
<1> USE DEF State
<1>1. ~\E o \in Objects : Unwaited(o) BY BreakFacts DEF MainEnds
<1>2. over' = TRUE /\ doing[Main] = Idle /\ UNCHANGED <<doing, data, thread, deleted, calls, lost>>
  BY DEF MainEnds, AtEnd, objVars
<1>3. \A k \in Starts : thread[k].state \in {"none", "reaped"}
  <2> SUFFICES ASSUME NEW k \in Starts, thread[k].state # "none" PROVE thread[k].state = "reaped"
    OBVIOUS
  <2>1. PICK o \in Objects : calls[o].starts = 1 /\ data[o].handler = k BY DEF Ordered, Ownership
  <2>2. calls[o].waited \/ ~data[o].alive BY <1>1, <2>1 DEF Unwaited
  <2> QED BY <2>1, <2>2 DEF Ordered, Joining
<1>4. Ownership' /\ Joining' BY <1>2 DEF Ordered, Ownership, Joining
<1>5. Lifecycle' BY <1>2, <1>3 DEF Ordered, Lifecycle
<1>6. Blocked'
  <2>1. UsesStay BY <1>2 DEF UsesStay, Using, InWait
  <2>2. \A b \in Actor : \A p \in Objects : InCall(b, p)' BY <2>1, UsesKept
  <2> QED BY <1>2, <2>2, CallFacts DEF Ordered, Blocked, Idle
<1> QED BY <1>2, <1>4, <1>5, <1>6 DEF Ordered

-------------------------------------------------------------------------------
(* Every step, in order or not, keeps the types and the numbers of starts. *)

\* Threads that were made stay the threads of their objects.
SameStarts ==
  /\ thread' \in [Starts -> Made1]
  /\ \A k \in Starts : /\ thread'[k].of = thread[k].of
                       /\ thread'[k].state = "none" <=> thread[k].state = "none"

LEMMA SameStartsKeeps ==
  ASSUME ObjectType, SameStarts, data' \in [Objects -> ThreadData],
         calls' \in [Objects -> [starts : Nat, waited : BOOLEAN]],
         over' \in BOOLEAN, lost' \in BOOLEAN
  PROVE  ObjectType' /\ (Numbered => Numbered')
<1>1. ObjectType' BY DEF ObjectType, SameStarts, State
<1>2. Numbered => Numbered' BY DEF Numbered, SameStarts, State
<1> QED BY <1>1, <1>2

LEMMA UnchangedThreads ==
  ASSUME ObjectType, thread' = thread
  PROVE  SameStarts
  BY DEF ObjectType, SameStarts

LEMMA Moved ==
  ASSUME ObjectType, NEW h, NEW s \in Alive \cup Past, State(h) # "none",
         thread' = [thread EXCEPT ![h].state = s]
  PROVE  SameStarts
<1>1. CASE h \in Starts BY <1>1 DEF ObjectType, Made1, SameStarts, State, Alive, Past
<1>2. CASE h \notin Starts
  <2>1. thread' = thread BY <1>2 DEF ObjectType
  <2> QED BY <2>1, UnchangedThreads
<1> QED BY <1>1, <1>2

LEMMA Reaped ==
  ASSUME ObjectType, NEW h, ~Garbage(h), Reap(h)
  PROVE  SameStarts
<1>1. CASE State(h) = "ended"
  <2>1. thread' = [thread EXCEPT ![h].state = "reaped"]
    <3>1. thread[h].state = "ended" BY <1>1 DEF State
    <3> QED BY <3>1 DEF Reap
  <2> QED BY <1>1, <2>1, Moved DEF Past
<1>2. CASE State(h) # "ended"
  <2>1. thread' = thread BY <1>2 DEF Reap, State, ObjectType, Made1
  <2> QED BY <2>1, UnchangedThreads
<1> QED BY <1>1, <1>2

LEMMA Updated ==
  ASSUME ObjectType, NEW o \in Objects, NEW d, data' = [data EXCEPT ![o] = d], data[o] \in ThreadData => d \in ThreadData
  PROVE  data' \in [Objects -> ThreadData]
  BY DEF ObjectType

LEMMA StartTyped ==
  ASSUME SyncType, ObjectType, NEW a \in Actor, NEW o \in Objects, Start(a, o)
  PROVE  ObjectType' /\ (Numbered => Numbered')
<1>1. over' \in BOOLEAN /\ lost' \in BOOLEAN BY DEF Start, ObjectType, Orphan
<1>2. CASE ~data[o].entry
  <2>1. UNCHANGED <<data, thread, calls>> BY <1>2 DEF Start
  <2> QED BY <1>1, <2>1, UnchangedThreads, SameStartsKeeps DEF ObjectType
<1>3. CASE data[o].entry
  <2> DEFINE k == Made + 1
  <2>1. Made < MaxStarts /\ Made \in Int
    <3>1. IsFiniteSet(Starts) BY BoundsAssumption, FS_Interval DEF Starts
    <3>2. IsFiniteSet({j \in Starts : State(j) # "none"}) BY <3>1, FS_Subset
    <3>3. Made \in Nat BY <3>2, FS_CardinalityType DEF Made
    <3>4. Made < MaxStarts BY <1>3 DEF Start
    <3> QED BY <3>3, <3>4
  <2>2. /\ data' = [data EXCEPT ![o] = [data[o] EXCEPT !.vm = k, !.handler = k, !.running = TRUE]]
        /\ thread' = [thread EXCEPT ![k] = [state |-> "ready", of |-> o, vm |-> None]]
        /\ calls' = [calls EXCEPT ![o].starts = @ + 1]
    BY <1>3 DEF Start, Upd
  <2>3. k \in Int BY <2>1
  <2>4. Numbered => Numbered'
    <3> SUFFICES ASSUME Numbered PROVE Numbered'
      OBVIOUS
    <3>1. Made \in 0 .. MaxStarts /\ \A j \in Starts : State(j) # "none" <=> j <= Made BY MadeIs
    <3>2. k \in 0 .. MaxStarts BY <2>1, <3>1, BoundsAssumption
    <3>3. \A j \in Starts : thread'[j].state # "none" <=> j <= k
      <4> SUFFICES ASSUME NEW j \in Starts PROVE thread'[j].state # "none" <=> j <= k
        OBVIOUS
      <4>1. j \in Int BY StartFacts
      <4>2. CASE j = k BY <2>2, <2>3, <4>2 DEF ObjectType
      <4>3. CASE j # k
        <5>1. thread'[j] = thread[j] BY <2>2, <4>3 DEF ObjectType
        <5>2. j <= k <=> j <= Made BY <2>1, <4>1, <4>3
        <5> QED BY <3>1, <5>1, <5>2 DEF State
      <4> QED BY <4>2, <4>3
    <3> HIDE DEF k
    <3> QED BY <3>2, <3>3 DEF Numbered, State
  <2> HIDE DEF k
  <2>5. data' \in [Objects -> ThreadData]
    <3>1. data[o] \in ThreadData =>
            [data[o] EXCEPT !.vm = k, !.handler = k, !.running = TRUE] \in ThreadData
      BY <2>3 DEF ThreadData
    <3> QED BY <2>2, <3>1, Updated
  <2>6. [state |-> "ready", of |-> o, vm |-> None] \in Made1
    BY ObjectsAssumption DEF Made1, Alive, None
  <2>7. /\ thread' \in [Starts -> Made1]
        /\ \A j \in Starts : thread'[j].state # "none" => thread'[j].of \in Objects
    BY <2>2, <2>6 DEF ObjectType, State
  <2>8. calls' \in [Objects -> [starts : Nat, waited : BOOLEAN]] BY <2>2 DEF ObjectType
  <2>9. ObjectType' BY <1>1, <2>5, <2>7, <2>8 DEF ObjectType, State
  <2> QED BY <2>4, <2>9
<1> QED BY <1>2, <1>3

LEMMA ObjectTyped ==
  ASSUME SyncType, ObjectType, NEW a \in Actor, NEW o \in Objects, OnObject(a, o)
  PROVE  ObjectType' /\ (Numbered => Numbered')
<1> DEFINE CallsTyped == calls' \in [Objects -> [starts : Nat, waited : BOOLEAN]]
           DataTyped  == data' \in [Objects -> ThreadData]
<1>1. a \in Int /\ Nobody \in Int BY StartFacts
<1>2. over \in BOOLEAN /\ lost \in BOOLEAN /\ Orphan(a) \in BOOLEAN BY DEF ObjectType, Orphan
<1>3. ASSUME UNCHANGED <<data, thread>>, over' = over, lost' \in BOOLEAN, CallsTyped
      PROVE  ObjectType' /\ (Numbered => Numbered')
  BY <1>2, <1>3, UnchangedThreads, SameStartsKeeps DEF ObjectType
<1>4. /\ calls' = calls => CallsTyped
      /\ \A w \in BOOLEAN : calls' = [calls EXCEPT ![o].waited = w] => CallsTyped
      /\ data' = data => DataTyped
  BY DEF ObjectType
<1>5. \A r, j, v \in BOOLEAN : \A l \in Int :
         data[o] \in ThreadData =>
           [data[o] EXCEPT !.running = r, !.joined = j, !.alive = v, !.lock = l] \in ThreadData
  BY DEF ThreadData
<1>6. CASE Start(a, o) BY <1>6, StartTyped
<1>7. CASE Wait(a, o) BY <1>2, <1>3, <1>4, <1>7 DEF Wait, objVars
<1>14. CASE WaitLocks(a, o)
  <2>1. over' = over BY <1>14 DEF WaitLocks
  <2>2. CASE ~data[o].alive \/ Orphan(a)
    BY <1>3, <1>4, <1>14, <2>1, <2>2 DEF WaitLocks, Undefined, objVars
  <2>3. CASE ~(~data[o].alive \/ Orphan(a)) /\ data[o].joined
    <3>1. calls' = [calls EXCEPT ![o].waited = TRUE] /\ UNCHANGED <<data, thread, lost>>
      BY <1>14, <2>3 DEF WaitLocks
    <3> QED BY <1>2, <1>3, <1>4, <2>1, <3>1
  <2>4. CASE ~(~data[o].alive \/ Orphan(a)) /\ ~data[o].joined
    <3>1. /\ calls' = calls /\ data' = [data EXCEPT ![o] = [data[o] EXCEPT !.lock = a]]
          /\ UNCHANGED <<thread, lost>>
      BY <1>14, <2>4 DEF WaitLocks, Upd
    <3>2. data[o] \in ThreadData => [data[o] EXCEPT !.lock = a] \in ThreadData BY <1>1 DEF ThreadData
    <3>3. DataTyped BY <3>1, <3>2, Updated
    <3> QED BY <1>2, <1>4, <2>1, <3>1, <3>3, UnchangedThreads, SameStartsKeeps
  <2> QED BY <2>2, <2>3, <2>4
<1>8. CASE WaitJoins(a, o)
  <2>1. over' = over BY <1>8 DEF WaitJoins
  <2> DEFINE Bad == Misjoined(a, data[o].handler) \/ ~data[o].alive \/ Orphan(a)
  <2>2. CASE Bad
    BY <1>3, <1>4, <1>8, <2>1, <2>2 DEF WaitJoins, Undefined, objVars
  <2>3. CASE ~Bad
    <3>1. /\ Reap(data[o].handler) /\ lost' = lost
          /\ data' = [data EXCEPT ![o] = [data[o] EXCEPT !.joined = TRUE, !.running = FALSE, !.lock = Nobody]]
          /\ calls' = [calls EXCEPT ![o].waited = TRUE]
      BY <1>8, <2>3 DEF WaitJoins, Upd
    <3>2. data[o] \in ThreadData =>
            [data[o] EXCEPT !.joined = TRUE, !.running = FALSE, !.lock = Nobody] \in ThreadData
      BY <1>1 DEF ThreadData
    <3>3. DataTyped BY <3>1, <3>2, Updated
    <3>4. SameStarts BY <2>3, <3>1, Reaped DEF Misjoined
    <3> QED BY <1>2, <1>4, <2>1, <3>1, <3>3, <3>4, SameStartsKeeps
  <2> QED BY <2>2, <2>3
<1>9. CASE GetResult(a, o) BY <1>2, <1>3, <1>4, <1>9 DEF GetResult, Undefined, objVars
<1>10. CASE Drop(a, o) BY <1>2, <1>3, <1>4, <1>10 DEF Drop, Dtor, objVars
<1>11. CASE DtorJoins(a, o)
  <2>1. over' = over /\ calls' = calls BY <1>11 DEF DtorJoins
  <2>2. CASE Misjoined(a, data[o].handler)
    BY <1>3, <1>4, <1>11, <2>1, <2>2 DEF DtorJoins, Undefined, objVars
  <2>3. CASE ~Misjoined(a, data[o].handler)
    <3>1. /\ Reap(data[o].handler) /\ lost' = lost
          /\ data' = [data EXCEPT ![o] = [data[o] EXCEPT !.running = FALSE, !.alive = FALSE]]
      BY <1>11, <2>3 DEF DtorJoins, Upd
    <3>2. data[o] \in ThreadData => [data[o] EXCEPT !.running = FALSE, !.alive = FALSE] \in ThreadData
      BY DEF ThreadData
    <3>3. DataTyped BY <3>1, <3>2, Updated
    <3>4. SameStarts BY <2>3, <3>1, Reaped DEF Misjoined
    <3> QED BY <1>2, <1>4, <2>1, <3>1, <3>3, <3>4, SameStartsKeeps
  <2> QED BY <2>2, <2>3
<1>12. CASE DtorFrees(a, o)
  <2>1. /\ data' = [data EXCEPT ![o] = [data[o] EXCEPT !.alive = FALSE]]
        /\ UNCHANGED <<thread, calls, over, lost>>
    BY <1>12 DEF DtorFrees, Upd
  <2>2. data[o] \in ThreadData => [data[o] EXCEPT !.alive = FALSE] \in ThreadData BY DEF ThreadData
  <2>3. DataTyped BY <2>1, <2>2, Updated
  <2> QED BY <1>2, <1>4, <2>1, <2>3, UnchangedThreads, SameStartsKeeps
<1>13. CASE CThreadDtor(a, o)
  <2>1. over' = over /\ calls' = calls BY <1>13 DEF CThreadDtor
  <2>2. CASE Misjoined(a, data[o].handler)
    BY <1>3, <1>4, <1>13, <2>1, <2>2 DEF CThreadDtor, Undefined, objVars
  <2>3. CASE ~Misjoined(a, data[o].handler)
    <3>1. Reap(data[o].handler) /\ lost' = lost /\ data' = data
      BY <1>13, <2>3 DEF CThreadDtor
    <3>2. SameStarts BY <2>3, <3>1, Reaped DEF Misjoined
    <3> QED BY <1>2, <1>4, <2>1, <3>1, <3>2, SameStartsKeeps
  <2> QED BY <2>2, <2>3
<1> QED BY <1>6, <1>7, <1>8, <1>9, <1>10, <1>11, <1>12, <1>13, <1>14 DEF OnObject

LEMMA HandlerTyped ==
  ASSUME SyncType, ObjectType, NEW k \in Starts, Handler(k)
  PROVE  ObjectType' /\ (Numbered => Numbered')
<1>1. over \in BOOLEAN /\ lost \in BOOLEAN BY DEF ObjectType
<1>2. ASSUME UNCHANGED <<data, thread, calls, over>>, lost' \in BOOLEAN
      PROVE  ObjectType' /\ (Numbered => Numbered')
  BY <1>1, <1>2, UnchangedThreads, SameStartsKeeps DEF ObjectType
<1>3. ASSUME Undefined PROVE UNCHANGED <<data, thread>> /\ lost' \in BOOLEAN
  BY <1>3 DEF Undefined, objVars
<1>4. CASE HandlerBegins(k)
  <2>1. State(k) = "ready" /\ UNCHANGED <<calls, over>> BY <1>4 DEF HandlerBegins
  <2>2. CASE Undefined BY <1>2, <1>3, <2>1, <2>2
  <2>3. CASE ~Undefined
    <3>1. /\ thread' = [thread EXCEPT ![k].state = "running", ![k].vm = data[thread[k].of].vm]
          /\ UNCHANGED <<data, lost>>
      BY <1>4, <2>3 DEF HandlerBegins
    <3>2. data[thread[k].of].vm \in Int BY <2>1 DEF ObjectType, ThreadData
    <3>3. SameStarts
      <4>1. thread[k] \in Made1 BY DEF ObjectType
      <4>2. \A v \in Int : [thread[k] EXCEPT !.state = "running", !.vm = v] \in Made1
        BY <4>1 DEF Made1, Alive
      <4> DEFINE v == data[thread[k].of].vm
      <4>3. /\ thread' \in [Starts -> Made1]
            /\ thread'[k].of = thread[k].of /\ thread'[k].state = "running"
            /\ \A j \in Starts : j # k => thread'[j] = thread[j]
        <5>1. thread' = [thread EXCEPT ![k] = [thread[k] EXCEPT !.state = "running", !.vm = v]]
          BY <3>1 DEF ObjectType
        <5> HIDE DEF v
        <5>2. [thread[k] EXCEPT !.state = "running", !.vm = v] \in Made1 BY <3>2, <4>2 DEF v
        <5> QED BY <4>1, <5>1, <5>2 DEF ObjectType, Made1
      <4> QED BY <2>1, <4>3 DEF SameStarts, State
    <3> QED BY <1>1, <2>1, <3>1, <3>3, SameStartsKeeps DEF ObjectType
  <2> QED BY <2>2, <2>3
<1>5. CASE HandlerEnds(k)
  <2>1. State(k) = "running" /\ UNCHANGED <<calls, over>> BY <1>5 DEF HandlerEnds
  <2>2. CASE Undefined BY <1>2, <1>3, <2>1, <2>2
  <2>3. CASE ~Undefined
    <3> DEFINE o == thread[k].of
    <3>1. /\ data' = [data EXCEPT ![o] = [data[o] EXCEPT !.result = TRUE]]
          /\ thread' = [thread EXCEPT ![k].state = "ended"] /\ lost' = lost
      BY <1>5, <2>3 DEF HandlerEnds, Upd
    <3>2. o \in Objects BY <2>1 DEF ObjectType
    <3> HIDE DEF o
    <3>3. data[o] \in ThreadData => [data[o] EXCEPT !.result = TRUE] \in ThreadData BY DEF ThreadData
    <3>4. data' \in [Objects -> ThreadData] BY <3>1, <3>2, <3>3, Updated
    <3>5. SameStarts BY <2>1, <3>1, Moved DEF Past
    <3> QED BY <1>1, <2>1, <3>1, <3>4, <3>5, SameStartsKeeps DEF ObjectType
  <2> QED BY <2>2, <2>3
<1>6. CASE HandlerFails(k) BY <1>2, <1>3, <1>6 DEF HandlerFails
<1> QED BY <1>4, <1>5, <1>6 DEF Handler

LEMMA NextTyped ==
  ASSUME SyncType, ObjectType, Next
  PROVE  ObjectType' /\ (Numbered => Numbered')
<1>1. over \in BOOLEAN /\ lost \in BOOLEAN /\ \A a \in Actor : Orphan(a) \in BOOLEAN BY DEF ObjectType, Orphan
<1>2. ASSUME UNCHANGED <<data, thread, calls>>, over' \in BOOLEAN, lost' \in BOOLEAN
      PROVE  ObjectType' /\ (Numbered => Numbered')
  BY <1>2, UnchangedThreads, SameStartsKeeps DEF ObjectType
<1>3. ASSUME NEW a \in Actor, OnLocks(a) \/ Skip(a)
      PROVE  UNCHANGED <<data, thread, calls, over>> /\ lost' \in BOOLEAN
  BY <1>1, <1>3 DEF OnLocks, Lock, TryLock, Unlock, CondWait, Signal, Broadcast, CondReturns, NextIDLocks,
                    NextIDReads, NextIDWrites, SetID, Skip, Undefined, objVars
<1>4. ASSUME NEW a \in Actor, Step(a) PROVE ObjectType' /\ (Numbered => Numbered')
  BY <1>1, <1>2, <1>3, <1>4, ObjectTyped DEF Step
<1>5. CASE MainEnds BY <1>1, <1>2, <1>5 DEF MainEnds, objVars
<1>6. ASSUME NEW o \in Objects, ShutdownDrops(o) PROVE ObjectType' /\ (Numbered => Numbered')
  BY <1>1, <1>2, <1>6, StartFacts DEF ShutdownDrops, Dtor, objVars
<1> QED BY <1>4, <1>5, <1>6, HandlerTyped DEF Next

-------------------------------------------------------------------------------
LEMMA InitOrder == Init => OrderInv
<1> SUFFICES ASSUME Init PROVE OrderInv
  OBVIOUS
<1> USE DEF State
<1>1. SyncType BY InitSync DEF SyncInv
<1>2. /\ \A k \in Starts : thread[k] = [state |-> "none", of |-> None, vm |-> None]
      /\ \A o \in Objects : data[o] = Unstarted(o) /\ calls[o] = [starts |-> 0, waited |-> FALSE]
      /\ \A a \in Actor : doing[a] = Idle
      /\ deleted = {} /\ over = FALSE /\ lost = FALSE
  BY DEF Init
<1>3. ObjectType
  <2>1. \A o \in Objects : Unstarted(o) \in ThreadData BY StartFacts DEF Unstarted, ThreadData
  <2>2. [state |-> "none", of |-> None, vm |-> None] \in Made1 BY StartFacts DEF Made1
  <2>3. data \in [Objects -> ThreadData] BY <2>1 DEF Init
  <2>4. thread \in [Starts -> Made1] BY <2>2 DEF Init
  <2>5. calls \in [Objects -> [starts : Nat, waited : BOOLEAN]] BY DEF Init
  <2>6. \A k \in Starts : thread[k].state = "none" BY <1>2
  <2>7. over \in BOOLEAN /\ lost \in BOOLEAN BY <1>2
  <2> QED BY <2>3, <2>4, <2>5, <2>6, <2>7 DEF ObjectType
<1>4. Numbered
  <2>1. 0 \in 0 .. MaxStarts /\ \A k \in Starts : ~(k <= 0) BY BoundsAssumption DEF Starts
  <2> QED BY <1>2, <2>1 DEF Numbered
<1>5. Ownership BY <1>2 DEF Ownership
<1>6. Lifecycle BY <1>2 DEF Lifecycle, Past
<1>7. Joining
  <2>1. \A o \in Objects : /\ data[o].joined = Unstarted(o).joined
                            /\ calls[o].starts = 0 /\ calls[o].waited = FALSE
    BY <1>2
  <2>2. \A o \in Objects : Unstarted(o).joined = FALSE BY DEF Unstarted
  <2> QED BY <2>1, <2>2 DEF Joining
<1>8. Blocked
  <2>1. Idle.op = "idle" BY CallFacts DEF Idle
  <2>2. \A a \in Actor : doing[a].op = "idle" BY <1>2, <2>1
  <2>3. \A a \in Actor : \A o \in Objects : ~Using(a, o) BY <1>2, UsingFacts
  <2>4. \A a \in Actor : \A o \in Objects : InCall(a, o) BY <2>3 DEF InCall, Using, InWait
  <2> QED BY <1>2, <2>1, <2>2, <2>4, StartFacts DEF Blocked, Inside
<1> QED BY <1>1, <1>2, <1>3, <1>4, <1>5, <1>6, <1>7, <1>8 DEF OrderInv, Ordered

LEMMA NextOrdered ==
  ASSUME SyncType, ObjectType, Numbered, Ordered, ~lost, Next, breach' = {}
  PROVE  Ordered' /\ ~lost'
<1>1. ASSUME NEW a \in Actor, NEW o \in Objects, OnObject(a, o) PROVE Ordered' /\ ~lost'
  <2>1. CASE Start(a, o)     BY <2>1, StartOrdered
  <2>2. CASE Wait(a, o)      BY <2>2, WaitOrdered
  <2>9. CASE WaitLocks(a, o) BY <2>9, WaitLocksOrdered
  <2>3. CASE WaitJoins(a, o) BY <2>3, WaitJoinsOrdered
  <2>4. CASE GetResult(a, o) BY <2>4, GetResultOrdered
  <2>5. CASE Drop(a, o)      BY <2>5, ActiveFacts, DtorOrdered DEF Drop, Calls
  <2>6. CASE DtorJoins(a, o) BY <2>6, DtorJoinsOrdered
  <2>7. CASE DtorFrees(a, o) BY <2>7, DtorFreesOrdered
  <2>8. CASE CThreadDtor(a, o) BY <2>8 DEF CThreadDtor, In, Ordered, Blocked, InCall, Using
  <2> QED BY <1>1, <2>1, <2>2, <2>3, <2>4, <2>5, <2>6, <2>7, <2>8, <2>9 DEF OnObject
<1>2. ASSUME NEW a \in Actor, Step(a) PROVE Ordered' /\ ~lost'
  BY <1>1, <1>2, LocksOrdered DEF Step
<1>3. ASSUME NEW k \in Starts, Handler(k) PROVE Ordered' /\ ~lost'
  <2>1. CASE HandlerBegins(k) BY <2>1, HandlerBeginsOrdered
  <2>2. CASE HandlerEnds(k)   BY <2>2, HandlerEndsOrdered
  <2>3. CASE HandlerFails(k)  BY <2>3, BreakFacts DEF HandlerFails
  <2> QED BY <1>3, <2>1, <2>2, <2>3 DEF Handler
<1>4. CASE MainEnds BY <1>4, MainEndsOrdered
<1>5. ASSUME NEW o \in Objects, ShutdownDrops(o) PROVE Ordered' /\ ~lost'
  BY <1>5, StartFacts, DtorOrdered DEF ShutdownDrops, Mover, Orphan
<1> QED BY <1>2, <1>3, <1>4, <1>5 DEF Next

\* The history of broken rules only grows.
LEMMA BreachGrows ==
  ASSUME Next, breach' = {}
  PROVE  breach = {}
<1>1. ASSUME NEW how, NEW when, Break(how, when) PROVE breach = {} BY <1>1 DEF Break
<1>2. ASSUME NEW a \in Actor, Step(a) PROVE breach = {}
  <2>1. ASSUME OnLocks(a) PROVE breach = {}
    BY <1>1, <2>1 DEF OnLocks, Lock, TryLock, Unlock, CondWait, Signal, Broadcast, CondReturns, NextIDLocks,
                      NextIDReads, NextIDWrites, SetID
  <2>2. ASSUME NEW o \in Objects, OnObject(a, o) PROVE breach = {}
    BY <1>1, <2>2 DEF OnObject, Start, Wait, WaitLocks, WaitJoins, GetResult, Drop, Dtor, DtorJoins, DtorFrees, CThreadDtor
  <2> QED BY <1>2, <2>1, <2>2 DEF Step, Skip
<1>3. ASSUME NEW k \in Starts, Handler(k) PROVE breach = {}
  BY <1>1, <1>3 DEF Handler, HandlerBegins, HandlerEnds, HandlerFails
<1> QED BY <1>1, <1>2, <1>3 DEF Next, MainEnds, ShutdownDrops, Dtor

LEMMA OrderKept == SyncInv /\ OrderInv /\ [Next]_vars => OrderInv'
<1> SUFFICES ASSUME SyncInv, OrderInv, [Next]_vars PROVE OrderInv'
  OBVIOUS
<1>1. SyncType' BY NextKeeps DEF SyncInv
<1>2. CASE UNCHANGED vars
  <2>1. ObjectType' /\ Numbered' BY <1>2 DEF OrderInv, ObjectType, Numbered, State, vars
  <2>2. breach' = breach /\ lost' = lost BY <1>2 DEF vars
  <2>3. Ordered => Ordered'
    <3>1. \A k \in Starts : thread'[k] = thread[k] BY <1>2 DEF vars
    <3>2. Ordered => Ownership' /\ Lifecycle' /\ Joining'
      BY <1>2 DEF Ordered, Ownership, Lifecycle, Joining, State, vars
    <3>3. Ordered => Blocked'
      <4> SUFFICES ASSUME Ordered PROVE Blocked'
        OBVIOUS
      <4>1. UsesStay BY <1>2 DEF UsesStay, Using, InWait, vars
      <4>2. \A b \in Actor : \A p \in Objects : InCall(b, p)' BY <4>1, UsesKept
      <4> QED BY <1>2, <4>2 DEF Ordered, Blocked, State, vars
    <3> QED BY <3>2, <3>3 DEF Ordered
  <2> QED BY <1>1, <2>1, <2>2, <2>3 DEF OrderInv
<1>3. CASE Next
  <2>1. ObjectType' /\ Numbered' BY <1>3, NextTyped DEF OrderInv
  <2>2. breach' = {} => ~lost' /\ Ordered' BY <1>3, BreachGrows, NextOrdered DEF OrderInv
  <2> QED BY <1>1, <2>1, <2>2 DEF OrderInv
<1> QED BY <1>2, <1>3

LEMMA OrderHolds == Spec => []OrderInv
<1>1. Init => SyncInv /\ OrderInv BY InitSync, InitOrder
<1>2. SyncInv /\ OrderInv /\ [Next]_vars => (SyncInv /\ OrderInv)' BY NextKeeps, OrderKept
<1> QED BY <1>1, <1>2, PTL DEF Spec

\* For any number of threads, objects and starts, and whatever each thread
\* calls in whatever order: only a script that breaks one of the rules
\* `breach' names joins a thread twice or one that was never made, runs on a
\* deleted VM, uses a freed object or reads a null result
\* (modules/std/concurrent/thread.cc:22-128, core/cthread.h:54-58).
THEOREM OnlyBreachIsUndefined == Spec => []UndefinedOnlyByBreach
<1>1. OrderInv => UndefinedOnlyByBreach BY DEF OrderInv, UndefinedOnlyByBreach
<1> QED BY <1>1, OrderHolds, PTL

\* While no rule is broken, whoever comes back from Thread.wait finds the
\* thread joined, its VM deleted and its result stored, also when the join was
\* done for another thread that waits (modules/std/concurrent/thread.cc:103-119).
THEOREM WaitFindsTheEnd == Spec => []WaitMeansEnded
<1>1. OrderInv => WaitMeansEnded
  <2> SUFFICES ASSUME OrderInv, breach = {}, NEW o \in Objects, calls[o].waited
               PROVE  /\ \A k \in Starts : thread[k].of = o => State(k) = "reaped" /\ thread[k].vm \in deleted
                      /\ data[o].result
    BY DEF WaitMeansEnded
  <2>1. Ordered BY DEF OrderInv
  <2>2. calls[o].starts = 1 /\ data[o].joined BY <2>1 DEF Ordered, Joining
  <2>3. State(data[o].handler) = "reaped" /\ data[o].result BY <2>1, <2>2 DEF Ordered, Joining, Past
  <2>4. \A k \in Starts : thread[k].of = o => k = data[o].handler BY <2>1, <2>2, OwnThread
  <2>5. \A k \in Starts : State(k) = "reaped" => thread[k].vm = k /\ k \in deleted
    BY <2>1 DEF Ordered, Lifecycle, Past
  <2> QED BY <2>3, <2>4, <2>5
<1> QED BY <1>1, OrderHolds, PTL
===============================================================================
