----------------------------- MODULE EventsProofs -----------------------------
(***************************************************************************)
(* Proofs about an Events object.  For every script its state is well      *)
(* typed, and the three queues of the handler stay in step.  To every      *)
(* script that keeps the rules it delivers what is due: DeliveryInv is the *)
(* inductive invariant, and the object then implements the abstract        *)
(* mailbox of module Delivery.                                             *)
(***************************************************************************)
EXTENDS EventsProperties, SequenceFacts

LEMMA NamesDiffer ==
  /\ "set" \in Name /\ "exit" \in Name /\ Event \subseteq Name
  /\ "none" \notin Name /\ "set" \notin Event /\ "exit" \notin Event
  BY EventAssumption DEF Name

LEMMA WaitEndCall == WaitEnd.call = "wait"
  BY DEF WaitEnd

\* A thread that makes a call has it at the head of its script.
LEMMA HeadCall ==
  ASSUME TypeOK, NEW u \in User, NEW k, k # "wait", Makes(u, k)
  PROVE  /\ Calling(u) \in Calls /\ WellTyped(Calling(u)) /\ Calling(u).call = k
         /\ Tail(todo[u]) \in Seq(Calls \cup {WaitEnd})
<1>1. todo[u] \in Seq(Calls \cup {WaitEnd}) /\ todo[u] # <<>> /\ Head(todo[u]).call = k
  BY DEF TypeOK, Makes
<1>2. Head(todo[u]) \in Calls \cup {WaitEnd} /\ Tail(todo[u]) \in Seq(Calls \cup {WaitEnd})
  BY <1>1
<1>3. Head(todo[u]) \in Calls
  BY <1>1, <1>2, WaitEndCall
<1> QED BY <1>1, <1>2, <1>3, CallAssumption DEF Calling

LEMMA ReturnsType ==
  ASSUME TypeOK, NEW u \in User, todo[u] # <<>>, Returns(u)
  PROVE  todo' \in [User -> Seq(Calls \cup {WaitEnd})]
<1>1. todo[u] \in Seq(Calls \cup {WaitEnd}) BY DEF TypeOK
<1>2. Tail(todo[u]) \in Seq(Calls \cup {WaitEnd}) BY <1>1
<1> QED BY <1>2 DEF TypeOK, Returns

LEMMA RunsOfType ==
  ASSUME NEW as \in Seq(Action), NEW x \in Arg
  PROVE  RunsOf(as, x) \in Seq(Run) /\ Len(RunsOf(as, x)) = Len(as)
<1>1. DOMAIN as = 1 .. Len(as) /\ Len(as) \in Nat /\ as \in [1 .. Len(as) -> Action]
  BY LenProperties
<1>2. RunsOf(as, x) \in [1 .. Len(as) -> Run]
  BY <1>1 DEF RunsOf, Run
<1> QED BY <1>1, <1>2, FunctionIsSeq

LEMMA ConcatType ==
  ASSUME NEW S, NEW s \in Seq(S), NEW t \in Seq(S)
  PROVE  s \o t \in Seq(S)
  OBVIOUS

LEMMA RequisitionFacts ==
  ASSUME NEW r \in Requisition
  PROVE  DOMAIN r \subseteq Key /\ r \in [DOMAIN r -> Val]
  BY DEF Requisition

LEMMA FirstKeyType ==
  ASSUME NEW r \in Requisition, DOMAIN r # {}
  PROVE  FirstKey(r) \in DOMAIN r /\ FirstKey(r) \in Key
<1>1. DOMAIN r \subseteq Nat BY RequisitionFacts, KeyAssumption
<1>2. \E k \in DOMAIN r : \A l \in DOMAIN r : k <= l BY <1>1, LeastNat
<1>3. FirstKey(r) \in DOMAIN r BY <1>2 DEF FirstKey
<1> QED BY <1>3, RequisitionFacts

LEMMA MergeType ==
  ASSUME NEW s \in [Key -> Val], NEW r \in Requisition
  PROVE  Merge(s, r) \in [Key -> Val]
  BY RequisitionFacts DEF Merge

LEMMA MatchingType ==
  ASSUME required \in Seq([map : Requisition, action : Action]), NEW s, NEW k
  PROVE  Matching(s, k) \in Seq(Action)
<1> DEFINE ss == [i \in DOMAIN required |->
                    IF Matches(s, k, required[i].map) THEN <<required[i].action>> ELSE <<>>]
<1>1. /\ DOMAIN required = 1 .. Len(required) /\ Len(required) \in Nat
      /\ required \in [1 .. Len(required) -> [map : Requisition, action : Action]]
  BY LenProperties
<1>2. ASSUME NEW i \in DOMAIN required PROVE ss[i] \in Seq(Action)
  <2>1. required[i].action \in Action BY <1>1
  <2>2. CASE Matches(s, k, required[i].map) BY <2>1, <2>2
  <2>3. CASE ~Matches(s, k, required[i].map) BY <2>3
  <2> QED BY <2>2, <2>3
<1>3. ss \in Seq(Seq(Action))
  <2>1. ss \in [1 .. Len(required) -> Seq(Action)] BY <1>1, <1>2
  <2> HIDE DEF ss
  <2> QED BY <1>1, <2>1, FunctionIsSeq
<1> HIDE DEF ss
<1>4. FlattenSeq(ss) \in Seq(Action) BY <1>3, FlattenType
<1> QED BY <1>4, Zenon DEF Matching, ss
-------------------------------------------------------------------------------
(* Type correctness. *)

\* m_sets_queue and m_args_queue are always as long.
InStep == Len(sets) = Len(setArgs)

LEMMA InitType == Init => TypeOK /\ InStep
<1> SUFFICES ASSUME Init PROVE TypeOK /\ InStep
  OBVIOUS
<1>1. todo \in [User -> Seq(Calls \cup {WaitEnd})]
  <2>1. Scripts \cup {<<>>} \subseteq Seq(Calls \cup {WaitEnd})
    <3>1. ASSUME NEW s \in Scripts PROVE s \in Seq(Calls \cup {WaitEnd})
      <4>1. s \in Seq(Calls) BY ScriptAssumption
      <4> QED BY <4>1, SeqMonotonic
    <3>2. <<>> \in Seq(Calls \cup {WaitEnd}) BY EmptySeq
    <3> QED BY <3>1, <3>2
  <2> QED BY <2>1 DEF Init
<1>2. actions \in [Name -> Seq(Action)] /\ state \in [Key -> Val]
  BY KeyAssumption DEF Init
<1>3. /\ queue \in Seq(Signal) /\ sets \in Seq(Key) /\ setArgs \in Seq(Arg)
      /\ required \in Seq([map : Requisition, action : Action])
      /\ runs \in Seq(Run) /\ delivered \in Seq(Run)
      /\ history \in Seq([name : Name, due : Seq(Run)])
  BY EmptySeq DEF Init
<1> QED BY <1>1, <1>2, <1>3 DEF Init, TypeOK, InStep

\* What Enqueue leaves well typed.
LEMMA EnqueueType ==
  ASSUME TypeOK, NEW n \in Name, NEW x \in Arg, NEW d \in Seq(Run), Enqueue(n, x, d)
  PROVE  queue' \in Seq(Signal) /\ history' \in Seq([name : Name, due : Seq(Run)])
<1>1. [name |-> n, arg |-> x] \in Signal BY DEF Signal
<1>2. [name |-> n, due |-> d] \in [name : Name, due : Seq(Run)] OBVIOUS
<1> QED BY <1>1, <1>2, AppendProperties DEF TypeOK, Enqueue

LEMMA CallType ==
  ASSUME TypeOK, InStep, NEW u \in User, Call(u)
  PROVE  TypeOK' /\ InStep'
<1> USE DEF InStep
<1>1. CASE DoConnect(u)
  <2>1. Calling(u).name \in Name /\ Calling(u).action \in Action
    BY <1>1, HeadCall DEF DoConnect, WellTyped
  <2>2. actions' \in [Name -> Seq(Action)] BY <1>1, <2>1 DEF DoConnect, TypeOK
  <2>3. todo' \in [User -> Seq(Calls \cup {WaitEnd})] BY <1>1, ReturnsType DEF DoConnect, Makes
  <2> QED BY <1>1, <2>2, <2>3 DEF DoConnect, TypeOK, RacesWithHandler
<1>2. CASE DoRequire(u)
  <2>1. [map |-> Calling(u).map, action |-> Calling(u).action] \in [map : Requisition, action : Action]
    BY <1>2, HeadCall DEF DoRequire, WellTyped
  <2>2. required' \in Seq([map : Requisition, action : Action])
    BY <1>2, <2>1, AppendProperties DEF DoRequire, TypeOK
  <2>3. todo' \in [User -> Seq(Calls \cup {WaitEnd})] BY <1>2, ReturnsType DEF DoRequire, Makes
  <2> QED BY <1>2, <2>2, <2>3 DEF DoRequire, TypeOK, RacesWithHandler
<1>3. CASE DoEmit(u)
  <2> DEFINE e == Calling(u)
  <2>1. e.name \in Name /\ e.arg \in Arg BY <1>3, HeadCall DEF DoEmit, WellTyped
  <2>2. actions[e.name] \in Seq(Action) BY <2>1 DEF TypeOK
  <2>3. RunsOf(actions[e.name], e.arg) \in Seq(Run) BY <2>1, <2>2, RunsOfType
  <2>4. Enqueue(e.name, e.arg, RunsOf(actions[e.name], e.arg)) BY <1>3 DEF DoEmit
  <2>5. queue' \in Seq(Signal) /\ history' \in Seq([name : Name, due : Seq(Run)])
    BY <2>1, <2>3, <2>4, EnqueueType
  <2>6. todo' \in [User -> Seq(Calls \cup {WaitEnd})] BY <1>3, ReturnsType DEF DoEmit, Makes
  <2> QED BY <1>3, <2>5, <2>6 DEF DoEmit, TypeOK
<1>4. CASE DoSet(u)
  <2> DEFINE r == Calling(u).map
             x == Calling(u).arg
             s == Merge(state, r)
             d == RunsOf(actions["set"], x) \o RunsOf(Matching(s, FirstKey(r)), x)
  <2>1. r \in Requisition /\ x \in Arg BY <1>4, HeadCall DEF DoSet, WellTyped
  <2>2. todo' \in [User -> Seq(Calls \cup {WaitEnd})] BY <1>4, ReturnsType DEF DoSet, Makes
  <2>3. CASE DOMAIN r = {} BY <1>4, <2>2, <2>3 DEF DoSet, TypeOK
  <2>4. CASE DOMAIN r # {}
    <3>1. FirstKey(r) \in Key BY <2>1, <2>4, FirstKeyType
    <3>2. s \in [Key -> Val] BY <2>1, MergeType DEF TypeOK
    <3>3. actions["set"] \in Seq(Action) BY NamesDiffer DEF TypeOK
    <3>4. Matching(s, FirstKey(r)) \in Seq(Action) BY MatchingType DEF TypeOK
    <3>5. d \in Seq(Run) BY <2>1, <3>3, <3>4, RunsOfType, ConcatType
    <3>6. /\ Enqueue("set", x, d)
          /\ state' = s /\ sets' = Append(sets, FirstKey(r)) /\ setArgs' = Append(setArgs, x)
      BY <1>4, <2>4 DEF DoSet
    <3>7. queue' \in Seq(Signal) /\ history' \in Seq([name : Name, due : Seq(Run)])
      BY <2>1, <3>5, <3>6, EnqueueType, NamesDiffer
    <3>8. /\ sets' \in Seq(Key) /\ setArgs' \in Seq(Arg) /\ state' \in [Key -> Val]
          /\ Len(sets') = Len(sets) + 1 /\ Len(setArgs') = Len(setArgs) + 1
      BY <2>1, <3>1, <3>2, <3>6, AppendProperties DEF TypeOK
    <3> QED BY <1>4, <2>2, <2>4, <3>7, <3>8 DEF DoSet, TypeOK
  <2> QED BY <2>3, <2>4
<1>5. CASE DoFinalize(u)
  <2>1. Makes(u, "finalize") \/ Makes(u, "drop") BY <1>5 DEF DoFinalize
  <2>2. Tail(todo[u]) \in Seq(Calls \cup {WaitEnd}) BY <2>1, HeadCall
  <2>3. <<WaitEnd>> \o Tail(todo[u]) \in Seq(Calls \cup {WaitEnd}) BY <2>2
  <2>4. todo' \in [User -> Seq(Calls \cup {WaitEnd})] BY <1>5, <2>3 DEF DoFinalize, ToWait, TypeOK
  <2>5. actions["exit"] \in Seq(Action) BY NamesDiffer DEF TypeOK
  <2>6. RunsOf(actions["exit"], NoArgs) \in Seq(Run) BY <2>5, ArgAssumption, RunsOfType
  <2>7. queue' \in Seq(Signal) /\ history' \in Seq([name : Name, due : Seq(Run)])
    BY <1>5, <2>6, ArgAssumption, NamesDiffer, EnqueueType DEF DoFinalize
  <2> QED BY <1>5, <2>4, <2>7 DEF DoFinalize, TypeOK
<1>6. CASE DoDrop(u)
  <2>1. todo' \in [User -> Seq(Calls \cup {WaitEnd})] BY <1>6, ReturnsType DEF DoDrop, Makes
  <2> QED BY <1>6, <2>1 DEF DoDrop, TypeOK
<1>7. CASE DoWait(u)
  <2>1. todo' \in [User -> Seq(Calls \cup {WaitEnd})] BY <1>7, ReturnsType DEF DoWait, Makes
  <2> QED BY <1>7, <2>1 DEF DoWait, TypeOK
<1>8. CASE DoStart(u)
  <2>1. /\ Calling(u).user \in User /\ Calling(u).script \in Seq(Calls)
        /\ Tail(todo[u]) \in Seq(Calls \cup {WaitEnd})
    BY <1>8, HeadCall DEF DoStart, WellTyped
  <2>2. Calling(u).script \in Seq(Calls \cup {WaitEnd}) BY <2>1, SeqMonotonic
  <2>3. todo' \in [User -> Seq(Calls \cup {WaitEnd})] BY <1>8, <2>1, <2>2 DEF DoStart, TypeOK
  <2> QED BY <1>8, <2>3 DEF DoStart, TypeOK
<1>9. CASE DoJoin(u)
  <2>1. todo' \in [User -> Seq(Calls \cup {WaitEnd})] BY <1>9, ReturnsType DEF DoJoin, Makes
  <2> QED BY <1>9, <2>1 DEF DoJoin, TypeOK
<1> QED BY <1>1, <1>2, <1>3, <1>4, <1>5, <1>6, <1>7, <1>8, <1>9 DEF Call

LEMMA HandleType ==
  ASSUME TypeOK, InStep, Handle
  PROVE  TypeOK' /\ InStep'
<1> USE DEF InStep
<1>1. CASE Wake  BY <1>1 DEF Wake, TypeOK
<1>2. CASE Rest  BY <1>2 DEF Rest, TypeOK
<1>3. CASE Take
  <2>1. Head(queue) \in Signal /\ Tail(queue) \in Seq(Signal) BY <1>3 DEF Take, TypeOK
  <2>2. Head(queue).name \in Name /\ Head(queue).arg \in Arg BY <2>1 DEF Signal
  <2>3. actions[Head(queue).name] \in Seq(Action) BY <2>2 DEF TypeOK
  <2>4. runs' \in Seq(Run) BY <1>3, <2>2, <2>3, RunsOfType DEF Take
  <2> QED BY <1>3, <2>1, <2>2, <2>4 DEF Take, TypeOK
<1>4. CASE RunAction
  <2>1. Head(runs) \in Run /\ Tail(runs) \in Seq(Run) BY <1>4 DEF RunAction, TypeOK
  <2>2. delivered' \in Seq(Run) BY <1>4, <2>1 DEF RunAction, TypeOK
  <2> QED BY <1>4, <2>1, <2>2 DEF RunAction, TypeOK
<1>5. CASE End   BY <1>5 DEF End, TypeOK
<1>6. CASE TakeSet
  <2>1. CASE sets = <<>> BY <1>6, <2>1 DEF TakeSet, TypeOK
  <2>2. CASE sets # <<>>
    <3>1. setArgs # <<>> BY <2>2 DEF TypeOK
    <3>2. /\ Head(setArgs) \in Arg /\ Tail(setArgs) \in Seq(Arg) /\ Tail(sets) \in Seq(Key)
          /\ Len(Tail(setArgs)) = Len(setArgs) - 1 /\ Len(Tail(sets)) = Len(sets) - 1
      BY <2>2, <3>1, HeadTailProperties DEF TypeOK
    <3>3. Matching(state, Head(sets)) \in Seq(Action) BY MatchingType DEF TypeOK
    <3>4. /\ sets' = Tail(sets) /\ setArgs' = Tail(setArgs)
          /\ runs' = RunsOf(Matching(state, Head(sets)), Head(setArgs))
      BY <1>6, <2>2 DEF TakeSet
    <3>5. runs' \in Seq(Run) BY <3>2, <3>3, <3>4, RunsOfType
    <3> QED BY <1>6, <2>2, <3>2, <3>4, <3>5 DEF TakeSet, TypeOK
  <2> QED BY <2>1, <2>2
<1>7. CASE Again BY <1>7 DEF Again, TypeOK
<1> QED BY <1>1, <1>2, <1>3, <1>4, <1>5, <1>6, <1>7 DEF Handle

LEMMA NextType == TypeOK /\ InStep /\ [Next]_vars => TypeOK' /\ InStep'
<1> SUFFICES ASSUME TypeOK, InStep, [Next]_vars PROVE TypeOK' /\ InStep'
  OBVIOUS
<1>1. CASE UNCHANGED vars BY <1>1 DEF vars, TypeOK, InStep
<1>2. CASE Next BY <1>2, CallType, HandleType DEF Next
<1> QED BY <1>1, <1>2

\* The fields of EventData keep their types whatever the scripts do: in
\* particular the handler never takes a name without arguments from the two
\* queues of Events.set (events.cc:67-70).
THEOREM TypeCorrect == Spec => []TypeOK
<1>1. Init => TypeOK /\ InStep
  BY InitType
<1>2. TypeOK /\ InStep /\ [Next]_vars => TypeOK' /\ InStep'
  BY NextType
<1> QED BY <1>1, <1>2, PTL DEF Spec

-------------------------------------------------------------------------------
(* The lock and the queues. *)

\* The handler holds the mutex while it works, and has nothing in hand when it
\* does not.
HandlerInv ==
  /\ mutex = Handler <=> handler \in {"loop", "run"}
  /\ handler # "run" => runs = <<>>
  /\ handler \in {"asleep", "loop"} => current = "none"
  /\ handler = "ended" => current = "exit"

LEMMA CallKeepsHandler ==
  ASSUME NEW u \in User, Call(u)
  PROVE  UNCHANGED <<mutex, handler, runs, current, delivered>>
<1>1. CASE DoConnect(u)  BY <1>1 DEF DoConnect
<1>2. CASE DoRequire(u)  BY <1>2 DEF DoRequire
<1>3. CASE DoEmit(u)     BY <1>3 DEF DoEmit
<1>4. CASE DoSet(u)      BY <1>4 DEF DoSet
<1>5. CASE DoFinalize(u) BY <1>5 DEF DoFinalize
<1>6. CASE DoDrop(u)     BY <1>6 DEF DoDrop
<1>7. CASE DoWait(u)     BY <1>7 DEF DoWait
<1>8. CASE DoStart(u)    BY <1>8 DEF DoStart
<1>9. CASE DoJoin(u)     BY <1>9 DEF DoJoin
<1> QED BY <1>1, <1>2, <1>3, <1>4, <1>5, <1>6, <1>7, <1>8, <1>9 DEF Call

LEMMA HandlerNext == HandlerInv /\ [Next]_vars => HandlerInv'
<1> SUFFICES ASSUME HandlerInv, [Next]_vars PROVE HandlerInv'
  OBVIOUS
<1> USE DEF HandlerInv
<1>1. CASE UNCHANGED vars BY <1>1 DEF vars
<1>2. CASE \E u \in User : Call(u) BY <1>2, CallKeepsHandler
<1>3. CASE Wake      BY <1>3 DEF Wake, At
<1>4. CASE Rest      BY <1>4 DEF Rest, At, Free, Handler
<1>5. CASE Take      BY <1>5 DEF Take, At
<1>6. CASE RunAction BY <1>6 DEF RunAction, At
<1>7. CASE End       BY <1>7 DEF End, Ran, At, Free, Handler
<1>8. CASE TakeSet   BY <1>8 DEF TakeSet, Ran, At
<1>9. CASE Again     BY <1>9 DEF Again, Ran, At
<1> QED BY <1>1, <1>2, <1>3, <1>4, <1>5, <1>6, <1>7, <1>8, <1>9 DEF Next, Handle

LEMMA HandlerInit == Init => HandlerInv
  BY DEF Init, HandlerInv, Free, Handler

\* SetArgsIn collects from each signal.
PickArg == [s \in Signal |-> IF s.name = "set" THEN <<s.arg>> ELSE <<>>]

LEMMA PickArgType == PickArg \in [Signal -> Seq(Arg)]
<1> SUFFICES ASSUME NEW s \in Signal
             PROVE  (IF s.name = "set" THEN <<s.arg>> ELSE <<>>) \in Seq(Arg)
  BY DEF PickArg
<1>1. s.arg \in Arg BY DEF Signal
<1>2. CASE s.name = "set" BY <1>1, <1>2
<1>3. CASE s.name # "set" BY <1>3
<1> QED BY <1>2, <1>3

LEMMA SetArgsCollects ==
  ASSUME NEW q \in Seq(Signal)
  PROVE  SetArgsIn(q) = Collect(q, PickArg)
<1>1. DOMAIN q = 1 .. Len(q) /\ q \in [1 .. Len(q) -> Signal]
  BY LenProperties
<1>2. [i \in DOMAIN q |-> IF q[i].name = "set" THEN <<q[i].arg>> ELSE <<>>] = Map(q, PickArg)
  BY <1>1 DEF Map, PickArg
<1> QED BY <1>2, Zenon DEF SetArgsIn, Collect

LEMMA SetArgsAppend ==
  ASSUME NEW q \in Seq(Signal), NEW s \in Signal
  PROVE  /\ s.name = "set" => SetArgsIn(Append(q, s)) = Append(SetArgsIn(q), s.arg)
         /\ s.name # "set" => SetArgsIn(Append(q, s)) = SetArgsIn(q)
<1>1. Append(q, s) \in Seq(Signal) BY AppendProperties
<1>2. Collect(Append(q, s), PickArg) = Collect(q, PickArg) \o PickArg[s]
  BY PickArgType, CollectAppend
<1>3. SetArgsIn(Append(q, s)) = SetArgsIn(q) \o PickArg[s]
  BY <1>1, <1>2, SetArgsCollects
<1>4. SetArgsIn(q) \in Seq(Arg) BY SetArgsCollects, PickArgType, CollectType
<1>5. s.arg \in Arg BY DEF Signal
<1>6. CASE s.name = "set"
  <2>1. PickArg[s] = <<s.arg>> BY <1>6 DEF PickArg
  <2> QED BY <1>3, <1>4, <1>5, <1>6, <2>1, AppendIsConcat
<1>7. CASE s.name # "set"
  <2>1. PickArg[s] = <<>> BY <1>7 DEF PickArg
  <2> QED BY <1>3, <1>4, <1>7, <2>1, ConcatEmptySeq
<1> QED BY <1>6, <1>7

LEMMA SetArgsTail ==
  ASSUME NEW q \in Seq(Signal), q # <<>>
  PROVE  /\ Head(q).name = "set" =>
              /\ SetArgsIn(q) # <<>> /\ Head(SetArgsIn(q)) = Head(q).arg
              /\ Tail(SetArgsIn(q)) = SetArgsIn(Tail(q))
         /\ Head(q).name # "set" => SetArgsIn(Tail(q)) = SetArgsIn(q)
<1>1. Tail(q) \in Seq(Signal) /\ Head(q) \in Signal BY HeadTailProperties
<1>2. Collect(q, PickArg) = PickArg[Head(q)] \o Collect(Tail(q), PickArg)
  BY PickArgType, CollectHeadTail
<1>3. SetArgsIn(q) = PickArg[Head(q)] \o SetArgsIn(Tail(q))
  BY <1>1, <1>2, SetArgsCollects
<1>4. SetArgsIn(Tail(q)) \in Seq(Arg)
  <2>1. Collect(Tail(q), PickArg) \in Seq(Arg) BY <1>1, PickArgType, CollectType
  <2> QED BY <1>1, <2>1, SetArgsCollects
<1>5. Head(q).arg \in Arg BY <1>1 DEF Signal
<1>6. CASE Head(q).name = "set"
  <2>1. PickArg[Head(q)] = <<Head(q).arg>> BY <1>1, <1>6 DEF PickArg
  <2>2. ASSUME NEW a \in Arg, NEW t \in Seq(Arg)
        PROVE  <<a>> \o t # <<>> /\ Head(<<a>> \o t) = a /\ Tail(<<a>> \o t) = t
    OBVIOUS
  <2> QED BY <1>3, <1>4, <1>5, <1>6, <2>1, <2>2
<1>7. CASE Head(q).name # "set"
  <2>1. PickArg[Head(q)] = <<>> BY <1>1, <1>7 DEF PickArg
  <2> QED BY <1>3, <1>4, <1>7, <2>1, ConcatEmptySeq
<1> QED BY <1>6, <1>7

\* Only Events.set queues a signal "set".
LEMMA OtherSignals ==
  ASSUME TypeOK, NEW n \in Name, NEW x \in Arg, NEW d, Enqueue(n, x, d), n # "set"
  PROVE  SetArgsIn(queue') = SetArgsIn(queue)
<1>1. [name |-> n, arg |-> x] \in Signal BY DEF Signal
<1> QED BY <1>1, SetArgsAppend DEF TypeOK, Enqueue

LEMMA QueuesNext ==
  ASSUME NeverEmitsSet, TypeOK, HandlerInv, QueuesInStep, [Next]_vars
  PROVE  QueuesInStep'
<1> USE DEF QueuesInStep
<1>1. ASSUME UNCHANGED <<queue, sets, setArgs, current>> PROVE QueuesInStep'
  BY <1>1 DEF SetArgsIn
<1>2. CASE UNCHANGED vars BY <1>1, <1>2 DEF vars
<1>3. ASSUME NEW u \in User, Call(u) PROVE QueuesInStep'
  <2>1. CASE DoConnect(u) BY <1>1, <2>1 DEF DoConnect
  <2>2. CASE DoRequire(u) BY <1>1, <2>2 DEF DoRequire
  <2>3. CASE DoEmit(u)
    <3>1. /\ Calling(u).name \in Name /\ Calling(u).arg \in Arg /\ Calling(u).name # "set"
          /\ Enqueue(Calling(u).name, Calling(u).arg, RunsOf(actions[Calling(u).name], Calling(u).arg))
      BY <2>3, HeadCall DEF DoEmit, WellTyped, NeverEmitsSet
    <3>2. SetArgsIn(queue') = SetArgsIn(queue) BY <3>1, OtherSignals
    <3> QED BY <2>3, <3>2 DEF DoEmit
  <2>4. CASE DoSet(u)
    <3> DEFINE r == Calling(u).map
               x == Calling(u).arg
    <3>1. CASE DOMAIN r = {} BY <1>1, <2>4, <3>1 DEF DoSet
    <3>2. CASE DOMAIN r # {}
      <4>1. x \in Arg /\ r \in Requisition BY <2>4, HeadCall DEF DoSet, WellTyped
      <4>2. /\ queue' = Append(queue, [name |-> "set", arg |-> x])
            /\ sets' = Append(sets, FirstKey(r)) /\ setArgs' = Append(setArgs, x)
            /\ current' = current
        BY <2>4, <3>2 DEF DoSet, Enqueue
      <4>3. [name |-> "set", arg |-> x] \in Signal BY <4>1, NamesDiffer DEF Signal
      <4>4. SetArgsIn(queue') = Append(SetArgsIn(queue), x)
        BY <4>2, <4>3, SetArgsAppend DEF TypeOK
      <4>5. FirstKey(r) \in Key BY <3>2, <4>1, FirstKeyType
      <4>6. Len(sets') = Len(setArgs')
        BY <4>1, <4>2, <4>5, AppendProperties DEF TypeOK
      <4>7. setArgs # <<>> => setArgs' # <<>> /\ Tail(setArgs') = Append(Tail(setArgs), x)
        <5>1. setArgs \in Seq(Arg) BY DEF TypeOK
        <5>2. Tail(Append(setArgs, x)) = IF setArgs = <<>> THEN <<>> ELSE Append(Tail(setArgs), x)
          BY <5>1, HeadTailAppend
        <5>3. Append(setArgs, x) # <<>> BY <4>1, <5>1, AppendProperties
        <5> QED BY <4>2, <5>2, <5>3
      <4> QED BY <4>2, <4>4, <4>6, <4>7
    <3> QED BY <3>1, <3>2
  <2>5. CASE DoFinalize(u)
    <3>1. SetArgsIn(queue') = SetArgsIn(queue)
      BY <2>5, NamesDiffer, ArgAssumption, OtherSignals DEF DoFinalize
    <3> QED BY <2>5, <3>1 DEF DoFinalize
  <2>6. CASE DoDrop(u)  BY <1>1, <2>6 DEF DoDrop
  <2>7. CASE DoWait(u)  BY <1>1, <2>7 DEF DoWait
  <2>8. CASE DoStart(u) BY <1>1, <2>8 DEF DoStart
  <2>9. CASE DoJoin(u)  BY <1>1, <2>9 DEF DoJoin
  <2> QED BY <1>3, <2>1, <2>2, <2>3, <2>4, <2>5, <2>6, <2>7, <2>8, <2>9 DEF Call
<1>4. CASE Wake      BY <1>1, <1>4 DEF Wake
<1>5. CASE Rest      BY <1>1, <1>5 DEF Rest
<1>6. CASE Take
  <2>1. /\ current = "none" /\ queue # <<>> /\ queue \in Seq(Signal)
        /\ queue' = Tail(queue) /\ current' = Head(queue).name
        /\ UNCHANGED <<sets, setArgs>>
    BY <1>6 DEF Take, At, HandlerInv, TypeOK
  <2>2. SetArgsIn(queue) = setArgs BY <2>1
  <2> QED BY <2>1, <2>2, SetArgsTail
<1>7. CASE RunAction BY <1>1, <1>7 DEF RunAction
<1>8. CASE End       BY <1>1, <1>8 DEF End
<1>9. CASE TakeSet
  <2>1. current = "set" /\ setArgs # <<>> /\ SetArgsIn(queue) = Tail(setArgs) /\ sets # <<>>
    BY <1>9 DEF TakeSet, Ran, TypeOK
  <2>2. /\ sets' = Tail(sets) /\ setArgs' = Tail(setArgs) /\ current' = "none" /\ queue' = queue
    BY <1>9, <2>1 DEF TakeSet
  <2>3. Len(sets') = Len(setArgs')
    BY <2>1, <2>2, HeadTailProperties DEF TypeOK
  <2>4. SetArgsIn(queue') = setArgs' BY <2>1, <2>2
  <2> QED BY <2>2, <2>3, <2>4
<1>10. CASE Again
  <2>1. current # "set" /\ current' # "set" /\ UNCHANGED <<queue, sets, setArgs>>
    BY <1>10, NamesDiffer DEF Again, Ran
  <2> QED BY <2>1 DEF SetArgsIn
<1> QED BY <1>2, <1>3, <1>4, <1>5, <1>6, <1>7, <1>8, <1>9, <1>10 DEF Next, Handle

\* As long as scripts leave the name "set" to the object, m_sets_queue and
\* m_args_queue hold an entry for every "set" signal the handler has not worked
\* on, in the order of m_event_queue and with the same arguments.
THEOREM QueuesAlwaysInStep ==
  ASSUME NeverEmitsSet
  PROVE  Spec => []QueuesInStep
<1> DEFINE Inv == TypeOK /\ InStep /\ HandlerInv /\ QueuesInStep
<1>1. Init => Inv
  <2>1. Init => QueuesInStep
    <3>1. SetArgsIn(<<>>) = <<>>
      <4>1. <<>> \in Seq(Signal) BY EmptySeq
      <4> QED BY <4>1, SetArgsCollects, CollectEmpty
    <3> QED BY <3>1 DEF Init, QueuesInStep
  <2> QED BY <2>1, InitType, HandlerInit
<1>2. Inv /\ [Next]_vars => Inv'
  BY NextType, HandlerNext, QueuesNext
<1>3. Inv => QueuesInStep
  OBVIOUS
<1> HIDE DEF Inv
<1> QED BY <1>1, <1>2, <1>3, PTL DEF Spec

-------------------------------------------------------------------------------
(* Delivery.  D is the set of calls of the script. *)

Uses == {"emit", "set", "start", "join"}

ScriptsInv(D) ==
  /\ \A u \in User : todo[u] \in Seq(D \cup {WaitEnd})
  /\ \A u \in User \ {Main} : \A i \in DOMAIN todo[u] : todo[u][i].call \in Uses
  /\ InOrder(todo[Main])
  /\ joined => \A i \in DOMAIN todo[Main] : todo[Main][i].call \notin {"finalize", "wait"}

\* As long as the script has something to connect, nothing has been asked for.
Quiet ==
  /\ queue = <<>> /\ history = <<>> /\ sets = <<>> /\ setArgs = <<>>
  /\ delivered = <<>> /\ runs = <<>> /\ current = "none" /\ handler # "run"
  /\ \A u \in User \ {Main} : todo[u] = <<>>

SetupInv == (\E i \in DOMAIN todo[Main] : todo[Main][i].call \in Connecting) => Quiet

\* The part of the history that belongs to the signals in the queue.
Pending == [i \in 1 .. Len(queue) |-> history[Taken + i]]

PendingInv ==
  /\ Len(queue) <= Len(history)
  /\ \A i \in 1 .. Len(queue) :
       /\ Pending[i].name = queue[i].name
       /\ queue[i].name # "set" => Pending[i].due = RunsOf(actions[queue[i].name], queue[i].arg)

\* What a "set" signal filed under k with the arguments x leads to now.
SetDue(k, x) == RunsOf(actions["set"], x) \o RunsOf(Matching(state, k), x)

SetDuesIn(p) == FlattenSeq([i \in DOMAIN p |-> IF p[i].name = "set" THEN <<p[i].due>> ELSE <<>>])

KeysLeft == IF current = "set" THEN Tail(sets) ELSE sets
ArgsLeft == IF current = "set" THEN Tail(setArgs) ELSE setArgs

SetsInv ==
  /\ Len(SetDuesIn(Pending)) = Len(KeysLeft)
  /\ \A j \in 1 .. Len(KeysLeft) : SetDuesIn(Pending)[j] = SetDue(KeysLeft[j], ArgsLeft[j])

\* The state holds what every call of set that is not worked on yet has set.
SettledInv(D) ==
  /\ \A i \in DOMAIN required :
       \E d \in D : d.call = "require" /\ d.map = required[i].map
  /\ \A j \in DOMAIN sets :
       \E c \in D : /\ c.call = "set" /\ FirstKey(c.map) = sets[j]
                    /\ \A l \in DOMAIN c.map : state[l] = c.map[l]

\* What is still to be run for the signal that has been taken.
Further == IF current = "set" THEN RunsOf(Matching(state, Head(sets)), Head(setArgs)) ELSE <<>>

FlowInv == (delivered \o runs) \o Further = Due(Taken)

ExitInv ==
  /\ \A i \in 1 .. Taken : history[i].name = "exit" => i = Taken /\ current = "exit"
  /\ current = "exit" => Taken > 0 /\ history[Taken].name = "exit"

Basics       == TypeOK /\ InStep /\ HandlerInv /\ QueuesInStep
DataInv      == PendingInv /\ SetsInv /\ FlowInv /\ ExitInv
DeliveryInv(D) ==
  Basics /\ ScriptsInv(D) /\ SetupInv /\ SettledInv(D) /\ DataInv /\ ~lost

-------------------------------------------------------------------------------
(* What is due. *)

Dues  == Seq(Run)
Entry == [name : Name, due : Dues]

LEMMA HistoryType == TypeOK => history \in Seq(Entry) /\ Len(history) \in Nat
  BY DEF TypeOK, Entry, Dues

DuesUpTo(n) == [i \in 1 .. n |-> history[i].due]

LEMMA DuesUpToType ==
  ASSUME TypeOK, NEW n \in 0 .. Len(history)
  PROVE  DuesUpTo(n) \in Seq(Dues) /\ Len(DuesUpTo(n)) = n
<1>1. history \in [1 .. Len(history) -> Entry] /\ Len(history) \in Nat
  BY HistoryType, LenProperties
<1>2. DuesUpTo(n) \in [1 .. n -> Dues] BY <1>1 DEF DuesUpTo, Entry
<1> QED BY <1>1, <1>2, FunctionIsSeq

LEMMA DueType ==
  ASSUME TypeOK, NEW n \in 0 .. Len(history)
  PROVE  Due(n) \in Seq(Run)
<1>1. DuesUpTo(n) \in Seq(Seq(Run)) BY DuesUpToType DEF Dues
<1>2. FlattenSeq(DuesUpTo(n)) \in Seq(Run) BY <1>1, FlattenType
<1> QED BY <1>2 DEF Due, DuesUpTo

\* The first n signals and one more.
LEMMA DueNext ==
  ASSUME TypeOK, NEW n \in Nat, n + 1 <= Len(history)
  PROVE  Due(n + 1) = Due(n) \o history[n + 1].due
<1>1. history \in [1 .. Len(history) -> Entry] /\ Len(history) \in Nat
  BY HistoryType, LenProperties
<1>2. n \in 0 .. Len(history) /\ n + 1 \in 0 .. Len(history) /\ n + 1 \in 1 .. Len(history)
  BY <1>1
<1>3. history[n + 1].due \in Dues BY <1>1, <1>2 DEF Entry
<1>4. /\ DuesUpTo(n) \in Seq(Dues) /\ Len(DuesUpTo(n)) = n
      /\ DuesUpTo(n + 1) \in Seq(Dues) /\ Len(DuesUpTo(n + 1)) = n + 1
  BY <1>2, DuesUpToType
<1>5. /\ \A i \in 1 .. n : DuesUpTo(n + 1)[i] = DuesUpTo(n)[i]
      /\ DuesUpTo(n + 1)[n + 1] = history[n + 1].due
  BY <1>2 DEF DuesUpTo
<1>6. ASSUME NEW S, NEW d \in S, NEW s \in Seq(S), NEW t \in Seq(S), Len(s) = n, Len(t) = n + 1,
             \A i \in 1 .. n : t[i] = s[i], t[n + 1] = d
      PROVE  t = Append(s, d)
  <2>1. /\ Append(s, d) \in Seq(S) /\ Len(Append(s, d)) = n + 1 /\ Append(s, d)[n + 1] = d
        /\ \A i \in 1 .. n : Append(s, d)[i] = s[i]
    BY <1>6, AppendProperties
  <2>2. \A i \in 1 .. Len(t) : t[i] = Append(s, d)[i] BY <1>6, <2>1
  <2> QED BY <1>6, <2>1, <2>2, SeqEqual
<1>7. DuesUpTo(n + 1) = Append(DuesUpTo(n), history[n + 1].due)
  BY <1>3, <1>4, <1>5, <1>6
<1>8. FlattenSeq(Append(DuesUpTo(n), history[n + 1].due)) = FlattenSeq(DuesUpTo(n)) \o history[n + 1].due
  BY <1>3, <1>4, FlattenAppend DEF Dues
<1> QED BY <1>7, <1>8 DEF Due, DuesUpTo

\* What is due does not change when more signals come.
LEMMA DueKept ==
  ASSUME TypeOK, NEW h, history' = Append(history, h), NEW n \in 0 .. Len(history)
  PROVE  Due(n)' = Due(n)
<1>1. \A i \in 1 .. n : history'[i] = history[i]
  BY HistoryType
<1>2. DuesUpTo(n)' = DuesUpTo(n)
  BY <1>1 DEF DuesUpTo
<1> QED BY <1>2 DEF Due, DuesUpTo

LEMMA DueNone == Due(0) = <<>>
<1>1. DuesUpTo(0) = <<>> BY DEF DuesUpTo
<1> QED BY <1>1, FlattenEmpty DEF Due, DuesUpTo

-------------------------------------------------------------------------------
(* The signals in the queue. *)

LEMMA PendingType ==
  ASSUME TypeOK, Len(queue) <= Len(history)
  PROVE  /\ Pending \in Seq(Entry) /\ Len(Pending) = Len(queue) /\ Taken \in Nat
         /\ Taken + Len(queue) = Len(history) /\ Taken \in 0 .. Len(history)
<1>1. history \in [1 .. Len(history) -> Entry] /\ Len(history) \in Nat /\ Len(queue) \in Nat
  BY HistoryType, LenProperties DEF TypeOK
<1>2. \A i \in 1 .. Len(queue) : Taken + i \in 1 .. Len(history)
  BY <1>1 DEF Taken
<1>3. Pending \in [1 .. Len(queue) -> Entry]
  BY <1>1, <1>2 DEF Pending
<1>4. Pending \in Seq(Entry) /\ Len(Pending) = Len(queue)
  BY <1>1, <1>3, FunctionIsSeq
<1> QED BY <1>1, <1>4 DEF Taken

LEMMA EnqueuePending ==
  ASSUME TypeOK, Len(queue) <= Len(history),
         NEW n \in Name, NEW x \in Arg, NEW d \in Dues, Enqueue(n, x, d)
  PROVE  /\ Len(queue') <= Len(history') /\ Len(queue') = Len(queue) + 1
         /\ Taken' = Taken
         /\ Pending' = Append(Pending, [name |-> n, due |-> d])
         /\ \A i \in 1 .. Len(history) : history'[i] = history[i]
         /\ \A i \in 1 .. Len(queue) : queue'[i] = queue[i]
         /\ queue'[Len(queue) + 1] = [name |-> n, arg |-> x]
<1> DEFINE e == [name |-> n, due |-> d]
           s == [name |-> n, arg |-> x]
<1>1. e \in Entry /\ s \in Signal BY DEF Entry, Signal
<1>2. queue \in Seq(Signal) /\ history \in Seq(Entry) /\ Len(queue) \in Nat /\ Len(history) \in Nat
  BY HistoryType, LenProperties DEF TypeOK
<1>3. queue' = Append(queue, s) /\ history' = Append(history, e)
  BY DEF Enqueue
<1> HIDE DEF e, s
<1>4. /\ Len(queue') = Len(queue) + 1 /\ queue'[Len(queue) + 1] = s
      /\ \A i \in 1 .. Len(queue) : queue'[i] = queue[i]
  BY <1>1, <1>2, <1>3, AppendProperties
<1>5. /\ Len(history') = Len(history) + 1 /\ history'[Len(history) + 1] = e
      /\ \A i \in 1 .. Len(history) : history'[i] = history[i]
  BY <1>1, <1>2, <1>3, AppendProperties
<1>6. Taken' = Taken BY <1>2, <1>4, <1>5 DEF Taken
<1>7. Pending \in Seq(Entry) /\ Len(Pending) = Len(queue) /\ Taken + Len(queue) = Len(history) /\ Taken \in Nat
  BY PendingType
<1>8. Pending' = Append(Pending, e)
  <2>1. Pending' = [i \in 1 .. Len(queue) + 1 |-> history'[Taken + i]]
    BY <1>4, <1>6 DEF Pending
  <2>2. /\ Append(Pending, e) \in Seq(Entry) /\ Len(Append(Pending, e)) = Len(queue) + 1
        /\ \A i \in 1 .. Len(queue) : Append(Pending, e)[i] = Pending[i]
        /\ Append(Pending, e)[Len(queue) + 1] = e
    BY <1>1, <1>7, AppendProperties
  <2>4. ASSUME NEW i \in 1 .. Len(queue) + 1
        PROVE  Append(Pending, e)[i] = history'[Taken + i]
    <3>1. CASE i = Len(queue) + 1 
      <4>1. Taken + i = Len(history) + 1 BY <1>2, <1>7, <3>1
      <4> QED BY <1>5, <2>2, <3>1, <4>1
    <3>2. CASE i # Len(queue) + 1
      <4>1. i \in 1 .. Len(queue) /\ Taken + i \in 1 .. Len(history) BY <1>2, <1>7, <3>2
      <4>2. Pending[i] = history[Taken + i] BY <4>1 DEF Pending
      <4> QED BY <1>5, <2>2, <4>1, <4>2
    <3> QED BY <3>1, <3>2
  <2>5. Append(Pending, e) = [i \in 1 .. Len(queue) + 1 |-> Append(Pending, e)[i]]
    <3>1. ASSUME NEW a \in Seq(Entry), Len(a) = Len(queue) + 1
          PROVE  a = [i \in 1 .. Len(queue) + 1 |-> a[i]]
      BY <3>1, LenProperties
    <3> QED BY <2>2, <3>1
  <2> QED BY <2>1, <2>4, <2>5
<1> QED BY <1>2, <1>4, <1>5, <1>6, <1>8 DEF e, s

LEMMA TakePending ==
  ASSUME TypeOK, Len(queue) <= Len(history), queue # <<>>,
         queue' = Tail(queue), history' = history
  PROVE  /\ Len(queue') <= Len(history')
         /\ Taken' = Taken + 1 /\ Taken' \in 1 .. Len(history)
         /\ Pending # <<>> /\ Head(Pending) = history[Taken + 1]
         /\ Pending' = Tail(Pending)
         /\ \A i \in 1 .. Len(queue') : queue'[i] = queue[i + 1] /\ Pending'[i] = Pending[i + 1]
         /\ Len(queue') = Len(queue) - 1
<1>1. queue \in Seq(Signal) /\ Len(queue) \in Nat \ {0} /\ Len(history) \in Nat
  BY HistoryType, EmptySeq DEF TypeOK
<1>2. Len(queue') = Len(queue) - 1 /\ \A i \in 1 .. Len(queue') : queue'[i] = queue[i + 1]
  BY <1>1, HeadTailProperties
<1>3. /\ Pending \in Seq(Entry) /\ Len(Pending) = Len(queue) /\ Taken \in Nat
      /\ Taken + Len(queue) = Len(history)
  BY PendingType
<1>4. Pending # <<>> BY <1>1, <1>3
<1>5. Taken' = Taken + 1 /\ Taken' \in 1 .. Len(history)
  BY <1>1, <1>2, <1>3 DEF Taken
<1>6. Head(Pending) = history[Taken + 1]
  <2>1. Head(Pending) = Pending[1] BY <1>3, <1>4
  <2> QED BY <1>1, <2>1 DEF Pending
<1>7. /\ Tail(Pending) \in Seq(Entry) /\ Len(Tail(Pending)) = Len(queue) - 1
      /\ \A i \in 1 .. Len(Tail(Pending)) : Tail(Pending)[i] = Pending[i + 1]
  BY <1>3, <1>4, HeadTailProperties
<1>8. Pending' = [i \in 1 .. Len(queue) - 1 |-> history[(Taken + 1) + i]]
  BY <1>2, <1>5 DEF Pending
<1>9. ASSUME NEW i \in 1 .. Len(queue) - 1
      PROVE  Tail(Pending)[i] = history[(Taken + 1) + i]
  <2>1. i + 1 \in 1 .. Len(queue) /\ Taken + (i + 1) = (Taken + 1) + i BY <1>1, <1>3
  <2>2. Pending[i + 1] = history[Taken + (i + 1)] BY <2>1 DEF Pending
  <2> QED BY <1>7, <2>1, <2>2
<1>10. Tail(Pending) = [i \in 1 .. Len(queue) - 1 |-> Tail(Pending)[i]]
  BY <1>7, LenProperties
<1>11. Pending' = Tail(Pending) BY <1>8, <1>9, <1>10
<1> QED BY <1>1, <1>2, <1>4, <1>5, <1>6, <1>7, <1>11

\* SetDuesIn collects from each entry.
PickDue == [h \in Entry |-> IF h.name = "set" THEN <<h.due>> ELSE <<>>]

LEMMA PickDueType == PickDue \in [Entry -> Seq(Dues)]
<1> SUFFICES ASSUME NEW h \in Entry
             PROVE  (IF h.name = "set" THEN <<h.due>> ELSE <<>>) \in Seq(Dues)
  BY DEF PickDue
<1>1. h.due \in Dues BY DEF Entry
<1>2. CASE h.name = "set" BY <1>1, <1>2
<1>3. CASE h.name # "set" BY <1>3
<1> QED BY <1>2, <1>3

LEMMA SetDuesCollects ==
  ASSUME NEW p \in Seq(Entry)
  PROVE  SetDuesIn(p) = Collect(p, PickDue) /\ SetDuesIn(p) \in Seq(Dues)
<1>1. DOMAIN p = 1 .. Len(p) /\ p \in [1 .. Len(p) -> Entry]
  BY LenProperties
<1>2. [i \in DOMAIN p |-> IF p[i].name = "set" THEN <<p[i].due>> ELSE <<>>] = Map(p, PickDue)
  BY <1>1 DEF Map, PickDue
<1>3. SetDuesIn(p) = Collect(p, PickDue) BY <1>2, Zenon DEF SetDuesIn, Collect
<1>4. Collect(p, PickDue) \in Seq(Dues) BY PickDueType, CollectType
<1> QED BY <1>3, <1>4

LEMMA SetDuesAppend ==
  ASSUME NEW p \in Seq(Entry), NEW h \in Entry
  PROVE  /\ h.name = "set" => SetDuesIn(Append(p, h)) = Append(SetDuesIn(p), h.due)
         /\ h.name # "set" => SetDuesIn(Append(p, h)) = SetDuesIn(p)
<1>1. Append(p, h) \in Seq(Entry) BY AppendProperties
<1>2. Collect(Append(p, h), PickDue) = Collect(p, PickDue) \o PickDue[h]
  BY PickDueType, CollectAppend
<1>3. SetDuesIn(Append(p, h)) = SetDuesIn(p) \o PickDue[h] /\ SetDuesIn(p) \in Seq(Dues)
  BY <1>1, <1>2, SetDuesCollects
<1>4. h.due \in Dues BY DEF Entry
<1>5. CASE h.name = "set"
  <2>1. PickDue[h] = <<h.due>> BY <1>5 DEF PickDue
  <2> QED BY <1>3, <1>4, <1>5, <2>1, AppendIsConcat
<1>6. CASE h.name # "set"
  <2>1. PickDue[h] = <<>> BY <1>6 DEF PickDue
  <2> QED BY <1>3, <1>6, <2>1, ConcatEmptySeq
<1> QED BY <1>5, <1>6

LEMMA SetDuesTail ==
  ASSUME NEW p \in Seq(Entry), p # <<>>
  PROVE  /\ Head(p).name = "set" =>
              /\ SetDuesIn(p) # <<>> /\ Head(SetDuesIn(p)) = Head(p).due
              /\ Tail(SetDuesIn(p)) = SetDuesIn(Tail(p))
         /\ Head(p).name # "set" => SetDuesIn(Tail(p)) = SetDuesIn(p)
<1>1. Tail(p) \in Seq(Entry) /\ Head(p) \in Entry BY HeadTailProperties
<1>2. Collect(p, PickDue) = PickDue[Head(p)] \o Collect(Tail(p), PickDue)
  BY PickDueType, CollectHeadTail
<1>3. SetDuesIn(p) = PickDue[Head(p)] \o SetDuesIn(Tail(p)) /\ SetDuesIn(Tail(p)) \in Seq(Dues)
  BY <1>1, <1>2, SetDuesCollects
<1>4. Head(p).due \in Dues BY <1>1 DEF Entry
<1>5. CASE Head(p).name = "set"
  <2>1. PickDue[Head(p)] = <<Head(p).due>> BY <1>1, <1>5 DEF PickDue
  <2>2. ASSUME NEW a \in Dues, NEW t \in Seq(Dues)
        PROVE  <<a>> \o t # <<>> /\ Head(<<a>> \o t) = a /\ Tail(<<a>> \o t) = t
    OBVIOUS
  <2> QED BY <1>3, <1>4, <1>5, <2>1, <2>2
<1>6. CASE Head(p).name # "set"
  <2>1. PickDue[Head(p)] = <<>> BY <1>1, <1>6 DEF PickDue
  <2> QED BY <1>3, <1>6, <2>1, ConcatEmptySeq
<1> QED BY <1>5, <1>6

-------------------------------------------------------------------------------
(* Requisitions. *)

\* Two states that satisfy the same requisitions lead to the same functions.
LEMMA MatchingSame ==
  ASSUME NEW s, NEW t, NEW k,
         \A i \in DOMAIN required : Matches(s, k, required[i].map) <=> Matches(t, k, required[i].map)
  PROVE  Matching(s, k) = Matching(t, k)
<1>1. [i \in DOMAIN required |-> IF Matches(s, k, required[i].map) THEN <<required[i].action>> ELSE <<>>]
    = [i \in DOMAIN required |-> IF Matches(t, k, required[i].map) THEN <<required[i].action>> ELSE <<>>]
  OBVIOUS
<1> QED BY <1>1, Zenon DEF Matching

\* A call of set changes nothing about the calls that are still to be worked on.
LEMMA MergeSettled ==
  ASSUME TypeOK, NEW D, KeepsRules(D), SettledInv(D),
         NEW c \in D, c.call = "set", NEW j \in DOMAIN sets
  PROVE  /\ \E d \in D : /\ d.call = "set" /\ FirstKey(d.map) = sets[j]
                         /\ \A l \in DOMAIN d.map : Merge(state, c.map)[l] = d.map[l]
         /\ Matching(Merge(state, c.map), sets[j]) = Matching(state, sets[j])
<1> DEFINE s == Merge(state, c.map)
           k == sets[j]
<1>1. PICK d \in D : /\ d.call = "set" /\ FirstKey(d.map) = k
                     /\ \A l \in DOMAIN d.map : state[l] = d.map[l]
  BY DEF SettledInv
<1>2. /\ \A b \in D : WellTyped(b)
      /\ DOMAIN c.map \subseteq Key /\ DOMAIN d.map \subseteq Key
  BY <1>1, CallAssumption, RequisitionFacts DEF KeepsRules, WellTyped
<1>3. \A l \in DOMAIN d.map : s[l] = d.map[l]
  BY <1>1, <1>2 DEF KeepsRules, Merge
<1>4. ASSUME NEW i \in DOMAIN required
      PROVE  Matches(s, k, required[i].map) <=> Matches(state, k, required[i].map)
  <2>1. CASE k \notin DOMAIN required[i].map BY <2>1 DEF Matches
  <2>2. CASE k \in DOMAIN required[i].map
    <3>1. PICK b \in D : b.call = "require" /\ b.map = required[i].map BY DEF SettledInv
    <3>2. DOMAIN required[i].map \subseteq DOMAIN d.map BY <1>1, <2>2, <3>1 DEF KeepsRules
    <3>3. \A l \in DOMAIN required[i].map : s[l] = state[l] BY <1>1, <1>3, <3>2
    <3> HIDE DEF s
    <3> QED BY <2>2, <3>3 DEF Matches, Satisfied
  <2> QED BY <2>1, <2>2
<1> HIDE DEF s
<1>5. Matching(s, k) = Matching(state, k) BY <1>4, MatchingSame
<1> QED BY <1>1, <1>3, <1>5 DEF s

-------------------------------------------------------------------------------
(* What is due stays in step with the queues: one lemma per kind of step. *)

LEMMA MatchingKept ==
  ASSUME required' = required, NEW k
  PROVE  Matching(state, k)' = Matching(state', k)
  BY Zenon DEF Matching

LEMMA SetDueKept ==
  ASSUME UNCHANGED <<actions, state, required>>, NEW k, NEW x
  PROVE  SetDue(k, x)' = SetDue(k, x)
<1>1. Matching(state, k)' = Matching(state, k) BY DEF Matching
<1> QED BY <1>1 DEF SetDue

LEMMA DataSame ==
  ASSUME DataInv, UNCHANGED <<queue, history, actions, state, required, sets, setArgs,
                              current, runs, delivered>>
  PROVE  DataInv'
<1>1. Taken' = Taken /\ Pending' = Pending BY DEF Taken, Pending
<1>2. KeysLeft' = KeysLeft /\ ArgsLeft' = ArgsLeft BY DEF KeysLeft, ArgsLeft
<1>3. PendingInv' BY <1>1 DEF DataInv, PendingInv
<1>4. SetsInv'
  <2>1. \A k, x : SetDue(k, x)' = SetDue(k, x) BY SetDueKept
  <2> QED BY <1>1, <1>2, <2>1 DEF DataInv, SetsInv
<1>5. FlowInv'
  <2>1. Further' = Further BY DEF Further, Matching
  <2>2. Due(Taken)' = Due(Taken) BY <1>1 DEF Due
  <2> QED BY <2>1, <2>2 DEF DataInv, FlowInv
<1>6. ExitInv' BY <1>1 DEF DataInv, ExitInv
<1> QED BY <1>3, <1>4, <1>5, <1>6 DEF DataInv

\* Whatever is queued, the signals that have been taken stay what they were.
LEMMA EnqueueBehind ==
  ASSUME TypeOK, DataInv, NEW n \in Name, NEW x \in Arg, NEW d \in Dues, Enqueue(n, x, d),
         UNCHANGED <<current, runs, delivered>>, Further' = Further
  PROVE  FlowInv' /\ ExitInv'
<1>1. Len(queue) <= Len(history) BY DEF DataInv, PendingInv
<1>2. Taken' = Taken /\ Taken \in 0 .. Len(history) /\ \A i \in 1 .. Len(history) : history'[i] = history[i]
  BY <1>1, EnqueuePending, PendingType
<1>3. Due(Taken)' = Due(Taken)
  <2>1. \A m \in 0 .. Len(history) : Due(m)' = Due(m) BY DueKept DEF Enqueue
  <2>2. \A m \in 0 .. Len(history) : \A i \in 1 .. m : history'[i] = history[i]
    BY <1>2, HistoryType
  <2>3. DuesUpTo(Taken)' = DuesUpTo(Taken) BY <1>2, <2>2 DEF DuesUpTo
  <2> QED BY <2>3 DEF Due, DuesUpTo
<1>4. FlowInv' BY <1>3 DEF DataInv, FlowInv
<1>5. \A i \in 1 .. Taken : i \in 1 .. Len(history) BY <1>2, HistoryType
<1>6. Taken > 0 => Taken \in 1 .. Len(history) BY <1>2, HistoryType
<1>7. ExitInv' BY <1>2, <1>5, <1>6 DEF DataInv, ExitInv
<1> QED BY <1>4, <1>7

LEMMA EnqueueOther ==
  ASSUME TypeOK, DataInv, NEW n \in Name, n # "set", NEW x \in Arg,
         Enqueue(n, x, RunsOf(actions[n], x)),
         UNCHANGED <<actions, state, required, sets, setArgs, current, runs, delivered>>
  PROVE  DataInv'
<1> DEFINE d == RunsOf(actions[n], x)
<1>1. d \in Dues
  <2>1. actions[n] \in Seq(Action) BY DEF TypeOK
  <2> QED BY <2>1, RunsOfType DEF Dues
<1> HIDE DEF d
<1>2. Enqueue(n, x, d) BY DEF d
<1>3. Len(queue) <= Len(history) BY DEF DataInv, PendingInv
<1>4. /\ Len(queue') <= Len(history') /\ Len(queue') = Len(queue) + 1
      /\ Taken' = Taken
      /\ Pending' = Append(Pending, [name |-> n, due |-> d])
      /\ \A i \in 1 .. Len(queue) : queue'[i] = queue[i]
      /\ queue'[Len(queue) + 1] = [name |-> n, arg |-> x]
  BY <1>1, <1>2, <1>3, EnqueuePending
<1>5. Pending \in Seq(Entry) /\ Len(Pending) = Len(queue) BY <1>3, PendingType
<1>6. [name |-> n, due |-> d] \in Entry BY <1>1 DEF Entry
<1>7. /\ Pending'[Len(queue) + 1] = [name |-> n, due |-> d]
      /\ \A i \in 1 .. Len(queue) : Pending'[i] = Pending[i]
  BY <1>4, <1>5, <1>6, AppendProperties
<1>8. PendingInv'
  <2> SUFFICES ASSUME NEW i \in 1 .. Len(queue')
               PROVE  /\ Pending'[i].name = queue'[i].name
                      /\ queue'[i].name # "set" =>
                           Pending'[i].due = RunsOf(actions'[queue'[i].name], queue'[i].arg)
    BY <1>4 DEF PendingInv
  <2>1. CASE i = Len(queue) + 1
    <3>1. queue'[i] = [name |-> n, arg |-> x] /\ Pending'[i] = [name |-> n, due |-> d]
      BY <1>4, <1>7, <2>1, Zenon
    <3>2. queue'[i].name = n /\ queue'[i].arg = x /\ Pending'[i].name = n /\ Pending'[i].due = d
      BY <3>1
    <3>3. actions' = actions OBVIOUS
    <3> QED BY <3>2, <3>3, Zenon DEF d
  <2>2. CASE i # Len(queue) + 1
    <3>1. i \in 1 .. Len(queue) BY <1>4, <2>2 DEF TypeOK
    <3> QED BY <1>4, <1>7, <3>1 DEF DataInv, PendingInv
  <2> QED BY <2>1, <2>2
<1>9. SetsInv'
  <2>1. SetDuesIn(Pending') = SetDuesIn(Pending) BY <1>4, <1>5, <1>6, SetDuesAppend
  <2>2. KeysLeft' = KeysLeft /\ ArgsLeft' = ArgsLeft BY DEF KeysLeft, ArgsLeft
  <2>3. \A k, y : SetDue(k, y)' = SetDue(k, y) BY SetDueKept
  <2> QED BY <2>1, <2>2, <2>3 DEF DataInv, SetsInv
<1>10. Further' = Further BY DEF Further, Matching
<1>11. FlowInv' /\ ExitInv' BY <1>1, <1>2, <1>10, EnqueueBehind
<1> QED BY <1>8, <1>9, <1>11 DEF DataInv

\* Events.set.
LEMMA SetKeeps ==
  ASSUME TypeOK, InStep, QueuesInStep, NEW D, KeepsRules(D), SettledInv(D), DataInv,
         NEW u \in User, DoSet(u), Calling(u) \in D
  PROVE  ~lost' = ~lost /\ SettledInv(D)' /\ DataInv'
<1> DEFINE r == Calling(u).map
           x == Calling(u).arg
           k == FirstKey(r)
           s == Merge(state, r)
           d == RunsOf(actions["set"], x) \o RunsOf(Matching(s, k), x)
<1>1. /\ Calling(u) \in D /\ Calling(u).call = "set" /\ DOMAIN r # {}
      /\ r \in Requisition /\ x \in Arg
  BY HeadCall DEF DoSet, KeepsRules, WellTyped
<1>2. /\ Enqueue("set", x, d)
      /\ state' = s /\ sets' = Append(sets, k) /\ setArgs' = Append(setArgs, x)
      /\ UNCHANGED <<actions, required, current, runs, delivered, lost>>
  BY <1>1 DEF DoSet
<1>3. k \in Key /\ k \in DOMAIN r /\ DOMAIN r \subseteq Key BY <1>1, FirstKeyType, RequisitionFacts
<1>4. d \in Dues
  <2>1. actions["set"] \in Seq(Action) BY NamesDiffer DEF TypeOK
  <2>2. Matching(s, k) \in Seq(Action) BY MatchingType DEF TypeOK
  <2> QED BY <1>1, <2>1, <2>2, RunsOfType, ConcatType DEF Dues
<1>5. ASSUME NEW key, key = k, NEW y, y = x PROVE SetDue(key, y)' = d
  <2>1. Matching(state, key)' = Matching(s, key) BY <1>2, MatchingKept
  <2> HIDE DEF k, x, s
  <2> QED BY <1>2, <1>5, <2>1 DEF SetDue
<1>6. \A j \in DOMAIN sets :
        /\ \E c \in D : /\ c.call = "set" /\ FirstKey(c.map) = sets[j]
                        /\ \A l \in DOMAIN c.map : s[l] = c.map[l]
        /\ Matching(s, sets[j]) = Matching(state, sets[j])
  BY <1>1, MergeSettled
<1>7. \A l \in DOMAIN r : s[l] = r[l] BY <1>3 DEF Merge
<1> HIDE DEF d, s, k
<1>8. sets \in Seq(Key) /\ setArgs \in Seq(Arg) /\ Len(sets) = Len(setArgs) /\ Len(sets) \in Nat
  BY LenProperties DEF TypeOK, InStep
<1>9. /\ sets' \in Seq(Key) /\ Len(sets') = Len(sets) + 1 /\ sets'[Len(sets) + 1] = k
      /\ \A j \in 1 .. Len(sets) : sets'[j] = sets[j]
  BY <1>2, <1>3, <1>8, AppendProperties
<1>10. SettledInv(D)'
  <2>1. \A i \in DOMAIN required' : \E c \in D : c.call = "require" /\ c.map = required'[i].map
    BY <1>2 DEF SettledInv
  <2>2. ASSUME NEW j \in DOMAIN sets'
        PROVE  \E c \in D : /\ c.call = "set" /\ FirstKey(c.map) = sets'[j]
                            /\ \A l \in DOMAIN c.map : state'[l] = c.map[l]
    <3>1. j \in 1 .. Len(sets) + 1 BY <1>9, LenProperties
    <3>2. CASE j = Len(sets) + 1 BY <1>1, <1>2, <1>7, <1>9, <3>2 DEF k
    <3>3. CASE j # Len(sets) + 1
      <4>1. j \in 1 .. Len(sets) /\ j \in DOMAIN sets BY <1>8, <3>1, <3>3, LenProperties
      <4> QED BY <1>2, <1>6, <1>9, <4>1
    <3> QED BY <3>2, <3>3
  <2> QED BY <2>1, <2>2 DEF SettledInv
<1>11. Len(queue) <= Len(history) BY DEF DataInv, PendingInv
<1>12. /\ Len(queue') <= Len(history') /\ Len(queue') = Len(queue) + 1
       /\ Taken' = Taken
       /\ Pending' = Append(Pending, [name |-> "set", due |-> d])
       /\ \A i \in 1 .. Len(queue) : queue'[i] = queue[i]
       /\ queue'[Len(queue) + 1] = [name |-> "set", arg |-> x]
  BY <1>1, <1>2, <1>4, <1>11, NamesDiffer, EnqueuePending
<1>13. Pending \in Seq(Entry) /\ Len(Pending) = Len(queue) BY <1>11, PendingType
<1>14. [name |-> "set", due |-> d] \in Entry BY <1>4, NamesDiffer DEF Entry
<1>15. /\ Pending'[Len(queue) + 1] = [name |-> "set", due |-> d]
       /\ \A i \in 1 .. Len(queue) : Pending'[i] = Pending[i]
  BY <1>12, <1>13, <1>14, AppendProperties
<1>16. PendingInv'
  <2> SUFFICES ASSUME NEW i \in 1 .. Len(queue')
               PROVE  /\ Pending'[i].name = queue'[i].name
                      /\ queue'[i].name # "set" =>
                           Pending'[i].due = RunsOf(actions'[queue'[i].name], queue'[i].arg)
    BY <1>12 DEF PendingInv
  <2>1. CASE i = Len(queue) + 1
    <3>1. queue'[i] = [name |-> "set", arg |-> x] /\ Pending'[i] = [name |-> "set", due |-> d]
      BY <1>12, <1>15, <2>1, Zenon
    <3> QED BY <3>1
  <2>2. CASE i # Len(queue) + 1
    <3>1. i \in 1 .. Len(queue) BY <1>12, <2>2 DEF TypeOK
    <3>2. queue'[i] = queue[i] /\ Pending'[i] = Pending[i] /\ actions' = actions
      BY <1>2, <1>12, <1>15, <3>1
    <3> QED BY <3>1, <3>2 DEF DataInv, PendingInv
  <2> QED BY <2>1, <2>2
<1>17. current = "set" => sets # <<>> /\ setArgs # <<>> BY <1>8 DEF QueuesInStep
<1>18. ASSUME NEW j \in DOMAIN sets, NEW key, key = sets[j], NEW y
       PROVE  SetDue(key, y)' = SetDue(key, y)
  <2>1. Matching(s, key) = Matching(state, key) BY <1>6, <1>18
  <2>2. Matching(state, key)' = Matching(s, key) BY <1>2, MatchingKept
  <2> QED BY <1>2, <2>1, <2>2 DEF SetDue
<1>19. /\ KeysLeft \in Seq(Key) /\ ArgsLeft \in Seq(Arg) /\ Len(KeysLeft) = Len(ArgsLeft)
       /\ Len(KeysLeft) \in Nat
       /\ KeysLeft' = Append(KeysLeft, k) /\ ArgsLeft' = Append(ArgsLeft, x)
       /\ \A j \in 1 .. Len(KeysLeft) : \E i \in DOMAIN sets : KeysLeft[j] = sets[i]
  <2>1. CASE current = "set"
    <3>1. /\ Tail(sets) \in Seq(Key) /\ Tail(setArgs) \in Seq(Arg)
          /\ Len(Tail(sets)) = Len(sets) - 1 /\ Len(Tail(setArgs)) = Len(setArgs) - 1
          /\ \A j \in 1 .. Len(Tail(sets)) : Tail(sets)[j] = sets[j + 1]
      BY <1>8, <1>17, <2>1, HeadTailProperties
    <3>2. Tail(Append(sets, k)) = Append(Tail(sets), k) /\ Tail(Append(setArgs, x)) = Append(Tail(setArgs), x)
      BY <1>8, <1>17, <2>1, HeadTailAppend
    <3>3. \A j \in 1 .. Len(Tail(sets)) : j + 1 \in DOMAIN sets BY <1>8, <3>1, LenProperties
    <3>4. Len(sets) # 0 BY <1>8, <1>17, <2>1
    <3> QED BY <1>2, <1>8, <2>1, <3>1, <3>2, <3>3, <3>4 DEF KeysLeft, ArgsLeft
  <2>2. CASE current # "set"
    <3>1. DOMAIN sets = 1 .. Len(sets) BY <1>8, LenProperties
    <3> QED BY <1>2, <1>8, <2>2, <3>1 DEF KeysLeft, ArgsLeft
  <2> QED BY <2>1, <2>2
<1>20. SetsInv'
  <2>1. SetDuesIn(Pending') = Append(SetDuesIn(Pending), d)
    BY <1>12, <1>13, <1>14, SetDuesAppend
  <2>2. SetDuesIn(Pending) \in Seq(Dues) /\ Len(SetDuesIn(Pending)) = Len(KeysLeft)
    BY <1>13, SetDuesCollects DEF DataInv, SetsInv
  <2>3. /\ Len(SetDuesIn(Pending')) = Len(KeysLeft) + 1
        /\ SetDuesIn(Pending')[Len(KeysLeft) + 1] = d
        /\ \A j \in 1 .. Len(KeysLeft) : SetDuesIn(Pending')[j] = SetDuesIn(Pending)[j]
    BY <1>4, <2>1, <2>2, AppendProperties
  <2>4. /\ Len(KeysLeft') = Len(KeysLeft) + 1
        /\ KeysLeft'[Len(KeysLeft) + 1] = k
        /\ \A j \in 1 .. Len(KeysLeft) : KeysLeft'[j] = KeysLeft[j]
    BY <1>3, <1>19, AppendProperties
  <2>5. /\ ArgsLeft'[Len(KeysLeft) + 1] = x
        /\ \A j \in 1 .. Len(KeysLeft) : ArgsLeft'[j] = ArgsLeft[j]
    BY <1>1, <1>19, AppendProperties
  <2>6. ASSUME NEW j \in 1 .. Len(KeysLeft) + 1, NEW key, key = KeysLeft'[j], NEW y, y = ArgsLeft'[j]
        PROVE  SetDuesIn(Pending')[j] = SetDue(key, y)'
    <3>1. CASE j = Len(KeysLeft) + 1 
      <4>1. key = k /\ y = x BY <2>4, <2>5, <2>6, <3>1
      <4>2. SetDue(key, y)' = d BY <1>5, <4>1
      <4> QED BY <2>3, <3>1, <4>2
    <3>2. CASE j # Len(KeysLeft) + 1
      <4>1. j \in 1 .. Len(KeysLeft) BY <1>19, <3>2
      <4>2. key = KeysLeft[j] /\ y = ArgsLeft[j] BY <2>4, <2>5, <2>6, <4>1
      <4>3. SetDuesIn(Pending)[j] = SetDue(key, y) BY <4>1, <4>2 DEF DataInv, SetsInv
      <4>4. SetDue(key, y)' = SetDue(key, y) BY <1>18, <1>19, <4>1, <4>2
      <4> QED BY <2>3, <4>1, <4>3, <4>4
    <3> QED BY <3>1, <3>2
  <2> QED BY <2>3, <2>4, <2>6 DEF SetsInv
<1>21. Further' = Further
  <2>1. CASE current = "set"
    <3>1. Head(sets') = Head(sets) /\ Head(setArgs') = Head(setArgs)
      BY <1>2, <1>8, <1>17, <2>1, HeadTailAppend
    <3>2. 1 \in DOMAIN sets /\ Head(sets) = sets[1]
      BY <1>8, <1>17, <2>1, LenProperties
    <3>3. Matching(s, Head(sets)) = Matching(state, Head(sets)) BY <1>6, <3>2
    <3>4. \A key : Matching(state, key)' = Matching(s, key) BY <1>2, MatchingKept
    <3>5. Matching(state, Head(sets))' = Matching(state, Head(sets)) BY <3>1, <3>3, <3>4
    <3> QED BY <1>2, <3>1, <3>5 DEF Further
  <2>2. CASE current # "set" BY <1>2, <2>2 DEF Further
  <2> QED BY <2>1, <2>2
<1>22. FlowInv' /\ ExitInv' BY <1>1, <1>2, <1>4, <1>21, NamesDiffer, EnqueueBehind
<1> QED BY <1>2, <1>10, <1>16, <1>20, <1>22 DEF DataInv

LEMMA FurtherKept ==
  ASSUME UNCHANGED <<state, required, sets, setArgs>>, current = "set" <=> current' = "set"
  PROVE  Further' = Further
<1>1. Matching(state, Head(sets))' = Matching(state, Head(sets)) BY DEF Matching
<1> QED BY <1>1 DEF Further

LEMMA ConcatEmpty ==
  ASSUME NEW S, NEW s \in Seq(S)
  PROVE  s \o <<>> = s /\ <<>> \o s = s /\ <<>> \in Seq(S)
  BY ConcatEmptySeq, EmptySeq

\* The handler has nothing in hand: all that is due has been delivered.
LEMMA NothingInHand ==
  ASSUME TypeOK, DataInv, runs = <<>>, current # "set"
  PROVE  delivered = Due(Taken)
<1>1. Further = <<>> BY DEF Further
<1>2. delivered \in Seq(Run) BY DEF TypeOK
<1>3. (delivered \o <<>>) \o <<>> = delivered BY <1>2, ConcatEmpty
<1> QED BY <1>1, <1>3 DEF DataInv, FlowInv

LEMMA FurtherType ==
  ASSUME TypeOK, QueuesInStep
  PROVE  Further \in Seq(Run)
<1>1. CASE current = "set"
  <2>1. Head(setArgs) \in Arg BY <1>1 DEF QueuesInStep, TypeOK
  <2>2. Matching(state, Head(sets)) \in Seq(Action) BY MatchingType DEF TypeOK
  <2> QED BY <1>1, <2>1, <2>2, RunsOfType DEF Further
<1>2. CASE current # "set" BY <1>2, EmptySeq DEF Further
<1> QED BY <1>1, <1>2

\* The handler takes a signal: what it is due is what is run next.
LEMMA TakeFlow ==
  ASSUME TypeOK, InStep, HandlerInv, QueuesInStep, DataInv, Take
  PROVE  FlowInv'
<1>1. /\ queue \in Seq(Signal) /\ queue # <<>> /\ queue' = Tail(queue) /\ history' = history
      /\ current = "none" /\ runs = <<>> /\ current' = Head(queue).name
      /\ runs' = RunsOf(actions[Head(queue).name], Head(queue).arg)
      /\ UNCHANGED <<actions, state, required, sets, setArgs, delivered>>
      /\ Len(queue) <= Len(history) /\ Len(queue) \in Nat \ {0}
  BY EmptySeq DEF Take, At, HandlerInv, TypeOK, DataInv, PendingInv
<1>2. /\ Taken' = Taken + 1 /\ Taken' \in 1 .. Len(history)
      /\ Pending # <<>> /\ Head(Pending) = history[Taken + 1]
  BY <1>1, TakePending
<1>3. Pending \in Seq(Entry) /\ Len(Pending) = Len(queue) /\ Taken \in Nat /\ Taken \in 0 .. Len(history)
  BY <1>1, PendingType
<1>4. Head(Pending) = Pending[1] /\ Head(queue) = queue[1] /\ 1 \in 1 .. Len(queue)
  BY <1>1, <1>2, <1>3
<1>5. Head(queue).name \in Name /\ Head(queue).arg \in Arg
  <2>1. Head(queue) \in Signal BY <1>1, HeadTailProperties
  <2> QED BY <2>1 DEF Signal
<1>6. Head(Pending).name = Head(queue).name
  BY <1>4 DEF DataInv, PendingInv
<1>7. delivered = Due(Taken) BY <1>1, NamesDiffer, NothingInHand
<1>8. Due(Taken + 1) = Due(Taken) \o Head(Pending).due
  <2>1. Len(history) \in Nat BY HistoryType
  <2>2. Taken + 1 <= Len(history) BY <1>2, <1>3, <2>1
  <2>3. Due(Taken + 1) = Due(Taken) \o history[Taken + 1].due BY <1>3, <2>2, DueNext
  <2> QED BY <1>2, <2>3
<1>9. Due(Taken)' = Due(Taken + 1)
  <2>1. \A n : Due(n)' = Due(n) BY <1>1 DEF Due
  <2>2. ASSUME NEW n, n = Taken' PROVE Due(Taken)' = Due(n)'
    BY <2>2 DEF Due
  <2> QED BY <1>2, <2>1, <2>2
<1>10. delivered \in Seq(Run) /\ runs' \in Seq(Run)
  <2>1. actions[Head(queue).name] \in Seq(Action) BY <1>5 DEF TypeOK
  <2> QED BY <1>1, <1>5, <2>1, RunsOfType DEF TypeOK
<1>11. Head(Pending).due = runs' \o Further'
  <2>1. CASE Head(queue).name # "set"
    <3>1. Head(Pending).due = runs' BY <1>1, <1>4, <2>1 DEF DataInv, PendingInv
    <3>2. Further' = <<>> BY <1>1, <2>1 DEF Further
    <3> QED BY <1>10, <3>1, <3>2, ConcatEmpty
  <2>2. CASE Head(queue).name = "set"
    <3>1. /\ KeysLeft = sets /\ ArgsLeft = setArgs /\ SetArgsIn(queue) = setArgs
          /\ sets \in Seq(Key) /\ setArgs \in Seq(Arg) /\ Len(sets) = Len(setArgs)
      BY <1>1, NamesDiffer DEF KeysLeft, ArgsLeft, QueuesInStep, InStep, TypeOK
    <3>2. setArgs # <<>> /\ Head(setArgs) = Head(queue).arg
      BY <1>1, <2>2, <3>1, SetArgsTail
    <3>3. 1 \in 1 .. Len(sets) /\ Head(sets) = sets[1] /\ Head(setArgs) = setArgs[1]
      BY <3>1, <3>2
    <3>4. SetDuesIn(Pending) # <<>> /\ Head(SetDuesIn(Pending)) = Head(Pending).due
      BY <1>2, <1>3, <1>6, <2>2, SetDuesTail
    <3>5. Head(SetDuesIn(Pending)) = SetDuesIn(Pending)[1]
      BY <1>3, <3>4, SetDuesCollects
    <3>6. SetDuesIn(Pending)[1] = SetDue(sets[1], setArgs[1])
      BY <3>1, <3>3 DEF DataInv, SetsInv
    <3>7. Head(Pending).due = RunsOf(actions["set"], Head(queue).arg)
                                \o RunsOf(Matching(state, Head(sets)), Head(setArgs))
      BY <3>2, <3>3, <3>4, <3>5, <3>6 DEF SetDue
    <3>8. Further' = RunsOf(Matching(state, Head(sets)), Head(setArgs))
      <4>1. Matching(state, Head(sets))' = Matching(state, Head(sets)) BY <1>1 DEF Matching
      <4> QED BY <1>1, <2>2, <4>1 DEF Further
    <3> QED BY <1>1, <2>2, <3>7, <3>8
  <2> QED BY <2>1, <2>2
<1>12. Further' \in Seq(Run)
  <2>1. CASE Head(queue).name = "set"
    <3>1. Matching(state, Head(sets)) \in Seq(Action) BY MatchingType DEF TypeOK
    <3>2. setArgs # <<>> /\ setArgs \in Seq(Arg)
      <4>1. SetArgsIn(queue) = setArgs BY <1>1, NamesDiffer DEF QueuesInStep
      <4> QED BY <1>1, <2>1, <4>1, SetArgsTail DEF TypeOK
    <3>3. Head(setArgs) \in Arg BY <3>2
    <3>4. RunsOf(Matching(state, Head(sets)), Head(setArgs)) \in Seq(Run) BY <3>1, <3>3, RunsOfType
    <3>5. Matching(state, Head(sets))' = Matching(state, Head(sets)) BY <1>1 DEF Matching
    <3> QED BY <1>1, <2>1, <3>4, <3>5 DEF Further
  <2>2. CASE Head(queue).name # "set" BY <1>1, <2>2, EmptySeq DEF Further
  <2> QED BY <2>1, <2>2
<1>13. (delivered \o runs') \o Further' = delivered \o (runs' \o Further')
  BY <1>10, <1>12, ConcatAssociative
<1> QED BY <1>1, <1>7, <1>8, <1>9, <1>11, <1>13, Zenon DEF FlowInv

LEMMA TakeKeeps ==
  ASSUME TypeOK, InStep, HandlerInv, QueuesInStep, DataInv, Take
  PROVE  DataInv'
<1>1. /\ queue \in Seq(Signal) /\ queue # <<>> /\ queue' = Tail(queue) /\ history' = history
      /\ current = "none" /\ current' = Head(queue).name
      /\ UNCHANGED <<actions, state, required, sets, setArgs>>
      /\ Len(queue) <= Len(history) /\ Len(queue) \in Nat \ {0} /\ Len(history) \in Nat
  BY EmptySeq, HistoryType DEF Take, At, HandlerInv, TypeOK, DataInv, PendingInv
<1>2. /\ Len(queue') <= Len(history') /\ Len(queue') = Len(queue) - 1
      /\ Taken' = Taken + 1 /\ Taken' \in 1 .. Len(history)
      /\ Pending # <<>> /\ Head(Pending) = history[Taken + 1] /\ Pending' = Tail(Pending)
      /\ \A i \in 1 .. Len(queue') : queue'[i] = queue[i + 1] /\ Pending'[i] = Pending[i + 1]
  BY <1>1, TakePending
<1>3. Pending \in Seq(Entry) /\ Len(Pending) = Len(queue) /\ Taken \in Nat
  BY <1>1, PendingType
<1>4. Head(Pending) = Pending[1] /\ Head(queue) = queue[1] /\ 1 \in 1 .. Len(queue)
  BY <1>1, <1>2, <1>3
<1>5. Head(Pending).name = Head(queue).name
  BY <1>4 DEF DataInv, PendingInv
<1>6. PendingInv'
  <2>1. \A i \in 1 .. Len(queue') : i + 1 \in 1 .. Len(queue) BY <1>1, <1>2
  <2> QED BY <1>1, <1>2, <2>1 DEF DataInv, PendingInv
<1>7. SetsInv'
  <2>1. KeysLeft = sets /\ ArgsLeft = setArgs /\ SetArgsIn(queue) = setArgs
    BY <1>1, NamesDiffer DEF KeysLeft, ArgsLeft, QueuesInStep
  <2>2. \A k, y : SetDue(k, y)' = SetDue(k, y) BY <1>1, SetDueKept
  <2>3. CASE Head(queue).name = "set"
    <3>1. /\ sets \in Seq(Key) /\ setArgs \in Seq(Arg) /\ Len(sets) = Len(setArgs)
      BY DEF InStep, TypeOK
    <3>2. setArgs # <<>> /\ sets # <<>>
      BY <1>1, <2>1, <2>3, <3>1, SetArgsTail
    <3>3. KeysLeft' = Tail(sets) /\ ArgsLeft' = Tail(setArgs)
      BY <1>1, <2>3 DEF KeysLeft, ArgsLeft
    <3>4. SetDuesIn(Pending') = Tail(SetDuesIn(Pending)) /\ SetDuesIn(Pending) # <<>>
      BY <1>2, <1>3, <1>5, <2>3, SetDuesTail
    <3>5. SetDuesIn(Pending) \in Seq(Dues) BY <1>3, SetDuesCollects
    <3>6. /\ Len(SetDuesIn(Pending')) = Len(SetDuesIn(Pending)) - 1
          /\ \A j \in 1 .. Len(SetDuesIn(Pending)) - 1 : SetDuesIn(Pending')[j] = SetDuesIn(Pending)[j + 1]
      BY <3>4, <3>5, HeadTailProperties
    <3>7. /\ Len(Tail(sets)) = Len(sets) - 1 /\ Len(sets) \in Nat
          /\ \A j \in 1 .. Len(sets) - 1 : Tail(sets)[j] = sets[j + 1] /\ Tail(setArgs)[j] = setArgs[j + 1]
      BY <3>1, <3>2, HeadTailProperties
    <3>8. Len(SetDuesIn(Pending)) = Len(sets)
      BY <2>1 DEF DataInv, SetsInv
    <3>9. ASSUME NEW j \in 1 .. Len(sets) - 1,
                 NEW k, k = KeysLeft'[j], NEW y, y = ArgsLeft'[j]
          PROVE  SetDuesIn(Pending')[j] = SetDue(k, y)'
      <4>1. j + 1 \in 1 .. Len(sets) BY <3>7
      <4>2. SetDuesIn(Pending)[j + 1] = SetDue(sets[j + 1], setArgs[j + 1])
        BY <2>1, <4>1 DEF DataInv, SetsInv
      <4>3. k = sets[j + 1] /\ y = setArgs[j + 1] BY <3>3, <3>7, <3>9
      <4> QED BY <2>2, <3>6, <3>8, <4>2, <4>3
    <3>10. Len(KeysLeft') = Len(sets) - 1 /\ Len(SetDuesIn(Pending')) = Len(sets) - 1
      BY <3>3, <3>6, <3>7, <3>8
    <3> QED BY <3>9, <3>10 DEF SetsInv
  <2>4. CASE Head(queue).name # "set"
    <3>1. KeysLeft' = sets /\ ArgsLeft' = setArgs
      BY <1>1, <2>4 DEF KeysLeft, ArgsLeft
    <3>2. SetDuesIn(Pending') = SetDuesIn(Pending)
      BY <1>2, <1>3, <1>5, <2>4, SetDuesTail
    <3> QED BY <2>1, <2>2, <3>1, <3>2 DEF DataInv, SetsInv
  <2> QED BY <2>3, <2>4
<1>8. ExitInv'
  <2>1. \A i \in 1 .. Taken' : i \in 1 .. Taken \/ i = Taken' BY <1>2, <1>3
  <2>2. current # "exit" BY <1>1, NamesDiffer
  <2>3. history'[Taken'].name = current' BY <1>1, <1>2, <1>5
  <2> QED BY <1>1, <1>2, <2>1, <2>2, <2>3 DEF DataInv, ExitInv
<1>9. FlowInv' BY TakeFlow
<1> QED BY <1>6, <1>7, <1>8, <1>9 DEF DataInv

\* A function is run: it was the next one due.
LEMMA RunKeeps ==
  ASSUME TypeOK, HandlerInv, DataInv, RunAction
  PROVE  DataInv'
<1>1. /\ runs # <<>> /\ delivered' = Append(delivered, Head(runs)) /\ runs' = Tail(runs)
      /\ UNCHANGED <<queue, history, actions, state, required, sets, setArgs, current>>
  BY DEF RunAction
<1>2. Taken' = Taken /\ Pending' = Pending BY <1>1 DEF Taken, Pending
<1>3. KeysLeft' = KeysLeft /\ ArgsLeft' = ArgsLeft BY <1>1 DEF KeysLeft, ArgsLeft
<1>4. PendingInv' BY <1>1, <1>2 DEF DataInv, PendingInv
<1>5. SetsInv'
  <2>1. \A k, x : SetDue(k, x)' = SetDue(k, x) BY <1>1, SetDueKept
  <2> QED BY <1>2, <1>3, <2>1 DEF DataInv, SetsInv
<1>6. FlowInv'
  <2>1. Further' = Further BY <1>1, FurtherKept
  <2>2. Due(Taken)' = Due(Taken) BY <1>1, <1>2 DEF Due
  <2>3. runs \in Seq(Run) /\ delivered \in Seq(Run) BY DEF TypeOK
  <2>4. ASSUME NEW S, NEW s \in Seq(S), NEW t \in Seq(S), t # <<>>
        PROVE  Append(s, Head(t)) \o Tail(t) = s \o t
    <3>1. Head(t) \in S /\ Tail(t) \in Seq(S) /\ t = <<Head(t)>> \o Tail(t)
      BY <2>4, HeadTailProperties
    <3>2. Append(s, Head(t)) = s \o <<Head(t)>> /\ <<Head(t)>> \in Seq(S)
      BY <3>1, AppendIsConcat
    <3>3. (s \o <<Head(t)>>) \o Tail(t) = s \o (<<Head(t)>> \o Tail(t))
      BY <3>1, <3>2, ConcatAssociative
    <3> QED BY <3>1, <3>2, <3>3, Zenon
  <2>5. delivered' \o runs' = delivered \o runs BY <1>1, <2>3, <2>4
  <2> QED BY <2>1, <2>2, <2>5 DEF DataInv, FlowInv
<1>7. ExitInv' BY <1>1, <1>2 DEF DataInv, ExitInv
<1> QED BY <1>4, <1>5, <1>6, <1>7 DEF DataInv

\* The functions that m_requisitions asks for are run after those connected to "set".
LEMMA TakeSetKeeps ==
  ASSUME TypeOK, InStep, QueuesInStep, DataInv, TakeSet
  PROVE  DataInv' /\ lost' = lost
<1>1. /\ current = "set" /\ runs = <<>> /\ setArgs # <<>> /\ Len(sets) = Len(setArgs)
      /\ setArgs \in Seq(Arg) /\ sets \in Seq(Key)
  BY DEF TakeSet, Ran, TypeOK, InStep, QueuesInStep
<1>2. sets # <<>> BY <1>1
<1>3. /\ sets' = Tail(sets) /\ setArgs' = Tail(setArgs) /\ current' = "none"
      /\ runs' = RunsOf(Matching(state, Head(sets)), Head(setArgs))
      /\ UNCHANGED <<queue, history, actions, state, required, delivered, lost>>
  BY <1>2 DEF TakeSet
<1>4. Taken' = Taken /\ Pending' = Pending BY <1>3 DEF Taken, Pending
<1>5. KeysLeft' = KeysLeft /\ ArgsLeft' = ArgsLeft BY <1>1, <1>3 DEF KeysLeft, ArgsLeft
<1>6. PendingInv' BY <1>3, <1>4 DEF DataInv, PendingInv
<1>7. SetsInv'
  <2>1. \A k, x : SetDue(k, x)' = SetDue(k, x) BY <1>3, SetDueKept
  <2> QED BY <1>4, <1>5, <2>1 DEF DataInv, SetsInv
<1>8. FlowInv'
  <2>1. Further = runs' /\ Further' = <<>> BY <1>1, <1>3 DEF Further
  <2>2. Due(Taken)' = Due(Taken) BY <1>3, <1>4 DEF Due
  <2>3. delivered \in Seq(Run) /\ runs' \in Seq(Run)
    <3>1. Matching(state, Head(sets)) \in Seq(Action) BY MatchingType DEF TypeOK
    <3>2. Head(setArgs) \in Arg BY <1>1
    <3> QED BY <1>3, <3>1, <3>2, RunsOfType DEF TypeOK
  <2>4. delivered \o runs' \in Seq(Run) BY <2>3, ConcatType
  <2>5. (delivered \o runs) \o Further = Due(Taken) BY DEF DataInv, FlowInv
  <2>6. delivered \o runs = delivered BY <1>1, <2>3, ConcatEmpty
  <2>7. (delivered \o runs') \o <<>> = Due(Taken) BY <2>1, <2>4, <2>5, <2>6, ConcatEmpty
  <2> QED BY <1>3, <2>1, <2>2, <2>7 DEF FlowInv
<1>9. ExitInv' BY <1>1, <1>3, <1>4 DEF DataInv, ExitInv
<1> QED BY <1>3, <1>6, <1>7, <1>8, <1>9 DEF DataInv

LEMMA AgainKeeps ==
  ASSUME DataInv, Again
  PROVE  DataInv'
<1>1. /\ current \notin {"set", "exit"} /\ current' = "none"
      /\ UNCHANGED <<queue, history, actions, state, required, sets, setArgs, runs, delivered>>
  BY NamesDiffer DEF Again, Ran
<1>2. Taken' = Taken /\ Pending' = Pending BY <1>1 DEF Taken, Pending
<1>3. KeysLeft' = KeysLeft /\ ArgsLeft' = ArgsLeft BY <1>1 DEF KeysLeft, ArgsLeft
<1>4. PendingInv' BY <1>1, <1>2 DEF DataInv, PendingInv
<1>5. SetsInv'
  <2>1. \A k, x : SetDue(k, x)' = SetDue(k, x) BY <1>1, SetDueKept
  <2> QED BY <1>2, <1>3, <2>1 DEF DataInv, SetsInv
<1>6. FlowInv'
  <2>1. Further' = Further BY <1>1, FurtherKept
  <2>2. Due(Taken)' = Due(Taken) BY <1>1, <1>2 DEF Due
  <2> QED BY <1>1, <2>1, <2>2 DEF DataInv, FlowInv
<1>7. ExitInv' BY <1>1, <1>2 DEF DataInv, ExitInv
<1> QED BY <1>4, <1>5, <1>6, <1>7 DEF DataInv

\* connect and require, which come before anything is asked for.
LEMMA QuietData == Quiet => DataInv
<1> SUFFICES ASSUME Quiet PROVE DataInv
  OBVIOUS
<1>1. Taken = 0 /\ Pending = <<>> /\ Len(queue) = 0 /\ Len(history) = 0
  BY DEF Quiet, Taken, Pending
<1>2. PendingInv BY <1>1 DEF PendingInv
<1>3. SetsInv
  <2>1. SetDuesIn(<<>>) = <<>>
    <3>1. <<>> \in Seq(Entry) BY EmptySeq
    <3> QED BY <3>1, SetDuesCollects, PickDueType, CollectEmpty
  <2>2. KeysLeft = <<>> BY DEF Quiet, KeysLeft
  <2> QED BY <1>1, <2>1, <2>2 DEF SetsInv
<1>4. FlowInv
  <2>1. Further = <<>> BY DEF Quiet, Further
  <2>2. (<<>> \o <<>>) \o <<>> = <<>> OBVIOUS
  <2> QED BY <1>1, <2>1, <2>2, DueNone DEF Quiet, FlowInv
<1>5. ExitInv BY <1>1 DEF Quiet, ExitInv
<1> QED BY <1>2, <1>3, <1>4, <1>5 DEF DataInv

-------------------------------------------------------------------------------
(* Scripts. *)

\* What an order of calls says of the first one and of the others.
LEMMA TailInOrder ==
  ASSUME NEW S, NEW s \in Seq(S), s # <<>>, InOrder(s)
  PROVE  /\ InOrder(Tail(s))
         /\ \A j \in DOMAIN Tail(s) :
              /\ j + 1 \in DOMAIN s /\ Tail(s)[j] = s[j + 1]
              /\ Tail(s)[j].call \in Connecting => Head(s).call \in Connecting
              /\ Tail(s)[j].call \in {"finalize", "wait"} => Head(s).call \notin {"finalize", "wait", "drop"}
              /\ Tail(s)[j].call = "drop" => Head(s).call # "drop"
<1>1. /\ Tail(s) \in Seq(S) /\ Len(Tail(s)) = Len(s) - 1 /\ Len(s) \in Nat \ {0}
      /\ \A i \in 1 .. Len(Tail(s)) : Tail(s)[i] = s[i + 1]
  BY HeadTailProperties, EmptySeq
<1>2. DOMAIN s = 1 .. Len(s) /\ DOMAIN Tail(s) = 1 .. Len(s) - 1
  BY <1>1, LenProperties
<1>3. Head(s) = s[1] BY <1>1
<1>4. \A j \in DOMAIN Tail(s) : j + 1 \in DOMAIN s /\ 1 < j + 1 /\ 1 \in DOMAIN s /\ Tail(s)[j] = s[j + 1]
  BY <1>1, <1>2
<1>5. InOrder(Tail(s))
  <2> SUFFICES ASSUME NEW i \in DOMAIN Tail(s), NEW j \in DOMAIN Tail(s), i < j
               PROVE  /\ Tail(s)[j].call \in Connecting => Tail(s)[i].call \in Connecting
                      /\ Tail(s)[j].call \in {"finalize", "wait"} =>
                           Tail(s)[i].call \notin {"finalize", "wait", "drop"}
                      /\ Tail(s)[j].call = "drop" => Tail(s)[i].call # "drop"
    BY DEF InOrder
  <2>1. i + 1 < j + 1 BY <1>2
  <2>2. i + 1 \in DOMAIN s /\ j + 1 \in DOMAIN s /\ Tail(s)[i] = s[i + 1] /\ Tail(s)[j] = s[j + 1]
    BY <1>4
  <2> QED BY <2>1, <2>2 DEF InOrder
<1>6. ASSUME NEW j \in DOMAIN Tail(s)
      PROVE  /\ Tail(s)[j].call \in Connecting => Head(s).call \in Connecting
             /\ Tail(s)[j].call \in {"finalize", "wait"} => Head(s).call \notin {"finalize", "wait", "drop"}
             /\ Tail(s)[j].call = "drop" => Head(s).call # "drop"
  <2>1. j + 1 \in DOMAIN s /\ 1 < j + 1 /\ 1 \in DOMAIN s /\ Tail(s)[j] = s[j + 1] BY <1>4
  <2> QED BY <1>3, <2>1 DEF InOrder
<1> QED BY <1>4, <1>5, <1>6

\* The calls of the script, and who makes them.
LEMMA ScriptCall ==
  ASSUME TypeOK, NEW D, ScriptsInv(D), SetupInv, NEW u \in User, NEW k, Makes(u, k)
  PROVE  /\ todo[u] \in Seq(D \cup {WaitEnd}) /\ todo[u] # <<>> /\ Head(todo[u]).call = k
         /\ Tail(todo[u]) \in Seq(D \cup {WaitEnd})
         /\ k # "wait" => Calling(u) \in D /\ Calling(u).call = k
         /\ k \notin Uses => u = Main
         /\ k \in Connecting => Quiet
         /\ u # Main => \A i \in DOMAIN todo[Main] : todo[Main][i].call \notin Connecting
         /\ u = Main => InOrder(todo[Main])
         /\ u = Main /\ joined => k \notin {"finalize", "wait"}
<1>1. todo[u] \in Seq(D \cup {WaitEnd}) /\ todo[u] # <<>> /\ Head(todo[u]).call = k
  BY DEF ScriptsInv, Makes
<1>2. /\ Tail(todo[u]) \in Seq(D \cup {WaitEnd}) /\ Head(todo[u]) \in D \cup {WaitEnd}
      /\ Head(todo[u]) = todo[u][1] /\ 1 \in DOMAIN todo[u]
  BY <1>1, LenProperties
<1>3. k # "wait" => Calling(u) \in D /\ Calling(u).call = k
  BY <1>1, <1>2, WaitEndCall DEF Calling
<1>4. k \notin Uses => u = Main BY <1>1, <1>2 DEF ScriptsInv
<1>5. k \in Connecting => Quiet
  <2>1. k \in Connecting => k \notin Uses BY DEF Connecting, Uses
  <2> QED BY <1>1, <1>2, <1>4, <2>1 DEF SetupInv
<1>6. u # Main => \A i \in DOMAIN todo[Main] : todo[Main][i].call \notin Connecting
  BY <1>1 DEF SetupInv, Quiet
<1>7. u = Main => InOrder(todo[Main]) BY DEF ScriptsInv
<1>8. u = Main /\ joined => k \notin {"finalize", "wait"} BY <1>1, <1>2 DEF ScriptsInv
<1> QED BY <1>1, <1>2, <1>3, <1>4, <1>5, <1>6, <1>7, <1>8

LEMMA CallOfScript ==
  ASSUME TypeOK, NEW D, ScriptsInv(D), SetupInv, NEW u \in User, NEW k, Makes(u, k), k # "wait"
  PROVE  Calling(u) \in D /\ Calling(u).call = k
<1>1. todo[u] \in Seq(D \cup {WaitEnd}) /\ todo[u] # <<>> /\ Head(todo[u]).call = k
  BY DEF ScriptsInv, Makes
<1>2. Head(todo[u]) \in D \cup {WaitEnd} BY <1>1
<1> QED BY <1>1, <1>2, WaitEndCall DEF Calling

LEMMA ReturnsKeeps ==
  ASSUME TypeOK, NEW D, ScriptsInv(D), SetupInv, NEW u \in User, NEW k, Makes(u, k), Returns(u),
         joined' => joined \/ k = "wait"
  PROVE  /\ ScriptsInv(D)'
         /\ k \notin Connecting => SetupInv'
         /\ k \in Connecting =>
               u = Main /\ Quiet /\ \A v \in User \ {Main} : todo'[v] = todo[v]
<1>1. /\ todo[u] \in Seq(D \cup {WaitEnd}) /\ todo[u] # <<>> /\ Head(todo[u]).call = k
      /\ Tail(todo[u]) \in Seq(D \cup {WaitEnd})
  BY ScriptCall
<1>2. /\ k \notin Uses => u = Main
      /\ k \in Connecting => Quiet
      /\ u # Main => \A i \in DOMAIN todo[Main] : todo[Main][i].call \notin Connecting
      /\ u = Main => InOrder(todo[Main])
  BY ScriptCall
<1>3. todo'[u] = Tail(todo[u]) /\ \A v \in User \ {u} : todo'[v] = todo[v]
  BY DEF Returns, TypeOK
<1>4. ASSUME NEW j \in DOMAIN Tail(todo[u])
      PROVE  j + 1 \in DOMAIN todo[u] /\ Tail(todo[u])[j] = todo[u][j + 1]
  <2>1. /\ Len(Tail(todo[u])) = Len(todo[u]) - 1 /\ Len(todo[u]) \in Nat
        /\ \A i \in 1 .. Len(Tail(todo[u])) : Tail(todo[u])[i] = todo[u][i + 1]
        /\ DOMAIN todo[u] = 1 .. Len(todo[u]) /\ DOMAIN Tail(todo[u]) = 1 .. Len(Tail(todo[u]))
    BY <1>1, HeadTailProperties, LenProperties
  <2> QED BY <2>1
<1>5. CASE u = Main
  <2>1. /\ InOrder(Tail(todo[u]))
        /\ \A j \in DOMAIN Tail(todo[u]) :
             /\ Tail(todo[u])[j].call \in Connecting => k \in Connecting
             /\ Tail(todo[u])[j].call \in {"finalize", "wait"} => k # "wait"
    BY <1>2, <1>1, <1>5, TailInOrder
  <2>2. ScriptsInv(D)'
    <3>1. \A v \in User : todo'[v] \in Seq(D \cup {WaitEnd}) BY <1>1, <1>3 DEF ScriptsInv
    <3>2. \A v \in User \ {Main} : \A i \in DOMAIN todo'[v] : todo'[v][i].call \in Uses
      BY <1>3, <1>5 DEF ScriptsInv
    <3>3. InOrder(todo'[Main]) BY <1>3, <1>5, <2>1
    <3>4. ASSUME joined', NEW i \in DOMAIN todo'[Main] PROVE todo'[Main][i].call \notin {"finalize", "wait"}
      <4>1. i \in DOMAIN Tail(todo[u]) /\ todo'[Main][i] = Tail(todo[u])[i] BY <1>3, <1>5, <3>4
      <4>2. CASE k = "wait" BY <2>1, <4>1, <4>2
      <4>3. CASE joined
        <5>1. \A j \in DOMAIN todo[u] : todo[u][j].call \notin {"finalize", "wait"}
          BY <1>5, <4>3 DEF ScriptsInv
        <5> QED BY <1>4, <4>1, <5>1
      <4> QED BY <3>4, <4>2, <4>3
    <3> QED BY <3>1, <3>2, <3>3, <3>4 DEF ScriptsInv
  <2>3. k \notin Connecting => SetupInv' BY <1>3, <1>5, <2>1 DEF SetupInv
  <2> QED BY <1>2, <1>3, <1>5, <2>2, <2>3
<1>6. CASE u # Main
  <2>1. todo'[Main] = todo[Main] BY <1>3, <1>6, MainAssumption
  <2>2. k \in Uses /\ k # "wait" /\ k \notin Connecting BY <1>2, <1>6 DEF Uses, Connecting
  <2>3. ScriptsInv(D)'
    <3>1. \A v \in User : todo'[v] \in Seq(D \cup {WaitEnd}) BY <1>1, <1>3 DEF ScriptsInv
    <3>2. ASSUME NEW v \in User \ {Main}, NEW i \in DOMAIN todo'[v] PROVE todo'[v][i].call \in Uses
      <4>1. CASE v = u
        <5>1. \A j \in DOMAIN todo[u] : todo[u][j].call \in Uses BY <1>6 DEF ScriptsInv
        <5>2. i \in DOMAIN Tail(todo[u]) /\ todo'[v][i] = Tail(todo[u])[i] BY <1>3, <3>2, <4>1
        <5> QED BY <1>4, <5>1, <5>2
      <4>2. CASE v # u
        <5>1. todo'[v] = todo[v] BY <1>3, <4>2
        <5> QED BY <3>2, <5>1 DEF ScriptsInv
      <4> QED BY <4>1, <4>2
    <3> QED BY <2>1, <2>2, <3>1, <3>2 DEF ScriptsInv
  <2>4. SetupInv' BY <1>2, <1>6, <2>1 DEF SetupInv
  <2> QED BY <2>2, <2>3, <2>4
<1> QED BY <1>5, <1>6

LEMMA ToWaitKeeps ==
  ASSUME TypeOK, NEW D, ScriptsInv(D), SetupInv, NEW u \in User,
         Makes(u, "finalize") \/ (Makes(u, "drop") /\ ~joined), ToWait(u), joined' = joined
  PROVE  ScriptsInv(D)' /\ SetupInv'
<1>1. PICK k \in {"finalize", "drop"} : Makes(u, k) /\ (joined => k = "finalize")
  OBVIOUS
<1>2. u = Main /\ ~joined
  BY <1>1, ScriptCall DEF Uses
<1>3. /\ todo[u] \in Seq(D \cup {WaitEnd}) /\ todo[u] # <<>> /\ Head(todo[u]).call = k
      /\ Tail(todo[u]) \in Seq(D \cup {WaitEnd})
      /\ InOrder(todo[u])
  BY <1>1, <1>2, ScriptCall
<1> DEFINE s == Tail(todo[u])
           w == <<WaitEnd>> \o s
<1>4. /\ InOrder(s)
      /\ \A j \in DOMAIN s : s[j].call \notin Connecting /\ s[j].call \notin {"finalize", "wait"}
  BY <1>1, <1>3, TailInOrder DEF Connecting
<1>5. todo'[u] = w /\ \A v \in User \ {u} : todo'[v] = todo[v]
  BY DEF ToWait, TypeOK
<1>6. /\ w \in Seq(D \cup {WaitEnd}) /\ w[1] = WaitEnd
      /\ \A j \in DOMAIN w : j \in Nat /\ j >= 1 /\ (j # 1 => j - 1 \in DOMAIN s /\ w[j] = s[j - 1])
  <2>1. <<WaitEnd>> \in Seq(D \cup {WaitEnd}) /\ Len(<<WaitEnd>>) = 1 /\ <<WaitEnd>>[1] = WaitEnd
    OBVIOUS
  <2>2. /\ w \in Seq(D \cup {WaitEnd}) /\ Len(w) = 1 + Len(s)
        /\ \A i \in 1 .. 1 + Len(s) : w[i] = IF i <= 1 THEN <<WaitEnd>>[i] ELSE s[i - 1]
    BY <1>3, <2>1, ConcatProperties
  <2>3. DOMAIN w = 1 .. 1 + Len(s) /\ DOMAIN s = 1 .. Len(s) /\ Len(s) \in Nat
    BY <1>3, <2>2, LenProperties
  <2> QED BY <2>1, <2>2, <2>3
<1> HIDE DEF w
<1>7. InOrder(w)
  <2> SUFFICES ASSUME NEW i \in DOMAIN w, NEW j \in DOMAIN w, i < j
               PROVE  /\ w[j].call \in Connecting => w[i].call \in Connecting
                      /\ w[j].call \in {"finalize", "wait"} => w[i].call \notin {"finalize", "wait", "drop"}
                      /\ w[j].call = "drop" => w[i].call # "drop"
    BY DEF InOrder
  <2>1. j # 1 /\ j - 1 \in DOMAIN s /\ w[j] = s[j - 1] BY <1>6
  <2>2. w[j].call \notin Connecting /\ w[j].call \notin {"finalize", "wait"} BY <1>4, <2>1
  <2>3. CASE i = 1 BY <1>6, <2>2, <2>3, WaitEndCall
  <2>4. CASE i # 1
    <3>1. i - 1 \in DOMAIN s /\ w[i] = s[i - 1] /\ i - 1 < j - 1 BY <1>6, <2>4
    <3> QED BY <1>4, <2>1, <2>2, <3>1 DEF InOrder
  <2> QED BY <2>3, <2>4
<1>8. \A j \in DOMAIN w : w[j].call \notin Connecting
  BY <1>4, <1>6, WaitEndCall DEF Connecting
<1>9. ScriptsInv(D)'
  <2>1. \A v \in User : todo'[v] \in Seq(D \cup {WaitEnd}) BY <1>5, <1>6 DEF ScriptsInv
  <2>2. \A v \in User \ {Main} : \A i \in DOMAIN todo'[v] : todo'[v][i].call \in Uses
    BY <1>2, <1>5 DEF ScriptsInv
  <2>3. InOrder(todo'[Main]) BY <1>2, <1>5, <1>7
  <2> QED BY <1>2, <2>1, <2>2, <2>3 DEF ScriptsInv
<1>10. SetupInv' BY <1>2, <1>5, <1>8 DEF SetupInv
<1> QED BY <1>9, <1>10

LEMMA StartKeeps ==
  ASSUME TypeOK, NEW D, KeepsRules(D), ScriptsInv(D), SetupInv, NEW u \in User, DoStart(u)
  PROVE  ScriptsInv(D)' /\ SetupInv'
<1>1. /\ Makes(u, "start") /\ joined' = joined
      /\ todo' = [todo EXCEPT ![u] = Tail(@), ![Calling(u).user] = Calling(u).script]
  BY DEF DoStart
<1>2. /\ todo[u] \in Seq(D \cup {WaitEnd}) /\ todo[u] # <<>> /\ Head(todo[u]).call = "start"
      /\ Tail(todo[u]) \in Seq(D \cup {WaitEnd})
      /\ Calling(u) \in D /\ Calling(u).call = "start"
      /\ u # Main => \A i \in DOMAIN todo[Main] : todo[Main][i].call \notin Connecting
      /\ u = Main => InOrder(todo[Main])
  <2>1. ASSUME NEW k, k = "start" PROVE Makes(u, k) /\ k # "wait" BY <1>1, <2>1
  <2>2. ASSUME NEW k, k = "start"
        PROVE  /\ todo[u] \in Seq(D \cup {WaitEnd}) /\ todo[u] # <<>> /\ Head(todo[u]).call = k
               /\ Tail(todo[u]) \in Seq(D \cup {WaitEnd})
               /\ Calling(u) \in D /\ Calling(u).call = k
               /\ u # Main => \A i \in DOMAIN todo[Main] : todo[Main][i].call \notin Connecting
               /\ u = Main => InOrder(todo[Main])
    BY <2>1, <2>2, ScriptCall
  <2> QED BY <2>2
<1> DEFINE v == Calling(u).user
           s == Calling(u).script
<1>3. v \in User /\ v # Main
  BY <1>1, HeadCall DEF WellTyped
<1>4. s \in Seq(D) /\ \A i \in DOMAIN s : s[i].call \in Uses
  BY <1>2 DEF KeepsRules, Uses
<1>5. s \in Seq(D \cup {WaitEnd}) BY <1>4, SeqMonotonic
<1> HIDE DEF v, s
<1>6. /\ todo'[v] = s
      /\ \A x \in User : x # v => todo'[x] = IF x = u THEN Tail(todo[u]) ELSE todo[x]
  BY <1>1, <1>3 DEF TypeOK, v, s
<1>7. ASSUME NEW j \in DOMAIN Tail(todo[u])
      PROVE  j + 1 \in DOMAIN todo[u] /\ Tail(todo[u])[j] = todo[u][j + 1]
  <2>1. /\ Len(Tail(todo[u])) = Len(todo[u]) - 1 /\ Len(todo[u]) \in Nat
        /\ \A i \in 1 .. Len(Tail(todo[u])) : Tail(todo[u])[i] = todo[u][i + 1]
        /\ DOMAIN todo[u] = 1 .. Len(todo[u]) /\ DOMAIN Tail(todo[u]) = 1 .. Len(Tail(todo[u]))
    BY <1>2, HeadTailProperties, LenProperties
  <2> QED BY <2>1
<1>8. todo'[Main] = IF u = Main THEN Tail(todo[Main]) ELSE todo[Main]
  BY <1>3, <1>6, MainAssumption
<1>9. /\ InOrder(todo'[Main])
      /\ \A i \in DOMAIN todo'[Main] : todo'[Main][i].call \notin Connecting
  <2>1. CASE u = Main BY <1>2, <1>8, <2>1, TailInOrder DEF Connecting
  <2>2. CASE u # Main BY <1>2, <1>8, <2>2 DEF ScriptsInv
  <2> QED BY <2>1, <2>2
<1>10. ScriptsInv(D)'
  <2>1. \A x \in User : todo'[x] \in Seq(D \cup {WaitEnd}) BY <1>2, <1>5, <1>6 DEF ScriptsInv
  <2>2. ASSUME NEW x \in User \ {Main}, NEW i \in DOMAIN todo'[x] PROVE todo'[x][i].call \in Uses
    <3>1. CASE x = v BY <1>4, <1>6, <2>2, <3>1
    <3>2. CASE x # v /\ x = u BY <1>6, <1>7, <2>2, <3>2 DEF ScriptsInv
    <3>3. CASE x # v /\ x # u BY <1>6, <2>2, <3>3 DEF ScriptsInv
    <3> QED BY <3>1, <3>2, <3>3
  <2>3. joined' => \A i \in DOMAIN todo'[Main] : todo'[Main][i].call \notin {"finalize", "wait"}
    BY <1>1, <1>7, <1>8, ZenonT(30) DEF ScriptsInv
  <2> QED BY <1>9, <2>1, <2>2, <2>3 DEF ScriptsInv
<1>11. SetupInv' BY <1>9 DEF SetupInv
<1> QED BY <1>10, <1>11

\* The handler thread makes no calls, and has nothing to do before the first one.
LEMMA HandleSetup ==
  ASSUME NEW D, ScriptsInv(D), SetupInv, Handle
  PROVE  ScriptsInv(D)' /\ SetupInv'
<1>1. UNCHANGED <<todo, joined>>
  BY DEF Handle, Wake, Rest, Take, RunAction, End, TakeSet, Again
<1>2. Quiet => Quiet'
  BY DEF Quiet, Handle, Wake, Rest, Take, RunAction, End, TakeSet, Again, Ran, At
<1> QED BY <1>1, <1>2 DEF ScriptsInv, SetupInv

-------------------------------------------------------------------------------
(* The inductive invariant. *)

LEMMA DeliveryInit ==
  ASSUME NEW D
  PROVE  Init /\ StartsWith(D) => DeliveryInv(D)
<1> SUFFICES ASSUME Init, StartsWith(D) PROVE DeliveryInv(D)
  OBVIOUS
<1>1. Basics
  <2>1. QueuesInStep
    <3>1. SetArgsIn(<<>>) = <<>>
      <4>1. <<>> \in Seq(Signal) BY EmptySeq
      <4> QED BY <4>1, SetArgsCollects, PickArgType, CollectEmpty
    <3> QED BY <3>1 DEF Init, QueuesInStep
  <2> QED BY <2>1, InitType, HandlerInit DEF Basics
<1>2. ScriptsInv(D)
  <2>1. todo[Main] \in Seq(D \cup {WaitEnd}) BY SeqMonotonic DEF StartsWith
  <2>2. \A u \in User \ {Main} : todo[u] = <<>> BY DEF Init
  <2>3. <<>> \in Seq(D \cup {WaitEnd}) BY EmptySeq
  <2>4. ~joined /\ InOrder(todo[Main]) BY DEF Init, StartsWith
  <2>5. \A u \in User : todo[u] \in Seq(D \cup {WaitEnd}) BY <2>1, <2>2, <2>3
  <2>6. \A u \in User \ {Main} : \A i \in DOMAIN todo[u] : todo[u][i].call \in Uses
    <3>1. DOMAIN <<>> = {} OBVIOUS
    <3> QED BY <2>2, <3>1
  <2> QED BY <2>4, <2>5, <2>6 DEF ScriptsInv
<1>3. Quiet BY DEF Init, Quiet
<1>4. SettledInv(D) BY DEF Init, SettledInv
<1>5. DataInv BY <1>3, QuietData
<1> QED BY <1>1, <1>2, <1>3, <1>4, <1>5 DEF DeliveryInv, SetupInv, Init

\* connect, which changes the maps while nobody reads them.
LEMMA ConnectDelivers ==
  ASSUME NEW D, DeliveryInv(D), NEW u \in User, DoConnect(u) \/ DoRequire(u)
  PROVE  ScriptsInv(D)' /\ SetupInv' /\ SettledInv(D)' /\ DataInv' /\ ~lost'
<1> USE DEF DeliveryInv, Basics
<1>1. PICK k \in Connecting : Makes(u, k) BY DEF DoConnect, DoRequire, Connecting
<1>2. /\ Returns(u) /\ lost' \in {FALSE, RacesWithHandler}
      /\ UNCHANGED <<queue, state, sets, setArgs, handler, current, runs, joined, history, delivered>>
  BY DEF DoConnect, DoRequire
<1>3. /\ ScriptsInv(D)' /\ u = Main /\ Quiet
      /\ \A v \in User \ {Main} : todo'[v] = todo[v]
  BY <1>1, <1>2, ReturnsKeeps
<1>4. Quiet' BY <1>2, <1>3 DEF Quiet
<1>5. DataInv' BY <1>4, QuietData, PTL
<1>6. ~lost' BY <1>2, <1>3 DEF Quiet, RacesWithHandler
<1>7. SettledInv(D)'
  <2>1. \A j \in DOMAIN sets' : FALSE BY <1>4 DEF Quiet
  <2>2. CASE DoConnect(u)
    <3>1. required' = required BY <2>2 DEF DoConnect
    <3> QED BY <2>1, <3>1 DEF SettledInv
  <2>3. CASE DoRequire(u)
    <3>1. Makes(u, "require") /\ required' = Append(required, [map |-> Calling(u).map, action |-> Calling(u).action])
      BY <2>3 DEF DoRequire
    <3>2. Calling(u) \in D /\ Calling(u).call = "require" BY <3>1, CallOfScript
    <3>3. [map |-> Calling(u).map, action |-> Calling(u).action] \in [map : Requisition, action : Action]
      BY <3>1, HeadCall DEF WellTyped
    <3>4. required \in Seq([map : Requisition, action : Action]) BY DEF TypeOK
    <3>5. /\ required' \in Seq([map : Requisition, action : Action]) /\ Len(required') = Len(required) + 1
          /\ required'[Len(required) + 1].map = Calling(u).map
          /\ \A i \in 1 .. Len(required) : required'[i] = required[i]
      BY <3>1, <3>3, <3>4, AppendProperties
    <3>6. ASSUME NEW i \in DOMAIN required' PROVE \E d \in D : d.call = "require" /\ d.map = required'[i].map
      <4>1. i \in 1 .. Len(required) + 1 /\ DOMAIN required = 1 .. Len(required) /\ Len(required) \in Nat
        BY <3>4, <3>5, LenProperties
      <4>2. CASE i = Len(required) + 1 BY <3>2, <3>5, <4>2
      <4>3. CASE i # Len(required) + 1
        <5>1. i \in DOMAIN required /\ required'[i] = required[i] BY <3>5, <4>1, <4>3
        <5> QED BY <5>1 DEF SettledInv
      <4> QED BY <4>2, <4>3
    <3> QED BY <2>1, <3>6 DEF SettledInv
  <2> QED BY <2>2, <2>3
<1> QED BY <1>3, <1>4, <1>5, <1>6, <1>7 DEF SetupInv

LEMMA CallDelivers ==
  ASSUME NeverEmitsSet, NEW D, KeepsRules(D), DeliveryInv(D), NEW u \in User, Call(u)
  PROVE  ScriptsInv(D)' /\ SetupInv' /\ SettledInv(D)' /\ DataInv' /\ ~lost'
<1> USE DEF DeliveryInv, Basics
<1>1. CASE DoConnect(u) BY <1>1, ConnectDelivers
<1>2. CASE DoRequire(u) BY <1>2, ConnectDelivers
<1>3. ASSUME UNCHANGED <<required, sets, state>> PROVE SettledInv(D)'
  BY <1>3 DEF SettledInv
<1>4. ASSUME NEW k \in {"emit", "set", "drop", "wait", "join"}, Makes(u, k), Returns(u),
             joined' => joined \/ k = "wait"
      PROVE  ScriptsInv(D)' /\ SetupInv'
  <2>1. k \notin Connecting BY DEF Connecting
  <2> QED BY <1>4, <2>1, ReturnsKeeps
<1>5. CASE DoEmit(u)
  <2> DEFINE e == Calling(u)
  <2>1. e.name \in Name /\ e.arg \in Arg /\ e.name # "set"
    BY <1>5, HeadCall DEF DoEmit, WellTyped, NeverEmitsSet
  <2>2. /\ Enqueue(e.name, e.arg, RunsOf(actions[e.name], e.arg))
        /\ Makes(u, "emit") /\ Returns(u)
        /\ UNCHANGED <<actions, state, required, sets, setArgs, current, runs, delivered, joined, lost>>
    BY <1>5 DEF DoEmit
  <2> HIDE DEF e
  <2>3. DataInv' BY <2>1, <2>2, EnqueueOther
  <2> QED BY <1>3, <1>4, <2>2, <2>3
<1>6. CASE DoSet(u)
  <2>1. Makes(u, "set") /\ Returns(u) /\ joined' = joined BY <1>6 DEF DoSet
  <2>2. Calling(u) \in D BY <2>1, CallOfScript
  <2>3. ~lost' = ~lost /\ SettledInv(D)' /\ DataInv' BY <1>6, <2>2, SetKeeps
  <2> QED BY <1>4, <2>1, <2>3
<1>7. CASE DoFinalize(u)
  <2>1. /\ Enqueue("exit", NoArgs, RunsOf(actions["exit"], NoArgs))
        /\ Makes(u, "finalize") \/ (Makes(u, "drop") /\ ~joined)
        /\ ToWait(u)
        /\ UNCHANGED <<actions, state, required, sets, setArgs, current, runs, delivered, joined, lost>>
    BY <1>7 DEF DoFinalize
  <2>2. DataInv' BY <2>1, NamesDiffer, ArgAssumption, EnqueueOther
  <2> QED BY <1>3, <2>1, <2>2, ToWaitKeeps
<1>8. ASSUME DoDrop(u) \/ DoJoin(u) PROVE ScriptsInv(D)' /\ SetupInv' /\ SettledInv(D)' /\ DataInv' /\ ~lost'
  <2>1. /\ Makes(u, "drop") \/ Makes(u, "join")
        /\ Returns(u)
        /\ UNCHANGED <<queue, history, actions, state, required, sets, setArgs, current, runs, delivered,
                       joined, lost>>
    BY <1>8 DEF DoDrop, DoJoin
  <2> QED BY <1>3, <1>4, <2>1, DataSame
<1>9. CASE DoWait(u)
  <2>1. /\ Makes(u, "wait") /\ Returns(u)
        /\ UNCHANGED <<queue, history, actions, state, required, sets, setArgs, current, runs, delivered>>
    BY <1>9 DEF DoWait
  <2>2. ~joined
    <3>1. ASSUME NEW c, c = "wait" PROVE (c \notin Uses => u = Main) /\ (u = Main /\ joined => c \notin {"finalize", "wait"})
      BY <2>1, <3>1, ScriptCall
    <3> QED BY <3>1 DEF Uses
  <2>3. lost' = lost BY <1>9, <2>2 DEF DoWait
  <2> QED BY <1>3, <1>4, <2>1, <2>3, DataSame
<1>10. CASE DoStart(u)
  <2>1. UNCHANGED <<queue, history, actions, state, required, sets, setArgs, current, runs, delivered,
                    joined, lost>>
    BY <1>10 DEF DoStart
  <2> QED BY <1>3, <1>10, <2>1, DataSame, StartKeeps
<1> QED BY <1>1, <1>2, <1>5, <1>6, <1>7, <1>8, <1>9, <1>10 DEF Call

LEMMA HandleDelivers ==
  ASSUME NEW D, DeliveryInv(D), Handle
  PROVE  ScriptsInv(D)' /\ SetupInv' /\ SettledInv(D)' /\ DataInv' /\ ~lost'
<1> USE DEF DeliveryInv, Basics
<1>1. ScriptsInv(D)' /\ SetupInv' BY HandleSetup
<1>2. DataInv' /\ ~lost'
  <2>1. ASSUME UNCHANGED <<queue, history, actions, state, required, sets, setArgs, current, runs,
                           delivered, lost>>
        PROVE  DataInv' /\ ~lost'
    BY <2>1, DataSame
  <2>2. CASE Wake      BY <2>1, <2>2 DEF Wake
  <2>3. CASE Rest      BY <2>1, <2>3 DEF Rest
  <2>4. CASE Take      BY <2>4, TakeKeeps DEF Take
  <2>5. CASE RunAction BY <2>5, RunKeeps DEF RunAction
  <2>6. CASE End       BY <2>1, <2>6 DEF End
  <2>7. CASE TakeSet   BY <2>7, TakeSetKeeps
  <2>8. CASE Again     BY <2>8, AgainKeeps DEF Again
  <2> QED BY <2>2, <2>3, <2>4, <2>5, <2>6, <2>7, <2>8 DEF Handle
<1>3. SettledInv(D)'
  <2>1. /\ UNCHANGED <<required, state>>
        /\ sets' = sets \/ (sets # <<>> /\ sets' = Tail(sets))
    BY DEF Handle, Wake, Rest, Take, RunAction, End, TakeSet, Again
  <2>2. ASSUME NEW j \in DOMAIN sets' PROVE \E i \in DOMAIN sets : sets'[j] = sets[i]
    <3>1. CASE sets' = sets BY <3>1
    <3>2. CASE sets # <<>> /\ sets' = Tail(sets)
      <4>1. sets \in Seq(Key) BY DEF TypeOK
      <4>2. /\ Len(Tail(sets)) = Len(sets) - 1 /\ Len(sets) \in Nat
            /\ DOMAIN sets = 1 .. Len(sets) /\ DOMAIN Tail(sets) = 1 .. Len(Tail(sets))
            /\ \A i \in 1 .. Len(Tail(sets)) : Tail(sets)[i] = sets[i + 1]
        BY <3>2, <4>1, HeadTailProperties, LenProperties
      <4>3. j + 1 \in DOMAIN sets /\ sets'[j] = sets[j + 1] BY <3>2, <4>2
      <4> QED BY <4>3
    <3> QED BY <2>1, <3>1, <3>2
  <2> QED BY <2>1, <2>2 DEF SettledInv
<1> QED BY <1>1, <1>2, <1>3

LEMMA DeliveryNext ==
  ASSUME NeverEmitsSet, NEW D, KeepsRules(D)
  PROVE  DeliveryInv(D) /\ [Next]_vars => DeliveryInv(D)'
<1> SUFFICES ASSUME DeliveryInv(D), [Next]_vars PROVE DeliveryInv(D)'
  OBVIOUS
<1>1. Basics'
  BY NextType, HandlerNext, QueuesNext DEF DeliveryInv, Basics
<1>2. ScriptsInv(D)' /\ SetupInv' /\ SettledInv(D)' /\ DataInv' /\ ~lost'
  <2>1. CASE UNCHANGED vars
    <3>1. DataInv' BY <2>1, DataSame DEF DeliveryInv, vars
    <3> QED BY <2>1, <3>1 DEF DeliveryInv, vars, ScriptsInv, SetupInv, Quiet, SettledInv
  <2>2. CASE Next BY <2>2, CallDelivers, HandleDelivers DEF Next
  <2> QED BY <2>1, <2>2
<1> QED BY <1>1, <1>2 DEF DeliveryInv

LEMMA DeliveryAlways ==
  ASSUME NeverEmitsSet, NEW D, KeepsRules(D)
  PROVE  Spec /\ StartsWith(D) => []DeliveryInv(D)
<1>1. Init /\ StartsWith(D) => DeliveryInv(D) BY DeliveryInit
<1>2. DeliveryInv(D) /\ [Next]_vars => DeliveryInv(D)' BY DeliveryNext
<1> QED BY <1>1, <1>2, PTL DEF Spec

-------------------------------------------------------------------------------
(* What a script that keeps the rules can rely on. *)

\* No call of such a script executes undefined behaviour: connect never changes a
\* map the handler reads, the handler is waited for at most once, and there is a
\* requisition for every "set" signal the handler takes.
THEOREM NothingIsLost ==
  ASSUME NeverEmitsSet, NEW D, KeepsRules(D)
  PROVE  Spec /\ StartsWith(D) => []NothingLost
<1>1. DeliveryInv(D) => NothingLost BY DEF DeliveryInv, NothingLost
<1> QED BY <1>1, DeliveryAlways, PTL

LEMMA InvDelivers ==
  ASSUME NEW D
  PROVE  DeliveryInv(D) => DeliversWhatIsDue
<1> SUFFICES ASSUME DeliveryInv(D) PROVE DeliversWhatIsDue
  OBVIOUS
<1> USE DEF DeliveryInv, Basics
<1>1. CASE handler = "run"
  <2>1. Len(queue) <= Len(history) BY DEF DataInv, PendingInv
  <2>2. Due(Taken) = (delivered \o runs) \o Further BY DEF DataInv, FlowInv
  <2>3. delivered \in Seq(Run) /\ runs \in Seq(Run) BY DEF TypeOK
  <2>4. delivered \o runs \in Seq(Run) BY <2>3, ConcatType
  <2>5. Further \in Seq(Run) BY FurtherType
  <2>6. IsPrefix(delivered \o runs, (delivered \o runs) \o Further) BY <2>4, <2>5, ConcatPrefix
  <2> QED BY <1>1, <2>2, <2>6 DEF DeliversWhatIsDue
<1>2. CASE handler # "run"
  <2>1. runs = <<>> /\ current # "set" BY <1>2, NamesDiffer DEF HandlerInv, TypeOK
  <2> QED BY <1>2, <2>1, NothingInHand DEF DeliversWhatIsDue
<1> QED BY <1>1, <1>2

\* Every signal the handler has taken has led to the functions it was due when
\* emit, set or finalize queued it, with its arguments, once each and in order.
THEOREM DueIsDelivered ==
  ASSUME NeverEmitsSet, NEW D, KeepsRules(D)
  PROVE  Spec /\ StartsWith(D) => []DeliversWhatIsDue
<1>1. DeliveryInv(D) => DeliversWhatIsDue BY InvDelivers
<1> QED BY <1>1, DeliveryAlways, PTL

\* finalize comes back when everything up to the first "exit" has run and
\* nothing else has, and the handler does not hold the mutex.
THEOREM FinalizeWaits ==
  ASSUME NeverEmitsSet, NEW D, KeepsRules(D)
  PROVE  Spec /\ StartsWith(D) => FinalizeCompletes
<1>1. ASSUME DeliveryInv(D), NEW u \in User, DoWait(u), ~lost'
      PROVE  /\ \E i \in 1 .. Taken : history[i].name = "exit" /\ delivered = Due(i)
             /\ mutex # Handler
  <2>1. handler = "ended" BY <1>1 DEF DoWait
  <2>2. current = "exit" /\ runs = <<>> /\ mutex # Handler
    BY <1>1, <2>1 DEF DeliveryInv, Basics, HandlerInv
  <2>3. delivered = Due(Taken) BY <1>1, <2>2, NothingInHand DEF DeliveryInv, Basics
  <2>4. Taken > 0 /\ history[Taken].name = "exit" BY <1>1, <2>2 DEF DeliveryInv, DataInv, ExitInv
  <2>5. Taken \in Nat BY <1>1, PendingType DEF DeliveryInv, Basics, DataInv, PendingInv
  <2>6. Taken \in 1 .. Taken BY <2>4, <2>5
  <2> QED BY <2>2, <2>3, <2>4, <2>6
<1>2. DeliveryInv(D) /\ [Next]_vars =>
        [\A u \in User : DoWait(u) /\ ~lost' =>
           /\ \E i \in 1 .. Taken : history[i].name = "exit" /\ delivered = Due(i)
           /\ mutex # Handler]_vars
  BY <1>1
<1> QED BY <1>2, DeliveryAlways, PTL DEF FinalizeCompletes, Spec

-------------------------------------------------------------------------------
(* The object is a mailbox. *)

LEMMA ConcatRuns == \A a, b, c \in Seq(Run) : (a \o b) \o c = a \o (b \o c)
  BY ConcatAssociative

\* What is due for the first m signals is a part of what is due for the first n.
DuesPrefixed ==
  \A m \in 0 .. Len(history) : \A n \in m .. Len(history) :
    \E t \in Seq(Run) : Due(n) = Due(m) \o t

LEMMA DuePrefixes == TypeOK => DuesPrefixed
<1> SUFFICES ASSUME TypeOK, NEW m \in 0 .. Len(history), NEW n \in m .. Len(history)
             PROVE  \E t \in Seq(Run) : Due(n) = Due(m) \o t
  BY DEF DuesPrefixed
<1> DEFINE Reaches(k) == m + k <= Len(history) => \E t \in Seq(Run) : Due(m + k) = Due(m) \o t
           N == {k \in Nat : Reaches(k)}
<1>1. Len(history) \in Nat /\ history \in [1 .. Len(history) -> Entry] BY HistoryType, LenProperties
<1>2. Due(m) \in Seq(Run) BY DueType
<1>3. 0 \in N
  <2>1. Due(m) = Due(m) \o <<>> /\ <<>> \in Seq(Run) BY <1>2, ConcatEmpty
  <2>2. m + 0 = m BY <1>1
  <2> QED BY <2>1, <2>2
<1>4. ASSUME NEW k \in Nat, k \in N PROVE k + 1 \in N
  <2> SUFFICES ASSUME m + (k + 1) <= Len(history)
               PROVE  \E t \in Seq(Run) : Due(m + (k + 1)) = Due(m) \o t
    OBVIOUS
  <2>1. /\ m + k \in Nat /\ m + k <= Len(history) /\ (m + k) + 1 = m + (k + 1)
        /\ (m + k) + 1 \in 1 .. Len(history)
    BY <1>1
  <2>2. PICK t \in Seq(Run) : Due(m + k) = Due(m) \o t BY <1>4, <2>1
  <2>3. Due((m + k) + 1) = Due(m + k) \o history[(m + k) + 1].due
    BY <2>1, DueNext
  <2>4. history[(m + k) + 1].due \in Seq(Run) BY <1>1, <2>1 DEF Entry, Dues
  <2>5. (Due(m) \o t) \o history[(m + k) + 1].due = Due(m) \o (t \o history[(m + k) + 1].due)
    BY <1>2, <2>2, <2>4, ConcatRuns, Zenon
  <2>6. t \o history[(m + k) + 1].due \in Seq(Run) BY <2>2, <2>4, ConcatType
  <2> QED BY <2>1, <2>2, <2>3, <2>5, <2>6
<1>5. Nat \subseteq N
  <2> HIDE DEF N
  <2> QED BY <1>3, <1>4, NatSetInduction
<1>6. n - m \in Nat /\ m + (n - m) = n /\ n <= Len(history) BY <1>1
<1>7. Reaches(n - m) BY <1>5, <1>6
<1> QED BY <1>6, <1>7

\* The first signal "exit", if there is one, is the last one that is worked on.
Ends(m) ==
  /\ m \in 0 .. Len(history)
  /\ \A i \in 1 .. m : history[i].name = "exit" => i = m
  /\ m # Len(history) => m > 0 /\ history[m].name = "exit"

ExitFound == \E m : Ends(m) /\ BeforeExit = Due(m)

LEMMA BeforeExitEnds == TypeOK => ExitFound
<1> SUFFICES ASSUME TypeOK PROVE \E m : Ends(m) /\ BeforeExit = Due(m)
  BY DEF ExitFound
<1> DEFINE I == {i \in 1 .. Len(history) : history[i].name = "exit"}
           e == IF I # {} THEN Min(I) ELSE 0
<1>1. Len(history) \in Nat BY HistoryType
<1>2. BeforeExit = Due(IF e = 0 THEN Len(history) ELSE e)
  BY DEF BeforeExit, SelectInSeq
<1>3. CASE I = {}
  <2>1. Ends(Len(history)) BY <1>1, <1>3 DEF Ends
  <2> QED BY <1>2, <1>3, <2>1
<1>4. CASE I # {}
  <2>1. \E x \in I : \A y \in I : x <= y
    <3>1. I \subseteq Nat BY <1>1
    <3> QED BY <1>4, <3>1, LeastNat
  <2>2. Min(I) \in I /\ \A y \in I : Min(I) <= y BY <2>1 DEF Min
  <2>3. e \in 1 .. Len(history) /\ history[e].name = "exit" BY <1>4, <2>2
  <2>4. \A i \in 1 .. e : history[i].name = "exit" => i = e
    <3>1. ASSUME NEW i \in 1 .. e, history[i].name = "exit" PROVE i = e
      <4>1. i \in I /\ i \in Nat BY <1>1, <2>3, <3>1
      <4>2. e <= i BY <1>4, <2>2, <4>1
      <4> QED BY <1>1, <2>3, <4>1, <4>2
    <3> QED BY <3>1
  <2>5. Ends(e) BY <1>1, <2>3, <2>4 DEF Ends
  <2>6. e # 0 BY <1>1, <2>3
  <2> HIDE DEF e
  <2> QED BY <1>2, <2>5, <2>6
<1> QED BY <1>3, <1>4

\* Two ends are the same.
LEMMA OneEnd ==
  ASSUME TypeOK, NEW m, Ends(m), NEW n, Ends(n)
  PROVE  m = n
<1>1. Len(history) \in Nat BY HistoryType
<1>2. ASSUME NEW x, Ends(x), NEW y, Ends(y), x < y PROVE FALSE
  <2>1. x \in 0 .. Len(history) /\ y \in 0 .. Len(history) BY <1>2 DEF Ends
  <2>2. x # Len(history) BY <1>1, <1>2, <2>1
  <2>3. x > 0 /\ history[x].name = "exit" BY <1>2, <2>2 DEF Ends
  <2>4. x \in 1 .. y BY <1>1, <1>2, <2>1, <2>3
  <2> QED BY <1>1, <1>2, <2>1, <2>3, <2>4 DEF Ends
<1>3. m \in 0 .. Len(history) /\ n \in 0 .. Len(history) BY DEF Ends
<1>4. m < n \/ n < m \/ m = n BY <1>1, <1>3
<1> QED BY <1>2, <1>4

LEMMA BeforeExitIs ==
  ASSUME TypeOK, NEW m, Ends(m)
  PROVE  BeforeExit = Due(m)
  BY BeforeExitEnds, OneEnd DEF ExitFound

LEMMA BeforeExitSame ==
  ASSUME history' = history
  PROVE  BeforeExit' = BeforeExit
<1>1. \A n : Due(n)' = Due(n) BY DEF Due
<1> QED BY <1>1 DEF BeforeExit, SelectInSeq

\* More signals: what was due before the first "exit" still is.
LEMMA EnqueueAsks ==
  ASSUME TypeOK, TypeOK', NEW h, history' = Append(history, h)
  PROVE  IsPrefix(BeforeExit, BeforeExit')
<1>1. PICK m : Ends(m) /\ BeforeExit = Due(m) BY BeforeExitEnds DEF ExitFound
<1>2. ExitFound' BY BeforeExitEnds, PTL
<1>3. PICK n : Ends(n)' /\ BeforeExit' = Due(n)' BY <1>2 DEF ExitFound
<1>4. /\ Len(history) \in Nat /\ Len(history') = Len(history) + 1
      /\ \A i \in 1 .. Len(history) : history'[i] = history[i]
  BY HistoryType
<1>5. m \in 0 .. Len(history) /\ n \in 0 .. Len(history) + 1 BY <1>1, <1>3, <1>4 DEF Ends
<1>6. m <= n
  <2> SUFFICES ASSUME n < m PROVE FALSE BY <1>5
  <2>1. n # Len(history) + 1 /\ n \in 0 .. Len(history) BY <1>4, <1>5
  <2>2. n > 0 /\ history'[n].name = "exit" BY <1>3, <1>4, <2>1 DEF Ends
  <2>3. n \in 1 .. m /\ history[n].name = "exit" BY <1>4, <1>5, <2>1, <2>2
  <2> QED BY <1>1, <1>5, <2>3 DEF Ends
<1>7. Due(m)' = Due(m) BY <1>5, DueKept
<1>8. n <= Len(history') /\ m \in 0 .. Len(history') /\ n \in m .. Len(history') BY <1>4, <1>5, <1>6
<1>9. \E t \in Seq(Run) : Due(n)' = Due(m)' \o t
  <2>1. TypeOK' => DuesPrefixed' BY DuePrefixes, PTL
  <2> QED BY <1>8, <2>1 DEF DuesPrefixed
<1>10. Due(m) \in Seq(Run) BY <1>5, DueType
<1>11. PICK t \in Seq(Run) : BeforeExit' = BeforeExit \o t BY <1>1, <1>3, <1>7, <1>9
<1>12. BeforeExit \in Seq(Run) BY <1>1, <1>10
<1> QED BY <1>11, <1>12, ConcatPrefix

\* The function that is run is the next one of those due before the first "exit".
LEMMA RunDoes ==
  ASSUME TypeOK, QueuesInStep, DataInv, RunAction
  PROVE  /\ Len(delivered) < Len(BeforeExit)
         /\ delivered' = Append(delivered, BeforeExit[Len(delivered) + 1])
         /\ BeforeExit' = BeforeExit
<1>1. PICK m : Ends(m) /\ BeforeExit = Due(m) BY BeforeExitEnds DEF ExitFound
<1>2. Len(queue) <= Len(history) BY DEF DataInv, PendingInv
<1>3. Taken \in 0 .. Len(history) /\ Len(history) \in Nat BY <1>2, PendingType, HistoryType
<1>4. m \in 0 .. Len(history) BY <1>1 DEF Ends
<1>5. Taken <= m
  <2> SUFFICES ASSUME m < Taken PROVE FALSE BY <1>3, <1>4
  <2>1. m # Len(history) BY <1>3
  <2>2. m > 0 /\ history[m].name = "exit" BY <1>1, <2>1 DEF Ends
  <2>3. m \in 1 .. Taken BY <1>3, <1>4, <2>2
  <2>4. m = Taken BY <2>2, <2>3 DEF DataInv, ExitInv
  <2> QED BY <1>3, <2>4
<1>6. PICK t \in Seq(Run) : Due(m) = Due(Taken) \o t
  <2>1. m \in Taken .. Len(history) BY <1>3, <1>4, <1>5
  <2> QED BY <1>3, <2>1, DuePrefixes DEF DuesPrefixed
<1>7. /\ delivered \in Seq(Run) /\ runs \in Seq(Run) /\ Further \in Seq(Run) /\ runs # <<>>
      /\ Due(Taken) = (delivered \o runs) \o Further
  BY FurtherType DEF TypeOK, RunAction, DataInv, FlowInv
<1> DEFINE rest == (runs \o Further) \o t
<1>8. BeforeExit = delivered \o rest
  <2>1. runs \o Further \in Seq(Run) BY <1>7, ConcatType
  <2>2. (delivered \o runs) \o Further = delivered \o (runs \o Further) BY <1>7, ConcatRuns, Zenon
  <2>3. (delivered \o (runs \o Further)) \o t = delivered \o ((runs \o Further) \o t)
    BY <1>6, <1>7, <2>1, ConcatRuns, ZenonT(30)
  <2> QED BY <1>1, <1>6, <1>7, <2>2, <2>3, Zenon
<1>9. rest \in Seq(Run) /\ rest # <<>> /\ Head(rest) = Head(runs)
  <2>1. ASSUME NEW S, NEW a \in Seq(S), a # <<>>, NEW b \in Seq(S)
        PROVE  a \o b \in Seq(S) /\ a \o b # <<>> /\ Head(a \o b) = Head(a)
    <3>1. /\ a \o b \in Seq(S) /\ Len(a \o b) = Len(a) + Len(b) /\ Len(a) \in Nat \ {0} /\ Len(b) \in Nat
          /\ \A i \in 1 .. Len(a) + Len(b) : (a \o b)[i] = IF i <= Len(a) THEN a[i] ELSE b[i - Len(a)]
      BY <2>1, ConcatProperties, EmptySeq
    <3>2. 1 \in 1 .. Len(a) + Len(b) /\ 1 <= Len(a) BY <3>1
    <3>3. (a \o b)[1] = a[1] BY <3>1, <3>2
    <3>4. a \o b # <<>> BY <3>1
    <3> QED BY <2>1, <3>1, <3>3, <3>4
  <2> DEFINE q == runs \o Further
  <2>2. q \in Seq(Run) /\ q # <<>> /\ Head(q) = Head(runs) BY <1>7, <2>1
  <2> HIDE DEF q
  <2>3. q \o t \in Seq(Run) /\ q \o t # <<>> /\ Head(q \o t) = Head(q) BY <1>6, <2>1, <2>2
  <2> QED BY <2>2, <2>3, Zenon DEF q
<1> HIDE DEF rest
<1>10. Len(delivered) < Len(delivered \o rest) /\ (delivered \o rest)[Len(delivered) + 1] = Head(rest)
  BY <1>7, <1>9, BehindPrefix
<1>11. delivered' = Append(delivered, Head(runs)) BY DEF RunAction
<1>12. BeforeExit' = BeforeExit BY BeforeExitSame DEF RunAction
<1> QED BY <1>8, <1>9, <1>10, <1>11, <1>12

\* What the script sees of the object is what it would see of the mailbox: signals
\* are worked on in the order they were queued, every function once, and none
\* after the first "exit".
THEOREM ImplementsMailbox ==
  ASSUME NeverEmitsSet, NEW D, KeepsRules(D)
  PROVE  Spec /\ StartsWith(D) => IsMailbox
<1>1. Init => Abstract!Init
  <2> SUFFICES ASSUME Init PROVE Abstract!Init
    OBVIOUS
  <2>1. Ends(0) BY DEF Init, Ends
  <2>2. BeforeExit = <<>> BY <2>1, InitType, BeforeExitIs, DueNone
  <2> QED BY <2>2 DEF Abstract!Init, Init
<1>2. DeliveryInv(D) /\ DeliveryInv(D)' /\ [Next]_vars => [Abstract!Next]_<<BeforeExit, delivered>>
  <2> SUFFICES ASSUME DeliveryInv(D), DeliveryInv(D)', [Next]_vars
               PROVE  Abstract!Next \/ UNCHANGED <<BeforeExit, delivered>>
    OBVIOUS
  <2>1. TypeOK /\ TypeOK' /\ QueuesInStep /\ DataInv BY DEF DeliveryInv, Basics
  <2>2. CASE UNCHANGED <<history, delivered>> BY <2>2, BeforeExitSame
  <2>3. ASSUME NEW h, history' = Append(history, h), delivered' = delivered
        PROVE  Abstract!Next
    <3>1. IsPrefix(BeforeExit, BeforeExit') BY <2>1, <2>3, EnqueueAsks
    <3>2. Abstract!IsPrefix(BeforeExit, BeforeExit') BY <3>1 DEF IsPrefix, Abstract!IsPrefix
    <3> QED BY <2>3, <3>2 DEF Abstract!Next, Abstract!Ask
  <2>4. CASE RunAction
    BY <2>1, <2>4, RunDoes DEF Abstract!Next, Abstract!Do
  <2>5. CASE UNCHANGED vars BY <2>2, <2>5 DEF vars
  <2>6. CASE Handle /\ ~RunAction
    BY <2>2, <2>6 DEF Handle, Wake, Rest, Take, End, TakeSet, Again
  <2>7. ASSUME NEW u \in User, Call(u)
        PROVE  Abstract!Next \/ UNCHANGED <<BeforeExit, delivered>>
    <3>1. delivered' = delivered BY <2>7, CallKeepsHandler
    <3>2. history' = history \/ \E h : history' = Append(history, h)
      BY <2>7 DEF Call, DoConnect, DoRequire, DoEmit, DoSet, DoFinalize, DoDrop, DoWait, DoStart, DoJoin,
                  Enqueue
    <3> QED BY <2>2, <2>3, <3>1, <3>2
  <2> QED BY <2>4, <2>5, <2>6, <2>7 DEF Next
<1> QED BY <1>1, <1>2, DeliveryAlways, PTL DEF Spec, IsMailbox, Abstract!Spec

===============================================================================
