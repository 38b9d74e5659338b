---------------------------- MODULE SqliteProofs ----------------------------
(***************************************************************************)
(* What the SQLite binding writes, reads and releases is what the script   *)
(* has asked for, for any number of statements, objects, variables, rows   *)
(* and calls, unless it breaks one of the rules.                           *)
(*                                                                         *)
(* Each property needs an invariant of its own, which holds only while the *)
(* rules it names are kept.  Written: what a write statement has been told *)
(* to write is in its parameter or in the variable bound last.  Reading:   *)
(* of the results of a statement the youngest alone is in the midst of its *)
(* rows.  Counted: an object's references are those of the script, of the  *)
(* list and of its executions, and of the objects with one statement       *)
(* exactly one was not executed and will finalize it.  Ended: what was     *)
(* closed has left nothing.                                                *)
(***************************************************************************)
EXTENDS Sqlite, FiniteSetTheorems, TLAPS

StmtType == [sql : {"read", "write"}, state : {"ready", "row", "done", "final"},
             row : Nat, param : [text : Nat, of : Cells \cup {"none", "gone"}]]
ObjType  == [kind : {"stmt", "result"}, h : Nat, refs : Int, held : BOOLEAN,
             bound : Seq(Cells), said : Nat, runs : Nat, fetched : Nat]
CellType == [text : Nat, refs : Int, held : BOOLEAN]
ConnType == [object : {"unmade", "made", "freed"}, open : BOOLEAN,
             db : {"none", "open", "closed", "leaked"}, results : Seq(Nat)]

TypeOK ==
  /\ conn \in ConnType
  /\ stmts \in Seq(StmtType)
  /\ objs \in Seq(ObjType)
  /\ cells \in [Cells -> CellType]
  /\ \A i \in DOMAIN objs : objs[i].h \in DOMAIN stmts
  /\ \A i, j \in DOMAIN objs :
       objs[i].kind = "stmt" /\ objs[j].kind = "stmt" /\ objs[i].h = objs[j].h => i = j

Keeps(S) == rules \cap S = {}

\* What the script has said the statement's parameter is, its parameter is or
\* will be when the statement is executed.
Faithful(i) ==
  IF objs[i].bound = <<>> THEN Stmt(i).param = Gone \/ Stmt(i).param.text = objs[i].said
                          ELSE cells[Last(objs[i].bound)].text = objs[i].said

Written ==
  Keeps({"fetched", "changed", "closed", "refused"}) =>
    /\ log = meant
    /\ \A i \in DOMAIN objs : objs[i].kind = "stmt" /\ Stmt(i).sql = "write" =>
         Stmt(i).state \in {"ready", "final"} /\ Faithful(i)

Youngest(i) == \A j \in DOMAIN objs : objs[j].kind = "result" /\ objs[j].h = objs[i].h => j <= i

Reading ==
  Keeps({"rebind", "shared", "changed", "unheld", "refused", "unknown"}) =>
    /\ \A i \in DOMAIN objs : objs[i].kind = "stmt" => Faithful(i)
    /\ \A i \in DOMAIN objs : objs[i].kind = "result" /\ Youngest(i) => Stmt(i).param.text = objs[i].said
    /\ \A i \in DOMAIN objs : objs[i].fetched > 0 =>
         /\ objs[i].kind = "result" /\ Stmt(i).state \in {"row", "final"}
         /\ Stmt(i).row = objs[i].fetched /\ Stmt(i).param.text = objs[i].said
    /\ \A h \in DOMAIN stmts : stmts[h].state = "row" =>
         \E i \in DOMAIN objs : objs[i].kind = "result" /\ objs[i].h = h /\ objs[i].fetched > 0

Lasting == Keeps({"changed", "unheld"}) => \A h \in DOMAIN stmts : stmts[h].param # Gone

Hold(i) == IF objs[i].held THEN 1 ELSE 0

\* The one of a statement's objects whose end finalizes it.
Owns(i) == objs[i].runs = 0

Listed ==
  /\ conn.object = "unmade" => objs = <<>> /\ stmts = <<>> /\ conn.results = <<>>
  /\ conn.open <=> conn.object = "made" /\ conn.db = "open"
  /\ conn.open => /\ Range(conn.results) = DOMAIN objs
                  /\ \A i \in DOMAIN objs : objs[i].refs = objs[i].runs + Hold(i) + 1

Counted ==
  /\ ~conn.open /\ Keeps({"outlived"}) => \A i \in DOMAIN objs : objs[i].refs = objs[i].runs + Hold(i)
  /\ Keeps({"outlived", "twice"}) =>
       /\ \A i, j \in DOMAIN objs : Owns(i) /\ Owns(j) /\ objs[i].h = objs[j].h => i = j
       /\ \A i \in DOMAIN objs : Owns(i) /\ objs[i].refs > 0 => Stmt(i).state # "final"
       /\ \A i \in DOMAIN objs : \E j \in DOMAIN objs : Owns(j) /\ objs[j].h = objs[i].h

Ended ==
  Keeps({"left", "refused"}) =>
    /\ \A h \in DOMAIN stmts : \E i \in DOMAIN objs : Owns(i) /\ objs[i].h = h
    /\ conn.object # "unmade" /\ ~conn.open =>
         conn.db = "closed" /\ ~SomeHeld /\ \A h \in DOMAIN stmts : stmts[h].state = "final"

NoStray == last = "stray" => rules \cap {"outlived", "twice", "changed", "unheld", "closed"} # {}
-------------------------------------------------------------------------------
(* Types. *)

LEMMA InitType == Init => TypeOK
  BY SqliteAssumption DEF Init, TypeOK, ConnType, CellType, Unknown

LEMMA SeqDomains ==
  ASSUME TypeOK
  PROVE  /\ stmts \in [1 .. Len(stmts) -> StmtType] /\ DOMAIN stmts = 1 .. Len(stmts) /\ Len(stmts) \in Nat
         /\ objs \in [1 .. Len(objs) -> ObjType] /\ DOMAIN objs = 1 .. Len(objs) /\ Len(objs) \in Nat
  BY DEF TypeOK

\* What a step does to a statement.
LEMMA StmtSteps ==
  ASSUME NEW s \in StmtType, NEW fate
  PROVE  /\ Stepped(s, fate) \in StmtType
         /\ Stepped(s, fate).sql = s.sql /\ Stepped(s, fate).param = s.param
         /\ Stepped(s, fate).state \in {"row", "done"}
         /\ Stepped(s, fate).state = "row" => s.sql = "read" /\ fate = "fine"
         /\ Stepped(s, fate).state = "row" => Stepped(s, fate).row = (IF Begins(s) THEN 0 ELSE s.row) + 1
         /\ Reset(s) \in StmtType
         /\ Reset(s).sql = s.sql /\ Reset(s).param = s.param /\ Reset(s).state = "ready"
<1> DEFINE next == (IF Begins(s) THEN 0 ELSE s.row) + 1
           on   == s.sql = "read" /\ fate = "fine" /\ next <= Rows
<1>1. next \in Nat
  BY DEF StmtType
<1>2. [s EXCEPT !.state = "row", !.row = next] \in StmtType
  BY <1>1 DEF StmtType
<1>3. [s EXCEPT !.state = "done", !.row = 0] \in StmtType
  BY DEF StmtType
<1>4. Stepped(s, fate) = IF on THEN [s EXCEPT !.state = "row", !.row = next]
                               ELSE [s EXCEPT !.state = "done", !.row = 0]
  BY DEF Stepped
<1>5. Reset(s) \in StmtType /\ Reset(s).sql = s.sql /\ Reset(s).param = s.param /\ Reset(s).state = "ready"
  BY DEF StmtType, Reset
<1> HIDE DEF next
<1>6. CASE on
  <2>1. Stepped(s, fate) = [s EXCEPT !.state = "row", !.row = next]
    BY <1>4, <1>6
  <2>2. Stepped(s, fate).state = "row" /\ Stepped(s, fate).row = next
        /\ Stepped(s, fate).sql = s.sql /\ Stepped(s, fate).param = s.param
    BY <2>1 DEF StmtType
  <2> QED BY <1>2, <1>5, <1>6, <2>1, <2>2 DEF next
<1>7. CASE ~on
  <2>1. Stepped(s, fate) = [s EXCEPT !.state = "done", !.row = 0]
    BY <1>4, <1>7
  <2>2. Stepped(s, fate).state = "done"
        /\ Stepped(s, fate).sql = s.sql /\ Stepped(s, fate).param = s.param
    BY <2>1 DEF StmtType
  <2> QED BY <1>3, <1>5, <2>1, <2>2
<1> QED BY <1>6, <1>7

LEMMA StmtBinds ==
  ASSUME TypeOK, NEW s \in StmtType, NEW v \in Cells
  PROVE  /\ Bound(s, v) \in StmtType
         /\ Bound(s, v).sql = s.sql /\ Bound(s, v).state = s.state
         /\ s.state = "ready" => Bound(s, v).param.text = cells[v].text
         /\ s.state # "ready" => Bound(s, v) = s
  BY DEF TypeOK, StmtType, CellType, Bound

LEMMA LastIn ==
  ASSUME NEW S, NEW s \in Seq(S), s # <<>>
  PROVE  Last(s) \in S
  BY DEF Last

LEMMA AllBoundFacts ==
  ASSUME TypeOK, NEW i \in DOMAIN objs
  PROVE  /\ Stmt(i) \in StmtType /\ AllBound(i) \in StmtType
         /\ AllBound(i).sql = Stmt(i).sql /\ AllBound(i).state = Stmt(i).state
         /\ objs[i].bound = <<>> \/ Stmt(i).state # "ready" => AllBound(i) = Stmt(i)
         /\ objs[i].bound # <<>> /\ Stmt(i).state = "ready" =>
              AllBound(i).param.text = cells[Last(objs[i].bound)].text
<1>1. Stmt(i) \in StmtType
  BY SeqDomains DEF Stmt, TypeOK
<1>2. objs[i].bound \in Seq(Cells)
  BY SeqDomains DEF ObjType
<1>3. CASE objs[i].bound = <<>>
  BY <1>1, <1>3 DEF AllBound
<1>4. CASE objs[i].bound # <<>>
  <2>1. Last(objs[i].bound) \in Cells
    BY <1>2, <1>4, LastIn
  <2>2. AllBound(i) = Bound(Stmt(i), Last(objs[i].bound))
    BY <1>4 DEF AllBound
  <2>3. QED
    BY <1>1, <1>4, <2>1, <2>2, StmtBinds
<1> QED BY <1>3, <1>4

\* A text that is gone.
LEMMA WithoutTextFacts ==
  ASSUME NEW S, NEW list \in Seq(StmtType)
  PROVE  /\ WithoutText(S, list) \in Seq(StmtType) /\ DOMAIN WithoutText(S, list) = DOMAIN list
         /\ Len(WithoutText(S, list)) = Len(list)
         /\ \A h \in DOMAIN list :
              LET s == WithoutText(S, list)[h] IN
              /\ s.sql = list[h].sql /\ s.state = list[h].state /\ s.row = list[h].row
              /\ s.param = list[h].param \/ s.param = Gone
         /\ S \cap Computed = {} => WithoutText(S, list) = list
<1> DEFINE w == WithoutText(S, list)
<1>1. list \in [1 .. Len(list) -> StmtType] /\ DOMAIN list = 1 .. Len(list) /\ Len(list) \in Nat
  OBVIOUS
<1>2. w = [h \in 1 .. Len(list) |-> IF list[h].param.of \in S \cap Computed
                                     THEN [list[h] EXCEPT !.param = Gone] ELSE list[h]]
  BY <1>1 DEF WithoutText
<1>3. \A h \in 1 .. Len(list) : w[h] \in StmtType
  <2> TAKE h \in 1 .. Len(list)
  <2>1. list[h] \in StmtType
    BY <1>1
  <2>2. [list[h] EXCEPT !.param = Gone] \in StmtType
    BY <2>1 DEF StmtType, Gone
  <2> QED BY <1>2, <2>1, <2>2
<1>4. w \in Seq(StmtType) /\ DOMAIN w = DOMAIN list /\ Len(w) = Len(list)
  BY <1>1, <1>2, <1>3
<1>5. \A h \in DOMAIN list :
        /\ w[h].sql = list[h].sql /\ w[h].state = list[h].state /\ w[h].row = list[h].row
        /\ w[h].param = list[h].param \/ w[h].param = Gone
  BY <1>1, <1>2 DEF StmtType
<1>6. S \cap Computed = {} => w = list
  BY <1>1, <1>2
<1> QED BY <1>4, <1>5, <1>6

LEMMA AppendFacts ==
  ASSUME NEW S, NEW s \in Seq(S), NEW e \in S
  PROVE  /\ Append(s, e) \in Seq(S) /\ Append(s, e) # <<>>
         /\ Len(Append(s, e)) = Len(s) + 1 /\ Len(s) \in Nat
         /\ DOMAIN Append(s, e) = DOMAIN s \cup {Len(s) + 1}
         /\ Len(s) + 1 \notin DOMAIN s
         /\ \A i \in DOMAIN s : Append(s, e)[i] = s[i]
         /\ Append(s, e)[Len(s) + 1] = e
         /\ Last(Append(s, e)) = e
  BY DEF Last

LEMMA NewObjectType ==
  ASSUME NEW kind \in {"stmt", "result"}, NEW h \in Nat, NEW said \in Nat
  PROVE  /\ NewObject(kind, h, said) \in ObjType
         /\ NewObject(kind, h, said).kind = kind /\ NewObject(kind, h, said).h = h
         /\ NewObject(kind, h, said).said = said /\ NewObject(kind, h, said).held
         /\ NewObject(kind, h, said).bound = <<>> /\ NewObject(kind, h, said).runs = 0
         /\ NewObject(kind, h, said).fetched = 0 /\ NewObject(kind, h, said).refs = 2
  BY DEF NewObject, ObjType

\* A statement is made, and the object for it: prepare and query.
LEMMA MadeFacts ==
  ASSUME TypeOK, NEW s \in StmtType, NEW kind \in {"stmt", "result"}, NEW said \in Nat,
         stmts' = Append(stmts, s),
         objs' = Append(objs, NewObject(kind, Len(stmts) + 1, said)),
         conn' = [conn EXCEPT !.results = Append(@, Len(objs) + 1)],
         UNCHANGED cells
  PROVE  /\ TypeOK'
         /\ DOMAIN stmts' = DOMAIN stmts \cup {Len(stmts) + 1} /\ Len(stmts) + 1 \notin DOMAIN stmts
         /\ \A h \in DOMAIN stmts : stmts'[h] = stmts[h]
         /\ stmts'[Len(stmts) + 1] = s
         /\ DOMAIN objs' = DOMAIN objs \cup {Len(objs) + 1} /\ Len(objs) + 1 \notin DOMAIN objs
         /\ \A i \in DOMAIN objs : objs'[i] = objs[i]
         /\ LET o == objs'[Len(objs) + 1] IN
              /\ o.kind = kind /\ o.h = Len(stmts) + 1 /\ o.said = said /\ o.held /\ o.refs = 2
              /\ o.bound = <<>> /\ o.runs = 0 /\ o.fetched = 0
<1>1. /\ Len(stmts) \in Nat /\ stmts \in Seq(StmtType) /\ objs \in Seq(ObjType) /\ Len(objs) \in Nat
  BY DEF TypeOK
<1> DEFINE n == NewObject(kind, Len(stmts) + 1, said)
<1>2. /\ n \in ObjType /\ n.kind = kind /\ n.h = Len(stmts) + 1 /\ n.said = said /\ n.held
      /\ n.bound = <<>> /\ n.runs = 0 /\ n.fetched = 0 /\ n.refs = 2
  <2>1. Len(stmts) + 1 \in Nat
    BY <1>1
  <2> QED BY <2>1, NewObjectType
<1>3. conn' \in ConnType
  <2>1. Append(conn.results, Len(objs) + 1) \in Seq(Nat)
    BY <1>1 DEF TypeOK, ConnType
  <2> QED BY <2>1 DEF TypeOK, ConnType
<1>4. /\ stmts' \in Seq(StmtType) /\ DOMAIN stmts' = DOMAIN stmts \cup {Len(stmts) + 1}
      /\ Len(stmts) + 1 \notin DOMAIN stmts
      /\ \A h \in DOMAIN stmts : stmts'[h] = stmts[h]
      /\ stmts'[Len(stmts) + 1] = s
  BY <1>1, AppendFacts
<1> HIDE DEF n
<1>5. /\ objs' \in Seq(ObjType) /\ DOMAIN objs' = DOMAIN objs \cup {Len(objs) + 1}
      /\ Len(objs) + 1 \notin DOMAIN objs
      /\ \A i \in DOMAIN objs : objs'[i] = objs[i]
      /\ objs'[Len(objs) + 1] = n
  <2>1. objs' = Append(objs, n)
    BY DEF n
  <2> QED BY <1>1, <1>2, <2>1, AppendFacts
<1>6. \A i \in DOMAIN objs' : objs'[i].h \in DOMAIN stmts'
  BY <1>2, <1>4, <1>5 DEF TypeOK
<1>7. ASSUME NEW i \in DOMAIN objs', NEW j \in DOMAIN objs',
             objs'[i].kind = "stmt", objs'[j].kind = "stmt", objs'[i].h = objs'[j].h
      PROVE  i = j
  BY <1>2, <1>4, <1>5, <1>7 DEF TypeOK
<1>8. TypeOK'
  <2>1. cells' \in [Cells -> CellType]
    BY DEF TypeOK
  <2> QED BY <1>3, <1>4, <1>5, <1>6, <1>7, <2>1 DEF TypeOK
<1> QED BY <1>2, <1>4, <1>5, <1>8

LEMMA GivenUpFacts ==
  ASSUME TypeOK, NEW S
  PROVE  /\ GivenUp(S).objs \in Seq(ObjType) /\ DOMAIN GivenUp(S).objs = DOMAIN objs
         /\ GivenUp(S).stmts \in Seq(StmtType) /\ DOMAIN GivenUp(S).stmts = DOMAIN stmts
         /\ \A i \in DOMAIN objs : \A o : o = GivenUp(S).objs[i] =>
              /\ o.kind = objs[i].kind /\ o.h = objs[i].h /\ o.held = objs[i].held
              /\ o.bound = objs[i].bound /\ o.said = objs[i].said /\ o.runs = objs[i].runs
              /\ o.fetched = objs[i].fetched
              /\ o.refs = objs[i].refs - (IF i \in S THEN 1 ELSE 0)
         /\ \A h \in DOMAIN stmts : \A s : s = GivenUp(S).stmts[h] =>
              /\ s.sql = stmts[h].sql /\ s.row = stmts[h].row /\ s.param = stmts[h].param
              /\ s.state = IF \E i \in S : objs[i].refs = 1 /\ objs[i].h = h THEN "final" ELSE stmts[h].state
<1> DEFINE O == GivenUp(S).objs
           T == GivenUp(S).stmts
<1>1. O = [i \in DOMAIN objs |-> IF i \in S THEN [objs[i] EXCEPT !.refs = @ - 1] ELSE objs[i]]
  BY DEF GivenUp
<1>2. T = [h \in DOMAIN stmts |-> IF \E i \in S : objs[i].refs = 1 /\ objs[i].h = h
                                   THEN [stmts[h] EXCEPT !.state = "final"] ELSE stmts[h]]
  BY DEF GivenUp
<1> HIDE DEF O, T
<1>3. ASSUME NEW i \in DOMAIN objs
      PROVE  /\ O[i] \in ObjType
             /\ O[i].kind = objs[i].kind /\ O[i].h = objs[i].h /\ O[i].held = objs[i].held
             /\ O[i].bound = objs[i].bound /\ O[i].said = objs[i].said /\ O[i].runs = objs[i].runs
             /\ O[i].fetched = objs[i].fetched
             /\ O[i].refs = objs[i].refs - (IF i \in S THEN 1 ELSE 0)
  <2>1. objs[i] \in ObjType
    BY SeqDomains
  <2>2. CASE i \in S
    <3>1. O[i] = [objs[i] EXCEPT !.refs = @ - 1]
      BY <1>1, <2>2
    <3> QED BY <2>1, <2>2, <3>1 DEF ObjType
  <2>3. CASE i \notin S
    <3>1. O[i] = objs[i]
      BY <1>1, <2>3
    <3> QED BY <2>1, <2>3, <3>1 DEF ObjType
  <2> QED BY <2>2, <2>3
<1>4. ASSUME NEW h \in DOMAIN stmts
      PROVE  /\ T[h] \in StmtType
             /\ T[h].sql = stmts[h].sql /\ T[h].row = stmts[h].row /\ T[h].param = stmts[h].param
             /\ T[h].state = IF \E i \in S : objs[i].refs = 1 /\ objs[i].h = h THEN "final" ELSE stmts[h].state
  <2>1. stmts[h] \in StmtType
    BY SeqDomains
  <2>2. CASE \E i \in S : objs[i].refs = 1 /\ objs[i].h = h
    <3>1. T[h] = [stmts[h] EXCEPT !.state = "final"]
      BY <1>2, <2>2
    <3> QED BY <2>1, <2>2, <3>1 DEF StmtType
  <2>3. CASE ~\E i \in S : objs[i].refs = 1 /\ objs[i].h = h
    BY <1>2, <2>1, <2>3
  <2> QED BY <2>2, <2>3
<1>5. O \in Seq(ObjType) /\ DOMAIN O = DOMAIN objs
  BY <1>1, <1>3, SeqDomains
<1>6. T \in Seq(StmtType) /\ DOMAIN T = DOMAIN stmts
  BY <1>2, <1>4, SeqDomains
<1> QED BY <1>3, <1>4, <1>5, <1>6 DEF O, T

\* Objects and statements that change, but stay what they are.
LEMMA SameShape ==
  ASSUME TypeOK, conn' \in ConnType, cells' \in [Cells -> CellType],
         stmts' \in Seq(StmtType), DOMAIN stmts' = DOMAIN stmts,
         objs' \in Seq(ObjType), DOMAIN objs' = DOMAIN objs,
         \A i \in DOMAIN objs : objs'[i].kind = objs[i].kind /\ objs'[i].h = objs[i].h
  PROVE  TypeOK'
  BY DEF TypeOK

\* One element of a sequence changes.
LEMMA ReplaceFacts ==
  ASSUME NEW S, NEW s \in Seq(S), NEW i \in DOMAIN s, NEW e \in S
  PROVE  /\ [s EXCEPT ![i] = e] \in Seq(S)
         /\ DOMAIN [s EXCEPT ![i] = e] = DOMAIN s
         /\ [s EXCEPT ![i] = e][i] = e
         /\ \A j \in DOMAIN s : j # i => [s EXCEPT ![i] = e][j] = s[j]
  OBVIOUS

LEMMA ObjectChange ==
  ASSUME TypeOK, NEW i \in DOMAIN objs, NEW o \in ObjType
  PROVE  /\ [objs EXCEPT ![i] = o] \in Seq(ObjType)
         /\ DOMAIN [objs EXCEPT ![i] = o] = DOMAIN objs
         /\ [objs EXCEPT ![i] = o][i] = o
         /\ \A j \in DOMAIN objs : j # i => [objs EXCEPT ![i] = o][j] = objs[j]
  BY ReplaceFacts DEF TypeOK

LEMMA StmtChange ==
  ASSUME TypeOK, NEW h \in DOMAIN stmts, NEW s \in StmtType
  PROVE  /\ [stmts EXCEPT ![h] = s] \in Seq(StmtType)
         /\ DOMAIN [stmts EXCEPT ![h] = s] = DOMAIN stmts
         /\ [stmts EXCEPT ![h] = s][h] = s
         /\ \A k \in DOMAIN stmts : k # h => [stmts EXCEPT ![h] = s][k] = stmts[k]
  BY ReplaceFacts DEF TypeOK

-------------------------------------------------------------------------------
(* The steps, one lemma for each that changes more than an answer. *)

LEMMA GiveUpStep ==
  ASSUME TypeOK, NEW S, objs' = GivenUp(S).objs, stmts' = GivenUp(S).stmts,
         UNCHANGED cells, conn' \in ConnType
  PROVE  TypeOK'
<1>1. cells' \in [Cells -> CellType]
  BY DEF TypeOK
<1>2. \A i \in DOMAIN objs : objs'[i].kind = objs[i].kind /\ objs'[i].h = objs[i].h
  BY GivenUpFacts
<1> QED BY <1>1, <1>2, GivenUpFacts, SameShape

LEMMA DropStep ==
  ASSUME TypeOK, NEW i, Drop(i)
  PROVE  /\ TypeOK' /\ i \in DOMAIN objs /\ objs[i].held
         /\ DOMAIN objs' = DOMAIN objs
         /\ \A j \in DOMAIN objs :
              /\ objs'[j].kind = objs[j].kind /\ objs'[j].h = objs[j].h
              /\ objs'[j].bound = objs[j].bound /\ objs'[j].said = objs[j].said
              /\ objs'[j].runs = objs[j].runs /\ objs'[j].fetched = objs[j].fetched
              /\ objs'[j].refs = objs[j].refs - (IF j = i THEN 1 ELSE 0)
              /\ objs'[j].held = IF j = i THEN FALSE ELSE objs[j].held
         /\ stmts' = GivenUp({i}).stmts
         /\ UNCHANGED <<conn, cells, log, meant>>
<1> DEFINE O == GivenUp({i}).objs
           o == [O[i] EXCEPT !.held = FALSE]
<1>1. /\ i \in DOMAIN objs /\ objs[i].held /\ objs' = [O EXCEPT ![i].held = FALSE]
      /\ stmts' = GivenUp({i}).stmts /\ UNCHANGED <<conn, cells, log, meant>>
  BY DEF Drop
<1>2. /\ O \in Seq(ObjType) /\ DOMAIN O = DOMAIN objs
      /\ stmts' \in Seq(StmtType) /\ DOMAIN stmts' = DOMAIN stmts
      /\ \A j \in DOMAIN objs :
              /\ O[j].kind = objs[j].kind /\ O[j].h = objs[j].h /\ O[j].held = objs[j].held
              /\ O[j].bound = objs[j].bound /\ O[j].said = objs[j].said
              /\ O[j].runs = objs[j].runs /\ O[j].fetched = objs[j].fetched
              /\ O[j].refs = objs[j].refs - (IF j \in {i} THEN 1 ELSE 0)
  BY <1>1, GivenUpFacts
<1> HIDE DEF O
<1>3. O[i] \in ObjType
  BY <1>1, <1>2
<1>4. /\ o \in ObjType /\ o.held = FALSE
      /\ o.kind = O[i].kind /\ o.h = O[i].h /\ o.bound = O[i].bound /\ o.said = O[i].said
      /\ o.runs = O[i].runs /\ o.fetched = O[i].fetched /\ o.refs = O[i].refs
  BY <1>3 DEF ObjType
<1>5. objs' = [O EXCEPT ![i] = o]
  BY <1>1
<1> HIDE DEF o
<1>6. /\ objs' \in Seq(ObjType) /\ DOMAIN objs' = DOMAIN objs /\ objs'[i] = o
      /\ \A j \in DOMAIN objs : j # i => objs'[j] = O[j]
  <2>1. i \in DOMAIN O
    BY <1>1, <1>2
  <2>2. /\ [O EXCEPT ![i] = o] \in Seq(ObjType) /\ DOMAIN [O EXCEPT ![i] = o] = DOMAIN O
        /\ [O EXCEPT ![i] = o][i] = o /\ \A j \in DOMAIN O : j # i => [O EXCEPT ![i] = o][j] = O[j]
    BY <1>2, <1>4, <2>1, ReplaceFacts
  <2> QED BY <1>2, <1>5, <2>2, Zenon
<1>7. \A j \in DOMAIN objs :
              /\ objs'[j].kind = objs[j].kind /\ objs'[j].h = objs[j].h
              /\ objs'[j].bound = objs[j].bound /\ objs'[j].said = objs[j].said
              /\ objs'[j].runs = objs[j].runs /\ objs'[j].fetched = objs[j].fetched
              /\ objs'[j].refs = objs[j].refs - (IF j = i THEN 1 ELSE 0)
              /\ objs'[j].held = IF j = i THEN FALSE ELSE objs[j].held
  <2> TAKE j \in DOMAIN objs
  <2>1. O[j].refs = objs[j].refs - (IF j = i THEN 1 ELSE 0)
    BY <1>2
  <2>2. CASE j = i
    <3>1. objs'[j] = o
      BY <1>6, <2>2
    <3> QED BY <1>2, <1>4, <2>1, <2>2, <3>1, ZenonT(30)
  <2>3. CASE j # i
    <3>1. objs'[j] = O[j]
      BY <1>6, <2>3
    <3> QED BY <1>2, <2>1, <2>3, <3>1, ZenonT(30)
  <2> QED BY <2>2, <2>3
<1>8. conn' \in ConnType /\ cells' \in [Cells -> CellType]
  BY <1>1 DEF TypeOK
<1>9. TypeOK'
  BY <1>2, <1>6, <1>7, <1>8, SameShape
<1> QED BY <1>1, <1>6, <1>7, <1>9

LEMMA BindStep ==
  ASSUME TypeOK, NEW i, NEW v \in Cells, BindValue(i, v), Stmt(i).state # "final"
  PROVE  /\ TypeOK' /\ i \in DOMAIN objs /\ objs[i].kind = "stmt" /\ objs[i].held
         /\ DOMAIN objs' = DOMAIN objs
         /\ \A j \in DOMAIN objs : j # i => objs'[j] = objs[j]
         /\ objs'[i].kind = objs[i].kind /\ objs'[i].h = objs[i].h /\ objs'[i].runs = objs[i].runs
         /\ objs'[i].fetched = objs[i].fetched /\ objs'[i].refs = objs[i].refs
         /\ objs'[i].held = objs[i].held
         /\ objs'[i].bound # <<>> /\ Last(objs'[i].bound) = v /\ objs'[i].said = cells[v].text
         /\ \A w \in Cells : cells'[w].text = cells[w].text
         /\ UNCHANGED <<conn, stmts, log, meant>>
<1> DEFINE o == [objs[i] EXCEPT !.bound = Append(@, v), !.said = cells[v].text]
           c == [cells[v] EXCEPT !.refs = @ + 1]
<1>1. /\ i \in DOMAIN objs /\ objs[i].kind = "stmt" /\ objs[i].held
      /\ objs' = [objs EXCEPT ![i] = o] /\ cells' = [cells EXCEPT ![v] = c]
      /\ UNCHANGED <<conn, stmts, log, meant>>
  BY DEF BindValue, Held
<1>2. objs[i] \in ObjType /\ cells[v] \in CellType
  BY <1>1, SeqDomains DEF TypeOK
<1>3. /\ Append(objs[i].bound, v) \in Seq(Cells) /\ Append(objs[i].bound, v) # <<>>
      /\ Last(Append(objs[i].bound, v)) = v
  BY <1>2, AppendFacts DEF ObjType
<1>4. /\ o \in ObjType /\ o.kind = objs[i].kind /\ o.h = objs[i].h /\ o.runs = objs[i].runs
      /\ o.fetched = objs[i].fetched /\ o.refs = objs[i].refs /\ o.held = objs[i].held
      /\ o.bound = Append(objs[i].bound, v) /\ o.said = cells[v].text
  BY <1>2, <1>3 DEF ObjType, CellType
<1>5. c \in CellType /\ c.text = cells[v].text
  BY <1>2 DEF CellType
<1> HIDE DEF o, c
<1>6. /\ objs' \in Seq(ObjType) /\ DOMAIN objs' = DOMAIN objs /\ objs'[i] = o
      /\ \A j \in DOMAIN objs : j # i => objs'[j] = objs[j]
  BY <1>1, <1>4, ObjectChange
<1>7. cells' \in [Cells -> CellType] /\ \A w \in Cells : cells'[w].text = cells[w].text
  BY <1>1, <1>5 DEF TypeOK
<1>8. conn' \in ConnType /\ stmts' \in Seq(StmtType) /\ DOMAIN stmts' = DOMAIN stmts
  BY <1>1 DEF TypeOK
<1>9. \A j \in DOMAIN objs : objs'[j].kind = objs[j].kind /\ objs'[j].h = objs[j].h
  BY <1>4, <1>6
<1>10. TypeOK'
  BY <1>6, <1>7, <1>8, <1>9, SameShape
<1> QED BY <1>1, <1>3, <1>4, <1>6, <1>7, <1>10

LEMMA FetchStep ==
  ASSUME TypeOK, NEW i, NEW fate, Fetch(i, fate), Reads(Stmt(i))
  PROVE  /\ TypeOK' /\ i \in DOMAIN objs /\ objs[i].kind = "result" /\ objs[i].held
         /\ DOMAIN objs' = DOMAIN objs /\ DOMAIN stmts' = DOMAIN stmts
         /\ \A j \in DOMAIN objs : j # i => objs'[j] = objs[j]
         /\ objs'[i].kind = objs[i].kind /\ objs'[i].h = objs[i].h /\ objs'[i].runs = objs[i].runs
         /\ objs'[i].bound = objs[i].bound /\ objs'[i].said = objs[i].said
         /\ objs'[i].held = objs[i].held /\ objs'[i].refs = objs[i].refs
         /\ objs'[i].fetched = IF Stepped(Stmt(i), fate).state = "row" THEN objs[i].fetched + 1 ELSE 0
         /\ \A k \in DOMAIN stmts : k # objs[i].h => stmts'[k] = stmts[k]
         /\ stmts'[objs[i].h] = Stepped(Stmt(i), fate)
         /\ log' = IF Writes(Stmt(i), fate) THEN Append(log, Stmt(i).param.text) ELSE log
         /\ UNCHANGED <<conn, cells, meant>>
<1> DEFINE n == Stepped(Stmt(i), fate)
           c == IF n.state = "row" THEN objs[i].fetched + 1 ELSE 0
           o == [objs[i] EXCEPT !.fetched = c]
<1>1. /\ i \in DOMAIN objs /\ objs[i].kind = "result" /\ objs[i].held
      /\ objs' = [objs EXCEPT ![i] = o] /\ stmts' = [stmts EXCEPT ![objs[i].h] = n]
      /\ log' = IF Writes(Stmt(i), fate) THEN Append(log, Stmt(i).param.text) ELSE log
      /\ UNCHANGED <<conn, cells, meant>>
  BY DEF Fetch, Held
<1>2. objs[i] \in ObjType /\ objs[i].h \in DOMAIN stmts /\ Stmt(i) \in StmtType
  BY <1>1, SeqDomains DEF TypeOK, Stmt
<1>3. n \in StmtType
  BY <1>2, StmtSteps
<1>4. /\ o \in ObjType /\ o.kind = objs[i].kind /\ o.h = objs[i].h /\ o.runs = objs[i].runs
      /\ o.bound = objs[i].bound /\ o.said = objs[i].said /\ o.refs = objs[i].refs
      /\ o.held = objs[i].held /\ o.fetched = c
  <2>1. c \in Nat
    BY <1>2 DEF ObjType
  <2> HIDE DEF c
  <2> QED BY <1>2, <2>1 DEF ObjType
<1> HIDE DEF o, n, c
<1>5. /\ objs' \in Seq(ObjType) /\ DOMAIN objs' = DOMAIN objs /\ objs'[i] = o
      /\ \A j \in DOMAIN objs : j # i => objs'[j] = objs[j]
  BY <1>1, <1>4, ObjectChange
<1>6. /\ stmts' \in Seq(StmtType) /\ DOMAIN stmts' = DOMAIN stmts /\ stmts'[objs[i].h] = n
      /\ \A k \in DOMAIN stmts : k # objs[i].h => stmts'[k] = stmts[k]
  BY <1>1, <1>2, <1>3, StmtChange
<1>7. conn' \in ConnType /\ cells' \in [Cells -> CellType]
  BY <1>1 DEF TypeOK
<1>8. \A j \in DOMAIN objs : objs'[j].kind = objs[j].kind /\ objs'[j].h = objs[j].h
  BY <1>4, <1>5
<1>9. TypeOK'
  BY <1>5, <1>6, <1>7, <1>8, SameShape
<1> QED BY <1>1, <1>4, <1>5, <1>6, <1>9 DEF n, c

LEMMA FinalizeStep ==
  ASSUME TypeOK, NEW i, Finalize(i), Stmt(i).state # "final"
  PROVE  /\ TypeOK' /\ i \in DOMAIN objs /\ objs[i].kind = "result" /\ objs[i].held
         /\ DOMAIN objs' = DOMAIN objs /\ DOMAIN stmts' = DOMAIN stmts
         /\ \A j \in DOMAIN objs : j # i => objs'[j] = objs[j]
         /\ objs'[i].kind = objs[i].kind /\ objs'[i].h = objs[i].h /\ objs'[i].runs = objs[i].runs
         /\ objs'[i].bound = objs[i].bound /\ objs'[i].said = objs[i].said
         /\ objs'[i].held = objs[i].held /\ objs'[i].refs = objs[i].refs
         /\ objs'[i].fetched = 0
         /\ \A k \in DOMAIN stmts : k # objs[i].h => stmts'[k] = stmts[k]
         /\ stmts'[objs[i].h] = Reset(Stmt(i))
         /\ UNCHANGED <<conn, cells, log, meant>>
<1> DEFINE n == Reset(Stmt(i))
           o == [objs[i] EXCEPT !.fetched = 0]
<1>1. /\ i \in DOMAIN objs /\ objs[i].kind = "result" /\ objs[i].held
      /\ objs' = [objs EXCEPT ![i] = o] /\ stmts' = [stmts EXCEPT ![objs[i].h] = n]
      /\ UNCHANGED <<conn, cells, log, meant>>
  BY DEF Finalize, Held, Stmt
<1>2. objs[i] \in ObjType /\ objs[i].h \in DOMAIN stmts /\ Stmt(i) \in StmtType
  BY <1>1, SeqDomains DEF TypeOK, Stmt
<1>3. n \in StmtType
  BY <1>2, StmtSteps
<1>4. /\ o \in ObjType /\ o.kind = objs[i].kind /\ o.h = objs[i].h /\ o.runs = objs[i].runs
      /\ o.bound = objs[i].bound /\ o.said = objs[i].said /\ o.refs = objs[i].refs
      /\ o.held = objs[i].held /\ o.fetched = 0
  BY <1>2 DEF ObjType
<1> HIDE DEF o, n
<1>5. /\ objs' \in Seq(ObjType) /\ DOMAIN objs' = DOMAIN objs /\ objs'[i] = o
      /\ \A j \in DOMAIN objs : j # i => objs'[j] = objs[j]
  BY <1>1, <1>4, ObjectChange
<1>6. /\ stmts' \in Seq(StmtType) /\ DOMAIN stmts' = DOMAIN stmts /\ stmts'[objs[i].h] = n
      /\ \A k \in DOMAIN stmts : k # objs[i].h => stmts'[k] = stmts[k]
  BY <1>1, <1>2, <1>3, StmtChange
<1>7. conn' \in ConnType /\ cells' \in [Cells -> CellType]
  BY <1>1 DEF TypeOK
<1>8. \A j \in DOMAIN objs : objs'[j].kind = objs[j].kind /\ objs'[j].h = objs[j].h
  BY <1>4, <1>5
<1>9. TypeOK'
  BY <1>5, <1>6, <1>7, <1>8, SameShape
<1> QED BY <1>1, <1>4, <1>5, <1>6, <1>9 DEF n

\* A variable is set or goes: only texts are lost.
LEMMA VariableStep ==
  ASSUME TypeOK, NEW v \in Cells, Leave(v) \/ \E text \in Contents : Assign(v, text)
  PROVE  /\ TypeOK' /\ DOMAIN stmts' = DOMAIN stmts
         /\ \A h \in DOMAIN stmts :
              /\ stmts'[h].sql = stmts[h].sql /\ stmts'[h].state = stmts[h].state
              /\ stmts'[h].row = stmts[h].row
              /\ stmts'[h].param = stmts[h].param \/ stmts'[h].param = Gone
         /\ stmts' # stmts => "changed" \in rules'
         /\ \A w \in Cells : w # v => cells'[w] = cells[w]
         /\ cells'[v].text = cells[v].text \/ (BoundNow(v) => "changed" \in rules')
         /\ UNCHANGED <<conn, objs, log, meant>>
<1>1. cells[v] \in CellType /\ stmts \in Seq(StmtType)
  BY DEF TypeOK
<1>2. PICK S : stmts' = WithoutText(S, stmts)
  <2>1. WithoutText({}, stmts) = stmts
    BY <1>1, WithoutTextFacts
  <2> QED BY <2>1 DEF Leave, Assign
<1>3. /\ stmts' \in Seq(StmtType) /\ DOMAIN stmts' = DOMAIN stmts
      /\ \A h \in DOMAIN stmts :
              /\ stmts'[h].sql = stmts[h].sql /\ stmts'[h].state = stmts[h].state
              /\ stmts'[h].row = stmts[h].row
              /\ stmts'[h].param = stmts[h].param \/ stmts'[h].param = Gone
  BY <1>1, <1>2, WithoutTextFacts
<1>4. stmts' # stmts => "changed" \in rules'
  BY DEF Leave, Assign, Call, If
<1>5. CASE Leave(v)
  <2>1. [cells[v] EXCEPT !.held = FALSE, !.refs = @ - 1] \in CellType
    <3>1. ASSUME NEW c \in CellType PROVE [c EXCEPT !.held = FALSE, !.refs = @ - 1] \in CellType
      <4>1. c.refs - 1 \in Int
        BY DEF CellType
      <4>2. ASSUME NEW r \in Int PROVE [c EXCEPT !.held = FALSE, !.refs = r] \in CellType
        BY DEF CellType
      <4> QED BY <4>1, <4>2
    <3> QED BY <1>1, <3>1
  <2>2. cells' = [cells EXCEPT ![v] = [cells[v] EXCEPT !.held = FALSE, !.refs = @ - 1]]
    BY <1>5 DEF Leave
  <2>3. /\ cells' \in [Cells -> CellType] /\ cells'[v].text = cells[v].text
        /\ \A w \in Cells : w # v => cells'[w] = cells[w]
    BY <1>1, <2>1, <2>2 DEF TypeOK, CellType
  <2>4. UNCHANGED <<conn, objs, log, meant>>
    BY <1>5 DEF Leave
  <2>5. TypeOK'
    BY <1>3, <2>3, <2>4, SameShape DEF TypeOK
  <2> QED BY <1>3, <1>4, <2>3, <2>4, <2>5
<1>6. CASE \E text \in Contents : Assign(v, text)
  <2>1. PICK text \in Contents : Assign(v, text)
    BY <1>6
  <2>2. [cells[v] EXCEPT !.text = text] \in CellType
    BY <1>1 DEF CellType, Contents, Texts, Unknown
  <2>3. cells' = [cells EXCEPT ![v] = [cells[v] EXCEPT !.text = text]]
    BY <2>1 DEF Assign
  <2>4. /\ cells' \in [Cells -> CellType]
        /\ \A w \in Cells : w # v => cells'[w] = cells[w]
    BY <1>1, <2>2, <2>3 DEF TypeOK, CellType
  <2>5. UNCHANGED <<conn, objs, log, meant>> /\ (BoundNow(v) => "changed" \in rules')
    BY <2>1 DEF Assign, Call, If
  <2>6. TypeOK'
    BY <1>3, <2>4, <2>5, SameShape DEF TypeOK
  <2> QED BY <1>3, <1>4, <2>4, <2>5, <2>6
<1> QED BY <1>5, <1>6

LEMMA ClearedFacts ==
  ASSUME TypeOK, NEW i \in DOMAIN objs
  PROVE  /\ Cleared(i) \in [Cells -> CellType]
         /\ \A v \in Cells : Cleared(i)[v].text = cells[v].text
<1>1. ASSUME NEW v \in Cells
      PROVE  /\ [cells[v] EXCEPT !.refs = @ - Times(i, v)] \in CellType
             /\ [cells[v] EXCEPT !.refs = @ - Times(i, v)].text = cells[v].text
  <2>1. DOMAIN objs[i].bound = 1 .. Len(objs[i].bound) /\ Len(objs[i].bound) \in Nat
    BY SeqDomains DEF ObjType
  <2>2. IsFiniteSet({k \in DOMAIN objs[i].bound : objs[i].bound[k] = v})
    <3>1. IsFiniteSet(DOMAIN objs[i].bound)
      BY <2>1, FS_Interval
    <3> QED BY <3>1, FS_Subset
  <2>3. Times(i, v) \in Nat
    BY <2>2, FS_CardinalityType DEF Times
  <2>4. cells[v] \in CellType
    BY DEF TypeOK
  <2>5. cells[v].refs - Times(i, v) \in Int
    BY <2>3, <2>4 DEF CellType
  <2>6. ASSUME NEW r \in Int
        PROVE  [cells[v] EXCEPT !.refs = r] \in CellType /\ [cells[v] EXCEPT !.refs = r].text = cells[v].text
    BY <2>4 DEF CellType
  <2> QED BY <2>5, <2>6
<1> QED BY <1>1 DEF Cleared

\* A statement's object after its execution.
Executed(c, m, n) == [c EXCEPT !.refs = m, !.bound = <<>>, !.runs = n]

LEMMA ExecutedFacts ==
  ASSUME NEW c \in ObjType, NEW m \in Int, NEW n \in Nat
  PROVE  LET x == Executed(c, m, n) IN
         /\ x \in ObjType /\ x.kind = c.kind /\ x.h = c.h /\ x.held = c.held
         /\ x.bound = <<>> /\ x.said = c.said /\ x.fetched = c.fetched
         /\ x.runs = n /\ x.refs = m
<1>1. Executed(c, m, n) \in ObjType
  <2>1. <<>> \in Seq(Cells)
    OBVIOUS
  <2> QED BY <2>1, Zenon DEF ObjType, Executed
<1>3. PICK x : x = Executed(c, m, n)
  OBVIOUS
<1>4. /\ x.kind = c.kind /\ x.h = c.h /\ x.held = c.held
      /\ x.bound = <<>> /\ x.said = c.said /\ x.fetched = c.fetched
      /\ x.runs = n /\ x.refs = m
  <2>1. x = [c EXCEPT !.refs = m, !.bound = <<>>, !.runs = n]
    BY <1>3 DEF Executed
  <2> QED BY <2>1, SMT DEF ObjType
<1> QED BY <1>1, <1>3, <1>4, Zenon

\* An execution that succeeds.
Executing(i, n) ==
  /\ i \in DOMAIN objs /\ objs[i].kind = "stmt" /\ objs[i].held
  /\ DOMAIN objs' = DOMAIN objs \cup {n} /\ n \notin DOMAIN objs /\ n = Len(objs) + 1
  /\ \A j \in DOMAIN objs : j # i => objs'[j] = objs[j]
  /\ objs'[i].kind = objs[i].kind /\ objs'[i].h = objs[i].h /\ objs'[i].held = objs[i].held
  /\ objs'[i].bound = <<>> /\ objs'[i].said = objs[i].said /\ objs'[i].fetched = objs[i].fetched
  /\ objs'[i].runs = objs[i].runs + 1 /\ objs'[i].refs = objs[i].refs + 1
  /\ objs'[n] = NewObject("result", objs[i].h, objs[i].said)
  /\ DOMAIN stmts' = DOMAIN stmts
  /\ \A k \in DOMAIN stmts : k # objs[i].h =>
       /\ stmts'[k].sql = stmts[k].sql /\ stmts'[k].state = stmts[k].state
       /\ stmts'[k].row = stmts[k].row
       /\ stmts'[k].param = stmts[k].param \/ stmts'[k].param = Gone
  /\ stmts'[objs[i].h].sql = Stmt(i).sql /\ stmts'[objs[i].h].state = "ready"
  /\ stmts'[objs[i].h].param \in {AllBound(i).param, Gone}
  /\ Emptied(i) \cap Computed = {} =>
       /\ stmts'[objs[i].h].param = AllBound(i).param
       /\ \A k \in DOMAIN stmts : k # objs[i].h => stmts'[k] = stmts[k]
  /\ \A v \in Cells : cells'[v].text = cells[v].text
  /\ conn' = [conn EXCEPT !.results = Append(@, n)]
  /\ meant' = IF Stmt(i).sql = "write" THEN Append(meant, objs[i].said) ELSE meant
  /\ log' = IF Stmt(i).sql = "write" THEN Append(log, AllBound(i).param.text) ELSE log

LEMMA ExecuteStep ==
  ASSUME TypeOK, NEW i, Execute(i, "fine"), Reads(AllBound(i)), conn.object # "freed"
  PROVE  TypeOK' /\ Executing(i, Len(objs) + 1)
<1> DEFINE h == objs[i].h
           s == AllBound(i)
           t == Reset(Stepped(s, "fine"))
           o == [objs[i] EXCEPT !.refs = KeptBy(i), !.bound = <<>>, !.runs = @ + 1]
           r == NewObject("result", h, objs[i].said)
           T == [stmts EXCEPT ![h] = t]
           O == [objs EXCEPT ![i] = o]
<1>1. /\ i \in DOMAIN objs /\ objs[i].kind = "stmt" /\ objs[i].held
      /\ objs' = Append(O, r)
      /\ stmts' = WithoutText(Emptied(i), T)
      /\ conn' = [conn EXCEPT !.results = Append(@, Len(objs) + 1)]
      /\ cells' = Cleared(i)
      /\ meant' = IF s.sql = "write" THEN Append(meant, objs[i].said) ELSE meant
      /\ log' = IF s.sql = "write" THEN Append(log, s.param.text) ELSE log
  BY DEF Execute, Held, Writes
<1>2. objs[i] \in ObjType /\ h \in DOMAIN stmts /\ h \in Nat
  BY <1>1, SeqDomains DEF TypeOK
<1>3. /\ s \in StmtType /\ s.sql = Stmt(i).sql /\ t \in StmtType
      /\ t.sql = s.sql /\ t.param = s.param /\ t.state = "ready"
  <2>1. s \in StmtType /\ s.sql = Stmt(i).sql
    BY <1>1, AllBoundFacts
  <2>2. Stepped(s, "fine") \in StmtType /\ Stepped(s, "fine").sql = s.sql /\ Stepped(s, "fine").param = s.param
    BY <2>1, StmtSteps
  <2> QED BY <2>1, <2>2, StmtSteps
<1>4. /\ o \in ObjType /\ o.kind = objs[i].kind /\ o.h = objs[i].h /\ o.held = objs[i].held
      /\ o.bound = <<>> /\ o.said = objs[i].said /\ o.fetched = objs[i].fetched
      /\ o.runs = objs[i].runs + 1 /\ o.refs = objs[i].refs + 1
  <2>1. objs[i].runs + 1 \in Nat /\ KeptBy(i) \in Int /\ KeptBy(i) = objs[i].refs + 1
    BY <1>2 DEF ObjType, KeptBy
  <2> DEFINE m == KeptBy(i)
             n == objs[i].runs + 1
  <2>2. o = Executed(objs[i], m, n)
    BY DEF Executed
  <2>3. m \in Int /\ n \in Nat /\ m = objs[i].refs + 1 /\ n = objs[i].runs + 1
    BY <2>1
  <2> HIDE DEF m, n, o
  <2>4. /\ o \in ObjType /\ o.kind = objs[i].kind /\ o.h = objs[i].h /\ o.held = objs[i].held
        /\ o.bound = <<>> /\ o.said = objs[i].said /\ o.fetched = objs[i].fetched
        /\ o.runs = n /\ o.refs = m
    BY <1>2, <2>2, <2>3, ExecutedFacts
  <2> QED BY <2>3, <2>4, Zenon
<1>5. r \in ObjType /\ r.h = h /\ r.kind = "result"
  <2>1. objs[i].said \in Nat
    BY <1>2 DEF ObjType
  <2> QED BY <1>2, <2>1, NewObjectType
<1> HIDE DEF h, s, t, o, r
<1>6. /\ O \in Seq(ObjType) /\ DOMAIN O = DOMAIN objs /\ O[i] = o
      /\ \A j \in DOMAIN objs : j # i => O[j] = objs[j]
  BY <1>1, <1>4, ObjectChange
<1>7. /\ T \in Seq(StmtType) /\ DOMAIN T = DOMAIN stmts /\ T[h] = t
      /\ \A k \in DOMAIN stmts : k # h => T[k] = stmts[k]
  BY <1>2, <1>3, StmtChange
<1> HIDE DEF O, T
<1>8. /\ stmts' \in Seq(StmtType) /\ DOMAIN stmts' = DOMAIN stmts
      /\ \A k \in DOMAIN stmts :
           /\ stmts'[k].sql = T[k].sql /\ stmts'[k].state = T[k].state /\ stmts'[k].row = T[k].row
           /\ stmts'[k].param = T[k].param \/ stmts'[k].param = Gone
      /\ Emptied(i) \cap Computed = {} => stmts' = T
  BY <1>1, <1>7, WithoutTextFacts
<1>9. Len(O) = Len(objs)
  BY <1>6, SeqDomains
<1>10. /\ objs' \in Seq(ObjType) /\ DOMAIN objs' = DOMAIN objs \cup {Len(objs) + 1}
       /\ Len(objs) + 1 \notin DOMAIN objs
       /\ \A j \in DOMAIN objs : objs'[j] = O[j]
       /\ objs'[Len(objs) + 1] = r
  <2>1. /\ Append(O, r) \in Seq(ObjType) /\ DOMAIN Append(O, r) = DOMAIN O \cup {Len(O) + 1}
        /\ Len(O) + 1 \notin DOMAIN O /\ Append(O, r)[Len(O) + 1] = r
        /\ \A j \in DOMAIN O : Append(O, r)[j] = O[j]
    BY <1>5, <1>6, AppendFacts
  <2> QED BY <1>1, <1>6, <1>9, <2>1, Zenon
<1>11. cells' \in [Cells -> CellType] /\ \A v \in Cells : cells'[v].text = cells[v].text
  BY <1>1, ClearedFacts
<1>12. conn' \in ConnType
  <2>1. Len(objs) + 1 \in Nat
    BY SeqDomains
  <2>2. Append(conn.results, Len(objs) + 1) \in Seq(Nat)
    BY <2>1 DEF TypeOK, ConnType
  <2> QED BY <1>1, <2>2 DEF TypeOK, ConnType
<1>13. /\ objs'[i] = o
       /\ \A j \in DOMAIN objs : j # i => objs'[j] = objs[j]
       /\ \A j \in DOMAIN objs : objs'[j].kind = objs[j].kind /\ objs'[j].h = objs[j].h
  BY <1>1, <1>4, <1>6, <1>10
<1>14. TypeOK'
  <2>1. \A j \in DOMAIN objs' : objs'[j].h \in DOMAIN stmts'
    BY <1>2, <1>5, <1>8, <1>10, <1>13 DEF TypeOK
  <2>2. ASSUME NEW j \in DOMAIN objs', NEW k \in DOMAIN objs',
               objs'[j].kind = "stmt", objs'[k].kind = "stmt", objs'[j].h = objs'[k].h
        PROVE  j = k
    BY <1>5, <1>10, <1>13, <2>2 DEF TypeOK
  <2> QED BY <1>8, <1>10, <1>11, <1>12, <2>1, <2>2 DEF TypeOK
<1>15. /\ \A k \in DOMAIN stmts : k # h =>
              /\ stmts'[k].sql = stmts[k].sql /\ stmts'[k].state = stmts[k].state
              /\ stmts'[k].row = stmts[k].row
              /\ stmts'[k].param = stmts[k].param \/ stmts'[k].param = Gone
       /\ stmts'[h].sql = Stmt(i).sql /\ stmts'[h].state = "ready"
       /\ stmts'[h].param \in {s.param, Gone}
       /\ Emptied(i) \cap Computed = {} =>
              /\ stmts'[h].param = s.param
              /\ \A k \in DOMAIN stmts : k # h => stmts'[k] = stmts[k]
  BY <1>2, <1>3, <1>7, <1>8
<1>16. /\ objs'[i].kind = objs[i].kind /\ objs'[i].h = objs[i].h /\ objs'[i].held = objs[i].held
       /\ objs'[i].bound = <<>> /\ objs'[i].said = objs[i].said /\ objs'[i].fetched = objs[i].fetched
       /\ objs'[i].runs = objs[i].runs + 1 /\ objs'[i].refs = objs[i].refs + 1
  BY <1>4, <1>13, Zenon DEF h
<1>17. /\ meant' = IF Stmt(i).sql = "write" THEN Append(meant, objs[i].said) ELSE meant
       /\ log' = IF Stmt(i).sql = "write" THEN Append(log, s.param.text) ELSE log
  BY <1>1, <1>3
<1>18. objs'[Len(objs) + 1] = NewObject("result", objs[i].h, objs[i].said)
  BY <1>10, Zenon DEF r, h
<1> USE DEF h, s
<1>19. /\ DOMAIN stmts' = DOMAIN stmts
       /\ \A k \in DOMAIN stmts : k # objs[i].h =>
              /\ stmts'[k].sql = stmts[k].sql /\ stmts'[k].state = stmts[k].state
              /\ stmts'[k].row = stmts[k].row
              /\ stmts'[k].param = stmts[k].param \/ stmts'[k].param = Gone
       /\ stmts'[objs[i].h].sql = Stmt(i).sql /\ stmts'[objs[i].h].state = "ready"
       /\ stmts'[objs[i].h].param \in {AllBound(i).param, Gone}
       /\ Emptied(i) \cap Computed = {} =>
              /\ stmts'[objs[i].h].param = AllBound(i).param
              /\ \A k \in DOMAIN stmts : k # objs[i].h => stmts'[k] = stmts[k]
  BY <1>8, <1>15
<1> QED BY <1>1, <1>10, <1>11, <1>13, <1>14, <1>16, <1>17, <1>18, <1>19 DEF Executing

LEMMA ExecuteResult ==
  ASSUME NEW h, NEW said
  PROVE  LET r == NewObject("result", h, said) IN
         /\ r.kind = "result" /\ r.h = h /\ r.said = said /\ r.held /\ r.refs = 2
         /\ r.bound = <<>> /\ r.runs = 0 /\ r.fetched = 0
  BY DEF NewObject

\* A statement that is prepared, and one that is stepped at once.
LEMMA PreparedFacts ==
  ASSUME NEW sql \in {"read", "write"}
  PROVE  /\ NewStmt(sql) \in StmtType /\ NewStmt(sql).sql = sql /\ NewStmt(sql).state = "ready"
         /\ NewStmt(sql).param = Unbound /\ Unbound.text = 0 /\ Unbound # Gone
  BY DEF NewStmt, StmtType, Unbound, Gone

Fresh(h, s, i, kind, said) ==
  /\ DOMAIN stmts' = DOMAIN stmts \cup {h} /\ h \notin DOMAIN stmts
  /\ \A k \in DOMAIN stmts : stmts'[k] = stmts[k]
  /\ stmts'[h] = s
  /\ DOMAIN objs' = DOMAIN objs \cup {i} /\ i \notin DOMAIN objs
  /\ \A j \in DOMAIN objs : objs'[j] = objs[j]
  /\ objs'[i].kind = kind /\ objs'[i].h = h /\ objs'[i].said = said /\ objs'[i].held /\ objs'[i].refs = 2
  /\ objs'[i].bound = <<>> /\ objs'[i].runs = 0 /\ objs'[i].fetched = 0

LEMMA PrepareStep ==
  ASSUME TypeOK, NEW sql \in {"read", "write"}, Prepare(sql)
  PROVE  /\ TypeOK' /\ conn.open /\ conn.object = "made"
         /\ Fresh(Len(stmts) + 1, NewStmt(sql), Len(objs) + 1, "stmt", 0)
         /\ conn' = [conn EXCEPT !.results = Append(@, Len(objs) + 1)]
         /\ UNCHANGED <<cells, log, meant>>
<1>1. NewStmt(sql) \in StmtType
  BY PreparedFacts
<1>2. /\ stmts' = Append(stmts, NewStmt(sql))
      /\ objs' = Append(objs, NewObject("stmt", Len(stmts) + 1, 0))
      /\ conn' = [conn EXCEPT !.results = Append(@, Len(objs) + 1)]
      /\ conn.open /\ conn.object = "made" /\ UNCHANGED <<cells, log, meant>>
  BY DEF Prepare, Usable
<1> QED BY <1>1, <1>2, MadeFacts DEF Fresh

\* The statement that a query leaves.
Queried(sql, text, fate) ==
  LET s == [Stepped(NewStmt(sql), fate) EXCEPT !.param = [text |-> text, of |-> "none"]]
  IN IF fate = "fine" THEN Rewound(s) ELSE s

LEMMA QueriedFacts ==
  ASSUME NEW sql \in {"read", "write"}, NEW fate
  PROVE  /\ Queried(sql, 1, fate) \in StmtType /\ Queried(sql, 1, fate).sql = sql
         /\ Queried(sql, 1, fate).state \in {"ready", "done"} /\ (fate = "fine" => Queried(sql, 1, fate).state = "ready")
         /\ Queried(sql, 1, fate).param.text = 1 /\ Queried(sql, 1, fate).param # Gone
<1> DEFINE t == Stepped(NewStmt(sql), fate)
           p == [text |-> 1, of |-> "none"]
           s == [t EXCEPT !.param = p]
<1>1. t \in StmtType /\ t.sql = sql /\ t.state \in {"row", "done"} /\ (t.state = "row" => fate = "fine")
  BY PreparedFacts, StmtSteps
<1> HIDE DEF t
<1>2. p \in [text : Nat, of : Cells \cup {"none", "gone"}] /\ p.text = 1 /\ p # Gone
  BY DEF Gone
<1> HIDE DEF p
<1>3. s \in StmtType /\ s.sql = t.sql /\ s.state = t.state /\ s.param = p
  BY <1>1, <1>2 DEF StmtType
<1>4. Queried(sql, 1, fate) = IF fate = "fine" THEN Reset(s) ELSE s
  BY DEF Queried, Rewound, t, p
<1> HIDE DEF s
<1>5. Reset(s) \in StmtType /\ Reset(s).sql = s.sql /\ Reset(s).param = s.param /\ Reset(s).state = "ready"
  BY <1>3, StmtSteps
<1>6. CASE fate = "fine"
  <2>1. Queried(sql, 1, fate) = Reset(s)
    BY <1>4, <1>6
  <2> QED BY <1>1, <1>2, <1>3, <1>5, <2>1
<1>7. CASE fate # "fine"
  <2>1. Queried(sql, 1, fate) = s
    BY <1>4, <1>7
  <2> QED BY <1>1, <1>2, <1>3, <1>7, <2>1
<1> QED BY <1>6, <1>7

LEMMA QueryStep ==
  ASSUME TypeOK, NEW sql \in {"read", "write"}, NEW fate \in Fates, Query(sql, 1, fate)
  PROVE  /\ TypeOK' /\ conn.open /\ conn.object = "made" /\ cells' = cells
         /\ fate # "fine" => "refused" \in rules'
         /\ fate # "error" =>
              /\ Fresh(Len(stmts) + 1, Queried(sql, 1, fate), Len(objs) + 1, "result", 1)
              /\ conn' = [conn EXCEPT !.results = Append(@, Len(objs) + 1)]
         /\ fate = "error" =>
              /\ DOMAIN stmts' = DOMAIN stmts \cup {Len(stmts) + 1} /\ Len(stmts) + 1 \notin DOMAIN stmts
              /\ \A k \in DOMAIN stmts : stmts'[k] = stmts[k]
              /\ stmts'[Len(stmts) + 1] = Queried(sql, 1, fate)
              /\ UNCHANGED <<objs, conn>>
         /\ fate = "fine" =>
              /\ log' = IF sql = "write" THEN Append(log, 1) ELSE log
              /\ meant' = IF sql = "write" THEN Append(meant, 1) ELSE meant
<1>1. /\ Queried(sql, 1, fate) \in StmtType
  BY QueriedFacts
<1>2. stmts' = Append(stmts, Queried(sql, 1, fate)) /\ cells' = cells /\ conn.open /\ conn.object = "made"
  BY DEF Query, Queried, Usable
<1>3. fate # "fine" => "refused" \in rules'
  BY DEF Query, Call, If, Fates
<1>4. CASE fate # "error"
  <2>1. /\ objs' = Append(objs, NewObject("result", Len(stmts) + 1, 1))
        /\ conn' = [conn EXCEPT !.results = Append(@, Len(objs) + 1)]
    BY <1>4 DEF Query
  <2>2. fate = "fine" => /\ log' = IF sql = "write" THEN Append(log, 1) ELSE log
                         /\ meant' = IF sql = "write" THEN Append(meant, 1) ELSE meant
    BY <1>4 DEF Query, Writes, NewStmt
  <2> QED BY <1>1, <1>2, <1>3, <1>4, <2>1, <2>2, MadeFacts DEF Fresh
<1>5. CASE fate = "error"
  <2>1. UNCHANGED <<objs, conn>>
    BY <1>5 DEF Query
  <2>2. stmts \in Seq(StmtType)
    BY DEF TypeOK
  <2>3. /\ stmts' \in Seq(StmtType) /\ DOMAIN stmts' = DOMAIN stmts \cup {Len(stmts) + 1}
        /\ Len(stmts) + 1 \notin DOMAIN stmts
        /\ \A k \in DOMAIN stmts : stmts'[k] = stmts[k]
        /\ stmts'[Len(stmts) + 1] = Queried(sql, 1, fate)
    BY <1>1, <1>2, <2>2, AppendFacts
  <2>4. TypeOK'
    BY <1>2, <2>1, <2>3 DEF TypeOK
  <2> QED BY <1>2, <1>3, <1>5, <2>1, <2>3, <2>4
<1> QED BY <1>4, <1>5

\* An open connection is closed.
LEMMA CloseStep ==
  ASSUME TypeOK, NEW object \in {"made", "freed"}, NEW answers, CloseWith(object, answers), conn.open
  PROVE  /\ TypeOK'
         /\ objs' = GivenUp(Range(conn.results)).objs /\ stmts' = GivenUp(Range(conn.results)).stmts
         /\ conn'.object = object /\ ~conn'.open /\ conn'.db \in {"closed", "leaked"}
         /\ (\A h \in DOMAIN stmts' : stmts'[h].state = "final") => conn'.db = "closed"
         /\ SomeHeld => "left" \in rules'
         /\ UNCHANGED <<cells, log, meant>>
<1> DEFINE m == GivenUp(Range(conn.results))
           free == \A h \in DOMAIN m.stmts : m.stmts[h].state = "final"
<1>1. /\ objs' = m.objs /\ stmts' = m.stmts
      /\ conn' = [conn EXCEPT !.object = object, !.open = FALSE, !.db = IF free THEN "closed" ELSE "leaked"]
      /\ (SomeHeld => "left" \in rules') /\ UNCHANGED <<cells, log, meant>>
  BY DEF CloseWith, Call, If
<1>2. conn \in ConnType
  BY DEF TypeOK
<1>3. PICK db \in {"closed", "leaked"} : db = IF free THEN "closed" ELSE "leaked"
  OBVIOUS
<1> HIDE DEF m, free
<1>4. conn' = [conn EXCEPT !.object = object, !.open = FALSE, !.db = db]
  BY <1>1, <1>3
<1>5. conn' \in ConnType /\ conn'.object = object /\ ~conn'.open /\ conn'.db = db
  BY <1>2, <1>4 DEF ConnType
<1>6. TypeOK'
  BY <1>1, <1>5, GiveUpStep DEF m
<1>7. (\A h \in DOMAIN stmts' : stmts'[h].state = "final") => conn'.db = "closed"
  BY <1>1, <1>3, <1>5 DEF free
<1> QED BY <1>1, <1>3, <1>5, <1>6, <1>7 DEF m

\* An execution that is refused.
LEMMA RefusedStep ==
  ASSUME TypeOK, NEW i, Execute(i, "other"), Reads(AllBound(i))
  PROVE  /\ TypeOK' /\ i \in DOMAIN objs /\ objs[i].held /\ "refused" \in rules'
         /\ DOMAIN stmts' = DOMAIN stmts
         /\ \A k \in DOMAIN stmts : k # objs[i].h => stmts'[k] = stmts[k]
         /\ stmts'[objs[i].h].state = "ready" /\ stmts'[objs[i].h].param = AllBound(i).param
         /\ UNCHANGED <<conn, objs, cells, log, meant>>
<1> DEFINE t == Reset(AllBound(i))
<1>1. /\ i \in DOMAIN objs /\ objs[i].held
      /\ stmts' = [stmts EXCEPT ![objs[i].h] = t] /\ UNCHANGED <<conn, objs, cells, log>>
  BY DEF Execute, Held, Writes
<1>2. meant' = meant /\ "refused" \in rules'
  BY DEF Execute, ExecuteRules, If, Call
<1>3. objs[i].h \in DOMAIN stmts
  BY <1>1 DEF TypeOK
<1>4. t \in StmtType /\ t.state = "ready" /\ t.param = AllBound(i).param
  BY <1>1, AllBoundFacts, StmtSteps
<1> HIDE DEF t
<1>5. /\ stmts' \in Seq(StmtType) /\ DOMAIN stmts' = DOMAIN stmts /\ stmts'[objs[i].h] = t
      /\ \A k \in DOMAIN stmts : k # objs[i].h => stmts'[k] = stmts[k]
  BY <1>1, <1>3, <1>4, StmtChange
<1>6. TypeOK'
  BY <1>1, <1>5, SameShape DEF TypeOK
<1> QED BY <1>1, <1>2, <1>4, <1>5, <1>6

\* An execution that throws when it has bound some values.
LEMMA ThrowStep ==
  ASSUME TypeOK, NEW i, ExecuteThrows(i), stmts' # stmts
  PROVE  /\ TypeOK' /\ i \in DOMAIN objs /\ objs[i].kind = "stmt" /\ objs[i].bound # <<>>
         /\ "unknown" \in rules'
         /\ DOMAIN stmts' = DOMAIN stmts
         /\ \A k \in DOMAIN stmts : k # objs[i].h => stmts'[k] = stmts[k]
         /\ stmts'[objs[i].h].state = stmts[objs[i].h].state
         /\ stmts'[objs[i].h].sql = stmts[objs[i].h].sql
         /\ stmts'[objs[i].h].param \in {stmts[objs[i].h].param} \cup [text : Nat, of : Cells]
         /\ UNCHANGED <<conn, objs, cells, log, meant>>
<1>1. /\ i \in DOMAIN objs /\ objs[i].kind = "stmt"
      /\ UNCHANGED <<conn, objs, cells, log, meant>>
  BY DEF ExecuteThrows, Held
<1>2. PICK k \in Odd(i) : /\ k > 1
                         /\ stmts' = [stmts EXCEPT ![objs[i].h] = Bound(@, objs[i].bound[k - 1])]
                         /\ Call("thrown", If(stmts' # stmts, "unknown") \cup Late)
  BY DEF ExecuteThrows
<1>3. objs[i].bound \in Seq(Cells) /\ objs[i].h \in DOMAIN stmts /\ Stmt(i) \in StmtType
  BY <1>1, SeqDomains, AllBoundFacts DEF ObjType, TypeOK
<1> DEFINE v == objs[i].bound[k - 1]
           s == Bound(Stmt(i), v)
<1>4. v \in Cells /\ objs[i].bound # <<>>
  BY <1>2, <1>3 DEF Odd
<1>5. stmts' = [stmts EXCEPT ![objs[i].h] = s]
  BY <1>2 DEF Stmt
<1> HIDE DEF v
<1>6. s \in StmtType /\ s.sql = Stmt(i).sql /\ s.state = Stmt(i).state
  BY <1>3, <1>4, StmtBinds
<1>7. s.param \in {Stmt(i).param} \cup [text : Nat, of : Cells]
  BY <1>3, <1>4 DEF Bound, StmtType, TypeOK, CellType
<1> HIDE DEF s
<1>8. /\ stmts' \in Seq(StmtType) /\ DOMAIN stmts' = DOMAIN stmts /\ stmts'[objs[i].h] = s
      /\ \A k1 \in DOMAIN stmts : k1 # objs[i].h => stmts'[k1] = stmts[k1]
  BY <1>3, <1>5, <1>6, StmtChange
<1>9. TypeOK'
  BY <1>1, <1>8, SameShape DEF TypeOK
<1>10. "unknown" \in rules'
  BY <1>2 DEF Call, If
<1> QED BY <1>1, <1>4, <1>6, <1>7, <1>8, <1>9, <1>10 DEF Stmt

\* A call that leaves the statements, the objects and the variables alone.
Quiet ==
  /\ UNCHANGED <<stmts, objs, cells>>
  /\ UNCHANGED <<log, meant>> \/ \E fate \in {"fine", "error"} : Exec(1, fate)
  /\ \/ conn' = conn
     \/ conn.object = "unmade" /\ conn' = [conn EXCEPT !.object = "made", !.open = TRUE, !.db = "open"]
     \/ conn.object = "made" /\ ~conn.open /\ \E object \in {"made", "freed"} : conn' = [conn EXCEPT !.object = object]

LEMMA NextCases ==
  ASSUME TypeOK, Next
  PROVE  \/ Quiet
         \/ \E sql \in {"read", "write"} : Prepare(sql)
         \/ \E sql \in {"read", "write"}, fate \in Fates : Query(sql, 1, fate)
         \/ conn.open /\ Usable /\ \E object \in {"made", "freed"} : \E answers : CloseWith(object, answers)
         \/ \E i, v : v \in Cells /\ BindValue(i, v) /\ Stmt(i).state # "final"
         \/ \E i : Execute(i, "fine") /\ Reads(AllBound(i)) /\ conn.object # "freed"
         \/ \E i : Execute(i, "other") /\ Reads(AllBound(i))
         \/ \E i : ExecuteThrows(i) /\ stmts' # stmts
         \/ \E i, fate : Fetch(i, fate) /\ Reads(Stmt(i))
         \/ \E i : Finalize(i) /\ Stmt(i).state # "final"
         \/ \E i : Drop(i)
         \/ \E v \in Cells : Leave(v) \/ \E text \in Contents : Assign(v, text)
<1>1. ASSUME NEW fate, Open(fate) PROVE Quiet
  BY <1>1 DEF Open, Quiet
<1>2. ASSUME NEW fate \in {"fine", "error"}, Exec(1, fate) PROVE Quiet
  BY <1>2 DEF Exec, Quiet
<1>3. GetLastId \/ CannotPrepare => Quiet
  BY DEF GetLastId, CannotPrepare, Quiet
<1>4. ASSUME NEW object \in {"made", "freed"}, NEW answers, Usable, CloseWith(object, answers), ~conn.open PROVE Quiet
  BY <1>4 DEF CloseWith, Quiet, Usable
<1>5. ASSUME NEW i, NEW v \in Cells, BindValue(i, v), Stmt(i).state = "final" PROVE Quiet
  BY <1>5 DEF BindValue, Quiet
<1>6. ASSUME NEW i, NEW fate \in {"fine", "other"}, Execute(i, fate),
             ~Reads(AllBound(i)) \/ (conn.object = "freed" /\ fate = "fine")
      PROVE  Quiet
  BY <1>6 DEF Execute, Quiet
<1>7. ASSUME NEW i, NEW fate, Fetch(i, fate), ~Reads(Stmt(i)) PROVE Quiet
  BY <1>7 DEF Fetch, Quiet
<1>8. ASSUME NEW i, Finalize(i), Stmt(i).state = "final" PROVE Quiet
  BY <1>8 DEF Finalize, Quiet
<1>9. CASE CallConn
  <2>1. CASE Close \/ DropConn
    <3>1. Usable /\ \E object \in {"made", "freed"} : \E answers : CloseWith(object, answers)
      BY <2>1 DEF Close, DropConn
    <3>2. CASE conn.open
      BY <3>1, <3>2
    <3>3. CASE ~conn.open
      BY <1>4, <3>1, <3>3
    <3> QED BY <3>2, <3>3
  <2> QED BY <1>1, <1>2, <1>3, <1>9, <2>1 DEF CallConn
<1>10. CASE CallObject
  <2>1. PICK i : \/ \E v \in Cells : BindValue(i, v)
                 \/ \E fate \in {"fine", "other"} : Execute(i, fate) \/ Fetch(i, fate)
                 \/ ExecuteThrows(i) \/ Finalize(i) \/ Drop(i)
    BY <1>10 DEF CallObject
  <2>2. CASE \E v \in Cells : BindValue(i, v)
    BY <1>5, <2>2
  <2>3. CASE \E fate \in {"fine", "other"} : Execute(i, fate)
    BY <1>6, <2>3
  <2>4. CASE \E fate \in {"fine", "other"} : Fetch(i, fate)
    BY <1>7, <2>4
  <2>5. CASE Finalize(i) \/ Drop(i)
    BY <1>8, <2>5
  <2>6. CASE ExecuteThrows(i)
    BY <2>6 DEF ExecuteThrows, Quiet
  <2> QED BY <2>1, <2>2, <2>3, <2>4, <2>5, <2>6
<1>11. CASE ChangeVariable
  BY <1>11 DEF ChangeVariable
<1> QED BY <1>9, <1>10, <1>11 DEF Next

LEMMA RulesGrow ==
  ASSUME [Next]_vars
  PROVE  rules \subseteq rules'
<1>1. ASSUME NEW a, NEW b, Call(a, b) PROVE rules \subseteq rules'
  BY <1>1 DEF Call
<1>2. CASE CallConn
  <2>1. ASSUME NEW object, NEW answers, CloseWith(object, answers) PROVE rules \subseteq rules'
    BY <1>1, <2>1 DEF CloseWith
  <2>2. CASE Close \/ DropConn
    BY <2>1, <2>2 DEF Close, DropConn
  <2>3. ASSUME NEW sql, NEW fate, Query(sql, 1, fate) PROVE rules \subseteq rules'
    BY <1>1, <2>3 DEF Query
  <2>4. ASSUME NEW fate, Open(fate) \/ Exec(1, fate) PROVE rules \subseteq rules'
    BY <1>1, <2>4 DEF Open, Exec
  <2>5. ASSUME NEW sql, Prepare(sql) PROVE rules \subseteq rules'
    BY <1>1, <2>5 DEF Prepare
  <2>6. CASE GetLastId \/ CannotPrepare
    BY <1>1, <2>6 DEF GetLastId, CannotPrepare
  <2> QED BY <1>2, <2>2, <2>3, <2>4, <2>5, <2>6 DEF CallConn
<1>3. CASE CallObject
  <2>1. ASSUME NEW i, NEW v, BindValue(i, v) PROVE rules \subseteq rules'
    BY <1>1, <2>1 DEF BindValue
  <2>2. ASSUME NEW i, NEW fate, Execute(i, fate) PROVE rules \subseteq rules'
    <3>1. Call("stray", ExecuteRules(i, fate)) \/ Call("object", ExecuteRules(i, fate)) \/ Call("false", ExecuteRules(i, fate))
      BY <2>2 DEF Execute
    <3> QED BY <1>1, <3>1
  <2>3. ASSUME NEW i, NEW fate, Fetch(i, fate) PROVE rules \subseteq rules'
    BY <1>1, <2>3 DEF Fetch
  <2>4. ASSUME NEW i, Finalize(i) \/ Drop(i) PROVE rules \subseteq rules'
    BY <1>1, <2>4 DEF Finalize, Drop
  <2>5. ASSUME NEW i, ExecuteThrows(i) PROVE rules \subseteq rules'
    BY <1>1, <2>5 DEF ExecuteThrows
  <2> QED BY <1>3, <2>1, <2>2, <2>3, <2>4, <2>5 DEF CallObject
<1>4. CASE ChangeVariable
  BY <1>1, <1>4 DEF ChangeVariable, Leave, Assign
<1>5. CASE UNCHANGED vars
  BY <1>5 DEF vars
<1> QED BY <1>2, <1>3, <1>4, <1>5 DEF Next

LEMMA KeepsBefore ==
  ASSUME [Next]_vars, NEW S, Keeps(S)'
  PROVE  Keeps(S) /\ \A r \in S : r \notin rules'
  BY RulesGrow DEF Keeps

LEMMA TypeNext ==
  ASSUME TypeOK, [Next]_vars
  PROVE  TypeOK'
<1>1. CASE UNCHANGED vars
  BY <1>1 DEF vars, TypeOK
<1>2. CASE Quiet
  <2>1. conn' \in ConnType
    BY <1>2 DEF Quiet, TypeOK, ConnType
  <2> QED BY <1>2, <2>1 DEF Quiet, TypeOK
<1>3. CASE \E i : Execute(i, "fine") /\ Reads(AllBound(i)) /\ conn.object # "freed"
  BY <1>3, ExecuteStep
<1>4. CASE \E i, fate : Fetch(i, fate) /\ Reads(Stmt(i))
  BY <1>4, FetchStep
<1>5. CASE \E i, v : v \in Cells /\ BindValue(i, v) /\ Stmt(i).state # "final"
  BY <1>5, BindStep
<1>6. CASE \E i : Drop(i)
  BY <1>6, DropStep
<1>7. CASE \E v \in Cells : Leave(v) \/ \E text \in Contents : Assign(v, text)
  BY <1>7, VariableStep
<1>8. CASE \E i : Finalize(i) /\ Stmt(i).state # "final"
  BY <1>8, FinalizeStep
<1>9. CASE \E object \in {"made", "freed"} : \E answers : CloseWith(object, answers) /\ conn.open
  BY <1>9, CloseStep
<1>10. CASE Next
  BY <1>2, <1>3, <1>4, <1>5, <1>6, <1>7, <1>8, <1>9, <1>10, NextCases, PrepareStep, QueryStep, RefusedStep, ThrowStep
<1> QED BY <1>1, <1>10

-------------------------------------------------------------------------------
(* What is written. *)

\* What stays of an object that keeps its value and its variables.
LEMMA StaysFaithful ==
  ASSUME NEW i, Faithful(i), objs'[i].h = objs[i].h,
         objs'[i].bound = objs[i].bound, objs'[i].said = objs[i].said,
         \/ stmts'[objs[i].h].param = stmts[objs[i].h].param
         \/ stmts'[objs[i].h].param = Gone,
         objs[i].bound # <<>> => cells'[Last(objs[i].bound)].text = cells[Last(objs[i].bound)].text
  PROVE  Faithful(i)'
  BY DEF Faithful, Stmt

LEMMA BoundIn ==
  ASSUME TypeOK, NEW i \in DOMAIN objs, objs[i].bound # <<>>
  PROVE  Last(objs[i].bound) \in Cells
  BY SeqDomains, LastIn DEF ObjType

\* A variable that is bound last is bound.
LEMMA LastIsBound ==
  ASSUME TypeOK, NEW i \in DOMAIN objs, objs[i].bound # <<>>
  PROVE  BoundNow(Last(objs[i].bound))
<1>1. objs[i].bound \in Seq(Cells)
  BY SeqDomains DEF ObjType
<1>2. Contains(objs[i].bound, Last(objs[i].bound))
  BY <1>1 DEF Contains, Last
<1> QED BY <1>2 DEF BoundNow

\* What an execution writes and reads is what was said.
LEMMA ExecutesAsSaid ==
  ASSUME TypeOK, NEW i \in DOMAIN objs, Faithful(i), Reads(AllBound(i)),
         objs[i].bound = <<>> \/ Stmt(i).state = "ready"
  PROVE  AllBound(i).param.text = objs[i].said
  BY AllBoundFacts DEF Faithful, Reads

LEMMA WrittenNext ==
  ASSUME TypeOK, Written, [Next]_vars
  PROVE  Written'
<1> DEFINE W == {"fetched", "changed", "closed", "refused"}
           Good(i) == objs[i].kind = "stmt" /\ Stmt(i).sql = "write" =>
                        Stmt(i).state \in {"ready", "final"} /\ Faithful(i)
<1> SUFFICES ASSUME Keeps(W)'
             PROVE  log' = meant' /\ \A i \in DOMAIN objs' : Good(i)'
  BY DEF Written
<1>0. /\ log = meant /\ \A i \in DOMAIN objs : Good(i)
      /\ \A r \in W : r \notin rules'
  BY KeepsBefore DEF Written
<1> HIDE DEF W
<1>w. W = {"fetched", "changed", "closed", "refused"}
  BY DEF W
<1>1. CASE UNCHANGED vars
  BY <1>0, <1>1 DEF vars, Faithful, Stmt
<1>2. CASE Quiet
  <2>1. UNCHANGED <<objs, stmts, cells>>
    BY <1>2 DEF Quiet
  <2>2. \A i \in DOMAIN objs' : Good(i)'
    BY <1>0, <2>1 DEF Faithful, Stmt
  <2>3. log' = meant'
    <3>1. ASSUME NEW fate, Exec(1, fate) PROVE log' = meant'
      BY <1>0, <1>w, <3>1 DEF Exec, Call, If
    <3> QED BY <1>0, <1>2, <3>1 DEF Quiet
  <2> QED BY <2>2, <2>3
<1>3. CASE \E sql \in {"read", "write"} : Prepare(sql)
  <2>1. PICK sql \in {"read", "write"} : Prepare(sql)
    BY <1>3
  <2>2. /\ Fresh(Len(stmts) + 1, NewStmt(sql), Len(objs) + 1, "stmt", 0) /\ UNCHANGED <<cells, log, meant>>
    BY <2>1, PrepareStep
  <2>n. PICK n, m : n = Len(objs) + 1 /\ m = Len(stmts) + 1
    OBVIOUS
  <2>3. ASSUME NEW i \in DOMAIN objs PROVE Good(i)'
    <3>1. objs'[i] = objs[i] /\ stmts'[objs[i].h] = stmts[objs[i].h]
      BY <2>2 DEF Fresh, TypeOK
    <3> QED BY <1>0, <2>2, <3>1, StaysFaithful DEF Stmt
  <2>4. Good(n)'
    <3>1. objs'[n].h = m /\ stmts'[m] = NewStmt(sql) /\ objs'[n].bound = <<>> /\ objs'[n].said = 0
      BY <2>2, <2>n DEF Fresh
    <3> QED BY <3>1, PreparedFacts DEF Faithful, Stmt
  <2>5. DOMAIN objs' = DOMAIN objs \cup {n}
    BY <2>2, <2>n DEF Fresh
  <2> QED BY <1>0, <2>2, <2>3, <2>4, <2>5
<1>4. CASE \E sql \in {"read", "write"}, fate \in Fates : Query(sql, 1, fate)
  <2>1. PICK sql \in {"read", "write"}, fate \in Fates : Query(sql, 1, fate)
    BY <1>4
  <2>2. fate = "fine"
    BY <1>0, <1>w, <2>1, QueryStep
  <2>3. /\ Fresh(Len(stmts) + 1, Queried(sql, 1, fate), Len(objs) + 1, "result", 1) /\ cells' = cells
        /\ log' = meant'
    BY <1>0, <2>1, <2>2, QueryStep
  <2>4. ASSUME NEW i \in DOMAIN objs PROVE Good(i)'
    <3>1. objs'[i] = objs[i] /\ stmts'[objs[i].h] = stmts[objs[i].h]
      BY <2>3 DEF Fresh, TypeOK
    <3> QED BY <1>0, <2>3, <3>1, StaysFaithful DEF Stmt
  <2>5. DOMAIN objs' = DOMAIN objs \cup {Len(objs) + 1} /\ objs'[Len(objs) + 1].kind = "result"
    BY <2>3 DEF Fresh
  <2> QED BY <2>3, <2>4, <2>5
<1>5. CASE conn.open /\ \E object \in {"made", "freed"} : \E answers : CloseWith(object, answers)
  <2>1. /\ objs' = GivenUp(Range(conn.results)).objs /\ stmts' = GivenUp(Range(conn.results)).stmts
        /\ UNCHANGED <<cells, log, meant>>
    BY <1>5, CloseStep
  <2>2. ASSUME NEW i \in DOMAIN objs PROVE Good(i)'
    <3>1. objs[i].h \in DOMAIN stmts
      BY DEF TypeOK
    <3>2. /\ objs'[i].kind = objs[i].kind /\ objs'[i].h = objs[i].h
          /\ objs'[i].bound = objs[i].bound /\ objs'[i].said = objs[i].said
          /\ stmts'[objs[i].h].sql = stmts[objs[i].h].sql /\ stmts'[objs[i].h].param = stmts[objs[i].h].param
          /\ stmts'[objs[i].h].state \in {"final", stmts[objs[i].h].state}
      BY <2>1, <3>1, GivenUpFacts
    <3> QED BY <1>0, <2>1, <3>2, StaysFaithful DEF Stmt
  <2>3. DOMAIN objs' = DOMAIN objs
    BY <2>1, GivenUpFacts
  <2> QED BY <1>0, <2>1, <2>2, <2>3
<1>6. CASE \E i, v : v \in Cells /\ BindValue(i, v) /\ Stmt(i).state # "final"
  <2>1. PICK i, v : v \in Cells /\ BindValue(i, v) /\ Stmt(i).state # "final"
    BY <1>6
  <2>2. /\ DOMAIN objs' = DOMAIN objs /\ UNCHANGED <<conn, stmts, log, meant>> /\ i \in DOMAIN objs
        /\ \A w \in Cells : cells'[w].text = cells[w].text
        /\ \A j \in DOMAIN objs : j # i => objs'[j] = objs[j]
        /\ objs'[i].kind = objs[i].kind /\ objs'[i].h = objs[i].h
        /\ objs'[i].bound # <<>> /\ Last(objs'[i].bound) = v /\ objs'[i].said = cells[v].text
    BY <2>1, BindStep
  <2>3. Good(i)'
    <3>1. Faithful(i)'
      BY <2>1, <2>2 DEF Faithful
    <3> QED BY <1>0, <2>2, <3>1 DEF Stmt
  <2>4. ASSUME NEW j \in DOMAIN objs, j # i PROVE Good(j)'
    <3>1. objs[j].bound # <<>> => cells'[Last(objs[j].bound)].text = cells[Last(objs[j].bound)].text
      BY <2>2, BoundIn
    <3>2. objs'[j] = objs[j]
      BY <2>2, <2>4
    <3> QED BY <1>0, <2>2, <3>1, <3>2, StaysFaithful DEF Stmt
  <2> QED BY <1>0, <2>2, <2>3, <2>4
<1>7. CASE \E i : Execute(i, "fine") /\ Reads(AllBound(i)) /\ conn.object # "freed"
  <2>1. PICK i : Execute(i, "fine") /\ Reads(AllBound(i)) /\ conn.object # "freed"
    BY <1>7
  <2>n. PICK n : Executing(i, n)
    BY <2>1, ExecuteStep
  <2>2. /\ i \in DOMAIN objs /\ objs[i].kind = "stmt"
        /\ DOMAIN objs' = DOMAIN objs \cup {n} /\ objs'[n].kind = "result"
        /\ \A j \in DOMAIN objs : j # i => objs'[j] = objs[j]
        /\ objs'[i].kind = objs[i].kind /\ objs'[i].h = objs[i].h
        /\ objs'[i].bound = <<>> /\ objs'[i].said = objs[i].said
        /\ \A k \in DOMAIN stmts : k # objs[i].h =>
             /\ stmts'[k].sql = stmts[k].sql /\ stmts'[k].state = stmts[k].state
             /\ stmts'[k].param = stmts[k].param \/ stmts'[k].param = Gone
        /\ stmts'[objs[i].h].sql = Stmt(i).sql /\ stmts'[objs[i].h].state = "ready"
        /\ stmts'[objs[i].h].param \in {AllBound(i).param, Gone}
        /\ \A v \in Cells : cells'[v].text = cells[v].text
        /\ meant' = IF Stmt(i).sql = "write" THEN Append(meant, objs[i].said) ELSE meant
        /\ log' = IF Stmt(i).sql = "write" THEN Append(log, AllBound(i).param.text) ELSE log
    BY <2>n, ExecuteResult DEF Executing
  <2>3. Stmt(i).sql = "write" => AllBound(i).param.text = objs[i].said
    <3>1. SUFFICES ASSUME Stmt(i).sql = "write" PROVE AllBound(i).param.text = objs[i].said
      OBVIOUS
    <3>2. Stmt(i).state \in {"ready", "final"} /\ Faithful(i)
      BY <1>0, <2>2, <3>1
    <3>3. Stmt(i).state # "final"
      BY <2>1, <2>2, AllBoundFacts DEF Reads
    <3> QED BY <2>1, <2>2, <3>2, <3>3, ExecutesAsSaid
  <2>4. log' = meant'
    BY <1>0, <2>2, <2>3
  <2>5. Good(i)'
    BY <2>2, <2>3 DEF Faithful, Stmt
  <2>6. ASSUME NEW j \in DOMAIN objs, j # i PROVE Good(j)'
    <3>1. SUFFICES ASSUME objs[j].kind = "stmt" PROVE Good(j)'
      BY <2>2, <2>6
    <3>2. objs'[j] = objs[j] /\ objs[j].h # objs[i].h /\ objs[j].h \in DOMAIN stmts
      BY <2>2, <2>6, <3>1 DEF TypeOK
    <3>3. objs[j].bound # <<>> => cells'[Last(objs[j].bound)].text = cells[Last(objs[j].bound)].text
      BY <2>2, BoundIn
    <3> QED BY <1>0, <2>2, <3>2, <3>3, StaysFaithful DEF Stmt
  <2> QED BY <2>2, <2>4, <2>5, <2>6
<1>8. CASE \E i : Execute(i, "other") /\ Reads(AllBound(i))
  BY <1>0, <1>8, <1>w, RefusedStep
<1>9. CASE \E i, fate : Fetch(i, fate) /\ Reads(Stmt(i))
  <2>1. PICK i, fate : Fetch(i, fate) /\ Reads(Stmt(i))
    BY <1>9
  <2>2. /\ i \in DOMAIN objs /\ objs[i].kind = "result" /\ DOMAIN objs' = DOMAIN objs
        /\ \A j \in DOMAIN objs : j # i => objs'[j] = objs[j]
        /\ objs'[i].kind = objs[i].kind
        /\ \A k \in DOMAIN stmts : k # objs[i].h => stmts'[k] = stmts[k]
        /\ stmts'[objs[i].h] = Stepped(Stmt(i), fate)
        /\ log' = IF Writes(Stmt(i), fate) THEN Append(log, Stmt(i).param.text) ELSE log
        /\ UNCHANGED <<cells, meant>>
    BY <2>1, FetchStep
  <2>3. Stmt(i).sql # "write"
    BY <1>0, <1>w, <2>1 DEF Fetch, Call, If
  <2>4. log' = log
    BY <2>2, <2>3 DEF Writes
  <2>5. Stmt(i) \in StmtType
    BY <2>2, AllBoundFacts
  <2>6. Stepped(Stmt(i), fate).sql # "write"
    BY <2>3, <2>5, StmtSteps
  <2>7. ASSUME NEW j \in DOMAIN objs PROVE Good(j)'
    <3>1. CASE j = i \/ objs[j].h = objs[i].h
      BY <2>2, <2>6, <3>1 DEF Stmt
    <3>2. CASE j # i /\ objs[j].h # objs[i].h
      <4>1. objs'[j] = objs[j] /\ stmts'[objs[j].h] = stmts[objs[j].h]
        BY <2>2, <3>2 DEF TypeOK
      <4> QED BY <1>0, <2>2, <4>1, StaysFaithful DEF Stmt
    <3> QED BY <3>1, <3>2
  <2> QED BY <1>0, <2>2, <2>4, <2>7
<1>10. CASE \E i : Finalize(i) /\ Stmt(i).state # "final"
  <2>1. PICK i : Finalize(i) /\ Stmt(i).state # "final"
    BY <1>10
  <2>2. /\ i \in DOMAIN objs /\ objs[i].kind = "result" /\ DOMAIN objs' = DOMAIN objs
        /\ \A j \in DOMAIN objs : j # i => objs'[j] = objs[j]
        /\ objs'[i].kind = objs[i].kind
        /\ \A k \in DOMAIN stmts : k # objs[i].h => stmts'[k] = stmts[k]
        /\ stmts'[objs[i].h] = Reset(Stmt(i))
        /\ UNCHANGED <<cells, log, meant>>
    BY <2>1, FinalizeStep
  <2>3. Stmt(i) \in StmtType
    BY <2>2, AllBoundFacts
  <2>4. ASSUME NEW j \in DOMAIN objs PROVE Good(j)'
    <3>1. CASE j = i
      BY <2>2, <3>1
    <3>2. CASE j # i
      <4>1. objs'[j] = objs[j] /\ objs[j].h \in DOMAIN stmts
        BY <2>2, <3>2 DEF TypeOK
      <4>2. /\ stmts'[objs[j].h].sql = stmts[objs[j].h].sql /\ stmts'[objs[j].h].param = stmts[objs[j].h].param
            /\ stmts'[objs[j].h].state \in {"ready", stmts[objs[j].h].state}
        BY <2>2, <2>3, <4>1, StmtSteps DEF Stmt
      <4> QED BY <1>0, <2>2, <4>1, <4>2, StaysFaithful DEF Stmt
    <3> QED BY <3>1, <3>2
  <2> QED BY <1>0, <2>2, <2>4
<1>11. CASE \E i : Drop(i)
  <2>1. PICK i : Drop(i)
    BY <1>11
  <2>2. /\ DOMAIN objs' = DOMAIN objs /\ stmts' = GivenUp({i}).stmts /\ UNCHANGED <<cells, log, meant>>
        /\ \A j \in DOMAIN objs :
             /\ objs'[j].kind = objs[j].kind /\ objs'[j].h = objs[j].h
             /\ objs'[j].bound = objs[j].bound /\ objs'[j].said = objs[j].said
    BY <2>1, DropStep
  <2>3. ASSUME NEW j \in DOMAIN objs PROVE Good(j)'
    <3>1. objs[j].h \in DOMAIN stmts
      BY DEF TypeOK
    <3>2. /\ stmts'[objs[j].h].sql = stmts[objs[j].h].sql /\ stmts'[objs[j].h].param = stmts[objs[j].h].param
          /\ stmts'[objs[j].h].state \in {"final", stmts[objs[j].h].state}
      BY <2>2, <3>1, GivenUpFacts
    <3> QED BY <1>0, <2>2, <3>2, StaysFaithful DEF Stmt
  <2> QED BY <1>0, <2>2, <2>3
<1>12. CASE \E v \in Cells : Leave(v) \/ \E text \in Contents : Assign(v, text)
  <2>1. PICK v \in Cells : Leave(v) \/ \E text \in Contents : Assign(v, text)
    BY <1>12
  <2>2. /\ UNCHANGED <<objs, log, meant>> /\ stmts' = stmts
        /\ \A w \in Cells : w # v => cells'[w] = cells[w]
        /\ cells'[v].text = cells[v].text \/ ~BoundNow(v)
    BY <1>0, <1>w, <2>1, VariableStep
  <2>3. ASSUME NEW j \in DOMAIN objs PROVE Good(j)'
    <3>1. objs[j].bound # <<>> => cells'[Last(objs[j].bound)].text = cells[Last(objs[j].bound)].text
      BY <2>2, BoundIn, LastIsBound
    <3> QED BY <1>0, <2>2, <3>1, StaysFaithful DEF Stmt
  <2> QED BY <1>0, <2>2, <2>3
<1>14. CASE \E i : ExecuteThrows(i) /\ stmts' # stmts
  <2>1. PICK i : ExecuteThrows(i) /\ stmts' # stmts
    BY <1>14
  <2>2. /\ i \in DOMAIN objs /\ objs[i].kind = "stmt" /\ objs[i].bound # <<>>
        /\ \A k \in DOMAIN stmts : k # objs[i].h => stmts'[k] = stmts[k]
        /\ stmts'[objs[i].h].state = stmts[objs[i].h].state /\ stmts'[objs[i].h].sql = stmts[objs[i].h].sql
        /\ UNCHANGED <<objs, cells, log, meant>>
    BY <2>1, ThrowStep
  <2>3. Good(i)'
    BY <1>0, <2>2 DEF Faithful, Stmt
  <2>4. ASSUME NEW j \in DOMAIN objs, j # i PROVE Good(j)'
    <3>1. CASE objs[j].kind = "stmt"
      <4>1. objs[j].h # objs[i].h /\ objs[j].h \in DOMAIN stmts
        BY <2>2, <2>4, <3>1 DEF TypeOK
      <4> QED BY <1>0, <2>2, <4>1 DEF Faithful, Stmt
    <3> QED BY <2>2, <3>1
  <2> QED BY <1>0, <2>2, <2>3, <2>4
<1>13. CASE Next
  BY <1>2, <1>3, <1>4, <1>5, <1>6, <1>7, <1>8, <1>9, <1>10, <1>11, <1>12, <1>13, <1>14, NextCases
<1> QED BY <1>1, <1>13

-------------------------------------------------------------------------------
(* What is read. *)

LEMMA LastingNext ==
  ASSUME TypeOK, Lasting, [Next]_vars
  PROVE  Lasting'
<1> SUFFICES ASSUME Keeps({"changed", "unheld"})'
             PROVE  \A h \in DOMAIN stmts' : stmts'[h].param # Gone
  BY DEF Lasting
<1>0. /\ \A h \in DOMAIN stmts : stmts[h].param # Gone
      /\ "changed" \notin rules' /\ "unheld" \notin rules'
  BY KeepsBefore DEF Lasting
<1>1. CASE stmts' = stmts
  BY <1>0, <1>1
<1>2. CASE \E sql \in {"read", "write"} : Prepare(sql)
  BY <1>0, <1>2, PrepareStep, PreparedFacts DEF Fresh
<1>3. CASE \E sql \in {"read", "write"}, fate \in Fates : Query(sql, 1, fate)
  <2>1. PICK sql \in {"read", "write"}, fate \in Fates : Query(sql, 1, fate)
    BY <1>3
  <2>2. /\ DOMAIN stmts' = DOMAIN stmts \cup {Len(stmts) + 1}
        /\ \A k \in DOMAIN stmts : stmts'[k] = stmts[k]
        /\ stmts'[Len(stmts) + 1] = Queried(sql, 1, fate)
    BY <2>1, QueryStep DEF Fresh
  <2> QED BY <1>0, <2>2, QueriedFacts
<1>4. ASSUME NEW S, stmts' = GivenUp(S).stmts
      PROVE  \A h \in DOMAIN stmts' : stmts'[h].param # Gone
  BY <1>0, <1>4, GivenUpFacts
<1>5. CASE conn.open /\ \E object \in {"made", "freed"} : \E answers : CloseWith(object, answers)
  BY <1>4, <1>5, CloseStep
<1>6. CASE \E i : Drop(i)
  BY <1>4, <1>6, DropStep
<1>7. CASE \E i : Execute(i, "fine") /\ Reads(AllBound(i)) /\ conn.object # "freed"
  <2>1. PICK i : Execute(i, "fine") /\ Reads(AllBound(i)) /\ conn.object # "freed"
    BY <1>7
  <2>2. PICK n : Executing(i, n)
    BY <2>1, ExecuteStep
  <2>3. Emptied(i) \cap Computed = {}
    <3>1. "unheld" \in ExecuteRules(i, "fine") => "unheld" \in rules'
      BY <2>1 DEF Execute, Call
    <3> QED BY <1>0, <3>1 DEF ExecuteRules, If
  <2> QED BY <1>0, <2>1, <2>2, <2>3 DEF Executing, Reads
<1>8. CASE \E i : Execute(i, "other") /\ Reads(AllBound(i))
  BY <1>0, <1>8, RefusedStep DEF Reads
<1>9. CASE \E i, fate : Fetch(i, fate) /\ Reads(Stmt(i))
  <2>1. PICK i, fate : Fetch(i, fate) /\ Reads(Stmt(i))
    BY <1>9
  <2>2. /\ i \in DOMAIN objs /\ DOMAIN stmts' = DOMAIN stmts
        /\ \A k \in DOMAIN stmts : k # objs[i].h => stmts'[k] = stmts[k]
        /\ stmts'[objs[i].h] = Stepped(Stmt(i), fate)
    BY <2>1, FetchStep
  <2>3. Stepped(Stmt(i), fate).param # Gone
    BY <2>1, <2>2, AllBoundFacts, StmtSteps DEF Reads
  <2> QED BY <1>0, <2>2, <2>3
<1>10. CASE \E i : Finalize(i) /\ Stmt(i).state # "final"
  <2>1. PICK i : Finalize(i) /\ Stmt(i).state # "final"
    BY <1>10
  <2>2. /\ i \in DOMAIN objs /\ DOMAIN stmts' = DOMAIN stmts
        /\ \A k \in DOMAIN stmts : k # objs[i].h => stmts'[k] = stmts[k]
        /\ stmts'[objs[i].h] = Reset(Stmt(i))
    BY <2>1, FinalizeStep
  <2>3. Reset(Stmt(i)).param # Gone
    <3>1. Reset(Stmt(i)).param = stmts[objs[i].h].param
      BY <2>2, AllBoundFacts, StmtSteps DEF Stmt
    <3> QED BY <1>0, <2>2, <3>1 DEF TypeOK
  <2> QED BY <1>0, <2>2, <2>3
<1>11. CASE \E v \in Cells : Leave(v) \/ \E text \in Contents : Assign(v, text)
  BY <1>0, <1>11, VariableStep
<1>12. CASE \E i, v : v \in Cells /\ BindValue(i, v) /\ Stmt(i).state # "final"
  BY <1>1, <1>12, BindStep
<1>14. CASE \E i : ExecuteThrows(i) /\ stmts' # stmts
  <2>1. PICK i : ExecuteThrows(i) /\ stmts' # stmts
    BY <1>14
  <2>2. stmts'[objs[i].h].param # Gone
    <3>1. i \in DOMAIN objs /\ objs[i].h \in DOMAIN stmts
      BY <2>1, ThrowStep DEF TypeOK
    <3>2. \A p \in [text : Nat, of : Cells] : p # Gone
      BY SqliteAssumption DEF Gone
    <3> QED BY <1>0, <2>1, <3>1, <3>2, ThrowStep
  <2> QED BY <1>0, <2>1, <2>2, ThrowStep
<1>13. CASE Next
  BY <1>1, <1>2, <1>3, <1>5, <1>6, <1>7, <1>8, <1>9, <1>10, <1>11, <1>12, <1>13, <1>14, NextCases DEF Quiet
<1> QED BY <1>1, <1>13 DEF vars

LEMMA ReadingNext ==
  ASSUME TypeOK, Reading, [Next]_vars
  PROVE  Reading'
<1> DEFINE R == {"rebind", "shared", "changed", "unheld", "refused", "unknown"}
           R1(i) == objs[i].kind = "stmt" => Faithful(i)
           R2(i) == objs[i].kind = "result" /\ Youngest(i) => Stmt(i).param.text = objs[i].said
           R3(i) == objs[i].fetched > 0 =>
                      /\ objs[i].kind = "result" /\ Stmt(i).state \in {"row", "final"}
                      /\ Stmt(i).row = objs[i].fetched /\ Stmt(i).param.text = objs[i].said
           R4(h) == stmts[h].state = "row" =>
                      \E i \in DOMAIN objs : objs[i].kind = "result" /\ objs[i].h = h /\ objs[i].fetched > 0
<1> SUFFICES ASSUME Keeps(R)'
             PROVE  (\A i \in DOMAIN objs' : R1(i)' /\ R2(i)' /\ R3(i)') /\ \A h \in DOMAIN stmts' : R4(h)'
  BY DEF Reading
<1>0. /\ \A i \in DOMAIN objs : R1(i) /\ R2(i) /\ R3(i)
      /\ \A h \in DOMAIN stmts : R4(h)
      /\ \A r \in R : r \notin rules'
  BY KeepsBefore DEF Reading
<1> HIDE DEF R
<1>r. R = {"rebind", "shared", "changed", "unheld", "refused", "unknown"}
  BY DEF R
<1>h. \A i \in DOMAIN objs : objs[i].h \in DOMAIN stmts /\ objs[i].fetched \in Nat
  BY SeqDomains DEF TypeOK, ObjType
<1>1. CASE UNCHANGED <<objs, stmts, cells>>
  BY <1>0, <1>1 DEF Faithful, Stmt, Youngest
\* A statement is made.
<1>2. ASSUME NEW h, NEW s, NEW i, NEW kind \in {"stmt", "result"}, NEW said,
             Fresh(h, s, i, kind, said), cells' = cells,
             s.state # "row", s.param.text = said
      PROVE  (\A j \in DOMAIN objs' : R1(j)' /\ R2(j)' /\ R3(j)') /\ \A k \in DOMAIN stmts' : R4(k)'
  <2>1. /\ DOMAIN objs' = DOMAIN objs \cup {i} /\ DOMAIN stmts' = DOMAIN stmts \cup {h} /\ h \notin DOMAIN stmts
        /\ i \notin DOMAIN objs /\ stmts'[h] = s
        /\ objs'[i].kind = kind /\ objs'[i].h = h /\ objs'[i].said = said
        /\ objs'[i].bound = <<>> /\ objs'[i].fetched = 0
        /\ \A j \in DOMAIN objs : objs'[j] = objs[j]
        /\ \A k \in DOMAIN stmts : stmts'[k] = stmts[k]
    BY <1>2 DEF Fresh
  <2>2. R1(i)' /\ R2(i)' /\ R3(i)'
    BY <1>2, <2>1 DEF Faithful, Stmt
  <2>3. ASSUME NEW j \in DOMAIN objs PROVE R1(j)' /\ R2(j)' /\ R3(j)'
    <3>1. objs'[j] = objs[j] /\ stmts'[objs[j].h] = stmts[objs[j].h]
      BY <1>h, <2>1
    <3>2. Faithful(j) => Faithful(j)'
      BY <1>2, <3>1, StaysFaithful
    <3>3. Youngest(j)' => Youngest(j)
      BY <2>1, <3>1 DEF Youngest
    <3> QED BY <1>0, <3>1, <3>2, <3>3 DEF Stmt
  <2>4. ASSUME NEW k \in DOMAIN stmts PROVE R4(k)'
    BY <1>0, <2>1
  <2>5. R4(h)'
    BY <1>2, <2>1
  <2> QED BY <2>1, <2>2, <2>3, <2>4, <2>5
<1>3. CASE \E sql \in {"read", "write"} : Prepare(sql)
  <2>1. PICK sql \in {"read", "write"} : Prepare(sql)
    BY <1>3
  <2>2. PICK h, s, i : /\ Fresh(h, s, i, "stmt", 0) /\ s = NewStmt(sql)
    BY <2>1, PrepareStep
  <2>3. cells' = cells /\ s.state # "row" /\ s.param.text = 0
    BY <2>1, <2>2, PrepareStep, PreparedFacts
  <2> QED BY <1>2, <2>2, <2>3
<1>4. CASE \E sql \in {"read", "write"}, fate \in Fates : Query(sql, 1, fate)
  <2>1. PICK sql \in {"read", "write"}, fate \in Fates : Query(sql, 1, fate)
    BY <1>4
  <2>2. fate = "fine"
    BY <1>0, <1>r, <2>1, QueryStep
  <2>3. PICK h, s, i : /\ Fresh(h, s, i, "result", 1) /\ s = Queried(sql, 1, fate)
    BY <2>1, <2>2, QueryStep
  <2>4. cells' = cells /\ s.state # "row" /\ s.param.text = 1
    BY <2>1, <2>2, <2>3, QueryStep, QueriedFacts
  <2> QED BY <1>2, <2>3, <2>4
\* Statements are finalized.
<1>5. ASSUME DOMAIN objs' = DOMAIN objs, cells' = cells,
             \A i \in DOMAIN objs : /\ objs'[i].kind = objs[i].kind /\ objs'[i].h = objs[i].h
                                    /\ objs'[i].bound = objs[i].bound /\ objs'[i].said = objs[i].said
                                    /\ objs'[i].fetched = objs[i].fetched,
             NEW S, stmts' = GivenUp(S).stmts
      PROVE  (\A j \in DOMAIN objs' : R1(j)' /\ R2(j)' /\ R3(j)') /\ \A k \in DOMAIN stmts' : R4(k)'
  <2>1. /\ DOMAIN stmts' = DOMAIN stmts
        /\ \A k \in DOMAIN stmts :
             /\ stmts'[k].row = stmts[k].row /\ stmts'[k].param = stmts[k].param
             /\ stmts'[k].state \in {"final", stmts[k].state}
    BY <1>5, GivenUpFacts
  <2>2. ASSUME NEW j \in DOMAIN objs PROVE R1(j)' /\ R2(j)' /\ R3(j)'
    <3>1. Faithful(j) => Faithful(j)'
      BY <1>5, <1>h, <2>1, StaysFaithful
    <3>2. Youngest(j)' => Youngest(j)
      BY <1>5 DEF Youngest
    <3>3. objs[j].h \in DOMAIN stmts
      BY <1>h
    <3> QED BY <1>0, <1>5, <2>1, <3>1, <3>2, <3>3 DEF Stmt
  <2>3. ASSUME NEW k \in DOMAIN stmts PROVE R4(k)'
    BY <1>0, <1>5, <2>1
  <2> QED BY <1>5, <2>1, <2>2, <2>3
<1>6. CASE conn.open /\ \E object \in {"made", "freed"} : \E answers : CloseWith(object, answers)
  <2>1. /\ objs' = GivenUp(Range(conn.results)).objs /\ stmts' = GivenUp(Range(conn.results)).stmts
        /\ cells' = cells
    BY <1>6, CloseStep
  <2> QED BY <1>5, <2>1, GivenUpFacts
<1>7. CASE \E i : Drop(i)
  <2>1. PICK i : Drop(i)
    BY <1>7
  <2>2. stmts' = GivenUp({i}).stmts /\ cells' = cells /\ DOMAIN objs' = DOMAIN objs
    BY <2>1, DropStep
  <2>3. \A j \in DOMAIN objs : /\ objs'[j].kind = objs[j].kind /\ objs'[j].h = objs[j].h
                               /\ objs'[j].bound = objs[j].bound /\ objs'[j].said = objs[j].said
                               /\ objs'[j].fetched = objs[j].fetched
    BY <2>1, DropStep
  <2> QED BY <1>5, <2>2, <2>3
<1>8. CASE \E i, v : v \in Cells /\ BindValue(i, v) /\ Stmt(i).state # "final"
  <2>1. PICK i, v : v \in Cells /\ BindValue(i, v) /\ Stmt(i).state # "final"
    BY <1>8
  <2>2. /\ DOMAIN objs' = DOMAIN objs /\ stmts' = stmts /\ i \in DOMAIN objs /\ objs[i].kind = "stmt"
        /\ \A w \in Cells : cells'[w].text = cells[w].text
        /\ \A j \in DOMAIN objs : j # i => objs'[j] = objs[j]
        /\ objs'[i].kind = objs[i].kind /\ objs'[i].h = objs[i].h /\ objs'[i].fetched = objs[i].fetched
        /\ objs'[i].bound # <<>> /\ Last(objs'[i].bound) = v /\ objs'[i].said = cells[v].text
    BY <2>1, BindStep
  <2>3. R1(i)' /\ R2(i)' /\ R3(i)'
    <3>1. Faithful(i)'
      BY <2>1, <2>2 DEF Faithful
    <3> QED BY <1>0, <1>h, <2>2, <3>1
  <2>4. ASSUME NEW j \in DOMAIN objs, j # i PROVE R1(j)' /\ R2(j)' /\ R3(j)'
    <3>1. objs[j].bound # <<>> => cells'[Last(objs[j].bound)].text = cells[Last(objs[j].bound)].text
      BY <2>2, BoundIn
    <3>2. objs'[j] = objs[j]
      BY <2>2, <2>4
    <3>3. Faithful(j) => Faithful(j)'
      BY <2>2, <3>1, <3>2, StaysFaithful
    <3>4. Youngest(j)' => Youngest(j)
      BY <2>2, <3>2 DEF Youngest
    <3> QED BY <1>0, <2>2, <3>2, <3>3, <3>4 DEF Stmt
  <2>5. ASSUME NEW k \in DOMAIN stmts PROVE R4(k)'
    BY <1>0, <2>2
  <2> QED BY <2>2, <2>3, <2>4, <2>5
<1>9. CASE \E i : Execute(i, "fine") /\ Reads(AllBound(i)) /\ conn.object # "freed"
  <2>1. PICK i : Execute(i, "fine") /\ Reads(AllBound(i)) /\ conn.object # "freed"
    BY <1>9
  <2>n. PICK n : Executing(i, n)
    BY <2>1, ExecuteStep
  <2> DEFINE h == objs[i].h
  <2>2. /\ i \in DOMAIN objs /\ objs[i].kind = "stmt" /\ n \notin DOMAIN objs
        /\ DOMAIN objs' = DOMAIN objs \cup {n} /\ DOMAIN stmts' = DOMAIN stmts
        /\ objs'[n].kind = "result" /\ objs'[n].h = h /\ objs'[n].said = objs[i].said
        /\ objs'[n].fetched = 0 /\ \A j \in DOMAIN objs : n > j
        /\ \A j \in DOMAIN objs : j # i => objs'[j] = objs[j]
        /\ objs'[i].kind = objs[i].kind /\ objs'[i].h = objs[i].h /\ objs'[i].fetched = objs[i].fetched
        /\ objs'[i].bound = <<>> /\ objs'[i].said = objs[i].said
        /\ stmts'[h].state = "ready"
        /\ \A v \in Cells : cells'[v].text = cells[v].text
    BY <2>n, ExecuteResult, SeqDomains DEF Executing
  <2>3. ExecuteRules(i, "fine") \cap R = {}
    <3>1. ExecuteRules(i, "fine") \subseteq rules'
      BY <2>1 DEF Execute, Call
    <3> QED BY <1>0, <3>1
  <2>4. Stmt(i).state # "row" /\ (Stmt(i).state = "ready" \/ objs[i].bound = <<>>)
    <3>1. Stmt(i).state # "row" /\ (Stmt(i).state = "done" => objs[i].bound = <<>>)
      BY <1>r, <2>3 DEF ExecuteRules, If
    <3>2. Stmt(i).state \in {"ready", "row", "done"}
      BY <2>1, <2>2, AllBoundFacts DEF Reads, StmtType
    <3> QED BY <3>1, <3>2
  <2>5. AllBound(i).param.text = objs[i].said
    <3>1. Faithful(i)
      BY <1>0, <2>2
    <3> QED BY <2>1, <2>2, <2>4, <3>1, ExecutesAsSaid
  <2>6. /\ stmts'[h].param = AllBound(i).param
        /\ \A k \in DOMAIN stmts : k # h => stmts'[k] = stmts[k]
    <3>1. Emptied(i) \cap Computed = {}
      BY <1>r, <2>3 DEF ExecuteRules, If
    <3> QED BY <2>n, <3>1 DEF Executing
  <2>7. R1(i)' /\ R2(i)' /\ R3(i)'
    BY <1>0, <1>h, <2>2, <2>5, <2>6 DEF Faithful, Stmt
  <2>8. R1(n)' /\ R2(n)' /\ R3(n)'
    BY <2>2, <2>5, <2>6 DEF Stmt
  <2>9. ASSUME NEW j \in DOMAIN objs, j # i PROVE R1(j)' /\ R2(j)' /\ R3(j)'
    <3>1. objs'[j] = objs[j] /\ objs[j].h \in DOMAIN stmts
      BY <1>h, <2>2, <2>9
    <3>2. CASE objs[j].h # h
      <4>1. stmts'[objs[j].h] = stmts[objs[j].h]
        BY <2>6, <3>1, <3>2
      <4>2. objs[j].bound # <<>> => cells'[Last(objs[j].bound)].text = cells[Last(objs[j].bound)].text
        BY <2>2, BoundIn
      <4>3. Faithful(j) => Faithful(j)'
        BY <3>1, <4>1, <4>2, StaysFaithful
      <4>4. Youngest(j)' => Youngest(j)
        BY <2>2, <3>1 DEF Youngest
      <4> QED BY <1>0, <3>1, <4>1, <4>3, <4>4 DEF Stmt
    <3>3. CASE objs[j].h = h
      <4>1. objs[j].kind # "stmt"
        BY <2>2, <2>9, <3>3 DEF TypeOK
      <4>2. ~(objs[j].fetched > 0)
        <5>1. Stmt(j).state \notin {"row", "final"}
          <6>1. Stmt(j) = Stmt(i)
            BY <3>3 DEF Stmt
          <6> QED BY <2>1, <2>2, <2>4, <6>1, AllBoundFacts DEF Reads
        <5> QED BY <1>0, <5>1
      <4>3. ~Youngest(j)'
        <5>1. n > j /\ j \in Nat /\ n \in Nat
          BY <2>2, <2>n, SeqDomains DEF Executing
        <5> QED BY <2>2, <3>1, <3>3, <5>1 DEF Youngest
      <4> QED BY <3>1, <4>1, <4>2, <4>3
    <3> QED BY <3>2, <3>3
  <2>10. ASSUME NEW k \in DOMAIN stmts PROVE R4(k)'
    BY <1>0, <2>2, <2>6
  <2> QED BY <2>2, <2>7, <2>8, <2>9, <2>10
<1>10. CASE \E i : Execute(i, "other") /\ Reads(AllBound(i))
  BY <1>0, <1>10, <1>r, RefusedStep
\* A result is fetched from or reset.
<1>11. ASSUME NEW i \in DOMAIN objs, objs[i].kind = "result", ~Shared(i), cells' = cells,
              DOMAIN objs' = DOMAIN objs, DOMAIN stmts' = DOMAIN stmts,
              \A j \in DOMAIN objs : j # i => objs'[j] = objs[j],
              objs'[i].kind = objs[i].kind, objs'[i].h = objs[i].h,
              objs'[i].said = objs[i].said, objs'[i].bound = objs[i].bound,
              \A k \in DOMAIN stmts : k # objs[i].h => stmts'[k] = stmts[k],
              stmts'[objs[i].h].param = Stmt(i).param, Stmt(i).state # "final",
              \/ stmts'[objs[i].h].state # "row" /\ objs'[i].fetched = 0
              \/ /\ stmts'[objs[i].h].state = "row" /\ objs'[i].fetched = objs[i].fetched + 1
                 /\ stmts'[objs[i].h].row = (IF Begins(Stmt(i)) THEN 0 ELSE Stmt(i).row) + 1
       PROVE  (\A j \in DOMAIN objs' : R1(j)' /\ R2(j)' /\ R3(j)') /\ \A k \in DOMAIN stmts' : R4(k)'
  <2> DEFINE h == objs[i].h
  <2>1. \A j \in DOMAIN objs : j # i /\ objs[j].kind = "result" /\ objs[j].h = h => ~(j > i) /\ ~(objs[j].fetched > 0)
    BY <1>11 DEF Shared
  <2>2. DOMAIN objs \subseteq Nat
    BY SeqDomains
  <2>3. Youngest(i)
    BY <2>1, <2>2 DEF Youngest
  <2>4. Stmt(i).param.text = objs[i].said
    BY <1>0, <1>11, <2>3
  <2>5. ASSUME NEW j \in DOMAIN objs, j # i, objs[j].h = h PROVE objs[j].fetched = 0
    BY <1>0, <1>h, <2>1, <2>5
  <2>6. CASE objs'[i].fetched = 0
    <3>1. stmts'[h].state # "row"
      BY <1>11, <1>h, <2>6
    <3>2. R1(i)' /\ R2(i)' /\ R3(i)'
      BY <1>11, <2>4, <2>6 DEF Stmt
    <3>3. ASSUME NEW j \in DOMAIN objs, j # i PROVE R1(j)' /\ R2(j)' /\ R3(j)'
      <4>1. objs'[j] = objs[j] /\ objs[j].h \in DOMAIN stmts
        BY <1>11, <1>h, <3>3
      <4>2. stmts'[objs[j].h].param = stmts[objs[j].h].param
        BY <1>11, <4>1 DEF Stmt
      <4>3. Faithful(j) => Faithful(j)'
        BY <1>11, <4>1, <4>2, StaysFaithful
      <4>4. Youngest(j)' => Youngest(j)
        BY <1>11, <4>1 DEF Youngest
      <4>5. R3(j)'
        BY <1>0, <1>11, <2>5, <3>3, <4>1 DEF Stmt
      <4> QED BY <1>0, <4>1, <4>2, <4>3, <4>4, <4>5 DEF Stmt
    <3>4. ASSUME NEW k \in DOMAIN stmts PROVE R4(k)'
      <4>1. CASE k = h
        BY <3>1, <4>1
      <4>2. CASE k # h
        BY <1>0, <1>11, <4>2
      <4> QED BY <4>1, <4>2
    <3> QED BY <1>11, <3>2, <3>3, <3>4
  <2>7. CASE objs'[i].fetched # 0
    <3>1. /\ stmts'[h].state = "row" /\ objs'[i].fetched = objs[i].fetched + 1
          /\ stmts'[h].row = (IF Begins(Stmt(i)) THEN 0 ELSE Stmt(i).row) + 1
      BY <1>11, <2>7
    <3>2. (IF Begins(Stmt(i)) THEN 0 ELSE Stmt(i).row) = objs[i].fetched
      <4>1. CASE Begins(Stmt(i))
        <5>1. ~(objs[i].fetched > 0)
          BY <1>0, <4>1 DEF Begins
        <5> QED BY <1>h, <4>1, <5>1
      <4>2. CASE ~Begins(Stmt(i))
        <5>1. Stmt(i).state = "row"
          BY <1>11, <4>2, AllBoundFacts DEF Begins, StmtType
        <5>2. PICK k \in DOMAIN objs : objs[k].kind = "result" /\ objs[k].h = h /\ objs[k].fetched > 0
          BY <1>0, <1>h, <5>1 DEF Stmt
        <5>3. k = i
          BY <2>1, <5>2
        <5> QED BY <1>0, <4>2, <5>2, <5>3
      <4> QED BY <4>1, <4>2
    <3>3. R1(i)' /\ R2(i)' /\ R3(i)'
      BY <1>11, <2>4, <3>1, <3>2 DEF Stmt
    <3>4. ASSUME NEW j \in DOMAIN objs, j # i PROVE R1(j)' /\ R2(j)' /\ R3(j)'
      <4>1. objs'[j] = objs[j] /\ objs[j].h \in DOMAIN stmts
        BY <1>11, <1>h, <3>4
      <4>2. stmts'[objs[j].h].param = stmts[objs[j].h].param
        BY <1>11, <4>1 DEF Stmt
      <4>3. Faithful(j) => Faithful(j)'
        BY <1>11, <4>1, <4>2, StaysFaithful
      <4>4. Youngest(j)' => Youngest(j)
        BY <1>11, <4>1 DEF Youngest
      <4>5. R3(j)'
        BY <1>0, <1>11, <2>5, <3>4, <4>1 DEF Stmt
      <4> QED BY <1>0, <4>1, <4>2, <4>3, <4>4, <4>5 DEF Stmt
    <3>5. ASSUME NEW k \in DOMAIN stmts PROVE R4(k)'
      <4>1. CASE k = h
        <5>1. objs[i].fetched + 1 > 0
          BY <1>h
        <5> QED BY <1>11, <3>1, <4>1, <5>1
      <4>2. CASE k # h
        BY <1>0, <1>11, <4>2
      <4> QED BY <4>1, <4>2
    <3> QED BY <1>11, <3>3, <3>4, <3>5
  <2> QED BY <2>6, <2>7
<1>12. CASE \E i, fate : Fetch(i, fate) /\ Reads(Stmt(i))
  <2>1. PICK i, fate : Fetch(i, fate) /\ Reads(Stmt(i))
    BY <1>12
  <2>2. ~Shared(i)
    BY <1>0, <1>r, <2>1 DEF Fetch, Call, If
  <2> DEFINE t == Stepped(Stmt(i), fate)
  <2>3. /\ i \in DOMAIN objs /\ objs[i].kind = "result"
        /\ DOMAIN objs' = DOMAIN objs /\ DOMAIN stmts' = DOMAIN stmts
        /\ \A j \in DOMAIN objs : j # i => objs'[j] = objs[j]
        /\ objs'[i].kind = objs[i].kind /\ objs'[i].h = objs[i].h
        /\ objs'[i].said = objs[i].said /\ objs'[i].bound = objs[i].bound
        /\ objs'[i].fetched = IF t.state = "row" THEN objs[i].fetched + 1 ELSE 0
        /\ \A k \in DOMAIN stmts : k # objs[i].h => stmts'[k] = stmts[k]
        /\ stmts'[objs[i].h] = t /\ cells' = cells
    BY <2>1, FetchStep
  <2>4. /\ t.param = Stmt(i).param
        /\ t.state = "row" => t.row = (IF Begins(Stmt(i)) THEN 0 ELSE Stmt(i).row) + 1
    BY <2>3, AllBoundFacts, StmtSteps
  <2> HIDE DEF t
  <2>5. Stmt(i).state # "final"
    BY <2>1 DEF Reads
  <2>6. \/ stmts'[objs[i].h].state # "row" /\ objs'[i].fetched = 0
        \/ /\ stmts'[objs[i].h].state = "row" /\ objs'[i].fetched = objs[i].fetched + 1
           /\ stmts'[objs[i].h].row = (IF Begins(Stmt(i)) THEN 0 ELSE Stmt(i).row) + 1
    BY <2>3, <2>4
  <2> QED BY <1>11, <2>2, <2>3, <2>4, <2>5, <2>6
<1>13. CASE \E i : Finalize(i) /\ Stmt(i).state # "final"
  <2>1. PICK i : Finalize(i) /\ Stmt(i).state # "final"
    BY <1>13
  <2>2. ~Shared(i)
    BY <1>0, <1>r, <2>1 DEF Finalize, Call, If
  <2>3. /\ i \in DOMAIN objs /\ objs[i].kind = "result"
        /\ DOMAIN objs' = DOMAIN objs /\ DOMAIN stmts' = DOMAIN stmts
        /\ \A j \in DOMAIN objs : j # i => objs'[j] = objs[j]
        /\ objs'[i].kind = objs[i].kind /\ objs'[i].h = objs[i].h
        /\ objs'[i].said = objs[i].said /\ objs'[i].bound = objs[i].bound
        /\ objs'[i].fetched = 0
        /\ \A k \in DOMAIN stmts : k # objs[i].h => stmts'[k] = stmts[k]
        /\ stmts'[objs[i].h] = Reset(Stmt(i)) /\ cells' = cells
    BY <2>1, FinalizeStep
  <2>4. Reset(Stmt(i)).param = Stmt(i).param /\ Reset(Stmt(i)).state = "ready"
    BY <2>3, AllBoundFacts, StmtSteps
  <2> QED BY <1>11, <2>1, <2>2, <2>3, <2>4
<1>14. CASE \E v \in Cells : Leave(v) \/ \E text \in Contents : Assign(v, text)
  <2>1. PICK v \in Cells : Leave(v) \/ \E text \in Contents : Assign(v, text)
    BY <1>14
  <2>2. /\ objs' = objs /\ stmts' = stmts
        /\ \A w \in Cells : w # v => cells'[w] = cells[w]
        /\ cells'[v].text = cells[v].text \/ ~BoundNow(v)
    BY <1>0, <1>r, <2>1, VariableStep
  <2>3. ASSUME NEW j \in DOMAIN objs, Faithful(j) PROVE Faithful(j)'
    <3>1. objs[j].bound # <<>> => cells'[Last(objs[j].bound)].text = cells[Last(objs[j].bound)].text
      BY <2>2, BoundIn, LastIsBound
    <3> QED BY <2>2, <2>3, <3>1, StaysFaithful
  <2> QED BY <1>0, <2>2, <2>3 DEF Stmt, Youngest
<1>16. CASE \E i : ExecuteThrows(i) /\ stmts' # stmts
  BY <1>0, <1>16, <1>r, ThrowStep
<1>15. CASE Next
  BY <1>1, <1>3, <1>4, <1>6, <1>7, <1>8, <1>9, <1>10, <1>12, <1>13, <1>14, <1>15, <1>16, NextCases DEF Quiet
<1> QED BY <1>1, <1>15 DEF vars

-------------------------------------------------------------------------------
(* What is released. *)

LEMMA ListGrows ==
  ASSUME TypeOK, NEW n \in Nat, NEW c, c = [conn EXCEPT !.results = Append(@, n)]
  PROVE  /\ c.object = conn.object /\ c.open = conn.open /\ c.db = conn.db
         /\ Range(c.results) = Range(conn.results) \cup {n}
<1>1. conn \in ConnType /\ conn.results \in Seq(Nat)
  BY DEF TypeOK, ConnType
<1>2. c.object = conn.object /\ c.open = conn.open /\ c.db = conn.db /\ c.results = Append(conn.results, n)
  BY <1>1 DEF ConnType
<1>3. Range(Append(conn.results, n)) = Range(conn.results) \cup {n}
  <2>1. /\ DOMAIN Append(conn.results, n) = DOMAIN conn.results \cup {Len(conn.results) + 1}
        /\ Len(conn.results) + 1 \notin DOMAIN conn.results
        /\ \A i \in DOMAIN conn.results : Append(conn.results, n)[i] = conn.results[i]
        /\ Append(conn.results, n)[Len(conn.results) + 1] = n
    BY <1>1, AppendFacts
  <2> QED BY <2>1 DEF Range
<1> QED BY <1>2, <1>3

\* The counts of an object, and whether the connection is open.
LEMMA CountTypes ==
  ASSUME TypeOK, NEW i \in DOMAIN objs
  PROVE  objs[i].refs \in Int /\ objs[i].runs \in Nat /\ objs[i].held \in BOOLEAN /\ Hold(i) \in {0, 1}
         /\ objs[i].h \in DOMAIN stmts
  BY SeqDomains DEF TypeOK, ObjType, Hold

LEMMA ListedNext ==
  ASSUME TypeOK, Listed, [Next]_vars
  PROVE  Listed'
<1> DEFINE Full(i) == objs[i].refs = objs[i].runs + Hold(i) + 1
<1>0. /\ conn \in ConnType
      /\ conn.object = "unmade" => objs = <<>> /\ stmts = <<>> /\ conn.results = <<>>
      /\ conn.open <=> conn.object = "made" /\ conn.db = "open"
      /\ conn.open => Range(conn.results) = DOMAIN objs /\ \A i \in DOMAIN objs : Full(i)
  BY DEF Listed, TypeOK
<1>e. DOMAIN objs \subseteq Nat /\ (conn.object = "unmade" => DOMAIN objs = {}) /\ Len(objs) + 1 \in Nat
  BY <1>0, SeqDomains
<1>1. CASE UNCHANGED vars
  BY <1>0, <1>1 DEF Listed, Hold, vars
<1>2. CASE Quiet
  <2>1. UNCHANGED <<stmts, objs>>
    BY <1>2 DEF Quiet
  <2>2. CASE conn' = conn
    BY <1>0, <2>1, <2>2 DEF Listed, Hold
  <2>3. CASE conn.object = "unmade" /\ conn' = [conn EXCEPT !.object = "made", !.open = TRUE, !.db = "open"]
    <3>1. conn'.object = "made" /\ conn'.open /\ conn'.db = "open" /\ conn'.results = conn.results
      BY <1>0, <2>3 DEF ConnType
    <3>2. Range(conn'.results) = {}
      BY <1>0, <2>3, <3>1 DEF Range
    <3> QED BY <1>e, <2>1, <2>3, <3>1, <3>2 DEF Listed
  <2>4. CASE conn.object = "made" /\ ~conn.open /\ \E object \in {"made", "freed"} : conn' = [conn EXCEPT !.object = object]
    <3>1. conn'.object \in {"made", "freed"} /\ ~conn'.open /\ conn'.db = conn.db
      BY <1>0, <2>4 DEF ConnType
    <3> QED BY <1>0, <2>1, <2>4, <3>1 DEF Listed
  <2> QED BY <1>2, <2>2, <2>3, <2>4 DEF Quiet
\* An object is made.
<1>3. ASSUME NEW h, NEW s, NEW i, NEW kind, NEW said, Fresh(h, s, i, kind, said), i = Len(objs) + 1,
             conn.open, conn' = [conn EXCEPT !.results = Append(@, i)]
      PROVE  Listed'
  <2>1. conn'.object = "made" /\ conn'.open /\ conn'.db = "open" /\ Range(conn'.results) = DOMAIN objs'
    <3>1. i \in Nat
      BY <1>3, <1>e
    <3>2. /\ conn'.object = conn.object /\ conn'.open = conn.open /\ conn'.db = conn.db
          /\ Range(conn'.results) = Range(conn.results) \cup {i}
      BY <1>3, <3>1, ListGrows
    <3> QED BY <1>0, <1>3, <3>2 DEF Fresh
  <2>2. ASSUME NEW j \in DOMAIN objs' PROVE Full(j)'
    BY <1>0, <1>3 DEF Fresh, Hold
  <2> QED BY <2>1, <2>2 DEF Listed
<1>4. CASE \E sql \in {"read", "write"} : Prepare(sql)
  <2>1. PICK sql \in {"read", "write"} : Prepare(sql)
    BY <1>4
  <2>2. PICK h, i, s : /\ Fresh(h, s, i, "stmt", 0) /\ i = Len(objs) + 1
                       /\ conn.open /\ conn' = [conn EXCEPT !.results = Append(@, i)]
    BY <2>1, PrepareStep
  <2> QED BY <1>3, <2>2
<1>5. CASE \E sql \in {"read", "write"}, fate \in Fates : Query(sql, 1, fate)
  <2>1. PICK sql \in {"read", "write"}, fate \in Fates : Query(sql, 1, fate)
    BY <1>5
  <2>2. CASE fate # "error"
    <3>1. PICK h, i, s : /\ Fresh(h, s, i, "result", 1) /\ i = Len(objs) + 1
                         /\ conn.open /\ conn' = [conn EXCEPT !.results = Append(@, i)]
      BY <2>1, <2>2, QueryStep
    <3> QED BY <1>3, <3>1
  <2>3. CASE fate = "error"
    <3>1. UNCHANGED <<objs, conn>> /\ conn.open
      BY <2>1, <2>3, QueryStep
    <3> QED BY <1>0, <3>1 DEF Listed, Hold
  <2> QED BY <2>2, <2>3
<1>6. CASE conn.open /\ \E object \in {"made", "freed"} : \E answers : CloseWith(object, answers)
  BY <1>6, CloseStep DEF Listed
\* Objects change, and the list does not.
<1>7. ASSUME conn' = conn, DOMAIN objs' = DOMAIN objs,
             \A j \in DOMAIN objs : objs'[j].runs = objs[j].runs,
             \A j \in DOMAIN objs : objs'[j].refs - Hold(j)' = objs[j].refs - Hold(j)
                                    /\ objs'[j].refs \in Int /\ Hold(j)' \in {0, 1},
             DOMAIN objs # {}
      PROVE  Listed'
  <2>1. ASSUME NEW j \in DOMAIN objs, Full(j) PROVE Full(j)'
    <3>1. PICK a, b \in Int : a = objs'[j].refs /\ b = Hold(j)'
      BY <1>7
    <3>2. PICK c, d, e \in Int : c = objs[j].refs /\ d = Hold(j) /\ e = objs[j].runs
      BY CountTypes
    <3>3. a - b = c - d /\ c = e + d + 1
      BY <1>7, <2>1, <3>1, <3>2
    <3>4. a = e + b + 1
      BY <3>3
    <3> QED BY <1>7, <3>1, <3>2, <3>4
  <2> QED BY <1>0, <1>7, <1>e, <2>1 DEF Listed
<1>8. CASE \E i, v : v \in Cells /\ BindValue(i, v) /\ Stmt(i).state # "final"
  <2>1. PICK i, v : v \in Cells /\ BindValue(i, v) /\ Stmt(i).state # "final"
    BY <1>8
  <2>2. /\ DOMAIN objs' = DOMAIN objs /\ i \in DOMAIN objs /\ conn' = conn
        /\ \A j \in DOMAIN objs : objs'[j].runs = objs[j].runs /\ objs'[j].refs = objs[j].refs /\ objs'[j].held = objs[j].held
    BY <2>1, BindStep
  <2> QED BY <1>7, <2>2, CountTypes DEF Hold
<1>9. CASE \E i : Execute(i, "fine") /\ Reads(AllBound(i)) /\ conn.object # "freed"
  <2>1. PICK i : Execute(i, "fine") /\ Reads(AllBound(i)) /\ conn.object # "freed"
    BY <1>9
  <2>2. PICK n : Executing(i, n)
    BY <2>1, ExecuteStep
  <2>3. /\ i \in DOMAIN objs /\ n = Len(objs) + 1 /\ DOMAIN objs' = DOMAIN objs \cup {n}
        /\ \A j \in DOMAIN objs : j # i => objs'[j] = objs[j]
        /\ objs'[i].held = objs[i].held /\ objs'[i].runs = objs[i].runs + 1 /\ objs'[i].refs = objs[i].refs + 1
        /\ objs'[n].held /\ objs'[n].runs = 0 /\ objs'[n].refs = 2
        /\ conn' = [conn EXCEPT !.results = Append(@, n)]
    BY <2>2, ExecuteResult DEF Executing
  <2>4. /\ conn'.object = conn.object /\ conn'.open = conn.open /\ conn'.db = conn.db
        /\ Range(conn'.results) = Range(conn.results) \cup {n}
    BY <1>e, <2>3, ListGrows
  <2>5. conn.object # "unmade"
    BY <1>e, <2>3
  <2>6. ASSUME NEW j \in DOMAIN objs', conn.open PROVE Full(j)'
    <3>1. CASE j = n
      BY <2>3, <3>1 DEF Hold
    <3>2. CASE j = i
      <4>1. Full(i)
        BY <1>0, <2>3, <2>6
      <4>2. Hold(i)' = Hold(i)
        BY <2>3 DEF Hold
      <4>3. PICK a, b, c \in Int : a = objs[i].refs /\ b = objs[i].runs /\ c = Hold(i)
        BY <2>3, CountTypes
      <4>4. a + 1 = b + 1 + c + 1
        BY <4>1, <4>3
      <4> QED BY <2>3, <3>2, <4>2, <4>3, <4>4
    <3>3. CASE j # i /\ j # n
      BY <1>0, <2>3, <2>6, <3>3 DEF Hold
    <3> QED BY <3>1, <3>2, <3>3
  <2> QED BY <1>0, <2>3, <2>4, <2>5, <2>6 DEF Listed
<1>10. CASE \E i : Execute(i, "other") /\ Reads(AllBound(i))
  <2>1. PICK i : i \in DOMAIN objs /\ UNCHANGED <<conn, objs>>
    BY <1>10, RefusedStep
  <2> QED BY <1>7, <2>1, CountTypes DEF Hold
<1>11. CASE \E i, fate : Fetch(i, fate) /\ Reads(Stmt(i))
  <2>1. PICK i : /\ DOMAIN objs' = DOMAIN objs /\ i \in DOMAIN objs /\ conn' = conn
                 /\ \A j \in DOMAIN objs : j # i => objs'[j] = objs[j]
                 /\ objs'[i].runs = objs[i].runs /\ objs'[i].refs = objs[i].refs /\ objs'[i].held = objs[i].held
    BY <1>11, FetchStep
  <2> QED BY <1>7, <2>1, CountTypes DEF Hold
<1>12. CASE \E i : Finalize(i) /\ Stmt(i).state # "final"
  <2>1. PICK i : /\ DOMAIN objs' = DOMAIN objs /\ i \in DOMAIN objs /\ conn' = conn
                 /\ \A j \in DOMAIN objs : j # i => objs'[j] = objs[j]
                 /\ objs'[i].runs = objs[i].runs /\ objs'[i].refs = objs[i].refs /\ objs'[i].held = objs[i].held
    BY <1>12, FinalizeStep
  <2> QED BY <1>7, <2>1, CountTypes DEF Hold
<1>13. CASE \E i : Drop(i)
  <2>1. PICK i : Drop(i)
    BY <1>13
  <2>2. /\ DOMAIN objs' = DOMAIN objs /\ i \in DOMAIN objs /\ conn' = conn /\ objs[i].held
        /\ \A j \in DOMAIN objs :
             /\ objs'[j].runs = objs[j].runs
             /\ objs'[j].refs = objs[j].refs - (IF j = i THEN 1 ELSE 0)
             /\ objs'[j].held = IF j = i THEN FALSE ELSE objs[j].held
    BY <2>1, DropStep, ZenonT(30)
  <2>3. ASSUME NEW j \in DOMAIN objs
        PROVE  objs'[j].refs - Hold(j)' = objs[j].refs - Hold(j) /\ objs'[j].refs \in Int /\ Hold(j)' \in {0, 1}
    <3>1. CASE j = i
      <4>1. objs'[j].refs = objs[j].refs - 1 /\ Hold(j) = 1 /\ Hold(j)' = 0
        BY <2>2, <3>1 DEF Hold
      <4> QED BY <4>1, CountTypes
    <3>2. CASE j # i
      <4>1. objs'[j].refs = objs[j].refs - 0 /\ Hold(j)' = Hold(j)
        BY <2>2, <3>2 DEF Hold
      <4> QED BY <4>1, CountTypes
    <3> QED BY <3>1, <3>2
  <2> QED BY <1>7, <2>2, <2>3
<1>14. CASE \E v \in Cells : Leave(v) \/ \E text \in Contents : Assign(v, text)
  <2>1. UNCHANGED <<conn, objs>> /\ DOMAIN stmts' = DOMAIN stmts /\ stmts' \in Seq(StmtType)
    BY <1>14, VariableStep DEF TypeOK
  <2>2. stmts = <<>> => stmts' = <<>>
    BY <2>1, SeqDomains
  <2> QED BY <1>0, <2>1, <2>2 DEF Listed, Hold
<1>16. CASE \E i : ExecuteThrows(i) /\ stmts' # stmts
  <2>1. PICK i : i \in DOMAIN objs /\ UNCHANGED <<conn, objs>>
    BY <1>16, ThrowStep
  <2> QED BY <1>7, <2>1, CountTypes DEF Hold
<1>15. CASE Next
  BY <1>2, <1>4, <1>5, <1>6, <1>8, <1>9, <1>10, <1>11, <1>12, <1>13, <1>14, <1>15, <1>16, NextCases
<1> QED BY <1>1, <1>15

Single == \A i, j \in DOMAIN objs : Owns(i) /\ Owns(j) /\ objs[i].h = objs[j].h => i = j
Alive  == \A i \in DOMAIN objs : Owns(i) /\ objs[i].refs > 0 => Stmt(i).state # "final"
Owned  == \A i \in DOMAIN objs : \E j \in DOMAIN objs : Owns(j) /\ objs[j].h = objs[i].h
Settled == \A i \in DOMAIN objs : objs[i].refs = objs[i].runs + Hold(i)

\* The object that gives up the last reference finalizes its statement.
LEMMA LastOwns ==
  ASSUME TypeOK, Listed, Counted, Keeps({"outlived"}), NEW i \in DOMAIN objs,
         objs[i].refs = 1, conn.open \/ objs[i].held
  PROVE  Owns(i)
<1>1. PICK a, b, c \in Int : a = objs[i].refs /\ b = objs[i].runs /\ c = Hold(i)
  BY CountTypes
<1>2. b >= 0 /\ c >= 0
  BY <1>1, CountTypes
<1>3. CASE conn.open
  <2>1. a = b + c + 1
    BY <1>1, <1>3 DEF Listed
  <2> QED BY <1>1, <1>2, <2>1 DEF Owns
<1>4. CASE ~conn.open
  <2>1. a = b + c
    BY <1>1, <1>4 DEF Counted
  <2>2. c = 1
    BY <1>1, <1>4 DEF Hold
  <2> QED BY <1>1, <1>2, <2>1, <2>2 DEF Owns
<1> QED BY <1>3, <1>4

\* References are given up: owners that stay have live statements.
LEMMA GivenUpAlive ==
  ASSUME TypeOK, Single, Alive, Owned, NEW S, S \subseteq DOMAIN objs,
         \A i \in S : objs[i].refs = 1 => Owns(i),
         stmts' = GivenUp(S).stmts, DOMAIN objs' = DOMAIN objs,
         \A i \in DOMAIN objs : /\ objs'[i].h = objs[i].h /\ objs'[i].runs = objs[i].runs
                                /\ objs'[i].refs = objs[i].refs - (IF i \in S THEN 1 ELSE 0)
  PROVE  Single' /\ Alive' /\ Owned'
<1>1. \A i \in DOMAIN objs : Owns(i)' <=> Owns(i)
  BY DEF Owns
<1>2. Single'
  BY <1>1 DEF Single
<1>3. Owned'
  BY <1>1 DEF Owned
<1>4. ASSUME NEW i \in DOMAIN objs, Owns(i), objs'[i].refs > 0
      PROVE  Stmt(i)'.state # "final"
  <2>1. objs[i].h \in DOMAIN stmts /\ objs[i].refs \in Int
    BY CountTypes
  <2>2. objs[i].refs > 0
    <3>1. objs'[i].refs = objs[i].refs - (IF i \in S THEN 1 ELSE 0)
      OBVIOUS
    <3>2. PICK r \in Int : r = objs[i].refs
      BY <2>1
    <3>3. CASE i \in S
      <4>1. r - 1 > 0
        BY <1>4, <3>1, <3>2, <3>3
      <4> QED BY <3>2, <4>1
    <3>4. CASE i \notin S
      <4>1. r - 0 > 0
        BY <1>4, <3>1, <3>2, <3>4
      <4> QED BY <3>2, <4>1
    <3> QED BY <3>3, <3>4
  <2>3. stmts[objs[i].h].state # "final"
    BY <1>4, <2>2 DEF Alive, Stmt
  <2>4. ~\E j \in S : objs[j].refs = 1 /\ objs[j].h = objs[i].h
    <3>1. SUFFICES ASSUME NEW j \in S, objs[j].refs = 1, objs[j].h = objs[i].h PROVE FALSE
      OBVIOUS
    <3>2. j = i
      BY <1>4, <3>1 DEF Single
    <3>3. objs'[i].refs = objs[i].refs - 1
      BY <3>1, <3>2
    <3>4. objs'[i].refs = 0
      BY <3>1, <3>2, <3>3
    <3> QED BY <1>4, <3>4
  <2>5. stmts'[objs[i].h].state = stmts[objs[i].h].state
    BY <2>1, <2>4, GivenUpFacts
  <2> QED BY <2>3, <2>5 DEF Stmt
<1>5. Alive'
  BY <1>1, <1>4 DEF Alive
<1> QED BY <1>2, <1>3, <1>5

\* Objects keep their counts, and no statement is finalized.
LEMMA StaysAlive ==
  ASSUME TypeOK, Single, Alive, Owned, DOMAIN objs' = DOMAIN objs,
         \A i \in DOMAIN objs : objs'[i].h = objs[i].h /\ objs'[i].runs = objs[i].runs /\ objs'[i].refs = objs[i].refs,
         \A h \in DOMAIN stmts : stmts'[h].state = "final" => stmts[h].state = "final"
  PROVE  Single' /\ Alive' /\ Owned'
<1>1. \A i \in DOMAIN objs : (Owns(i)' <=> Owns(i)) /\ objs[i].h \in DOMAIN stmts
  BY CountTypes DEF Owns
<1> QED BY <1>1 DEF Single, Alive, Owned, Stmt

LEMMA SettledNext ==
  ASSUME TypeOK, Listed, Listed', Counted, [Next]_vars, ~conn'.open, Keeps({"outlived"})'
  PROVE  Settled'
<1>0. Keeps({"outlived"}) /\ "outlived" \notin rules'
  BY KeepsBefore
<1>1. ASSUME ~conn.open, objs' = objs PROVE Settled'
  BY <1>0, <1>1 DEF Counted, Settled, Hold
<1>2. CASE UNCHANGED vars
  BY <1>1, <1>2 DEF vars
<1>3. CASE Quiet
  <2>1. ASSUME conn.open PROVE conn' = conn
    BY <1>3, <2>1 DEF Quiet, Listed
  <2> QED BY <1>1, <1>3, <2>1 DEF Quiet
<1>4. CASE \E sql \in {"read", "write"} : Prepare(sql)
  <2>1. PICK i : i = Len(objs) + 1
    OBVIOUS
  <2>2. i \in Nat
    BY <2>1, SeqDomains
  <2>3. conn.open /\ conn' = [conn EXCEPT !.results = Append(@, i)]
    BY <1>4, <2>1, PrepareStep
  <2> QED BY <2>2, <2>3, ListGrows
<1>5. CASE \E sql \in {"read", "write"}, fate \in Fates : Query(sql, 1, fate)
  <2>1. PICK i : i = Len(objs) + 1
    OBVIOUS
  <2>2. i \in Nat
    BY <2>1, SeqDomains
  <2>3. PICK sql \in {"read", "write"}, fate \in Fates : Query(sql, 1, fate)
    BY <1>5
  <2>4. conn.open
    BY <2>3, QueryStep
  <2>5. conn' = conn \/ conn' = [conn EXCEPT !.results = Append(@, i)]
    BY <2>1, <2>3, QueryStep
  <2> QED BY <2>2, <2>4, <2>5, ListGrows
<1>6. CASE conn.open /\ \E object \in {"made", "freed"} : \E answers : CloseWith(object, answers)
  <2>1. objs' = GivenUp(Range(conn.results)).objs
    BY <1>6, CloseStep
  <2>2. DOMAIN objs' = DOMAIN objs /\ Range(conn.results) = DOMAIN objs
    BY <1>6, <2>1, GivenUpFacts DEF Listed
  <2>3. ASSUME NEW i \in DOMAIN objs PROVE objs'[i].refs = objs'[i].runs + Hold(i)'
    <3>1. objs'[i].runs = objs[i].runs /\ objs'[i].held = objs[i].held /\ objs'[i].refs = objs[i].refs - 1
      BY <2>1, <2>2, GivenUpFacts
    <3>2. Hold(i)' = Hold(i)
      BY <3>1 DEF Hold
    <3>3. PICK a, b, c \in Int : a = objs[i].refs /\ b = objs[i].runs /\ c = Hold(i)
      BY CountTypes
    <3>4. a = b + c + 1
      BY <1>6, <3>3 DEF Listed
    <3>5. a - 1 = b + c
      BY <3>4
    <3> QED BY <3>1, <3>2, <3>3, <3>5
  <2> QED BY <2>2, <2>3 DEF Settled
\* Objects change, and the connection does not.
<1>7. ASSUME conn' = conn, DOMAIN objs' = DOMAIN objs,
             \A j \in DOMAIN objs : objs'[j].runs = objs[j].runs,
             \A j \in DOMAIN objs : objs'[j].refs - Hold(j)' = objs[j].refs - Hold(j)
                                    /\ objs'[j].refs \in Int /\ Hold(j)' \in {0, 1}
      PROVE  Settled'
  <2>1. ASSUME NEW j \in DOMAIN objs PROVE objs'[j].refs = objs'[j].runs + Hold(j)'
    <3>1. PICK a, b \in Int : a = objs'[j].refs /\ b = Hold(j)'
      BY <1>7
    <3>2. PICK c, d, e \in Int : c = objs[j].refs /\ d = Hold(j) /\ e = objs[j].runs
      BY CountTypes
    <3>3. a - b = c - d
      BY <1>7, <3>1, <3>2
    <3>4. c = e + d
      BY <1>0, <1>7, <3>2 DEF Counted
    <3>5. a = e + b
      BY <3>3, <3>4
    <3> QED BY <1>7, <3>1, <3>2, <3>5
  <2> QED BY <1>7, <2>1 DEF Settled
<1>8. CASE \E i, v : v \in Cells /\ BindValue(i, v) /\ Stmt(i).state # "final"
  <2>1. PICK i, v : v \in Cells /\ BindValue(i, v) /\ Stmt(i).state # "final"
    BY <1>8
  <2>2. /\ DOMAIN objs' = DOMAIN objs /\ conn' = conn
        /\ \A j \in DOMAIN objs : objs'[j].runs = objs[j].runs /\ objs'[j].refs = objs[j].refs /\ objs'[j].held = objs[j].held
    BY <2>1, BindStep
  <2> QED BY <1>7, <2>2, CountTypes DEF Hold
<1>9. CASE \E i : Execute(i, "fine") /\ Reads(AllBound(i)) /\ conn.object # "freed"
  <2>1. PICK i : Execute(i, "fine") /\ Reads(AllBound(i)) /\ conn.object # "freed"
    BY <1>9
  <2>2. PICK n : n = Len(objs) + 1 /\ conn' = [conn EXCEPT !.results = Append(@, n)]
    BY <2>1, ExecuteStep DEF Executing
  <2>3. n \in Nat
    BY <2>2, SeqDomains
  <2>4. ~conn.open
    BY <2>2, <2>3, ListGrows
  <2>5. "outlived" \in rules'
    <3>1. ExecuteRules(i, "fine") \subseteq rules'
      BY <2>1 DEF Execute, Call
    <3> QED BY <2>4, <3>1 DEF ExecuteRules, Late, If
  <2> QED BY <1>0, <2>5
<1>10. CASE \E i : Execute(i, "other") /\ Reads(AllBound(i))
  BY <1>1, <1>10, RefusedStep
<1>11. CASE \E i, fate : Fetch(i, fate) /\ Reads(Stmt(i))
  <2>1. PICK i : /\ DOMAIN objs' = DOMAIN objs /\ i \in DOMAIN objs /\ conn' = conn
                 /\ \A j \in DOMAIN objs : j # i => objs'[j] = objs[j]
                 /\ objs'[i].runs = objs[i].runs /\ objs'[i].refs = objs[i].refs /\ objs'[i].held = objs[i].held
    BY <1>11, FetchStep
  <2> QED BY <1>7, <2>1, CountTypes DEF Hold
<1>12. CASE \E i : Finalize(i) /\ Stmt(i).state # "final"
  <2>1. PICK i : /\ DOMAIN objs' = DOMAIN objs /\ i \in DOMAIN objs /\ conn' = conn
                 /\ \A j \in DOMAIN objs : j # i => objs'[j] = objs[j]
                 /\ objs'[i].runs = objs[i].runs /\ objs'[i].refs = objs[i].refs /\ objs'[i].held = objs[i].held
    BY <1>12, FinalizeStep
  <2> QED BY <1>7, <2>1, CountTypes DEF Hold
<1>13. CASE \E i : Drop(i)
  <2>1. PICK i : Drop(i)
    BY <1>13
  <2>2. /\ DOMAIN objs' = DOMAIN objs /\ conn' = conn /\ objs[i].held
        /\ \A j \in DOMAIN objs :
             /\ objs'[j].runs = objs[j].runs
             /\ objs'[j].refs = objs[j].refs - (IF j = i THEN 1 ELSE 0)
             /\ objs'[j].held = IF j = i THEN FALSE ELSE objs[j].held
    BY <2>1, DropStep, ZenonT(30)
  <2>3. ASSUME NEW j \in DOMAIN objs
        PROVE  objs'[j].refs - Hold(j)' = objs[j].refs - Hold(j) /\ objs'[j].refs \in Int /\ Hold(j)' \in {0, 1}
    <3>1. CASE j = i
      <4>1. objs'[j].refs = objs[j].refs - 1 /\ Hold(j) = 1 /\ Hold(j)' = 0
        BY <2>2, <3>1 DEF Hold
      <4> QED BY <4>1, CountTypes
    <3>2. CASE j # i
      <4>1. objs'[j].refs = objs[j].refs - 0 /\ Hold(j)' = Hold(j)
        BY <2>2, <3>2 DEF Hold
      <4> QED BY <4>1, CountTypes
    <3> QED BY <3>1, <3>2
  <2> QED BY <1>7, <2>2, <2>3
<1>14. CASE \E v \in Cells : Leave(v) \/ \E text \in Contents : Assign(v, text)
  BY <1>1, <1>14, VariableStep
<1>16. CASE \E i : ExecuteThrows(i) /\ stmts' # stmts
  BY <1>1, <1>16, ThrowStep
<1>15. CASE Next
  BY <1>3, <1>4, <1>5, <1>6, <1>8, <1>9, <1>10, <1>11, <1>12, <1>13, <1>14, <1>15, <1>16, NextCases
<1> QED BY <1>2, <1>15

LEMMA CountedNext ==
  ASSUME TypeOK, Listed, Listed', Counted, [Next]_vars
  PROVE  Counted'
<1> SUFFICES ASSUME Keeps({"outlived", "twice"})'
             PROVE  Single' /\ Alive' /\ Owned'
  BY SettledNext DEF Counted, Settled, Single, Alive, Owned
<1>0. /\ Single /\ Alive /\ Owned /\ Keeps({"outlived"})
      /\ "outlived" \notin rules' /\ "twice" \notin rules'
  BY KeepsBefore DEF Counted, Single, Alive, Owned, Keeps
<1>1. ASSUME objs' = objs, \A h \in DOMAIN stmts : stmts'[h].state = "final" => stmts[h].state = "final"
      PROVE  Single' /\ Alive' /\ Owned'
  BY <1>0, <1>1, StaysAlive
<1>2. CASE UNCHANGED <<objs, stmts>>
  BY <1>1, <1>2
\* A statement is made, and its object.
<1>3. ASSUME NEW h, NEW s, NEW i, NEW kind, NEW said, Fresh(h, s, i, kind, said), s.state # "final"
      PROVE  Single' /\ Alive' /\ Owned'
  <2>1. /\ DOMAIN objs' = DOMAIN objs \cup {i} /\ DOMAIN stmts' = DOMAIN stmts \cup {h} /\ h \notin DOMAIN stmts
        /\ i \notin DOMAIN objs /\ stmts'[h] = s /\ objs'[i].h = h /\ objs'[i].runs = 0
        /\ \A j \in DOMAIN objs : objs'[j] = objs[j]
        /\ \A k \in DOMAIN stmts : stmts'[k] = stmts[k]
    BY <1>3 DEF Fresh
  <2>2. \A j \in DOMAIN objs : objs[j].h \in DOMAIN stmts /\ objs[j].h # h /\ (Owns(j)' <=> Owns(j))
    BY <2>1, CountTypes DEF Owns
  <2>3. Owns(i)'
    BY <2>1 DEF Owns
  <2>4. Single'
    BY <1>0, <2>1, <2>2 DEF Single
  <2>5. Alive'
    BY <1>0, <1>3, <2>1, <2>2 DEF Alive, Stmt
  <2>6. Owned'
    BY <1>0, <2>1, <2>2, <2>3 DEF Owned
  <2> QED BY <2>4, <2>5, <2>6
<1>4. CASE \E sql \in {"read", "write"} : Prepare(sql)
  <2>1. PICK sql \in {"read", "write"} : Prepare(sql)
    BY <1>4
  <2>2. PICK h, i, s : Fresh(h, s, i, "stmt", 0) /\ s.state # "final"
    BY <2>1, PrepareStep, PreparedFacts
  <2> QED BY <1>3, <2>2
<1>5. CASE \E sql \in {"read", "write"}, fate \in Fates : Query(sql, 1, fate)
  <2>1. PICK sql \in {"read", "write"}, fate \in Fates : Query(sql, 1, fate)
    BY <1>5
  <2>2. CASE fate # "error"
    <3>1. PICK h, i, s : Fresh(h, s, i, "result", 1) /\ s.state # "final"
      BY <2>1, <2>2, QueryStep, QueriedFacts
    <3> QED BY <1>3, <3>1
  <2>3. CASE fate = "error"
    BY <1>1, <2>1, <2>3, QueryStep
  <2> QED BY <2>2, <2>3
<1>6. CASE conn.open /\ \E object \in {"made", "freed"} : \E answers : CloseWith(object, answers)
  <2>1. objs' = GivenUp(Range(conn.results)).objs /\ stmts' = GivenUp(Range(conn.results)).stmts
    BY <1>6, CloseStep
  <2>2. Range(conn.results) = DOMAIN objs
    BY <1>6 DEF Listed
  <2>3. \A i \in DOMAIN objs : objs[i].refs = 1 => Owns(i)
    BY <1>0, <1>6, LastOwns
  <2>4. /\ DOMAIN objs' = DOMAIN objs
        /\ \A i \in DOMAIN objs : /\ objs'[i].h = objs[i].h /\ objs'[i].runs = objs[i].runs
                                  /\ objs'[i].refs = objs[i].refs - (IF i \in DOMAIN objs THEN 1 ELSE 0)
    BY <2>1, <2>2, GivenUpFacts
  <2> QED BY <1>0, <2>1, <2>2, <2>3, <2>4, GivenUpAlive
<1>7. CASE \E i : Drop(i)
  <2>1. PICK i : Drop(i)
    BY <1>7
  <2>2. /\ i \in DOMAIN objs /\ DOMAIN objs' = DOMAIN objs /\ stmts' = GivenUp({i}).stmts /\ objs[i].held
        /\ \A j \in DOMAIN objs :
             /\ objs'[j].h = objs[j].h /\ objs'[j].runs = objs[j].runs
             /\ objs'[j].refs = objs[j].refs - (IF j = i THEN 1 ELSE 0)
    BY <2>1, DropStep
  <2>3. \A j \in {i} : objs[j].refs = 1 => Owns(j)
    BY <1>0, <2>2, LastOwns
  <2>4. \A j \in DOMAIN objs : objs'[j].refs = objs[j].refs - (IF j \in {i} THEN 1 ELSE 0)
    BY <2>2
  <2> QED BY <1>0, <2>2, <2>3, <2>4, GivenUpAlive
<1>8. CASE \E i, v : v \in Cells /\ BindValue(i, v) /\ Stmt(i).state # "final"
  <2>1. PICK i, v : v \in Cells /\ BindValue(i, v) /\ Stmt(i).state # "final"
    BY <1>8
  <2>2. /\ DOMAIN objs' = DOMAIN objs /\ stmts' = stmts
        /\ \A j \in DOMAIN objs : objs'[j].h = objs[j].h /\ objs'[j].runs = objs[j].runs /\ objs'[j].refs = objs[j].refs
    BY <2>1, BindStep
  <2> QED BY <1>0, <2>2, StaysAlive
<1>9. CASE \E i : Execute(i, "fine") /\ Reads(AllBound(i)) /\ conn.object # "freed"
  <2>1. PICK i : Execute(i, "fine") /\ Reads(AllBound(i)) /\ conn.object # "freed"
    BY <1>9
  <2>2. PICK n : Executing(i, n)
    BY <2>1, ExecuteStep
  <2>3. /\ i \in DOMAIN objs /\ n \notin DOMAIN objs /\ DOMAIN objs' = DOMAIN objs \cup {n}
        /\ DOMAIN stmts' = DOMAIN stmts
        /\ \A j \in DOMAIN objs : j # i => objs'[j] = objs[j]
        /\ objs'[i].h = objs[i].h /\ objs'[i].runs = objs[i].runs + 1
        /\ objs'[n].h = objs[i].h /\ objs'[n].runs = 0
        /\ stmts'[objs[i].h].state = "ready"
        /\ \A k \in DOMAIN stmts : k # objs[i].h => stmts'[k].state = stmts[k].state
    BY <2>2, ExecuteResult DEF Executing
  <2>4. Owns(i)
    <3>1. ExecuteRules(i, "fine") \subseteq rules'
      BY <2>1 DEF Execute, Call
    <3>2. ~(objs[i].runs > 0)
      BY <1>0, <3>1 DEF ExecuteRules, If
    <3> QED BY <2>3, <3>2, CountTypes DEF Owns
  <2>5. ~Owns(i)' /\ Owns(n)'
    BY <2>3, CountTypes DEF Owns
  <2>6. \A j \in DOMAIN objs : j # i => (Owns(j)' <=> Owns(j)) /\ objs[j].h \in DOMAIN stmts
    BY <2>3, CountTypes DEF Owns
  <2>7. \A j \in DOMAIN objs : j # i /\ Owns(j) => objs[j].h # objs[i].h
    BY <1>0, <2>3, <2>4 DEF Single
  <2>8. Single'
    BY <1>0, <2>3, <2>5, <2>6, <2>7 DEF Single
  <2>9. Alive'
    <3>1. ASSUME NEW j \in DOMAIN objs', Owns(j)', objs'[j].refs > 0 PROVE Stmt(j)'.state # "final"
      <4>1. CASE j = n
        BY <2>3, <4>1 DEF Stmt
      <4>2. CASE j # n
        <5>1. j \in DOMAIN objs /\ j # i /\ Owns(j) /\ objs'[j] = objs[j]
          BY <2>3, <2>5, <2>6, <3>1, <4>2
        <5>2. stmts'[objs[j].h].state = stmts[objs[j].h].state
          BY <2>3, <2>6, <2>7, <5>1
        <5> QED BY <1>0, <3>1, <5>1, <5>2 DEF Alive, Stmt
      <4> QED BY <4>1, <4>2
    <3> QED BY <3>1 DEF Alive
  <2>10. Owned'
    <3>1. ASSUME NEW j \in DOMAIN objs' PROVE \E k \in DOMAIN objs' : Owns(k)' /\ objs'[k].h = objs'[j].h
      <4>1. CASE j = n \/ (j \in DOMAIN objs /\ objs[j].h = objs[i].h)
        BY <2>3, <2>5, <4>1
      <4>2. CASE j \in DOMAIN objs /\ objs[j].h # objs[i].h
        <5>1. PICK k \in DOMAIN objs : Owns(k) /\ objs[k].h = objs[j].h
          BY <1>0, <4>2 DEF Owned
        <5>2. k # i /\ objs'[k] = objs[k] /\ objs'[j] = objs[j] /\ Owns(k)'
          BY <2>3, <2>6, <4>2, <5>1
        <5> QED BY <2>3, <5>1, <5>2
      <4> QED BY <2>3, <4>1, <4>2
    <3> QED BY <3>1 DEF Owned
  <2> QED BY <2>8, <2>9, <2>10
<1>10. CASE \E i : Execute(i, "other") /\ Reads(AllBound(i))
  <2>1. PICK i : /\ objs' = objs /\ stmts'[objs[i].h].state = "ready"
                 /\ \A k \in DOMAIN stmts : k # objs[i].h => stmts'[k] = stmts[k]
    BY <1>10, RefusedStep
  <2> QED BY <1>1, <2>1
<1>11. CASE \E i, fate : Fetch(i, fate) /\ Reads(Stmt(i))
  <2>1. PICK i, fate : Fetch(i, fate) /\ Reads(Stmt(i))
    BY <1>11
  <2>2. /\ DOMAIN objs' = DOMAIN objs /\ i \in DOMAIN objs
        /\ \A j \in DOMAIN objs : j # i => objs'[j] = objs[j]
        /\ objs'[i].h = objs[i].h /\ objs'[i].runs = objs[i].runs /\ objs'[i].refs = objs[i].refs
        /\ \A k \in DOMAIN stmts : k # objs[i].h => stmts'[k] = stmts[k]
        /\ stmts'[objs[i].h] = Stepped(Stmt(i), fate)
    BY <2>1, FetchStep
  <2>3. stmts'[objs[i].h].state # "final"
    BY <2>2, AllBoundFacts, StmtSteps
  <2> QED BY <1>0, <2>2, <2>3, StaysAlive
<1>12. CASE \E i : Finalize(i) /\ Stmt(i).state # "final"
  <2>1. PICK i : Finalize(i) /\ Stmt(i).state # "final"
    BY <1>12
  <2>2. /\ DOMAIN objs' = DOMAIN objs /\ i \in DOMAIN objs
        /\ \A j \in DOMAIN objs : j # i => objs'[j] = objs[j]
        /\ objs'[i].h = objs[i].h /\ objs'[i].runs = objs[i].runs /\ objs'[i].refs = objs[i].refs
        /\ \A k \in DOMAIN stmts : k # objs[i].h => stmts'[k] = stmts[k]
        /\ stmts'[objs[i].h] = Reset(Stmt(i))
    BY <2>1, FinalizeStep
  <2>3. stmts'[objs[i].h].state # "final"
    BY <2>2, AllBoundFacts, StmtSteps
  <2> QED BY <1>0, <2>2, <2>3, StaysAlive
<1>13. CASE \E v \in Cells : Leave(v) \/ \E text \in Contents : Assign(v, text)
  <2>1. objs' = objs /\ \A h \in DOMAIN stmts : stmts'[h].state = stmts[h].state
    BY <1>13, VariableStep
  <2> QED BY <1>1, <2>1
<1>15. CASE \E i : ExecuteThrows(i) /\ stmts' # stmts
  <2>1. PICK i : /\ objs' = objs /\ stmts'[objs[i].h].state = stmts[objs[i].h].state
                 /\ \A k \in DOMAIN stmts : k # objs[i].h => stmts'[k] = stmts[k]
    BY <1>15, ThrowStep
  <2> QED BY <1>1, <2>1
<1>14. CASE Next
  BY <1>2, <1>4, <1>5, <1>6, <1>7, <1>8, <1>9, <1>10, <1>11, <1>12, <1>13, <1>14, <1>15, NextCases DEF Quiet
<1> QED BY <1>2, <1>14 DEF vars

LEMMA EndedNext ==
  ASSUME TypeOK, Listed, Ended, [Next]_vars
  PROVE  Ended'
<1> DEFINE HasOwner(h) == \E i \in DOMAIN objs : Owns(i) /\ objs[i].h = h
           AllGone == conn.db = "closed" /\ ~SomeHeld /\ \A h \in DOMAIN stmts : stmts[h].state = "final"
           Over == conn.object # "unmade" /\ ~conn.open
<1> SUFFICES ASSUME Keeps({"left", "refused"})'
             PROVE  (\A h \in DOMAIN stmts' : HasOwner(h)') /\ (Over' => AllGone')
  BY DEF Ended
<1>0. /\ \A h \in DOMAIN stmts : HasOwner(h)
      /\ Over => AllGone
      /\ "left" \notin rules' /\ "refused" \notin rules'
  BY KeepsBefore DEF Ended
<1>n. ASSUME Over PROVE \A i \in DOMAIN objs : ~objs[i].held
  BY <1>0, <1>n DEF SomeHeld
<1>1. CASE UNCHANGED vars
  BY <1>0, <1>1 DEF vars, Owns, SomeHeld
<1>2. CASE Quiet
  <2>1. UNCHANGED <<stmts, objs>>
    BY <1>2 DEF Quiet
  <2>2. (\A h \in DOMAIN stmts' : HasOwner(h)')
    BY <1>0, <2>1 DEF Owns
  <2>3. Over' => Over /\ conn'.db = conn.db
    <3>1. conn \in ConnType
      BY DEF TypeOK
    <3>2. CASE conn' = conn
      BY <3>2
    <3>3. CASE conn.object = "unmade" /\ conn' = [conn EXCEPT !.object = "made", !.open = TRUE, !.db = "open"]
      BY <3>1, <3>3 DEF ConnType
    <3>4. CASE conn.object = "made" /\ ~conn.open /\ \E object \in {"made", "freed"} : conn' = [conn EXCEPT !.object = object]
      BY <3>1, <3>4 DEF ConnType
    <3> QED BY <1>2, <3>2, <3>3, <3>4 DEF Quiet
  <2> QED BY <1>0, <2>1, <2>2, <2>3 DEF SomeHeld
\* A statement is made, and its object.
<1>3. ASSUME NEW h, NEW s, NEW i, NEW kind, NEW said, Fresh(h, s, i, kind, said), ~Over'
      PROVE  (\A k \in DOMAIN stmts' : HasOwner(k)') /\ (Over' => AllGone')
  <2>1. /\ DOMAIN objs' = DOMAIN objs \cup {i} /\ DOMAIN stmts' = DOMAIN stmts \cup {h}
        /\ objs'[i].h = h /\ objs'[i].runs = 0
        /\ \A j \in DOMAIN objs : objs'[j] = objs[j]
    BY <1>3 DEF Fresh
  <2> QED BY <1>0, <1>3, <2>1 DEF Owns
<1>4. ASSUME NEW i, i = Len(objs) + 1, conn.open, conn' = [conn EXCEPT !.results = Append(@, i)]
      PROVE  ~Over'
  <2>1. i \in Nat
    BY <1>4, SeqDomains
  <2> QED BY <1>4, <2>1, ListGrows
<1>5. CASE \E sql \in {"read", "write"} : Prepare(sql)
  <2>1. PICK sql \in {"read", "write"} : Prepare(sql)
    BY <1>5
  <2>2. PICK i : i = Len(objs) + 1
    OBVIOUS
  <2>3. PICK h, s : Fresh(h, s, i, "stmt", 0)
    BY <2>1, <2>2, PrepareStep
  <2>4. conn.open /\ conn' = [conn EXCEPT !.results = Append(@, i)]
    BY <2>1, <2>2, PrepareStep
  <2> QED BY <1>3, <1>4, <2>2, <2>3, <2>4
<1>6. CASE \E sql \in {"read", "write"}, fate \in Fates : Query(sql, 1, fate)
  <2>1. PICK sql \in {"read", "write"}, fate \in Fates : Query(sql, 1, fate)
    BY <1>6
  <2>2. PICK i : i = Len(objs) + 1
    OBVIOUS
  <2>f. fate # "error"
    BY <1>0, <2>1, QueryStep
  <2>3. PICK h, s : Fresh(h, s, i, "result", 1)
    BY <2>1, <2>2, <2>f, QueryStep
  <2>4. conn.open
    BY <2>1, QueryStep
  <2>5. conn' = [conn EXCEPT !.results = Append(@, i)]
    BY <2>1, <2>2, <2>f, QueryStep
  <2> QED BY <1>3, <1>4, <2>2, <2>3, <2>4, <2>5
<1>7. CASE conn.open /\ \E object \in {"made", "freed"} : \E answers : CloseWith(object, answers)
  <2>1. /\ objs' = GivenUp(Range(conn.results)).objs /\ stmts' = GivenUp(Range(conn.results)).stmts
        /\ (\A h \in DOMAIN stmts' : stmts'[h].state = "final") => conn'.db = "closed"
        /\ ~SomeHeld
    BY <1>0, <1>7, CloseStep
  <2>2. Range(conn.results) = DOMAIN objs /\ \A i \in DOMAIN objs : objs[i].refs = objs[i].runs + Hold(i) + 1
    BY <1>7 DEF Listed
  <2>3. /\ DOMAIN objs' = DOMAIN objs /\ DOMAIN stmts' = DOMAIN stmts
        /\ \A i \in DOMAIN objs : objs'[i].h = objs[i].h /\ objs'[i].runs = objs[i].runs /\ objs'[i].held = objs[i].held
    BY <2>1, GivenUpFacts
  <2>4. \A h \in DOMAIN stmts' : HasOwner(h)'
    BY <1>0, <2>3 DEF Owns
  <2>5. ASSUME NEW h \in DOMAIN stmts PROVE stmts'[h].state = "final"
    <3>1. PICK i \in DOMAIN objs : Owns(i) /\ objs[i].h = h
      BY <1>0
    <3>2. Hold(i) = 0
      BY <2>1 DEF SomeHeld, Hold
    <3>3. objs[i].refs = 1
      BY <2>2, <3>1, <3>2 DEF Owns
    <3> QED BY <2>1, <2>2, <3>1, <3>3, GivenUpFacts
  <2>6. ~SomeHeld'
    BY <2>1, <2>3 DEF SomeHeld
  <2> QED BY <2>1, <2>3, <2>4, <2>5, <2>6
\* What needs an object that is held does not happen when it is over.
<1>8. ASSUME conn' = conn, NEW i \in DOMAIN objs, objs[i].held,
             DOMAIN stmts' = DOMAIN stmts, DOMAIN objs' = DOMAIN objs,
             \A j \in DOMAIN objs : objs'[j].h = objs[j].h /\ objs'[j].runs = objs[j].runs
      PROVE  (\A k \in DOMAIN stmts' : HasOwner(k)') /\ (Over' => AllGone')
  BY <1>0, <1>n, <1>8 DEF Owns
<1>9. CASE \E i, v : v \in Cells /\ BindValue(i, v) /\ Stmt(i).state # "final"
  <2>1. PICK i, v : v \in Cells /\ BindValue(i, v) /\ Stmt(i).state # "final"
    BY <1>9
  <2>2. /\ DOMAIN objs' = DOMAIN objs /\ stmts' = stmts /\ conn' = conn /\ i \in DOMAIN objs /\ objs[i].held
        /\ \A j \in DOMAIN objs : objs'[j].h = objs[j].h /\ objs'[j].runs = objs[j].runs
    BY <2>1, BindStep
  <2> QED BY <1>8, <2>2
<1>10. CASE \E i : Execute(i, "fine") /\ Reads(AllBound(i)) /\ conn.object # "freed"
  <2>1. PICK i : Execute(i, "fine") /\ Reads(AllBound(i)) /\ conn.object # "freed"
    BY <1>10
  <2>2. PICK n : Executing(i, n)
    BY <2>1, ExecuteStep
  <2>3. /\ i \in DOMAIN objs /\ objs[i].held /\ n = Len(objs) + 1 /\ DOMAIN objs' = DOMAIN objs \cup {n}
        /\ DOMAIN stmts' = DOMAIN stmts
        /\ \A j \in DOMAIN objs : j # i => objs'[j] = objs[j]
        /\ objs'[n].h = objs[i].h /\ objs'[n].runs = 0
        /\ conn' = [conn EXCEPT !.results = Append(@, n)]
    BY <2>2, ExecuteResult DEF Executing
  <2>4. ASSUME NEW h \in DOMAIN stmts PROVE HasOwner(h)'
    <3>1. PICK k \in DOMAIN objs : Owns(k) /\ objs[k].h = h
      BY <1>0
    <3>2. CASE k = i
      <4>1. Owns(n)' /\ n \in DOMAIN objs'
        BY <2>3 DEF Owns
      <4> QED BY <2>3, <3>1, <3>2, <4>1
    <3>3. CASE k # i
      <4>1. Owns(k)' /\ objs'[k].h = h
        BY <2>3, <3>1, <3>3 DEF Owns
      <4> QED BY <2>3, <4>1
    <3> QED BY <3>2, <3>3
  <2>5. ~Over
    BY <1>n, <2>3
  <2>6. conn.object # "unmade"
    <3>1. conn.object = "unmade" => objs = <<>>
      BY DEF Listed
    <3> QED BY <2>3, <3>1
  <2>7. ~Over'
    BY <1>4, <2>3, <2>5, <2>6
  <2> QED BY <2>3, <2>4, <2>7
<1>11. CASE \E i : Execute(i, "other") /\ Reads(AllBound(i))
  BY <1>0, <1>11, RefusedStep
<1>12. CASE \E i, fate : Fetch(i, fate) /\ Reads(Stmt(i))
  <2>1. PICK i : /\ DOMAIN objs' = DOMAIN objs /\ DOMAIN stmts' = DOMAIN stmts /\ conn' = conn
                 /\ i \in DOMAIN objs /\ objs[i].held
                 /\ \A j \in DOMAIN objs : j # i => objs'[j] = objs[j]
                 /\ objs'[i].runs = objs[i].runs /\ objs'[i].h = objs[i].h
    BY <1>12, FetchStep
  <2> QED BY <1>8, <2>1
<1>13. CASE \E i : Finalize(i) /\ Stmt(i).state # "final"
  <2>1. PICK i : /\ DOMAIN objs' = DOMAIN objs /\ DOMAIN stmts' = DOMAIN stmts /\ conn' = conn
                 /\ i \in DOMAIN objs /\ objs[i].held
                 /\ \A j \in DOMAIN objs : j # i => objs'[j] = objs[j]
                 /\ objs'[i].runs = objs[i].runs /\ objs'[i].h = objs[i].h
    BY <1>13, FinalizeStep
  <2> QED BY <1>8, <2>1
<1>14. CASE \E i : Drop(i)
  <2>1. PICK i : Drop(i)
    BY <1>14
  <2>2. /\ DOMAIN objs' = DOMAIN objs /\ conn' = conn /\ i \in DOMAIN objs /\ objs[i].held
        /\ \A j \in DOMAIN objs : objs'[j].h = objs[j].h /\ objs'[j].runs = objs[j].runs
    BY <2>1, DropStep
  <2>3. DOMAIN stmts' = DOMAIN stmts
    <3>1. stmts' = GivenUp({i}).stmts
      BY <2>1, DropStep
    <3> QED BY <3>1, GivenUpFacts
  <2> QED BY <1>8, <2>2, <2>3
<1>15. CASE \E v \in Cells : Leave(v) \/ \E text \in Contents : Assign(v, text)
  <2>1. /\ UNCHANGED <<conn, objs>> /\ DOMAIN stmts' = DOMAIN stmts
        /\ \A h \in DOMAIN stmts : stmts'[h].state = stmts[h].state
    BY <1>15, VariableStep
  <2> QED BY <1>0, <2>1 DEF Owns, SomeHeld
<1>17. CASE \E i : ExecuteThrows(i) /\ stmts' # stmts
  <2>1. PICK i : /\ UNCHANGED <<conn, objs>> /\ DOMAIN stmts' = DOMAIN stmts
                 /\ stmts'[objs[i].h].state = stmts[objs[i].h].state
                 /\ \A k \in DOMAIN stmts : k # objs[i].h => stmts'[k] = stmts[k]
    BY <1>17, ThrowStep
  <2>2. \A h \in DOMAIN stmts : stmts'[h].state = stmts[h].state
    BY <2>1
  <2> QED BY <1>0, <2>1, <2>2 DEF Owns, SomeHeld
<1>16. CASE Next
  BY <1>2, <1>5, <1>6, <1>7, <1>9, <1>10, <1>11, <1>12, <1>13, <1>14, <1>15, <1>16, <1>17, NextCases
<1> QED BY <1>1, <1>16

\* As long as what was made from a closed connection is not used and no
\* statement is executed twice, a statement is final only when all is over.
LEMMA FinalIsLate ==
  ASSUME TypeOK, Listed, Counted, Keeps({"outlived", "twice"}), NEW i \in DOMAIN objs, Stmt(i).state = "final"
  PROVE  ~conn.open
<1>1. SUFFICES ASSUME conn.open PROVE FALSE
  OBVIOUS
<1>2. PICK j \in DOMAIN objs : Owns(j) /\ objs[j].h = objs[i].h
  BY DEF Counted
<1>3. objs[j].refs = objs[j].runs + Hold(j) + 1
  BY <1>1 DEF Listed
<1>4. PICK a, b, c \in Int : a = objs[j].refs /\ b = objs[j].runs /\ c = Hold(j)
  BY CountTypes
<1>5. a > 0
  <2>1. a = b + c + 1 /\ b >= 0 /\ c >= 0
    BY <1>3, <1>4, CountTypes
  <2> QED BY <1>4, <2>1
<1>6. Stmt(j).state # "final"
  BY <1>2, <1>4, <1>5 DEF Counted
<1> QED BY <1>2, <1>6 DEF Stmt

\* Objects that end have not ended before.
LEMMA EndsOnce ==
  ASSUME TypeOK, Counted, Keeps({"outlived", "twice"}), NEW S, S \subseteq DOMAIN objs,
         \A i \in S : objs[i].refs = 1 => Owns(i)
  PROVE  GivenUp(S).ok
<1> DEFINE ended == {i \in S : objs[i].refs = 1}
<1>1. GivenUp(S).ok = \A i \in ended : /\ stmts[objs[i].h].state # "final"
                                       /\ \A j \in ended : objs[j].h = objs[i].h => j = i
  BY DEF GivenUp
<1>2. ASSUME NEW i \in ended PROVE stmts[objs[i].h].state # "final"
  BY DEF Counted, Stmt
<1>3. ASSUME NEW i \in ended, NEW j \in ended, objs[j].h = objs[i].h PROVE j = i
  BY <1>3 DEF Counted
<1> QED BY <1>1, <1>2, <1>3

LEMMA NoStrayNext ==
  ASSUME TypeOK, Listed, Counted, Lasting, NoStray, [Next]_vars
  PROVE  NoStray'
<1> DEFINE N == {"outlived", "twice", "changed", "unheld", "closed"}
<1> SUFFICES ASSUME last' = "stray", Keeps(N)'
             PROVE  FALSE
  BY DEF NoStray, Keeps
<1>0. \A r \in N : r \notin rules /\ r \notin rules'
  BY KeepsBefore DEF Keeps
<1>1. Keeps({"outlived", "twice"}) /\ Keeps({"outlived"}) /\ \A h \in DOMAIN stmts : stmts[h].param # Gone
  BY <1>0 DEF Keeps, Lasting
\* Something is used after its end.
<1>2. ASSUME Late \subseteq rules', NEW i \in DOMAIN objs, ~Reads(Stmt(i)) PROVE FALSE
  <2>1. conn.open
    BY <1>0, <1>2 DEF Late, If
  <2>2. Stmt(i).param # Gone
    BY <1>1, CountTypes DEF Stmt
  <2> QED BY <1>1, <1>2, <2>1, <2>2, FinalIsLate DEF Reads
<1>3. ASSUME NEW a, NEW b, Call(a, b) PROVE a = "stray" /\ b \subseteq rules'
  BY <1>3 DEF Call
<1>4. CASE UNCHANGED vars
  BY <1>0, <1>4 DEF vars, NoStray
<1>5. CASE CallConn
  <2>1. ASSUME NEW object, NEW answers, Usable, CloseWith(object, answers), \A free \in BOOLEAN : answers[free] # "stray"
        PROVE  FALSE
    <3>1. CASE conn.open
      <4>1. Range(conn.results) = DOMAIN objs
        BY <3>1 DEF Listed
      <4>2. \A i \in DOMAIN objs : objs[i].refs = 1 => Owns(i)
        BY <1>1, <3>1, LastOwns
      <4>3. GivenUp(Range(conn.results)).ok
        BY <1>1, <4>1, <4>2, EndsOnce
      <4>4. PICK free \in BOOLEAN : Call(answers[free], If(SomeHeld, "left"))
        <5>1. \E free \in BOOLEAN : Call(IF GivenUp(Range(conn.results)).ok THEN answers[free] ELSE "stray", If(SomeHeld, "left"))
          BY <2>1, <3>1 DEF CloseWith
        <5> QED BY <4>3, <5>1
      <4> QED BY <1>3, <2>1, <4>4
    <3>2. CASE ~conn.open
      BY <1>3, <2>1, <3>2 DEF CloseWith
    <3> QED BY <3>1, <3>2
  <2>2. CASE Close
    BY <2>1, <2>2 DEF Close
  <2>3. CASE DropConn
    BY <2>1, <2>3 DEF DropConn
  <2>4. CASE GetLastId
    BY <1>0, <2>4 DEF GetLastId, Call, If
  <2>5. CASE CannotPrepare
    BY <1>3, <2>5 DEF CannotPrepare
  <2>6. ASSUME NEW fate, Open(fate) \/ Exec(1, fate) PROVE FALSE
    BY <2>6 DEF Open, Exec, Call
  <2>7. ASSUME NEW sql, Prepare(sql) PROVE FALSE
    BY <1>3, <2>7 DEF Prepare
  <2>8. ASSUME NEW sql, NEW fate, Query(sql, 1, fate) PROVE FALSE
    BY <1>3, <2>8 DEF Query
  <2> QED BY <1>5, <2>2, <2>3, <2>4, <2>5, <2>6, <2>7, <2>8 DEF CallConn
<1>6. CASE CallObject
  <2>1. ASSUME NEW i, NEW v \in Cells, BindValue(i, v) PROVE FALSE
    <3>1. i \in DOMAIN objs
      BY <2>1 DEF BindValue, Held
    <3>2. Stmt(i).state = "final" /\ Call("stray", Late)
      BY <1>3, <2>1 DEF BindValue
    <3> QED BY <1>2, <1>3, <3>1, <3>2 DEF Reads
  <2>2. ASSUME NEW i, NEW fate, Execute(i, fate) PROVE FALSE
    <3>1. i \in DOMAIN objs
      BY <2>2 DEF Execute, Held
    <3>2. /\ ~Reads(AllBound(i)) \/ conn.object = "freed"
          /\ Call("stray", ExecuteRules(i, fate))
      <4>1. ASSUME NEW b, Call("object", b) \/ Call("false", b) PROVE FALSE
        BY <1>3, <4>1
      <4> QED BY <2>2, <4>1 DEF Execute
    <3>3. Late \subseteq rules'
      BY <1>3, <3>2 DEF ExecuteRules
    <3>4. CASE conn.object = "freed"
      BY <1>0, <3>3, <3>4 DEF Late, If, Listed
    <3>5. CASE ~Reads(AllBound(i))
      <4>1. AllBound(i).state = Stmt(i).state
        BY <3>1, AllBoundFacts
      <4>2. CASE AllBound(i) = Stmt(i)
        BY <1>2, <3>1, <3>3, <3>5, <4>2
      <4>3. CASE AllBound(i) # Stmt(i)
        <5>1. objs[i].bound # <<>> /\ Stmt(i).state = "ready"
          BY <3>1, <4>3, AllBoundFacts
        <5>2. Last(objs[i].bound) \in Cells
          BY <3>1, <5>1, BoundIn
        <5>3. AllBound(i).param.of = Last(objs[i].bound)
          <6>1. Stmt(i) \in StmtType
            BY <3>1, AllBoundFacts
          <6> QED BY <5>1, <6>1 DEF AllBound, Bound, StmtType
        <5>4. AllBound(i).param # Gone
          BY <5>2, <5>3, SqliteAssumption DEF Gone
        <5> QED BY <3>5, <4>1, <5>1, <5>4 DEF Reads
      <4> QED BY <4>2, <4>3
    <3> QED BY <3>2, <3>4, <3>5
  <2>3. ASSUME NEW i, NEW fate, Fetch(i, fate) PROVE FALSE
    <3>1. i \in DOMAIN objs
      BY <2>3 DEF Fetch, Held
    <3>2. ~Reads(Stmt(i)) /\ Late \subseteq rules'
      BY <2>3 DEF Fetch, Call
    <3> QED BY <1>2, <3>1, <3>2
  <2>4. ASSUME NEW i, Finalize(i) PROVE FALSE
    <3>1. i \in DOMAIN objs
      BY <2>4 DEF Finalize, Held
    <3>2. Stmt(i).state = "final" /\ Late \subseteq rules'
      BY <1>3, <2>4 DEF Finalize
    <3> QED BY <1>2, <3>1, <3>2 DEF Reads
  <2>5. ASSUME NEW i, Drop(i) PROVE FALSE
    <3>1. i \in DOMAIN objs /\ objs[i].held
      BY <2>5 DEF Drop
    <3>2. GivenUp({i}).ok
      BY <1>1, <3>1, LastOwns, EndsOnce
    <3>3. Call("none", {})
      BY <2>5, <3>2 DEF Drop
    <3> QED BY <1>3, <3>3
  <2>6. ASSUME NEW i, ExecuteThrows(i) PROVE FALSE
    <3>1. i \in DOMAIN objs
      BY <2>6 DEF ExecuteThrows, Held
    <3>2. ASSUME NEW b, Call("thrown", b) PROVE FALSE
      BY <1>3, <3>2
    <3>3. Stmt(i).state = "final" /\ Call("stray", Late)
      BY <2>6, <3>2 DEF ExecuteThrows
    <3> QED BY <1>2, <1>3, <3>1, <3>3 DEF Reads
  <2> QED BY <1>6, <2>1, <2>2, <2>3, <2>4, <2>5, <2>6 DEF CallObject
<1>7. CASE ChangeVariable
  <2>1. ASSUME NEW v, Leave(v) \/ \E text \in Contents : Assign(v, text) PROVE FALSE
    BY <1>3, <2>1 DEF Leave, Assign
  <2> QED BY <1>7, <2>1 DEF ChangeVariable
<1> QED BY <1>4, <1>5, <1>6, <1>7 DEF Next

-------------------------------------------------------------------------------
(* The theorems. *)

IInv == TypeOK /\ Written /\ Reading /\ Lasting /\ Listed /\ Counted /\ Ended /\ NoStray

LEMMA InitIInv == Init => IInv
<1> SUFFICES ASSUME Init PROVE IInv
  OBVIOUS
<1>1. TypeOK
  BY InitType
<1>2. /\ objs = <<>> /\ stmts = <<>> /\ DOMAIN objs = {} /\ DOMAIN stmts = {} /\ log = <<>> /\ meant = <<>>
      /\ conn.object = "unmade" /\ ~conn.open /\ conn.results = <<>> /\ conn.db = "none" /\ last = "none"
  BY DEF Init
<1> QED BY <1>1, <1>2 DEF IInv, Written, Reading, Lasting, Listed, Counted, Ended, NoStray

LEMMA NextIInv == IInv /\ [Next]_vars => IInv'
<1> SUFFICES ASSUME IInv, [Next]_vars PROVE IInv'
  OBVIOUS
<1>1. TypeOK'
  BY TypeNext DEF IInv
<1>2. Listed'
  BY ListedNext DEF IInv
<1> QED BY <1>1, <1>2, WrittenNext, ReadingNext, LastingNext, CountedNext, EndedNext, NoStrayNext DEF IInv

LEMMA SqliteInvariant == Spec => []IInv
BY InitIInv, NextIInv, PTL DEF Spec

\* A database holds what the script has asked to be written, for the rules
\* that WritesAsMeant names (bindValue, execute, exec and query).
THEOREM WritesWhatIsMeant == Spec => []WritesAsMeant
<1>1. IInv => WritesAsMeant
  BY DEF IInv, Written, Keeps, WritesAsMeant
<1> QED BY <1>1, SqliteInvariant, PTL

\* A result gives its rows in turn and for the value that was bound when the
\* statement was executed, for the rules that RowsInTurn names (execute, fetch
\* and finalize).
THEOREM RowsComeInTurn == Spec => []RowsInTurn
<1>1. IInv => RowsInTurn
  BY DEF IInv, Reading, Keeps, RowsInTurn
<1> QED BY <1>1, SqliteInvariant, PTL

\* Nothing is used or finalized after its end, and nothing is left behind, for
\* the rules that ReleasedOnce names (close and the destructors).
THEOREM EverythingReleasedOnce == Spec => []ReleasedOnce
<1>1. IInv => ReleasedOnce
  BY DEF IInv, NoStray, Listed, Ended, Keeps, ReleasedOnce
<1> QED BY <1>1, SqliteInvariant, PTL

===============================================================================
