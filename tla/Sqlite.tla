------------------------------- MODULE Sqlite -------------------------------
(***************************************************************************)
(* The SQLite binding (modules/db/sqlite3): one connection, the statements *)
(* and results that a script gets from it, and the script variables bound  *)
(* to a parameter.  A call of a script is one action.                      *)
(*                                                                         *)
(* A statement of the library (stmts) is shared by the objects of the      *)
(* binding that were made from it (objs); an object is counted by the      *)
(* script, which holds it or not, and by the connection's list `results'.  *)
(* The library is external: sqlite3_step, reset, bind, finalize and close  *)
(* as its documentation has them.                                          *)
(***************************************************************************)
EXTENDS Integers, FiniteSets, Sequences, SequencesExt

CONSTANTS
  Cells,       \* script variables that are bound
  Computed,    \* those whose text is their own, and goes when they change
  Rows,        \* rows that a read gives
  MaxStmts, MaxObjs, MaxCalls, MaxBroken      \* bounds: on what there is, and on the rules broken

ASSUME SqliteAssumption ==
  /\ Computed \subseteq Cells /\ Cells \cap {"none", "gone"} = {}
  /\ {Rows, MaxStmts, MaxObjs, MaxCalls, MaxBroken} \subseteq Nat

VARIABLES
  conn,     \* the connection: its object, its handle and its list
  stmts,    \* the library's statements
  objs,     \* the statement and result objects
  cells,    \* the variables
  log,      \* what was written to the database
  meant,    \* what the script has asked to be written
  last,     \* what the last call answered
  rules,    \* the rules that the script has broken (the README lists them)
  calls     \* how many calls there were

vars == <<conn, stmts, objs, cells, log, meant, last, rules, calls>>

Texts == {1, 2}
Unknown == 9      \* a value of a type that no parameter can have, a Bool or an object
Contents == Texts \cup {Unknown}
Unbound == [text |-> 0, of |-> "none"]
Gone    == [text |-> 0, of |-> "gone"]

Init ==
  /\ conn = [object |-> "unmade", open |-> FALSE, db |-> "none", results |-> <<>>]
  /\ stmts = <<>>
  /\ objs = <<>>
  /\ \E holds \in [Cells -> {1, Unknown}] : cells = [v \in Cells |-> [text |-> holds[v], refs |-> 1, held |-> TRUE]]
  /\ log = <<>> /\ meant = <<>>
  /\ last = "none" /\ rules = {} /\ calls = 0

\* A call is made; what it answers, and the rule it breaks, if any.
Call(answer, broken) ==
  /\ last # "stray" /\ calls < MaxCalls
  /\ calls' = calls + 1
  /\ last' = answer
  /\ rules' = rules \cup broken /\ Cardinality(rules') <= MaxBroken
If(cond, rule) == IF cond THEN {rule} ELSE {}

-------------------------------------------------------------------------------
(* The library.                                                            *)
Fates == {"fine", "error", "other"}    \* other: busy, or against a constraint
NewStmt(sql) == [sql |-> sql, state |-> "ready", row |-> 0, param |-> Unbound]

\* A statement that is not in the midst of its rows begins again.
Begins(s) == s.state \in {"ready", "done"}
Writes(s, fate) == s.sql = "write" /\ fate = "fine"
Stepped(s, fate) ==
  LET next == (IF Begins(s) THEN 0 ELSE s.row) + 1
  IN IF s.sql = "read" /\ fate = "fine" /\ next <= Rows THEN [s EXCEPT !.state = "row", !.row = next]
     ELSE [s EXCEPT !.state = "done", !.row = 0]
Reset(s) == [s EXCEPT !.state = "ready", !.row = 0]
\* The text of a parameter is read where it lies.
Reads(s) == s.state # "final" /\ s.param # Gone

\* A statement that was stepped and not reset refuses a parameter; nobody looks.
Bound(s, v) == IF s.state = "ready" THEN [s EXCEPT !.param = [text |-> cells[v].text, of |-> v]] ELSE s

-------------------------------------------------------------------------------
(* The objects.  The end of a statement or of a result finalizes its       *)
(* library statement; `ok' is false when that had been done.  A set of     *)
(* objects gives up one reference each: the list holds every object once.  *)
GivenUp(S) ==
  LET ended == {i \in S : objs[i].refs = 1}
  IN [objs  |-> [i \in DOMAIN objs |-> IF i \in S THEN [objs[i] EXCEPT !.refs = @ - 1] ELSE objs[i]],
      stmts |-> [h \in DOMAIN stmts |-> IF \E i \in ended : objs[i].h = h
                                        THEN [stmts[h] EXCEPT !.state = "final"] ELSE stmts[h]],
      ok    |-> \A i \in ended : /\ stmts[objs[i].h].state # "final"
                                 /\ \A j \in ended : objs[j].h = objs[i].h => j = i]

NewObject(kind, h, said) ==
  [kind |-> kind, h |-> h, refs |-> 2, held |-> TRUE, bound |-> <<>>, said |-> said, runs |-> 0, fetched |-> 0]

Held(i, kind) == i \in DOMAIN objs /\ objs[i].held /\ objs[i].kind = kind
SomeHeld == \E i \in DOMAIN objs : objs[i].held
Stmt(i) == stmts[objs[i].h]
\* Another result of the statement is younger, or in the midst of its rows.
Shared(i) == \E j \in DOMAIN objs : j # i /\ objs[j].kind = "result" /\ objs[j].h = objs[i].h /\ (j > i \/ objs[j].fetched > 0)
Usable == conn.object = "made"
\* What was made from a connection is used when that is closed.
Late == If(~conn.open, "outlived")
Room == Len(objs) < MaxObjs

-------------------------------------------------------------------------------
(* The connection.                                                         *)
Open(fate) ==
  /\ conn.object = "unmade"
  /\ conn' = IF fate = "fine" THEN [conn EXCEPT !.object = "made", !.open = TRUE, !.db = "open"] ELSE conn
  /\ Call(IF fate = "fine" THEN "object" ELSE "thrown", {})
  /\ UNCHANGED <<stmts, objs, cells, log, meant>>

\* Only a message makes exec throw, and without a handle there is none.
Exec(text, fate) ==
  /\ Usable
  /\ log' = IF conn.open /\ fate = "fine" THEN Append(log, text) ELSE log
  /\ meant' = IF conn.open /\ fate # "fine" THEN meant ELSE Append(meant, text)
  /\ Call(IF conn.open /\ fate # "fine" THEN "thrown" ELSE "true", If(~conn.open, "closed"))
  /\ UNCHANGED <<conn, stmts, objs, cells>>

GetLastId ==
  /\ Usable
  /\ Call(IF conn.open THEN "id" ELSE "stray", If(~conn.open, "closed"))
  /\ UNCHANGED <<conn, stmts, objs, cells, log, meant>>

\* A statement that cannot be prepared: the handle is gone, or it is no SQL.
CannotPrepare ==
  /\ Usable
  /\ Call("thrown", {})
  /\ UNCHANGED <<conn, stmts, objs, cells, log, meant>>

\* Fault: the statement is not reset when it was stepped.
MutantRewound(s) == s
Rewound(s) == Reset(s)

\* The statement is stepped at once and reset; an error throws and leaves it
\* behind, any other failure is not noticed.
Query(sql, text, fate) ==
  /\ Usable /\ conn.open /\ Room /\ Len(stmts) < MaxStmts
  /\ LET s == [Stepped(NewStmt(sql), fate) EXCEPT !.param = [text |-> text, of |-> "none"]]
     IN stmts' = Append(stmts, IF fate = "fine" THEN Rewound(s) ELSE s)
  /\ IF fate = "error"
     THEN Call("thrown", {"refused"}) /\ UNCHANGED <<conn, objs, meant>>
     ELSE /\ objs' = Append(objs, NewObject("result", Len(stmts) + 1, text))
          /\ conn' = [conn EXCEPT !.results = Append(@, Len(objs) + 1)]
          /\ meant' = IF sql = "write" THEN Append(meant, text) ELSE meant
          /\ Call("object", If(fate = "other", "refused"))
  /\ log' = IF Writes(NewStmt(sql), fate) THEN Append(log, text) ELSE log
  /\ UNCHANGED cells

Prepare(sql) ==
  /\ Usable /\ conn.open /\ Room /\ Len(stmts) < MaxStmts
  /\ stmts' = Append(stmts, NewStmt(sql))
  /\ objs' = Append(objs, NewObject("stmt", Len(stmts) + 1, 0))
  /\ conn' = [conn EXCEPT !.results = Append(@, Len(objs) + 1)]
  /\ Call("object", {})
  /\ UNCHANGED <<cells, log, meant>>

\* SQLite3Conn::close: every reference of the list is given up, then the handle
\* is closed, which fails while a statement is not finalized; it is forgotten
\* in either case.
CloseWith(object, answers) ==
  LET m == GivenUp(Range(conn.results))
      free == \A h \in DOMAIN m.stmts : m.stmts[h].state = "final"
  IN IF conn.open
     THEN /\ objs' = m.objs /\ stmts' = m.stmts
          /\ conn' = [conn EXCEPT !.object = object, !.open = FALSE, !.db = IF free THEN "closed" ELSE "leaked"]
          /\ Call(IF m.ok THEN answers[free] ELSE "stray", If(SomeHeld, "left"))
          /\ UNCHANGED <<cells, log, meant>>
     ELSE /\ conn' = [conn EXCEPT !.object = object]
          /\ Call(answers[TRUE], {})
          /\ UNCHANGED <<stmts, objs, cells, log, meant>>

Close == Usable /\ CloseWith("made", [free \in BOOLEAN |-> IF free THEN "true" ELSE "false"])
DropConn == Usable /\ CloseWith("freed", [free \in BOOLEAN |-> "none"])

-------------------------------------------------------------------------------
(* Statements.                                                             *)
\* bindValue keeps the variable itself, not what it holds.
BindValue(i, v) ==
  /\ Held(i, "stmt") /\ cells[v].held /\ Len(objs[i].bound) < 2
  /\ IF Stmt(i).state = "final" THEN Call("stray", Late) /\ UNCHANGED <<objs, cells>>
     ELSE /\ objs' = [objs EXCEPT ![i].bound = Append(@, v), ![i].said = cells[v].text]
          /\ cells' = [cells EXCEPT ![v].refs = @ + 1]
          /\ Call("none", Late)
  /\ UNCHANGED <<conn, stmts, log, meant>>

\* Fault: of two values for a parameter the first is taken.
MutantAllBound(i) == IF objs[i].bound = <<>> THEN Stmt(i) ELSE Bound(Stmt(i), Head(objs[i].bound))
\* The values are bound in turn, each in place of the one before.
AllBound(i) == IF objs[i].bound = <<>> THEN Stmt(i) ELSE Bound(Stmt(i), Last(objs[i].bound))

\* Fault: the statement object does not survive its results.
MutantKeptBy(i) == objs[i].refs
\* The result that comes of it will finalize the statement: its object never may.
KeptBy(i) == objs[i].refs + 1

Times(i, v) == Cardinality({k \in DOMAIN objs[i].bound : objs[i].bound[k] = v})
Cleared(i) == [v \in Cells |-> [cells[v] EXCEPT !.refs = @ - Times(i, v)]]
WithoutText(S, list) == [h \in DOMAIN list |-> IF list[h].param.of \in S \cap Computed THEN [list[h] EXCEPT !.param = Gone] ELSE list[h]]
Emptied(i) == {v \in Cells : cells[v].refs > 0 /\ Cleared(i)[v].refs = 0}

ExecuteRules(i, fate) ==
  If(Stmt(i).state = "row" \/ (Stmt(i).state = "done" /\ objs[i].bound # <<>>), "rebind") \cup If(objs[i].runs > 0, "twice")
  \cup If(fate # "fine", "refused") \cup Late
  \cup If(Emptied(i) \cap Computed # {}, "unheld")

\* The values in the list that cannot be bound.
Odd(i) == {k \in DOMAIN objs[i].bound : cells[objs[i].bound[k]].text = Unknown}

\* The first of them throws: the values before it are bound by then, and the list
\* is kept as it is.
ExecuteThrows(i) ==
  /\ Held(i, "stmt")
  /\ \E k \in Odd(i) :
       /\ \A n \in Odd(i) : k <= n
       /\ IF k > 1 /\ Stmt(i).state = "final" THEN Call("stray", Late) /\ UNCHANGED stmts
          ELSE /\ stmts' = IF k > 1 THEN [stmts EXCEPT ![objs[i].h] = Bound(@, objs[i].bound[k - 1])] ELSE stmts
               /\ Call("thrown", If(stmts' # stmts, "unknown") \cup Late)
  /\ UNCHANGED <<conn, objs, cells, log, meant>>

Execute(i, fate) ==
  /\ Held(i, "stmt") /\ Room /\ Odd(i) = {}
  /\ LET s == AllBound(i)
         h == objs[i].h
     IN IF ~Reads(s) \/ (conn.object = "freed" /\ fate = "fine")
        THEN Call("stray", ExecuteRules(i, fate)) /\ UNCHANGED <<conn, stmts, objs, cells, log, meant>>
        ELSE /\ meant' = IF s.sql = "write" /\ fate = "fine" THEN Append(meant, objs[i].said) ELSE meant
             /\ log' = IF Writes(s, fate) THEN Append(log, s.param.text) ELSE log
             /\ IF fate = "fine"
                THEN /\ objs' = Append([objs EXCEPT ![i].refs = KeptBy(i), ![i].bound = <<>>, ![i].runs = @ + 1],
                                       NewObject("result", h, objs[i].said))
                     /\ conn' = [conn EXCEPT !.results = Append(@, Len(objs) + 1)]
                     /\ stmts' = WithoutText(Emptied(i), [stmts EXCEPT ![h] = Reset(Stepped(s, fate))])
                     /\ cells' = Cleared(i)
                     /\ Call("object", ExecuteRules(i, fate))
                ELSE /\ stmts' = [stmts EXCEPT ![h] = Reset(s)]
                     /\ Call("false", ExecuteRules(i, fate))
                     /\ UNCHANGED <<objs, conn, cells>>

-------------------------------------------------------------------------------
(* Results: fetch steps the statement once more, finalize resets it.       *)
Fetch(i, fate) ==
  /\ Held(i, "result")
  /\ LET s == Stmt(i)
         n == Stepped(s, fate)
         broken == If(s.sql = "write", "fetched") \cup If(fate # "fine", "refused") \cup If(Shared(i), "shared") \cup Late
     IN IF ~Reads(s) THEN Call("stray", broken) /\ UNCHANGED <<stmts, objs, log>>
        ELSE /\ stmts' = [stmts EXCEPT ![objs[i].h] = n]
             /\ objs' = [objs EXCEPT ![i].fetched = IF n.state = "row" THEN @ + 1 ELSE 0]
             /\ log' = IF Writes(s, fate) THEN Append(log, s.param.text) ELSE log
             /\ Call(IF n.state = "row" THEN "row" ELSE "false", broken)
  /\ UNCHANGED <<conn, cells, meant>>

Finalize(i) ==
  /\ Held(i, "result")
  /\ IF Stmt(i).state = "final" THEN Call("stray", Late) /\ UNCHANGED <<stmts, objs>>
     ELSE /\ stmts' = [stmts EXCEPT ![objs[i].h] = Reset(@)]
          /\ objs' = [objs EXCEPT ![i].fetched = 0]
          /\ Call("none", If(Shared(i), "shared") \cup Late)
  /\ UNCHANGED <<conn, cells, log, meant>>

Drop(i) ==
  /\ i \in DOMAIN objs /\ objs[i].held
  /\ LET m == GivenUp({i})
     IN /\ objs' = [m.objs EXCEPT ![i].held = FALSE]
        /\ stmts' = m.stmts
        /\ Call(IF m.ok THEN "none" ELSE "stray", {})
  /\ UNCHANGED <<conn, cells, log, meant>>

-------------------------------------------------------------------------------
(* Variables: one is set in place, and goes with its activation.           *)
BoundNow(v) == \E i \in DOMAIN objs : Contains(objs[i].bound, v)
Assign(v, text) ==
  /\ cells[v].held /\ cells[v].text # text
  /\ cells' = [cells EXCEPT ![v].text = text]
  /\ stmts' = WithoutText({v}, stmts)
  /\ Call("none", If(BoundNow(v) \/ stmts' # stmts, "changed"))
  /\ UNCHANGED <<conn, objs, log, meant>>

Leave(v) ==
  /\ cells[v].held
  /\ cells' = [cells EXCEPT ![v].held = FALSE, ![v].refs = @ - 1]
  /\ stmts' = IF cells[v].refs = 1 THEN WithoutText({v}, stmts) ELSE stmts
  /\ Call("none", If(stmts' # stmts, "changed"))
  /\ UNCHANGED <<conn, objs, log, meant>>

CallConn ==
  \/ \E fate \in {"fine", "error"} : Open(fate) \/ Exec(1, fate)
  \/ \E sql \in {"read", "write"} : Prepare(sql) \/ \E fate \in Fates : Query(sql, 1, fate)
  \/ GetLastId \/ CannotPrepare \/ Close \/ DropConn

CallObject ==
  \E i \in 1 .. MaxObjs :
    \/ \E v \in Cells : BindValue(i, v)
    \/ \E fate \in {"fine", "other"} : Execute(i, fate) \/ Fetch(i, fate)
    \/ ExecuteThrows(i) \/ Finalize(i) \/ Drop(i)

ChangeVariable == \E v \in Cells : Leave(v) \/ \E text \in Contents : Assign(v, text)

Next == CallConn \/ CallObject \/ ChangeVariable

Spec == Init /\ [][Next]_vars

-------------------------------------------------------------------------------
(* The database holds what the script asked to have written, once each and *)
(* with the values it had bound, unless it fetched from the result of a    *)
(* write, changed a variable that was bound, used a closed connection or   *)
(* met a refusal that is not reported.                                     *)
WritesAsMeant ==
  rules \cap {"fetched", "changed", "closed", "refused"} = {} => log = meant

(* A result gives its rows from the first, in turn, and for the value that *)
(* was bound when it was executed, as long as the script resets it before  *)
(* it executes the statement again, leaves older results alone, holds the  *)
(* texts that were bound, and no execution threw half-way through binding. *)
RowsInTurn ==
  rules \cap {"rebind", "shared", "changed", "unheld", "refused", "unknown"} = {} =>
    \A i \in DOMAIN objs : objs[i].fetched > 0 => Stmt(i).row = objs[i].fetched /\ Stmt(i).param.text = objs[i].said

(* Nothing is used or finalized after its end, and a script that has let go*)
(* of everything has left no statement and no handle behind.               *)
ReleasedOnce ==
  /\ last = "stray" => rules \cap {"outlived", "twice", "changed", "unheld", "closed"} # {}
  /\ conn.object = "freed" /\ ~SomeHeld /\ rules \cap {"left", "refused"} = {} =>
       conn.db = "closed" /\ \A h \in DOMAIN stmts : stmts[h].state = "final"

=============================================================================
