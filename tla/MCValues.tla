------------------------------- MODULE MCValues -------------------------------
(***************************************************************************)
(* All sequences of instructions on a few Values.                          *)
(*                                                                         *)
(* Which number a Value or an object has means nothing.  States that differ*)
(* in the numbers only are explored once: the view renumbers what the      *)
(* slots reach, in the order in which it is reached, and counts the rest,  *)
(* so that a state with garbage never looks like one without.              *)
(***************************************************************************)
EXTENDS Values

RECURSIVE Reach(_, _)
Reach(seen, v) ==
  IF v = NoVal \/ Contains(seen, v) THEN seen
  ELSE IF heap.val[v].obj = NoObj THEN Append(seen, v)
  ELSE FoldLeft(Reach, Append(seen, v), Cells(heap, v))

Position(seq, x) == IF Contains(seq, x) THEN CHOOSE i \in DOMAIN seq : seq[i] = x ELSE 0

Numbered(vs, os) ==
  << [i \in DOMAIN vs |-> <<Position(os, heap.val[vs[i]].obj), heap.val[vs[i]].rc,
                            IF store[vs[i]].is = "array" THEN Ref(Position(os, store[vs[i]].o))
                            ELSE store[vs[i]]>>],
     [i \in DOMAIN os |-> IF os[i] = NoObj THEN FreeObj
                          ELSE [heap.obj[os[i]] EXCEPT !.cells = [c \in DOMAIN @ |-> Position(vs, @[c])]]],
     [n \in DOMAIN slot |-> Position(vs, slot[n])], [n \in DOMAIN frame |-> Position(vs, frame[n])],
     Position(vs, ret), heap.bad, selfcopy,
     Cardinality(Live(heap)), Cardinality({o \in Obj : heap.obj[o].rc > 0}) >>

Renumbered ==
  The({Numbered(vs, [i \in DOMAIN vs |-> heap.val[vs[i]].obj]) :
        vs \in {FoldLeft(Reach, <<>>, <<slot.x, slot.r, slot.e, frame.p, frame.s>>)}})

===============================================================================
