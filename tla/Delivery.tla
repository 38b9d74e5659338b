------------------------------- MODULE Delivery -------------------------------
(***************************************************************************)
(* The abstract specification of a mailbox: runs become due, in the order  *)
(* in which they were asked for, and are done one at a time in that order. *)
(***************************************************************************)
EXTENDS Naturals, SequencesExt

VARIABLES
  due,    \* every run ever asked for
  done    \* the runs that have been done

Init == due = <<>> /\ done = <<>>

\* More runs are asked for: the ones asked for before stay as they were.
Ask == /\ IsPrefix(due, due')
       /\ UNCHANGED done

Do == /\ Len(done) < Len(due)
      /\ done' = Append(done, due[Len(done) + 1])
      /\ UNCHANGED due

Next == Ask \/ Do

Spec == Init /\ [][Next]_<<due, done>>

\* All that is due is done in the end.
AllDone == []<>(done = due)
===============================================================================
