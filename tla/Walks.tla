------------------------------- MODULE Walks --------------------------------
(***************************************************************************)
(* Loops over sequences.  Walk carries a value along: it is FoldLeft with  *)
(* its arguments bound, so that each is evaluated once, however often op   *)
(* uses it.                                                                *)
(***************************************************************************)
EXTENDS Loops, FiniteSets, SequencesExt

Walk(op(_, _), base, seq) ==
    LET step(carried, x) == The({op(c, y) : c \in {carried}, y \in {x}})
    IN  The({FoldLeft(step, base, s) : s \in {seq}})
=============================================================================
