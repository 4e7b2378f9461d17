-------------------------- MODULE MCRunLoopRegistry --------------------------
(***************************************************************************)
(* The main thread, a thread that uses its run loop and ends, and a thread *)
(* that asks for the other's loop.  Five loops are enough for every race:  *)
(* two in a first dictionary each, and one from each caller that finds no  *)
(* loop of t1, before its loop is let go or after.                         *)
(***************************************************************************)
EXTENDS RunLoopRegistry

AsksFor == [t \in Thread |-> CASE t = "main" -> {"main", "t1"}
                               [] t = "t1" -> {"t1", "main"}
                               [] OTHER -> {"t1"}]
=============================================================================
