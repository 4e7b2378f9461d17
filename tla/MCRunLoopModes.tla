--------------------------- MODULE MCRunLoopModes ---------------------------
(* A source and a timer that two threads put into two loops, and an         *)
(* observer of one.                                                 *)
EXTENDS RunLoopModes

MCKind == [i \in Item |-> CASE i = "src" -> "source" [] i = "tmr" -> "timer" [] OTHER -> "observer"]
MCCalls ==
    ({"add"} \X Loop \X {"default", Common} \X {"src"})
    \cup ({"add"} \X Loop \X {"default", "tracking"} \X {"tmr"})
    \cup ({"add"} \X {"l1"} \X {"default", Common} \X {"obs"})
    \cup ({"remove"} \X {"l1"} \X {"default"} \X {"tmr"})
    \cup ({"remove"} \X {"l1"} \X {Common} \X {"src", "obs"})
    \cup {<<"common", "l1", "tracking", "src">>}
    \cup ({"invalidate"} \X {"l1"} \X {Common} \X Item)
=============================================================================
