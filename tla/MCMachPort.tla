------------------------------ MODULE MCMachPort -----------------------------
(* A port with a send right, which is watched, and one without.            *)
EXTENDS MachPort

MCPortOf == [o \in Obj |-> IF o = "c" THEN "plain" ELSE "send"]
MCCalls ==
    ({"t1"} \X {"create"} \X Obj) \cup {<<"t1", "callback", "a">>}
    \cup ({"t2"} \X {"create", "invalidate", "source"} \X {"a"})

\* Two threads that ask for the same port; one of them invalidates what it gets.
MCRace == ({"t1", "t2"} \X {"create"} \X Obj) \cup ({"t2"} \X {"invalidate"} \X Obj)
=============================================================================
