--------------------------- MODULE MCRunLoopTimers ---------------------------
(* A timer that fires once, one that repeats, and one with a tolerance.    *)
EXTENDS RunLoopTimers

MCInterval == [t \in Timer |-> CASE t = "once" -> 0 [] t = "beat" -> 1 [] OTHER -> 2]
MCTolerance == [t \in Timer |-> IF t = "lax" THEN 2 ELSE 0]
MCFireDate == [t \in Timer |-> IF t = "lax" THEN 0 ELSE 1]
MCScheduled == <<"lax", "once">>
MCOne == <<"beat">>

MCCalls == {<<"set", "beat">>, <<"add", "beat">>, <<"remove", "once">>,
            <<"remove", "beat">>, <<"invalidate", "lax">>}
MCRace == {"add", "invalidate"} \X {"lax"}
=============================================================================
