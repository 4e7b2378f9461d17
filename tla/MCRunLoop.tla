------------------------------ MODULE MCRunLoop ------------------------------
(* Two modes, two sources and blocks for one or both of them.              *)
EXTENDS RunLoop

Modes == {"default", "tracking"}

\* The wake-up port is in every mode; "peer" is a version 1 source or timer
\* of the default mode, "queue" the main dispatch queue.
Membership == [s1 |-> {"default"}, s2 |-> Modes,
               b1 |-> {"default"}, b2 |-> Modes, b3 |-> {"tracking"}, b4 |-> {"default"},
               wakeUp |-> Modes, queue |-> Modes, peer |-> {"default"}]
MCIn == [x \in Source \cup Block \cup Port |-> Membership[x] \cap Mode]

\* A loop of another thread than the main one does not serve the main queue.
MCInSecondary == [MCIn EXCEPT !["queue"] = {}]
MCOrder == [s \in Source |-> IF s = "s1" THEN 0 ELSE 1]

Main == {<<m, FALSE>> : m \in Mode}
\* As a tracking loop does, return after each source in "tracking".
Tracking == {<<m, m = "tracking">> : m \in Mode}

Flat(set) == {<<x[1], x[2][1], x[2][2]>> : x \in set}
MCNestOther == Flat({"block"} \X {<<"default", "tracking">>})
MCNestAll == Flat({"block", "source0", "message", "observer"} \X (Modes \X Modes))
=============================================================================
