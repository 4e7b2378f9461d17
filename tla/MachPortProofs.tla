---------------------------- MODULE MachPortProofs ---------------------------
(***************************************************************************)
(* MachPort for any number of threads, objects and sources: an object that *)
(* goes invalid does so once and entirely before it is deallocated, its    *)
(* callback is called once, its info is not revived, it leaves no source   *)
(* behind, and the checker sweeps only what nobody uses.                   *)
(*                                                                         *)
(* The heart of the argument is that an object going invalid has exactly   *)
(* one that ends it, which owns it and holds its source.                   *)
(***************************************************************************)
EXTENDS MachPort, TLAPS

Steps == [at : {"idle", "insert", "watch", "validate", "notify", "source", "info", "finish",
                "create", "add"},
          obj : Obj \cup {None}, src : Source \cup {None}]
Blocks == [at : {"notify"}, obj : Obj, src : Source \cup {None}]
Types ==
    /\ alive \subseteq Port
    /\ st \in [Obj -> {"unused", "new", "ready", "invalidating", "invalid",
                      "deallocating", "gone"}]
    /\ refs \in [Obj -> SUBSET (Thread \cup {"table", "main"})]
    /\ watch \in [Obj -> {"none", "live", "fired", "cancelled", "ended"}]
    /\ icall \subseteq Obj /\ told \in [Obj -> Nat]
    /\ info \in [Obj -> SUBSET {"port", "loop"}]
    /\ src \in [Obj -> Source \cup {None}]
    /\ port \in [Source -> Obj \cup {None}] /\ valid \subseteq Source
    /\ keep \in [Source -> SUBSET (Thread \cup {"port", "mode", "loop"})]
    /\ pc \in [Actor -> Steps] /\ main \subseteq Blocks
    /\ checking \in BOOLEAN
    /\ loop \in [at : {"wait", "test", "perform", "callout"}, src : Source \cup {None}]

\* The blocks of the main queue own their objects.
MainOK == \A o \in Obj :
    "main" \in refs[o] <=> pc["main"].obj = o \/ \E b \in main : b.obj = o

\* A call in progress owns its object, and a new object belongs to its maker alone.
StepsOK == \A a \in Actor :
    /\ pc[a].at = "idle" <=> pc[a] = Idle
    /\ pc[a].at \notin {"idle", "add"} => pc[a].obj \in Obj /\ a \in refs[pc[a].obj]
    /\ pc[a].at = "insert" => st[pc[a].obj] = "new" /\ refs[pc[a].obj] = {a}

\* Whoever adds a source to a mode owns it.
AddsOK == \A a \in Actor : pc[a].at = "add" => pc[a].src \in Source /\ a \in keep[pc[a].src]

\* The table holds the ready objects, which have their info.
TableOK == \A o \in Obj :
    /\ st[o] = "unused" => refs[o] = {}
    /\ st[o] = "ready" <=> "table" \in refs[o]
    /\ st[o] = "ready" => "port" \in info[o]

\* An object going invalid has one that ends it: a thread, the main queue, or a block
\* that waits there.
Ends(a) == pc[a].at \in {"notify", "source", "info", "finish"}
EndsOK ==
    /\ \A a \in Actor : Ends(a) => st[pc[a].obj] = "invalidating"
    /\ \A b \in main : st[b.obj] = "invalidating"
    /\ \A a, c \in Actor : Ends(a) /\ Ends(c) /\ pc[a].obj = pc[c].obj => a = c
    /\ \A a \in Actor, b \in main : Ends(a) => pc[a].obj # b.obj
    /\ \A b, c \in main : b.obj = c.obj => b = c
    /\ \A o \in Obj : st[o] = "invalidating" =>
          \/ \E a \in Actor : Ends(a) /\ pc[a].obj = o
          \/ \E b \in main : b.obj = o

\* A callback that is set and has yet to be called has not been.
CallOK ==
    /\ \A o \in icall : st[o] \in {"unused", "new", "ready"} => told[o] = 0
    /\ \A a \in Actor : pc[a].at = "notify" /\ pc[a].obj \in icall => told[pc[a].obj] = 0
    /\ \A b \in main : b.obj \in icall => told[b.obj] = 0

\* A ready object, and after it the one that ends it, have its source in hand; every
\* other source is invalid or unowned.
HasSource(r) == r.at \in {"notify", "source"} /\ r.src # None
Linked(s, o) == port[s] = o /\ "port" \in keep[s]
SourceOK ==
    /\ \A o \in Obj : src[o] # None => st[o] = "ready" /\ Linked(src[o], o)
    /\ \A a \in Actor : HasSource(pc[a]) => Linked(pc[a].src, pc[a].obj)
    /\ \A b \in main : HasSource(b) => Linked(b.src, b.obj)
    /\ \A s \in valid : keep[s] # {} =>
          \/ \E o \in Obj : src[o] = s
          \/ \E a \in Actor : HasSource(pc[a]) /\ pc[a].src = s
          \/ \E b \in main : HasSource(b) /\ b.src = s

Inv == Types /\ MainOK /\ StepsOK /\ AddsOK /\ TableOK /\ EndsOK /\ CallOK /\ SourceOK /\ NotifiedOnce

-----------------------------------------------------------------------------
(* Types.                                                                  *)

LEMMA Names ==
    /\ "main" \notin Thread /\ "table" \notin Thread /\ "port" \notin Thread
    /\ "mode" \notin Thread /\ "loop" \notin Thread /\ "table" \notin Source
    /\ \A a \in Actor : a \notin {"table", "port", "mode", "loop"}
    /\ None \notin Obj /\ None \notin Source /\ PortOf \in [Obj -> Port]
    /\ Thread \subseteq Actor /\ "main" \in Actor
BY PortAssumption DEF Actor

\* An actor's call does what it says to its own entry only.
LEMMA Goes ==
    ASSUME Types, NEW a \in Actor, NEW step \in {"source", "info", "finish", "watch", "validate"},
           GoTo(a, step)
    PROVE  /\ pc' \in [Actor -> Steps]
           /\ \A c \in Actor \ {a} : pc'[c] = pc[c]
           /\ pc'[a].at = step /\ pc'[a].obj = pc[a].obj /\ pc'[a].src = pc[a].src
BY DEF Types, GoTo, Steps

LEMMA Sets ==
    ASSUME Types, NEW a \in Actor, NEW r \in Steps, pc' = [pc EXCEPT ![a] = r]
    PROVE  pc' \in [Actor -> Steps] /\ pc'[a] = r /\ \A c \in Actor \ {a} : pc'[c] = pc[c]
BY DEF Types

\* What CFMachPortCreateRunLoopSource does with the object's source.
LEMMA Sourced ==
    ASSUME Types, NEW t \in Thread, NEW o \in Obj, SourceOf(t, o)
    PROVE  \/ /\ src[o] \in valid /\ UNCHANGED <<src, port, valid>>
              /\ keep' = [keep EXCEPT ![src[o]] = @ \cup {t}]
           \/ /\ src[o] \notin valid
              /\ \E s \in Source :
                    /\ keep[s] \subseteq {"port"} /\ (s # src[o] => keep[s] = {})
                    /\ keep' = [k \in Source |-> IF k = s THEN {"port", t}
                                     ELSE IF k = src[o] THEN keep[k] \ {"port"} ELSE keep[k]]
                    /\ src' = [src EXCEPT ![o] = s] /\ port' = [port EXCEPT ![s] = o]
                    /\ valid' = valid \cup {s}
           \/ /\ src[o] \notin valid /\ UNCHANGED <<port, valid>>
              /\ keep' = [k \in Source |-> IF k = src[o] THEN keep[k] \ {"port"} ELSE keep[k]]
              /\ src' = [src EXCEPT ![o] = None]
<1> DEFINE kept == [k \in Source |-> IF k = src[o] THEN keep[k] \ {"port"} ELSE keep[k]]
<1>1. CASE src[o] \in valid
  BY <1>1 DEF SourceOf
<1>2. CASE src[o] \notin valid
  <2>1. CASE /\ keep' = kept /\ src' = [src EXCEPT ![o] = None] /\ UNCHANGED <<port, valid>>
    BY <1>2, <2>1
  <2>2. ASSUME NEW s \in Source, kept[s] = {}, keep' = [kept EXCEPT ![s] = {"port", t}],
               src' = [src EXCEPT ![o] = s], port' = [port EXCEPT ![s] = o], valid' = valid \cup {s}
        PROVE  /\ keep[s] \subseteq {"port"} /\ (s # src[o] => keep[s] = {})
               /\ keep' = [k \in Source |-> IF k = s THEN {"port", t} ELSE kept[k]]
    BY <2>2
  <2> QED BY <1>2, <2>1, <2>2 DEF SourceOf
<1> QED BY <1>1, <1>2

\* What __CFMachPortDeallocate finds: nobody is left who could have ended it.
LEMMA Unowned ==
    ASSUME Inv, NEW o \in Obj, Deallocate(o)
    PROVE  /\ st[o] = "invalid" /\ st' = [st EXCEPT ![o] = "deallocating"]
           /\ UNCHANGED <<alive, refs, watch, icall, told, info, src, port, valid, keep, pc,
                          main, checking, loop>>
<1>1. refs[o] = {} /\ st[o] \in {"ready", "invalidating", "invalid"}
  BY DEF Deallocate, Owners
<1>2. st[o] # "ready"
  BY <1>1 DEF Inv, TableOK
<1>3. st[o] # "invalidating"
  <2>1. \A a \in Actor : Ends(a) => pc[a].obj # o
    BY <1>1 DEF Inv, StepsOK, Ends
  <2>2. \A b \in main : b.obj # o
    BY <1>1 DEF Inv, MainOK
  <2> QED BY <2>1, <2>2 DEF Inv, EndsOK
<1> QED BY <1>1, <1>2, <1>3 DEF Deallocate, queues

LEMMA NextTypes == Inv /\ Next => Types'
<1> SUFFICES ASSUME Inv, Next PROVE Types'
  OBVIOUS
<1> USE Names
<1>1. Types /\ \A a \in Actor : pc[a].at \notin {"idle", "add"} => pc[a].obj \in Obj
  BY DEF Inv, StepsOK
<1>2. \A a \in Actor : pc[a] \in Steps
  BY <1>1 DEF Types
<1>3. /\ Idle \in Steps
      /\ \A o \in Obj : /\ At("validate", o) \in Steps /\ At("insert", o) \in Steps
                        /\ At("create", o) \in Steps
  BY DEF Steps, Idle, At
<1>4. ASSUME NEW p \in Port, Die(p) PROVE Types'
  BY <1>1, <1>4 DEF Types, Die, object, client, sources, queues
<1>5. ASSUME NEW t \in Thread, NEW o \in Obj, Find(t, o) PROVE Types'
  <2>1. \/ \E x \in Obj : pc' = [pc EXCEPT ![t] = At("validate", x)]
        \/ pc' = [pc EXCEPT ![t] = At("insert", o)]
    BY <1>5 DEF Find
  <2>2. pc' \in [Actor -> Steps]
    BY <1>1, <1>3, <2>1, Sets
  <2>3. st' = st \/ st' = [st EXCEPT ![o] = "new"]
    BY <1>5 DEF Find
  <2>4. \E x \in Obj : refs' = [refs EXCEPT ![x] = @ \cup {t}] \/ refs' = [refs EXCEPT ![x] = {t}]
    BY <1>5 DEF Find
  <2> QED BY <1>1, <1>5, <2>2, <2>3, <2>4 DEF Types, Find, client, sources, queues
<1>6. ASSUME NEW t \in Thread, Insert(t) PROVE Types'
  <2>1. pc[t].obj \in Obj
    BY <1>1, <1>6 DEF Insert
  <2>2. pc' \in [Actor -> Steps]
    BY <1>1, <1>6, Goes DEF Insert
  <2> QED BY <1>1, <1>6, <2>1, <2>2 DEF Types, Insert, sources, queues
<1>7. ASSUME NEW t \in Thread, Watch(t) PROVE Types'
  <2>1. pc[t].obj \in Obj
    BY <1>1, <1>7 DEF Watch
  <2>2. pc' \in [Actor -> Steps]
    BY <1>1, <1>7, Goes DEF Watch
  <2> QED BY <1>1, <1>7, <2>1, <2>2 DEF Types, Watch, client, sources, queues
<1>8. ASSUME NEW t \in Thread, Validate(t) PROVE Types'
  <2>1. pc' \in [Actor -> Steps]
    BY <1>1, <1>3, <1>8, Sets DEF Validate
  <2> QED BY <1>1, <1>8, <2>1 DEF Types, Validate, client, sources, queues
<1>9. ASSUME NEW t \in Thread, NEW o \in Obj, Release(t, o) PROVE Types'
  BY <1>1, <1>9 DEF Types, Release, client, sources, queues
<1>10. ASSUME NEW t \in Thread, NEW o \in Obj, BeginInvalidate(t, o) PROVE Types'
  <2>1. [at |-> "notify", obj |-> o, src |-> src[o]] \in Steps
    BY <1>1 DEF Types, Steps
  <2>2. pc' \in [Actor -> Steps]
    BY <1>1, <1>10, <2>1, Sets DEF BeginInvalidate
  <2> QED BY <1>1, <1>10, <2>2 DEF Types, BeginInvalidate, client, queues, Cancelled
<1>11. ASSUME NEW o \in Obj, Fire(o) PROVE Types'
  BY <1>1, <1>11 DEF Types, Fire, client, sources
<1>12. CASE Check
  <2>1. st' \in [Obj -> {"unused", "new", "ready", "invalidating", "invalid", "deallocating", "gone"}]
    BY <1>1, <1>12 DEF Types, Check
  <2>2. watch' \in [Obj -> {"none", "live", "fired", "cancelled", "ended"}]
    BY <1>1, <1>12 DEF Types, Check, Cancelled
  <2>3. refs' \in [Obj -> SUBSET (Thread \cup {"table", "main"})]
    BY <1>1, <1>12 DEF Types, Check
  <2>4. src' \in [Obj -> Source \cup {None}]
    BY <1>1, <1>12 DEF Types, Check
  <2>5. main' \subseteq Blocks
    BY <1>1, <1>12 DEF Types, Check, Blocks
  <2>6. checking' \in BOOLEAN /\ UNCHANGED <<alive, client, port, valid, keep, pc, loop>>
    BY <1>12 DEF Check
  <2> QED BY <1>1, <2>1, <2>2, <2>3, <2>4, <2>5, <2>6 DEF Types, client
<1>13. CASE StartBlock
  <2>1. PICK b \in main : pc' = [pc EXCEPT !["main"] = b] /\ main' = main \ {b}
    BY <1>13 DEF StartBlock
  <2>2. b \in Steps
    BY <1>1, <2>1 DEF Types, Blocks, Steps
  <2>3. pc' \in [Actor -> Steps]
    BY <1>1, <2>1, <2>2, Sets
  <2> QED BY <1>1, <1>13, <2>1, <2>3 DEF Types, StartBlock, object, client, sources
<1>14. ASSUME NEW a \in Actor, Notify(a) PROVE Types'
  <2>1. pc' \in [Actor -> Steps]
    BY <1>1, <1>14, Goes DEF Notify
  <2> QED BY <1>1, <1>14, <2>1 DEF Types, Notify, object, sources, queues
<1>15. ASSUME NEW a \in Actor, EndSource(a) PROVE Types'
  <2>1. pc' \in [Actor -> Steps]
    BY <1>1, <1>15, Goes DEF EndSource
  <2> QED BY <1>1, <1>15, <2>1 DEF Types, EndSource, object, client, queues
<1>16. ASSUME NEW a \in Actor, ReleaseInfo(a) PROVE Types'
  <2>1. pc' \in [Actor -> Steps]
    BY <1>1, <1>16, Goes DEF ReleaseInfo
  <2> QED BY <1>1, <1>16, <2>1 DEF Types, ReleaseInfo, object, sources, queues
<1>17. ASSUME NEW a \in Actor, Finish(a) PROVE Types'
  <2>1. pc' \in [Actor -> Steps] /\ pc[a].obj \in Obj
    BY <1>1, <1>3, <1>17, Sets DEF Finish
  <2> QED BY <1>1, <1>17, <2>1 DEF Types, Finish, client, sources, queues
<1>18. ASSUME NEW o \in Obj, Deallocate(o) PROVE Types'
  BY <1>1, <1>18, Unowned DEF Types
<1>19. ASSUME NEW o \in Obj, CancelHandler(o) \/ Reclaim(o) PROVE Types'
  BY <1>1, <1>19 DEF Types, CancelHandler, Reclaim, client, sources, queues
<1>20. ASSUME NEW t \in Thread, NEW o \in Obj, CallLate(t, o) \/ \E on \in BOOLEAN : SetCallBack(t, o, on)
       PROVE  Types'
  BY <1>1, <1>20 DEF Types, CallLate, SetCallBack, object, sources, queues
<1>21. ASSUME NEW t \in Thread, CreateSource(t) PROVE Types'
  <2>1. pc[t].obj \in Obj /\ pc' \in [Actor -> Steps]
    BY <1>1, <1>3, <1>21, Sets DEF CreateSource
  <2>2. UNCHANGED <<alive, object, client, queues>>
    BY <1>21 DEF CreateSource
  <2> DEFINE Typed == /\ src' \in [Obj -> Source \cup {None}]
                      /\ port' \in [Source -> Obj \cup {None}] /\ valid' \subseteq Source
                      /\ keep' \in [Source -> SUBSET (Thread \cup {"port", "mode", "loop"})]
  <2>3. Typed
    <3>1. CASE UNCHANGED sources
      BY <1>1, <3>1 DEF Types, sources
    <3>2. CASE SourceOf(t, pc[t].obj)
      <4> DEFINE o == pc[t].obj
      <4> HIDE DEF o
      <4>1. CASE keep' = [keep EXCEPT ![src[o]] = @ \cup {t}] /\ UNCHANGED <<src, port, valid>>
        <5>1. \A k \in Source : keep'[k] \in SUBSET (Thread \cup {"port", "mode", "loop"})
          BY <1>1, <4>1 DEF Types
        <5>2. keep' = [k \in Source |-> keep'[k]]
          BY <1>1, <4>1 DEF Types
        <5> QED BY <1>1, <4>1, <5>1, <5>2 DEF Types
      <4>2. ASSUME NEW s \in Source, src' = [src EXCEPT ![o] = s], port' = [port EXCEPT ![s] = o],
                   valid' = valid \cup {s},
                   keep' = [k \in Source |-> IF k = s THEN {"port", t}
                                  ELSE IF k = src[o] THEN keep[k] \ {"port"} ELSE keep[k]]
            PROVE  Typed
        BY <1>1, <2>1, <4>2 DEF Types, o
      <4>3. CASE /\ UNCHANGED <<port, valid>> /\ src' = [src EXCEPT ![o] = None]
                 /\ keep' = [k \in Source |-> IF k = src[o] THEN keep[k] \ {"port"} ELSE keep[k]]
        BY <1>1, <4>3 DEF Types
      <4>4. SourceOf(t, o) /\ o \in Obj
        BY <2>1, <3>2 DEF o
      <4> HIDE DEF Typed
      <4> QED BY <1>1, <4>1, <4>2, <4>3, <4>4, Sourced
    <3> QED BY <1>21, <3>1, <3>2 DEF CreateSource
  <2> QED BY <1>1, <2>1, <2>2, <2>3 DEF Types, object, client, queues
<1>22. ASSUME NEW t \in Thread, NEW s \in Source, InvalidateSource(t, s) \/ ReleaseSource(t, s)
       PROVE  Types'
  BY <1>1, <1>22 DEF Types, InvalidateSource, ReleaseSource, object, client, queues
<1>23. ASSUME NEW s \in Source, Arrive(s) PROVE Types'
  BY <1>1, <1>23 DEF Types, Arrive, object, client
<1>26. ASSUME NEW t \in Thread, NEW o \in Obj, BeginCreateSource(t, o) PROVE Types'
  <2>1. pc' \in [Actor -> Steps]
    BY <1>1, <1>3, <1>26, Sets DEF BeginCreateSource
  <2> QED BY <1>1, <1>26, <2>1 DEF Types, BeginCreateSource, object, client, sources, queues
<1>27. ASSUME NEW t \in Thread, NEW s \in Source, BeginAddSource(t, s) PROVE Types'
  <2>1. [at |-> "add", obj |-> None, src |-> s] \in Steps
    BY DEF Steps
  <2>2. pc' \in [Actor -> Steps]
    BY <1>1, <1>27, <2>1, Sets DEF BeginAddSource
  <2> QED BY <1>1, <1>27, <2>2 DEF Types, BeginAddSource, object, client, sources, queues
<1>28. ASSUME NEW t \in Thread, AddSource(t) PROVE Types'
  <2>1. pc' \in [Actor -> Steps]
    BY <1>1, <1>3, <1>28, Sets DEF AddSource
  <2> QED BY <1>1, <1>28, <2>1 DEF Types, AddSource, object, client, queues
<1>29. CASE TestSource
  BY <1>1, <1>29 DEF Types, TestSource, object, client
<1>24. CASE Perform
  <2>1. loop' \in [at : {"wait", "test", "perform", "callout"}, src : Source \cup {None}]
    BY <1>1, <1>24 DEF Types, Perform
  <2>2. info' \in [Obj -> SUBSET {"port", "loop"}]
    BY <1>1, <1>24 DEF Types, Perform
  <2> QED BY <1>1, <1>24, <2>1, <2>2 DEF Types, Perform, object, sources
<1>25. CASE Performed
  BY <1>1, <1>25 DEF Types, Performed, object
<1> QED BY <1>4, <1>5, <1>6, <1>7, <1>8, <1>9, <1>10, <1>11, <1>12, <1>13, <1>14, <1>15, <1>16, <1>17,
           <1>18, <1>19, <1>20, <1>21, <1>22, <1>23, <1>24, <1>25, <1>26, <1>27, <1>28, <1>29
        DEF Next, Call, Create, Step, Dispatch, RunLoop

-----------------------------------------------------------------------------
(* Ownership: calls, the main queue's blocks and the table.                *)

LEMMA NextOwners == Inv /\ Next => StepsOK' /\ MainOK'
<1> SUFFICES ASSUME Inv, Next PROVE StepsOK' /\ MainOK'
  OBVIOUS
<1> USE Names
<1>1. Types /\ StepsOK /\ MainOK /\ TableOK /\ EndsOK
  BY DEF Inv
<1>2. ASSUME UNCHANGED <<pc, refs, main>>, \A o \in Obj : st[o] = "new" => st'[o] = "new"
      PROVE  StepsOK' /\ MainOK'
  BY <1>1, <1>2 DEF StepsOK, MainOK
\* A step of a call: its actor goes on with the same object, which it owns still.
<1>3. ASSUME NEW a \in Actor, NEW step \in {"source", "info", "finish", "watch", "validate"},
             GoTo(a, step), pc[a].at \notin {"idle", "add"}, main' = main,
             \A o \in Obj : refs'[o] \ {"table"} = refs[o] \ {"table"},
             \A o \in Obj \ {pc[a].obj} : st'[o] = st[o] /\ refs'[o] = refs[o]
      PROVE  StepsOK' /\ MainOK'
  <2>1. /\ \A c \in Actor \ {a} : pc'[c] = pc[c]
        /\ pc'[a].at = step /\ pc'[a].obj = pc[a].obj
    BY <1>1, <1>3, Goes
  <2>2. \A c \in Actor : c # "table"
    BY DEF Actor, PortAssumption
  <2>3. ASSUME NEW c \in Actor \ {a}
        PROVE  /\ pc'[c].at = "idle" <=> pc'[c] = Idle
               /\ pc'[c].at \notin {"idle", "add"} => pc'[c].obj \in Obj /\ c \in refs'[pc'[c].obj]
               /\ pc'[c].at = "insert" => st'[pc'[c].obj] = "new" /\ refs'[pc'[c].obj] = {c}
    <3>1. pc[c].at = "insert" => pc[c].obj # pc[a].obj
      BY <1>1, <1>3 DEF StepsOK
    <3> QED BY <1>1, <1>3, <2>1, <2>2, <3>1 DEF StepsOK
  <2>4. pc'[a].obj \in Obj /\ a \in refs'[pc'[a].obj]
    BY <1>1, <1>3, <2>1, <2>2 DEF StepsOK
  <2>5. StepsOK'
    BY <2>1, <2>3, <2>4 DEF StepsOK, Idle
  <2>6. \A o \in Obj : "main" \in refs'[o] <=> "main" \in refs[o]
    BY <1>3
  <2>7. pc'["main"].obj = pc["main"].obj
    BY <2>1
  <2> QED BY <1>1, <1>3, <2>5, <2>6, <2>7 DEF MainOK
\* A thread takes up or drops one object, and starts or ends its call.
<1>4. ASSUME NEW t \in Thread, main' = main,
             NEW r \in Steps, pc' = [pc EXCEPT ![t] = r],
             r.at = "idle" <=> r = Idle,
             r.at \notin {"idle", "add"} => r.obj \in Obj /\ t \in refs'[r.obj],
             r.at = "insert" => st'[r.obj] = "new" /\ refs'[r.obj] = {t},
             \A o \in Obj : refs'[o] \ {t, "table"} = refs[o] \ {t, "table"},
             \A o \in Obj : st[o] = "new" /\ t \notin refs[o] => st'[o] = "new" /\ refs'[o] = refs[o]
      PROVE  StepsOK' /\ MainOK'
  <2>1. pc'[t] = r /\ \A c \in Actor \ {t} : pc'[c] = pc[c]
    BY <1>1, <1>4, Sets
  <2>2. \A c \in Actor : c # "table"
    BY DEF Actor, PortAssumption
  <2>3. ASSUME NEW c \in Actor \ {t}
        PROVE  /\ pc'[c].at = "idle" <=> pc'[c] = Idle
               /\ pc'[c].at \notin {"idle", "add"} => pc'[c].obj \in Obj /\ c \in refs'[pc'[c].obj]
               /\ pc'[c].at = "insert" => st'[pc'[c].obj] = "new" /\ refs'[pc'[c].obj] = {c}
    BY <1>1, <1>4, <2>1, <2>2 DEF StepsOK
  <2>4. StepsOK'
    BY <1>4, <2>1, <2>3 DEF StepsOK
  <2>5. \A o \in Obj : "main" \in refs'[o] <=> "main" \in refs[o]
    BY <1>4
  <2> QED BY <1>1, <1>4, <2>1, <2>4, <2>5 DEF MainOK
<1>5. \A o \in Obj : st[o] = "new" => "table" \notin refs[o]
  BY <1>1 DEF TableOK
<1>6. ASSUME NEW t \in Thread, NEW o \in Obj, Find(t, o) PROVE StepsOK' /\ MainOK'
  <2>1. CASE \E x \in Obj : /\ InTable(x) /\ refs' = [refs EXCEPT ![x] = @ \cup {t}] /\ st' = st
                            /\ pc' = [pc EXCEPT ![t] = At("validate", x)]
    <3>1. PICK x \in Obj : /\ InTable(x) /\ refs' = [refs EXCEPT ![x] = @ \cup {t}] /\ st' = st
                           /\ pc' = [pc EXCEPT ![t] = At("validate", x)]
      BY <2>1
    <3>2. \A y \in Obj : refs'[y] = IF y = x THEN refs[x] \cup {t} ELSE refs[y]
      BY <1>1, <3>1 DEF Types
    <3>3. st[x] # "new"
      BY <1>5, <3>1 DEF InTable
    <3>4. PICK r \in Steps : r = At("validate", x)
      BY DEF At, Steps
    <3>5. r.at = "validate" /\ r.obj = x /\ r # Idle
      BY <3>4 DEF At, Idle
    <3>6. main' = main /\ pc' = [pc EXCEPT ![t] = r]
      BY <1>6, <3>1, <3>4 DEF Find, queues
    <3>7. \A y \in Obj : refs'[y] \ {t, "table"} = refs[y] \ {t, "table"}
      BY <3>2
    <3>8. t \in refs'[x]
      BY <3>2
    <3>9. \A y \in Obj : st[y] = "new" /\ t \notin refs[y] => st'[y] = "new" /\ refs'[y] = refs[y]
      BY <3>1, <3>2, <3>3
    <3> QED BY ONLY <1>4, <3>5, <3>6, <3>7, <3>8, <3>9
  <2>2. CASE /\ st[o] = "unused" /\ st' = [st EXCEPT ![o] = "new"]
             /\ refs' = [refs EXCEPT ![o] = {t}] /\ pc' = [pc EXCEPT ![t] = At("insert", o)]
    <3>1. \A y \in Obj : /\ refs'[y] = IF y = o THEN {t} ELSE refs[y]
                         /\ st'[y] = IF y = o THEN "new" ELSE st[y]
      BY <1>1, <2>2 DEF Types
    <3>2. PICK r \in Steps : r = At("insert", o)
      BY DEF At, Steps
    <3>3. r.at = "insert" /\ r.obj = o /\ r # Idle
      BY <3>2 DEF At, Idle
    <3>4. refs[o] = {}
      BY <1>1, <2>2 DEF TableOK
    <3>5. main' = main /\ pc' = [pc EXCEPT ![t] = r]
      BY <1>6, <2>2, <3>2 DEF Find, queues
    <3>6. \A y \in Obj : refs'[y] \ {t, "table"} = refs[y] \ {t, "table"}
      BY <3>1, <3>4
    <3>7. \A y \in Obj : st[y] = "new" /\ t \notin refs[y] => st'[y] = "new" /\ refs'[y] = refs[y]
      BY <2>2, <3>1
    <3>8. st'[o] = "new" /\ refs'[o] = {t}
      BY <3>1
    <3> QED BY ONLY <1>4, <3>3, <3>5, <3>6, <3>7, <3>8
  <2> QED BY <1>6, <2>1, <2>2 DEF Find

<1>7. ASSUME NEW t \in Thread, Insert(t) PROVE StepsOK' /\ MainOK'
  <2>1. /\ pc[t].at = "insert" /\ pc[t].obj \in Obj /\ main' = main
        /\ st' = [st EXCEPT ![pc[t].obj] = "ready"]
        /\ refs' = [refs EXCEPT ![pc[t].obj] = @ \cup {"table"}]
    BY <1>1, <1>7 DEF Insert, StepsOK, queues
  <2>2. \E step \in {"watch", "validate"} : GoTo(t, step)
    BY <1>7 DEF Insert
  <2>3. /\ \A o \in Obj : refs'[o] \ {"table"} = refs[o] \ {"table"}
        /\ \A o \in Obj \ {pc[t].obj} : st'[o] = st[o] /\ refs'[o] = refs[o]
    BY <1>1, <2>1 DEF Types
  <2> QED BY <1>3, <2>1, <2>2, <2>3
<1>8. ASSUME NEW t \in Thread, Watch(t) PROVE StepsOK' /\ MainOK'
  BY <1>3, <1>8 DEF Watch, queues
<1>9. ASSUME NEW t \in Thread, Validate(t) PROVE StepsOK' /\ MainOK'
  <2>1. pc[t].obj \in Obj /\ main' = main /\ st' = st /\ pc' = [pc EXCEPT ![t] = Idle]
    BY <1>1, <1>9 DEF Validate, StepsOK, queues
  <2>2. refs' = refs \/ refs' = [refs EXCEPT ![pc[t].obj] = @ \ {t}]
    BY <1>9 DEF Validate
  <2>3. /\ \A o \in Obj : refs'[o] \ {t, "table"} = refs[o] \ {t, "table"}
        /\ \A o \in Obj : t \notin refs[o] => refs'[o] = refs[o]
    <3>1. \A o \in Obj : refs'[o] = refs[o] \/ refs'[o] = refs[o] \ {t}
      BY <1>1, <2>1, <2>2 DEF Types
    <3> QED BY <3>1
  <2>4. Idle \in Steps /\ Idle.at = "idle"
    BY DEF Idle, Steps
  <2> QED BY <1>4, <2>1, <2>3, <2>4
<1>10. ASSUME NEW t \in Thread, NEW o \in Obj, Release(t, o) PROVE StepsOK' /\ MainOK'
  <2>1. main' = main /\ st' = st /\ refs' = [refs EXCEPT ![o] = @ \ {t}]
    BY <1>10 DEF Release, queues
  <2>2. pc' = [pc EXCEPT ![t] = Idle]
    BY <1>1, <1>10 DEF Release, Free, Types
  <2>3. /\ \A x \in Obj : refs'[x] \ {t, "table"} = refs[x] \ {t, "table"}
        /\ \A x \in Obj : t \notin refs[x] => refs'[x] = refs[x]
    BY <1>1, <2>1 DEF Types
  <2>4. Idle \in Steps /\ Idle.at = "idle"
    BY DEF Idle, Steps
  <2> QED BY <1>4, <2>1, <2>2, <2>3, <2>4
<1>11. ASSUME NEW t \in Thread, NEW o \in Obj, BeginInvalidate(t, o) PROVE StepsOK' /\ MainOK'
  <2>1. /\ main' = main /\ t \in refs[o] /\ st[o] = "ready"
        /\ st' = [st EXCEPT ![o] = "invalidating"]
        /\ refs' = [refs EXCEPT ![o] = @ \ {"table"}]
        /\ pc' = [pc EXCEPT ![t] = [at |-> "notify", obj |-> o, src |-> src[o]]]
    BY <1>11 DEF BeginInvalidate, queues
  <2>2. /\ \A x \in Obj : refs'[x] = IF x = o THEN refs[x] \ {"table"} ELSE refs[x]
        /\ \A x \in Obj \ {o} : st'[x] = st[x]
    BY <1>1, <2>1 DEF Types
  <2>3. PICK r \in Steps : r = [at |-> "notify", obj |-> o, src |-> src[o]]
    BY <1>1 DEF Types, Steps
  <2>4. r.at = "notify" /\ r.obj = o /\ r # Idle
    BY <2>3 DEF Idle
  <2>5. pc' = [pc EXCEPT ![t] = r] /\ t \in refs'[o]
    BY <2>1, <2>2, <2>3
  <2>6. \A x \in Obj : refs'[x] \ {t, "table"} = refs[x] \ {t, "table"}
    BY <2>2
  <2>7. \A x \in Obj : st[x] = "new" /\ t \notin refs[x] => st'[x] = "new" /\ refs'[x] = refs[x]
    BY <2>1, <2>2
  <2> QED BY ONLY <1>4, <2>1, <2>4, <2>5, <2>6, <2>7
<1>12. CASE Check
  <2> DEFINE swept == {o \in Obj : Unwanted(o)}
             ready == {o \in swept : st[o] = "ready"}
  <2>1. /\ pc' = pc
        /\ main' = main \cup {[at |-> "notify", obj |-> o, src |-> src[o]] : o \in ready}
        /\ \A o \in Obj : refs'[o] = IF o \in ready THEN (refs[o] \ {"table"}) \cup {"main"}
                                     ELSE IF o \in swept THEN refs[o] \ {"table"} ELSE refs[o]
        /\ \A o \in Obj : st'[o] = IF o \in ready THEN "invalidating" ELSE st[o]
    BY <1>12 DEF Check
  <2>2. \A a \in Actor : a # "table"
    BY DEF Actor, PortAssumption
  <2>3. StepsOK'
    <3>1. \A o \in Obj : st[o] = "new" => st'[o] = "new" /\ refs'[o] = refs[o]
      BY <1>5, <2>1 DEF Unwanted, InTable
    <3>2. \A o \in Obj, a \in Actor : a \in refs[o] => a \in refs'[o]
      BY <2>1, <2>2
    <3> QED BY <1>1, <2>1, <3>1, <3>2 DEF StepsOK
  <2>4. ASSUME NEW o \in Obj PROVE (\E b \in main' : b.obj = o) <=> o \in ready \/ \E b \in main : b.obj = o
    <3>1. ASSUME o \in ready PROVE \E b \in main' : b.obj = o
      <4>1. [at |-> "notify", obj |-> o, src |-> src[o]] \in main'
        BY <2>1, <3>1
      <4> QED BY <4>1
    <3>2. ASSUME NEW b \in main', b.obj = o PROVE o \in ready \/ b \in main
      <4>1. CASE b \notin main
        <5>1. PICK x \in ready : b = [at |-> "notify", obj |-> x, src |-> src[x]]
          BY <2>1, <4>1
        <5>2. b.obj = x
          BY <5>1
        <5> QED BY <3>2, <5>1, <5>2
      <4> QED BY <4>1
    <3>3. main \subseteq main'
      BY <2>1
    <3> HIDE DEF ready
    <3> QED BY <3>1, <3>2, <3>3
  <2>5. \A o \in Obj : "main" \in refs'[o] <=> o \in ready \/ "main" \in refs[o]
    BY <2>1
  <2> HIDE DEF ready
  <2>6. MainOK'
    BY <1>1, <2>1, <2>4, <2>5 DEF MainOK
  <2> QED BY <2>3, <2>6
<1>13. CASE StartBlock
  <2>1. PICK b \in main : pc' = [pc EXCEPT !["main"] = b] /\ main' = main \ {b}
    BY <1>13 DEF StartBlock
  <2>2. UNCHANGED <<st, refs>> /\ pc["main"].obj = None
    BY <1>13 DEF StartBlock, object, Free, Idle
  <2>3. b \in Steps /\ b.at = "notify" /\ b.obj \in Obj
    BY <1>1, <2>1 DEF Types, Blocks, Steps
  <2>4. pc'["main"] = b /\ \A c \in Actor \ {"main"} : pc'[c] = pc[c]
    BY <1>1, <2>1, <2>3, Sets
  <2>5. "main" \in refs[b.obj]
    BY <1>1, <2>1, <2>3 DEF MainOK
  <2>6. StepsOK'
    BY <1>1, <2>2, <2>3, <2>4, <2>5 DEF StepsOK, Idle
  <2>7. MainOK'
    BY <1>1, <2>1, <2>2, <2>3, <2>4 DEF MainOK
  <2> QED BY <2>6, <2>7
<1>14. ASSUME NEW a \in Actor, Notify(a) \/ EndSource(a) \/ ReleaseInfo(a)
       PROVE  StepsOK' /\ MainOK'
  BY <1>3, <1>14 DEF Notify, EndSource, ReleaseInfo, object, queues, AtInfo, AtSource
<1>15. ASSUME NEW a \in Actor, Finish(a) PROVE StepsOK' /\ MainOK'
  <2>1. /\ pc[a].at = "finish" /\ pc[a].obj \in Obj /\ st[pc[a].obj] = "invalidating" /\ main' = main
        /\ pc' = [pc EXCEPT ![a] = Idle] /\ st' = [st EXCEPT ![pc[a].obj] = "invalid"]
        /\ a # "main" => \A o \in Obj : refs'[o] = refs[o]
        /\ a = "main" => \A o \in Obj \ {pc[a].obj} : refs'[o] = refs[o]
        /\ a = "main" => refs'[pc[a].obj] = refs[pc[a].obj] \ {"main"}
    BY <1>1, <1>15 DEF Types, Finish, StepsOK, EndsOK, Ends, queues
  <2>2. Idle \in Steps /\ Idle.at = "idle" /\ Idle.obj = None
    BY DEF Idle, Steps
  <2>3. \A o \in Obj \ {pc[a].obj} : st'[o] = st[o]
    BY <1>1, <2>1 DEF Types
  <2>4. CASE a # "main"
    <3>1. a \in Thread
      BY <2>4 DEF Actor
    <3> QED BY <1>4, <2>1, <2>2, <2>3, <2>4, <3>1
  <2>5. CASE a = "main"
    <3>1. pc'[a] = Idle /\ \A c \in Actor \ {a} : pc'[c] = pc[c]
      BY <1>1, <2>1, <2>2, Sets
    <3>2. StepsOK'
      BY <1>1, <2>1, <2>2, <2>3, <2>5, <3>1 DEF StepsOK
    <3>3. \A b \in main : b.obj # pc[a].obj
      BY <1>1, <2>1 DEF EndsOK, Ends
    <3>4. MainOK'
      BY <1>1, <2>1, <2>2, <2>5, <3>1, <3>3 DEF MainOK
    <3> QED BY <3>2, <3>4
  <2> QED BY <2>4, <2>5
<1>16. ASSUME NEW o \in Obj, Deallocate(o) PROVE StepsOK' /\ MainOK'
  BY <1>1, <1>2, <1>16, Unowned DEF Types
<1>17. ASSUME NEW o \in Obj, Fire(o) \/ CancelHandler(o) \/ Reclaim(o) PROVE StepsOK' /\ MainOK'
  BY <1>1, <1>2, <1>17 DEF Types, Fire, CancelHandler, Reclaim, queues
<1>18. ASSUME NEW t \in Thread, NEW o \in Obj,
              CallLate(t, o) \/ \E on \in BOOLEAN : SetCallBack(t, o, on)
       PROVE  StepsOK' /\ MainOK'
  BY <1>2, <1>18 DEF CallLate, SetCallBack, object, queues
<1>19. ASSUME NEW t \in Thread, NEW s \in Source, InvalidateSource(t, s) \/ ReleaseSource(t, s)
       PROVE  StepsOK' /\ MainOK'
  BY <1>2, <1>19 DEF InvalidateSource, ReleaseSource, object, queues
<1>20. ASSUME \/ \E p \in Port : Die(p)
              \/ TestSource \/ Perform \/ Performed \/ \E s \in Source : Arrive(s)
       PROVE  StepsOK' /\ MainOK'
  BY <1>2, <1>20 DEF Die, TestSource, Perform, Performed, Arrive, object, queues
\* A call about a source leaves the objects to their owners.
<1>21. ASSUME NEW t \in Thread, NEW r \in Steps, pc' = [pc EXCEPT ![t] = r],
              r.at = "idle" <=> r = Idle, r.at # "insert",
              r.at \notin {"idle", "add"} => r.obj \in Obj /\ t \in refs[r.obj],
              UNCHANGED <<st, refs, main>>
       PROVE  StepsOK' /\ MainOK'
  BY <1>4, <1>21
<1>22. ASSUME NEW t \in Thread, NEW o \in Obj, BeginCreateSource(t, o) PROVE StepsOK' /\ MainOK'
  <2>1. PICK r \in Steps : r = At("create", o)
    BY DEF At, Steps
  <2>2. r.at = "create" /\ r.obj = o /\ r # Idle
    BY <2>1 DEF At, Idle
  <2>3. UNCHANGED <<st, refs, main>> /\ pc' = [pc EXCEPT ![t] = r] /\ t \in refs[o]
    BY <1>22, <2>1 DEF BeginCreateSource, object, queues
  <2> QED BY <1>21, <2>2, <2>3
<1>23. ASSUME NEW t \in Thread, NEW s \in Source, BeginAddSource(t, s) PROVE StepsOK' /\ MainOK'
  <2>1. PICK r \in Steps : r = [at |-> "add", obj |-> None, src |-> s]
    BY DEF Steps
  <2>2. r.at = "add" /\ r # Idle
    BY <2>1 DEF Idle
  <2>3. UNCHANGED <<st, refs, main>> /\ pc' = [pc EXCEPT ![t] = r]
    BY <1>23, <2>1 DEF BeginAddSource, object, queues
  <2> QED BY <1>21, <2>2, <2>3
<1>24. ASSUME NEW t \in Thread, CreateSource(t) \/ AddSource(t) PROVE StepsOK' /\ MainOK'
  <2>1. Idle \in Steps /\ Idle.at = "idle"
    BY DEF Idle, Steps
  <2>2. UNCHANGED <<st, refs, main>> /\ pc' = [pc EXCEPT ![t] = Idle]
    BY <1>24 DEF CreateSource, AddSource, object, queues
  <2> QED BY <1>21, <2>1, <2>2
<1> QED BY <1>6, <1>7, <1>8, <1>9, <1>10, <1>11, <1>12, <1>13, <1>14, <1>15, <1>16, <1>17, <1>18, <1>19, <1>20,
           <1>22, <1>23, <1>24
        DEF Next, Call, Create, Step, Dispatch, RunLoop

LEMMA NextTable == Inv /\ Next => TableOK'
<1> SUFFICES ASSUME Inv, Next PROVE TableOK'
  OBVIOUS
<1> USE Names
<1>1. Types /\ StepsOK /\ TableOK /\ EndsOK
  BY DEF Inv
<1>2. ASSUME UNCHANGED <<st, refs, info>> PROVE TableOK'
  BY <1>1, <1>2 DEF TableOK
\* What a thread takes or gives back is not the table's.
<1>3. ASSUME NEW t \in Thread, NEW x \in Obj, UNCHANGED <<st, info>>,
             \/ refs' = refs
             \/ refs' = [refs EXCEPT ![x] = @ \ {t}]
             \/ st[x] = "ready" /\ refs' = [refs EXCEPT ![x] = @ \cup {t}]
      PROVE  TableOK'
  <2>1. \A o \in Obj : /\ "table" \in refs'[o] <=> "table" \in refs[o]
                       /\ st[o] = "unused" => refs'[o] = {}
    BY <1>1, <1>3 DEF Types, TableOK
  <2> QED BY <1>1, <1>3, <2>1 DEF TableOK
\* An object that is not ready changes its state.
<1>4. ASSUME NEW o \in Obj, NEW state \in {"new", "invalid", "deallocating", "gone"}, info' = info,
             st[o] # "ready", st' = [st EXCEPT ![o] = state],
             \A x \in Obj \ {o} : refs'[x] = refs[x],
             "table" \notin refs'[o]
      PROVE  TableOK'
  <2>1. st'[o] = state /\ \A x \in Obj \ {o} : st'[x] = st[x]
    BY <1>1, <1>4 DEF Types
  <2> QED BY <1>1, <1>4, <2>1 DEF TableOK
<1>5. ASSUME NEW t \in Thread, NEW o \in Obj, Find(t, o) PROVE TableOK'
  <2>1. info' = info
    BY <1>5 DEF Find, client
  <2>2. CASE \E x \in Obj : InTable(x) /\ refs' = [refs EXCEPT ![x] = @ \cup {t}] /\ st' = st
    BY <1>1, <1>3, <2>1, <2>2 DEF TableOK, InTable
  <2>3. CASE st[o] = "unused" /\ st' = [st EXCEPT ![o] = "new"] /\ refs' = [refs EXCEPT ![o] = {t}]
    <3>1. "table" \notin refs'[o] /\ \A x \in Obj \ {o} : refs'[x] = refs[x]
      BY <1>1, <2>3 DEF Types
    <3> QED BY <1>4, <2>1, <2>3, <3>1
  <2> QED BY <1>5, <2>2, <2>3 DEF Find
<1>6. ASSUME NEW t \in Thread, Insert(t) PROVE TableOK'
  <2>1. pc[t].obj \in Obj
    BY <1>1, <1>6 DEF StepsOK, Insert
  <2>2. \A o \in Obj \ {pc[t].obj} : st'[o] = st[o] /\ refs'[o] = refs[o] /\ info'[o] = info[o]
    BY <1>1, <1>6 DEF Types, Insert
  <2>3. st'[pc[t].obj] = "ready" /\ "table" \in refs'[pc[t].obj] /\ "port" \in info'[pc[t].obj]
    BY <1>1, <1>6, <2>1 DEF Types, Insert
  <2> QED BY <1>1, <2>2, <2>3 DEF TableOK
<1>7. ASSUME NEW t \in Thread, Validate(t) PROVE TableOK'
  <2>1. pc[t].obj \in Obj /\ UNCHANGED <<st, info>>
    BY <1>1, <1>7 DEF StepsOK, Validate, client
  <2>2. refs' = refs \/ refs' = [refs EXCEPT ![pc[t].obj] = @ \ {t}]
    BY <1>7 DEF Validate
  <2> QED BY <1>3, <2>1, <2>2
<1>8. ASSUME NEW t \in Thread, NEW o \in Obj, Release(t, o) PROVE TableOK'
  BY <1>3, <1>8 DEF Release, client
<1>9. ASSUME NEW t \in Thread, NEW o \in Obj, BeginInvalidate(t, o) PROVE TableOK'
  <2>1. \A x \in Obj \ {o} : st'[x] = st[x] /\ refs'[x] = refs[x]
    BY <1>1, <1>9 DEF Types, BeginInvalidate
  <2>2. st'[o] = "invalidating" /\ "table" \notin refs'[o] /\ info' = info
    BY <1>1, <1>9 DEF Types, BeginInvalidate, client
  <2> QED BY <1>1, <2>1, <2>2 DEF TableOK
<1>10. CASE Check
  <2>1. \A o \in Obj :
           /\ st'[o] = IF Unwanted(o) /\ st[o] = "ready" THEN "invalidating" ELSE st[o]
           /\ refs'[o] = IF Unwanted(o) /\ st[o] = "ready" THEN (refs[o] \ {"table"}) \cup {"main"}
                         ELSE IF Unwanted(o) THEN refs[o] \ {"table"} ELSE refs[o]
    BY <1>10 DEF Check
  <2>2. info' = info
    BY <1>10 DEF Check, client
  <2>3. \A o \in Obj : Unwanted(o) => st[o] = "ready"
    BY <1>1 DEF Unwanted, InTable, TableOK
  <2>4. ASSUME NEW o \in Obj, Unwanted(o) PROVE st'[o] = "invalidating" /\ "table" \notin refs'[o]
    <3>1. st'[o] = "invalidating" /\ refs'[o] = (refs[o] \ {"table"}) \cup {"main"}
      BY <2>1, <2>3, <2>4
    <3> QED BY <3>1
  <2>5. \A o \in Obj : ~Unwanted(o) => st'[o] = st[o] /\ refs'[o] = refs[o]
    BY <2>1
  <2> QED BY <1>1, <2>2, <2>4, <2>5 DEF TableOK
<1>11. ASSUME NEW a \in Actor, Notify(a) \/ EndSource(a) PROVE TableOK'
  BY <1>2, <1>11 DEF Notify, EndSource, object, client
<1>12. ASSUME NEW a \in Actor, ReleaseInfo(a) PROVE TableOK'
  <2>1. pc[a].obj \in Obj /\ st[pc[a].obj] # "ready"
    BY <1>1, <1>12 DEF ReleaseInfo, AtInfo, AtSource, StepsOK, EndsOK, Ends
  <2>2. UNCHANGED <<st, refs>> /\ \A o \in Obj \ {pc[a].obj} : info'[o] = info[o]
    BY <1>1, <1>12 DEF Types, ReleaseInfo, object
  <2> QED BY <1>1, <2>1, <2>2 DEF TableOK
<1>13. ASSUME NEW a \in Actor, Finish(a) PROVE TableOK'
  <2>1. pc[a].obj \in Obj /\ st[pc[a].obj] = "invalidating" /\ info' = info
        /\ st' = [st EXCEPT ![pc[a].obj] = "invalid"]
    BY <1>1, <1>13 DEF Finish, StepsOK, EndsOK, Ends, client
  <2>2. /\ \A o \in Obj \ {pc[a].obj} : refs'[o] = refs[o]
        /\ refs'[pc[a].obj] \subseteq refs[pc[a].obj]
    BY <1>1, <1>13, <2>1 DEF Types, Finish
  <2>3. "table" \notin refs'[pc[a].obj]
    BY <1>1, <2>1, <2>2 DEF TableOK
  <2> QED BY <1>4, <2>1, <2>2, <2>3
<1>14. ASSUME NEW o \in Obj, Deallocate(o) PROVE TableOK'
  <2>1. "table" \notin refs[o]
    BY <1>14 DEF Deallocate, Owners
  <2> QED BY <1>4, <1>14, <2>1, Unowned
<1>15. ASSUME NEW o \in Obj, Reclaim(o) PROVE TableOK'
  <2>1. "table" \notin refs[o] /\ st[o] # "ready"
    BY <1>1, <1>15 DEF Reclaim, TableOK
  <2> QED BY <1>4, <1>15, <2>1 DEF Reclaim, client
<1>16. ASSUME NEW o \in Obj, Fire(o) \/ CancelHandler(o) PROVE TableOK'
  BY <1>2, <1>16 DEF Fire, CancelHandler, client
<1>17. ASSUME NEW t \in Thread, NEW o \in Obj,
              CallLate(t, o) \/ BeginCreateSource(t, o) \/ \E on \in BOOLEAN : SetCallBack(t, o, on)
       PROVE  TableOK'
  BY <1>2, <1>17 DEF CallLate, BeginCreateSource, SetCallBack, object, client
<1>18. ASSUME NEW t \in Thread, NEW s \in Source,
              BeginAddSource(t, s) \/ InvalidateSource(t, s) \/ ReleaseSource(t, s)
       PROVE  TableOK'
  BY <1>2, <1>18 DEF BeginAddSource, InvalidateSource, ReleaseSource, object, client
<1>19. CASE Perform \/ Performed
  <2>1. UNCHANGED <<st, refs>> /\ \A o \in Obj : "port" \in info[o] => "port" \in info'[o]
    BY <1>1, <1>19 DEF Types, Perform, Performed, object
  <2> QED BY <1>1, <2>1 DEF TableOK
<1>20. ASSUME (\E p \in Port : Die(p)) \/ (\E t \in Thread : Watch(t) \/ CreateSource(t) \/ AddSource(t))
              \/ StartBlock \/ TestSource \/ \E s \in Source : Arrive(s)
       PROVE  TableOK'
  BY <1>2, <1>20 DEF Die, Watch, CreateSource, AddSource, StartBlock, TestSource, Arrive, object, client
<1> QED BY <1>5, <1>6, <1>7, <1>8, <1>9, <1>10, <1>11, <1>12, <1>13, <1>14, <1>15, <1>16, <1>17, <1>18, <1>19,
           <1>20
        DEF Next, Call, Create, Step, Dispatch, RunLoop

-----------------------------------------------------------------------------
(* The one that ends an object going invalid.                              *)

LEMMA NextEnds == Inv /\ Next => EndsOK'
<1> SUFFICES ASSUME Inv, Next PROVE EndsOK'
  OBVIOUS
<1> USE Names
<1>1. Types /\ StepsOK /\ MainOK /\ TableOK /\ EndsOK
  BY DEF Inv
<1>2. ASSUME main' = main, \A o \in Obj : st'[o] = "invalidating" <=> st[o] = "invalidating",
             \A a \in Actor : /\ Ends(a)' <=> Ends(a)
                              /\ Ends(a) => pc'[a].obj = pc[a].obj
      PROVE  EndsOK'
  <2>1. \A a \in Actor : Ends(a) => pc[a].obj \in Obj
    BY <1>1 DEF StepsOK, Ends
  <2>2. \A b \in main : b.obj \in Obj
    BY <1>1 DEF Types, Blocks
  <2> QED BY <1>1, <1>2, <2>1, <2>2 DEF EndsOK
<1>3. \A a \in Actor : pc[a].at = "idle" => ~Ends(a)
  BY DEF Ends
\* A thread's call that has no object to end.
<1>4. ASSUME NEW t \in Thread, NEW r \in Steps, r.at \in {"idle", "insert", "watch", "validate", "create", "add"},
             ~Ends(t), main' = main, pc' = [pc EXCEPT ![t] = r],
             \A o \in Obj : st'[o] = "invalidating" <=> st[o] = "invalidating"
      PROVE  EndsOK'
  <2>1. pc'[t] = r /\ \A c \in Actor \ {t} : pc'[c] = pc[c]
    BY <1>1, <1>4, Sets
  <2> QED BY <1>2, <1>4, <2>1 DEF Ends
<1>5. ASSUME NEW t \in Thread, NEW o \in Obj, Find(t, o) PROVE EndsOK'
  <2>1. ~Ends(t) /\ main' = main
    BY <1>3, <1>5 DEF Find, Free, Idle, queues
  <2>2. \A x \in Obj : st'[x] = "invalidating" <=> st[x] = "invalidating"
    BY <1>1, <1>5 DEF Types, Find
  <2>3. PICK x \in Obj : pc' = [pc EXCEPT ![t] = At("validate", x)] \/ pc' = [pc EXCEPT ![t] = At("insert", x)]
    BY <1>5 DEF Find
  <2>4. PICK r \in Steps : pc' = [pc EXCEPT ![t] = r] /\ r.at \in {"insert", "validate"}
    <3>1. At("validate", x) \in Steps /\ At("insert", x) \in Steps
      BY DEF At, Steps
    <3>2. At("validate", x).at = "validate" /\ At("insert", x).at = "insert"
      BY DEF At
    <3> QED BY <2>3, <3>1, <3>2
  <2> QED BY <1>4, <2>1, <2>2, <2>4
<1>6. ASSUME NEW a \in Actor, NEW step \in {"source", "info", "finish", "watch", "validate"}, GoTo(a, step),
             Ends(a) <=> step \in {"source", "info", "finish"}, main' = main,
             \A o \in Obj : st'[o] = "invalidating" <=> st[o] = "invalidating"
      PROVE  EndsOK'
  <2>1. /\ \A c \in Actor \ {a} : pc'[c] = pc[c]
        /\ pc'[a].at = step /\ pc'[a].obj = pc[a].obj
    BY <1>1, <1>6, Goes
  <2> QED BY <1>2, <1>6, <2>1 DEF Ends
<1>7. ASSUME NEW t \in Thread, Insert(t) PROVE EndsOK'
  <2>1. pc[t].obj \in Obj /\ st[pc[t].obj] = "new" /\ ~Ends(t) /\ main' = main
    BY <1>1, <1>7 DEF StepsOK, Insert, Ends, queues
  <2>2. \A x \in Obj : st'[x] = "invalidating" <=> st[x] = "invalidating"
    BY <1>1, <1>7, <2>1 DEF Types, Insert
  <2>3. \E step \in {"watch", "validate"} : GoTo(t, step)
    BY <1>7 DEF Insert
  <2> QED BY <1>6, <2>1, <2>2, <2>3
<1>8. ASSUME NEW t \in Thread, Watch(t) PROVE EndsOK'
  BY <1>6, <1>8 DEF Watch, Ends, queues
<1>9. ASSUME NEW t \in Thread, Validate(t) PROVE EndsOK'
  <2>1. Idle \in Steps /\ Idle.at = "idle"
    BY DEF Idle, Steps
  <2> QED BY <1>4, <1>9, <2>1 DEF Validate, Ends, queues
<1>10. ASSUME NEW t \in Thread, NEW o \in Obj, BeginInvalidate(t, o) PROVE EndsOK'
  <2>1. PICK r \in Steps : r = [at |-> "notify", obj |-> o, src |-> src[o]]
    BY <1>1 DEF Types, Steps
  <2>2. pc' = [pc EXCEPT ![t] = r] /\ r.at = "notify" /\ r.obj = o
    BY <1>10, <2>1 DEF BeginInvalidate
  <2>3. pc'[t] = r /\ \A c \in Actor \ {t} : pc'[c] = pc[c]
    BY <1>1, <2>2, Sets
  <2>4. main' = main /\ st[o] = "ready" /\ ~Ends(t)
    BY <1>3, <1>10 DEF BeginInvalidate, queues, Free, Idle
  <2>5. st'[o] = "invalidating" /\ \A x \in Obj \ {o} : st'[x] = st[x]
    BY <1>1, <1>10 DEF Types, BeginInvalidate
  <2>6. /\ \A c \in Actor : Ends(c) => pc[c].obj \in Obj \ {o}
        /\ \A b \in main : b.obj \in Obj \ {o}
    BY <1>1, <2>4 DEF Types, StepsOK, EndsOK, Ends, Blocks
  <2>7. /\ Ends(t)' /\ pc'[t].obj = o
        /\ \A c \in Actor \ {t} : /\ Ends(c)' <=> Ends(c)
                                  /\ pc'[c].obj = pc[c].obj
    BY <2>2, <2>3 DEF Ends
  <2> QED BY <1>1, <2>4, <2>5, <2>6, <2>7 DEF EndsOK
<1>11. CASE Check
  <2> DEFINE ready == {o \in Obj : Unwanted(o) /\ st[o] = "ready"}
             block(o) == [at |-> "notify", obj |-> o, src |-> src[o]]
  <2>1. pc' = pc /\ main' = main \cup {block(o) : o \in ready}
    BY <1>11 DEF Check
  <2>2. \A o \in Obj : st'[o] = IF o \in ready THEN "invalidating" ELSE st[o]
    BY <1>11 DEF Check
  <2>3. /\ \A c \in Actor : Ends(c) => pc[c].obj \in Obj \ ready
        /\ \A b \in main : b.obj \in Obj \ ready
    BY <1>1 DEF Types, StepsOK, EndsOK, Ends, Blocks
  <2>4. \A o \in ready : block(o) \in main' /\ block(o).obj = o
    BY <2>1
  <2>5. \A b \in main' : b \in main \/ (b.obj \in ready /\ b = block(b.obj))
    BY <2>1
  <2>6. \A c \in Actor : Ends(c)' <=> Ends(c)
    BY <2>1 DEF Ends
  <2>7. main \subseteq main' /\ ready \subseteq Obj
    BY <2>1
  <2> HIDE DEF ready, block
  <2>8. \A c \in Actor : Ends(c)' => st'[pc'[c].obj] = "invalidating"
    BY <1>1, <2>1, <2>2, <2>3, <2>6 DEF EndsOK
  <2>9. \A b \in main' : st'[b.obj] = "invalidating"
    BY <1>1, <2>2, <2>3, <2>5, <2>7 DEF EndsOK
  <2>10. \A a, c \in Actor : Ends(a)' /\ Ends(c)' /\ pc'[a].obj = pc'[c].obj => a = c
    BY <1>1, <2>1, <2>6 DEF EndsOK
  <2>11. \A a \in Actor, b \in main' : Ends(a)' => pc'[a].obj # b.obj
    BY <1>1, <2>1, <2>3, <2>5, <2>6 DEF EndsOK
  <2>12. \A b, c \in main' : b.obj = c.obj => b = c
    BY <1>1, <2>3, <2>5 DEF EndsOK
  <2>13. \A o \in Obj : st'[o] = "invalidating" =>
            (\E a \in Actor : Ends(a)' /\ pc'[a].obj = o) \/ \E b \in main' : b.obj = o
    BY <1>1, <2>1, <2>2, <2>4, <2>6, <2>7 DEF EndsOK
  <2> QED BY <2>8, <2>9, <2>10, <2>11, <2>12, <2>13 DEF EndsOK
<1>12. CASE StartBlock
  <2>1. PICK b \in main : pc' = [pc EXCEPT !["main"] = b] /\ main' = main \ {b}
    BY <1>12 DEF StartBlock
  <2>2. st' = st /\ ~Ends("main")
    BY <1>3, <1>12 DEF StartBlock, object, Free, Idle
  <2>3. b \in Steps /\ b.at = "notify"
    BY <1>1, <2>1 DEF Types, Blocks, Steps
  <2>4. pc'["main"] = b /\ \A c \in Actor \ {"main"} : pc'[c] = pc[c]
    BY <1>1, <2>1, <2>3, Sets
  <2>5. /\ Ends("main")' /\ \A c \in Actor \ {"main"} : /\ Ends(c)' <=> Ends(c)
                                                        /\ pc'[c].obj = pc[c].obj
    BY <2>3, <2>4 DEF Ends
  <2>6. pc'["main"].obj = b.obj /\ \A c \in main' : c \in main /\ c # b
    BY <2>1, <2>4
  <2>7. \A c \in Actor : Ends(c)' => c = "main" \/ (Ends(c) /\ pc'[c].obj = pc[c].obj)
    BY <2>5
  <2>8. (\A c \in Actor : Ends(c)' => st'[pc'[c].obj] = "invalidating")
        /\ \A c \in main' : st'[c.obj] = "invalidating"
    BY <1>1, <2>1, <2>2, <2>6, <2>7 DEF EndsOK
  <2>9. \A a, c \in Actor : Ends(a)' /\ Ends(c)' /\ pc'[a].obj = pc'[c].obj => a = c
    BY <1>1, <2>1, <2>6, <2>7 DEF EndsOK
  <2>10. /\ \A a \in Actor, c \in main' : Ends(a)' => pc'[a].obj # c.obj
         /\ \A c, d \in main' : c.obj = d.obj => c = d
    BY <1>1, <2>1, <2>6, <2>7 DEF EndsOK
  <2>11. \A o \in Obj : st'[o] = "invalidating" =>
            (\E a \in Actor : Ends(a)' /\ pc'[a].obj = o) \/ \E c \in main' : c.obj = o
    <3>1. SUFFICES ASSUME NEW o \in Obj, st[o] = "invalidating"
                   PROVE  (\E a \in Actor : Ends(a)' /\ pc'[a].obj = o) \/ \E c \in main' : c.obj = o
      BY <2>2
    <3>2. CASE \E a \in Actor : Ends(a) /\ pc[a].obj = o
      BY <2>2, <2>5, <3>2
    <3>3. CASE \E c \in main : c.obj = o
      BY <2>1, <2>5, <2>6, <3>3
    <3> QED BY <1>1, <3>1, <3>2, <3>3 DEF EndsOK
  <2> QED BY <2>8, <2>9, <2>10, <2>11 DEF EndsOK
<1>13. ASSUME NEW a \in Actor, Notify(a) \/ EndSource(a) \/ ReleaseInfo(a) PROVE EndsOK'
  <2>1. UNCHANGED <<st, main>> /\ Ends(a)
    BY <1>13 DEF Notify, EndSource, ReleaseInfo, object, queues, AtInfo, AtSource, Ends
  <2>2. \E step \in {"source", "info", "finish"} : GoTo(a, step)
    BY <1>13 DEF Notify, EndSource, ReleaseInfo
  <2> QED BY <1>6, <2>1, <2>2
<1>14. ASSUME NEW a \in Actor, Finish(a) PROVE EndsOK'
  <2>1. /\ Ends(a) /\ pc[a].obj \in Obj /\ main' = main
        /\ st' = [st EXCEPT ![pc[a].obj] = "invalid"] /\ pc' = [pc EXCEPT ![a] = Idle]
    BY <1>1, <1>14 DEF Finish, StepsOK, Ends, queues
  <2>2. Idle \in Steps /\ Idle.at = "idle"
    BY DEF Idle, Steps
  <2>3. pc'[a] = Idle /\ \A c \in Actor \ {a} : pc'[c] = pc[c]
    BY <1>1, <2>1, <2>2, Sets
  <2>4. st'[pc[a].obj] = "invalid" /\ \A o \in Obj \ {pc[a].obj} : st'[o] = st[o]
    BY <1>1, <2>1 DEF Types
  <2>5. ~Ends(a)' /\ \A c \in Actor \ {a} : /\ Ends(c)' <=> Ends(c)
                                            /\ pc'[c].obj = pc[c].obj
    BY <2>2, <2>3 DEF Ends
  <2>6. /\ \A c \in Actor : Ends(c) => pc[c].obj \in Obj
        /\ \A b \in main : b.obj \in Obj
    BY <1>1 DEF Types, StepsOK, Ends, Blocks
  <2> QED BY <1>1, <2>1, <2>4, <2>5, <2>6 DEF EndsOK
<1>15. ASSUME NEW o \in Obj, Deallocate(o) \/ Reclaim(o) PROVE EndsOK'
  <2>1. pc' = pc /\ main' = main
    BY <1>15, Unowned DEF Reclaim, queues
  <2>2. st[o] \in {"invalid", "deallocating"}
        /\ \E state \in {"deallocating", "gone"} : st' = [st EXCEPT ![o] = state]
    BY <1>15, Unowned DEF Reclaim
  <2>3. \A x \in Obj : st'[x] = "invalidating" <=> st[x] = "invalidating"
    BY <1>1, <2>2 DEF Types
  <2> QED BY <1>2, <2>1, <2>3 DEF Ends
<1>16. ASSUME UNCHANGED <<st, pc, main>> PROVE EndsOK'
  BY <1>2, <1>16 DEF Ends
<1>17. ASSUME NEW t \in Thread, NEW o \in Obj,
              Release(t, o) \/ CallLate(t, o) \/ \E on \in BOOLEAN : SetCallBack(t, o, on)
       PROVE  EndsOK'
  BY <1>16, <1>17 DEF Release, CallLate, SetCallBack, object, queues
<1>18. ASSUME NEW t \in Thread, NEW s \in Source, InvalidateSource(t, s) \/ ReleaseSource(t, s)
       PROVE  EndsOK'
  BY <1>16, <1>18 DEF InvalidateSource, ReleaseSource, object, queues
<1>19. ASSUME \/ \E p \in Port : Die(p)
              \/ \E o \in Obj : Fire(o) \/ CancelHandler(o)
              \/ TestSource \/ Perform \/ Performed \/ \E s \in Source : Arrive(s)
       PROVE  EndsOK'
  BY <1>16, <1>19 DEF Die, Fire, CancelHandler, TestSource, Perform, Performed, Arrive, object, queues
<1>20. ASSUME NEW t \in Thread, NEW o \in Obj, BeginCreateSource(t, o) PROVE EndsOK'
  <2>1. PICK r \in Steps : r = At("create", o)
    BY DEF At, Steps
  <2>2. r.at = "create" /\ pc' = [pc EXCEPT ![t] = r] /\ ~Ends(t) /\ UNCHANGED <<st, main>>
    BY <1>3, <1>20, <2>1 DEF At, BeginCreateSource, Free, Idle, object, queues
  <2> QED BY <1>4, <2>2
<1>21. ASSUME NEW t \in Thread, NEW s \in Source, BeginAddSource(t, s) PROVE EndsOK'
  <2>1. PICK r \in Steps : r = [at |-> "add", obj |-> None, src |-> s]
    BY DEF Steps
  <2>2. r.at = "add" /\ pc' = [pc EXCEPT ![t] = r] /\ ~Ends(t) /\ UNCHANGED <<st, main>>
    BY <1>3, <1>21, <2>1 DEF BeginAddSource, Free, Idle, object, queues
  <2> QED BY <1>4, <2>2
<1>22. ASSUME NEW t \in Thread, CreateSource(t) \/ AddSource(t) PROVE EndsOK'
  <2>1. Idle \in Steps /\ Idle.at = "idle"
    BY DEF Idle, Steps
  <2>2. pc' = [pc EXCEPT ![t] = Idle] /\ ~Ends(t) /\ UNCHANGED <<st, main>>
    BY <1>22 DEF CreateSource, AddSource, Ends, object, queues
  <2> QED BY <1>4, <2>1, <2>2
<1> QED BY <1>5, <1>7, <1>8, <1>9, <1>10, <1>11, <1>12, <1>13, <1>14, <1>15, <1>17, <1>18, <1>19, <1>20,
           <1>21, <1>22
        DEF Next, Call, Create, Step, Dispatch, RunLoop

-----------------------------------------------------------------------------
(* The invalidation callback.                                              *)

LEMMA NextCalls == Inv /\ Next => CallOK' /\ NotifiedOnce'
<1> SUFFICES ASSUME Inv, Next PROVE CallOK' /\ NotifiedOnce'
  OBVIOUS
<1> USE Names
<1> DEFINE Early == {"unused", "new", "ready"}
<1>1. Types /\ StepsOK /\ TableOK /\ EndsOK /\ CallOK /\ NotifiedOnce
  BY DEF Inv
<1>2. ASSUME UNCHANGED <<icall, told>>, main' \subseteq main,
             \A o \in Obj : st'[o] \in Early => st[o] \in Early,
             \A a \in Actor : pc'[a].at = "notify" => pc[a].at = "notify" /\ pc'[a].obj = pc[a].obj
      PROVE  CallOK' /\ NotifiedOnce'
  BY <1>1, <1>2 DEF Types, CallOK, NotifiedOnce
\* An actor's call goes on with another step than the callback.
<1>3. ASSUME NEW a \in Actor, NEW r \in Steps, pc' = [pc EXCEPT ![a] = r], r.at # "notify",
             UNCHANGED <<icall, told>>, main' \subseteq main,
             \A o \in Obj : st'[o] \in Early => st[o] \in Early
      PROVE  CallOK' /\ NotifiedOnce'
  <2>1. pc'[a] = r /\ \A c \in Actor \ {a} : pc'[c] = pc[c]
    BY <1>1, <1>3, Sets
  <2> QED BY <1>2, <1>3, <2>1
<1>4. ASSUME NEW a \in Actor, NEW step \in {"source", "info", "finish", "watch", "validate"}, GoTo(a, step),
             UNCHANGED <<icall, told>>, main' \subseteq main,
             \A o \in Obj : st'[o] \in Early => st[o] \in Early
      PROVE  CallOK' /\ NotifiedOnce'
  <2>1. pc'[a].at = step /\ \A c \in Actor \ {a} : pc'[c] = pc[c]
    BY <1>1, <1>4, Goes
  <2> QED BY <1>2, <1>4, <2>1
<1>5. ASSUME NEW t \in Thread, NEW o \in Obj, Find(t, o) PROVE CallOK' /\ NotifiedOnce'
  <2>1. UNCHANGED <<icall, told>> /\ main' = main
    BY <1>5 DEF Find, client, queues
  <2>2. \A x \in Obj : st'[x] \in Early => st[x] \in Early
    BY <1>1, <1>5 DEF Types, Find
  <2>3. PICK x \in Obj : pc' = [pc EXCEPT ![t] = At("validate", x)] \/ pc' = [pc EXCEPT ![t] = At("insert", x)]
    BY <1>5 DEF Find
  <2>4. PICK r \in Steps : pc' = [pc EXCEPT ![t] = r] /\ r.at # "notify"
    <3>1. At("validate", x) \in Steps /\ At("insert", x) \in Steps
      BY DEF At, Steps
    <3>2. At("validate", x).at # "notify" /\ At("insert", x).at # "notify"
      BY DEF At
    <3> QED BY <2>3, <3>1, <3>2
  <2> QED BY <1>3, <2>1, <2>2, <2>4
<1>6. ASSUME NEW t \in Thread, Insert(t) PROVE CallOK' /\ NotifiedOnce'
  <2>1. pc[t].obj \in Obj /\ st[pc[t].obj] = "new" /\ UNCHANGED <<icall, told, main>>
    BY <1>1, <1>6 DEF StepsOK, Insert, queues
  <2>2. \A x \in Obj : st'[x] \in Early => st[x] \in Early
    BY <1>1, <1>6, <2>1 DEF Types, Insert
  <2>3. \E step \in {"watch", "validate"} : GoTo(t, step)
    BY <1>6 DEF Insert
  <2> QED BY <1>4, <2>1, <2>2, <2>3
<1>7. ASSUME NEW t \in Thread, Watch(t) PROVE CallOK' /\ NotifiedOnce'
  BY <1>4, <1>7 DEF Watch, client, queues
<1>8. Idle \in Steps /\ Idle.at = "idle"
  BY DEF Idle, Steps
<1>9. ASSUME NEW t \in Thread, Validate(t) PROVE CallOK' /\ NotifiedOnce'
  BY <1>3, <1>8, <1>9 DEF Validate, client, queues
<1>10. ASSUME NEW t \in Thread, NEW o \in Obj, BeginInvalidate(t, o) PROVE CallOK' /\ NotifiedOnce'
  <2>1. PICK r \in Steps : r = [at |-> "notify", obj |-> o, src |-> src[o]]
    BY <1>1 DEF Types, Steps
  <2>2. pc' = [pc EXCEPT ![t] = r] /\ r.obj = o
    BY <1>10, <2>1 DEF BeginInvalidate
  <2>3. pc'[t].obj = o /\ \A c \in Actor \ {t} : pc'[c] = pc[c]
    BY <1>1, <2>2, Sets
  <2>4. UNCHANGED <<main, icall, told>> /\ st[o] = "ready"
    BY <1>10 DEF BeginInvalidate, queues, client
  <2>5. \A x \in Obj : st'[x] \in Early => st[x] \in Early
    BY <1>1, <1>10 DEF Types, BeginInvalidate
  <2> QED BY <1>1, <2>3, <2>4, <2>5 DEF Types, CallOK, NotifiedOnce
<1>11. CASE Check
  <2> DEFINE ready == {o \in Obj : Unwanted(o) /\ st[o] = "ready"}
  <2>1. pc' = pc /\ main' = main \cup {[at |-> "notify", obj |-> o, src |-> src[o]] : o \in ready}
    BY <1>11 DEF Check
  <2>2. UNCHANGED <<icall, told>> /\ \A o \in Obj : st'[o] \in Early => st[o] \in Early
    BY <1>11 DEF Check, client
  <2>3. \A b \in main' : b \in main \/ b.obj \in ready
    BY <2>1
  <2>4. \A o \in ready : o \in Obj /\ st[o] = "ready"
    OBVIOUS
  <2> HIDE DEF ready
  <2>5. \A b \in main' : b.obj \in icall => told[b.obj] = 0
    BY <1>1, <2>3, <2>4 DEF CallOK
  <2> QED BY <1>1, <2>1, <2>2, <2>5 DEF Types, CallOK, NotifiedOnce
<1>12. CASE StartBlock
  <2>1. PICK b \in main : pc' = [pc EXCEPT !["main"] = b] /\ main' = main \ {b}
    BY <1>12 DEF StartBlock
  <2>2. UNCHANGED <<st, icall, told>>
    BY <1>12 DEF StartBlock, object, client
  <2>3. b \in Steps
    BY <1>1, <2>1 DEF Types, Blocks, Steps
  <2>4. pc'["main"] = b /\ \A c \in Actor \ {"main"} : pc'[c] = pc[c]
    BY <1>1, <2>1, <2>3, Sets
  <2> QED BY <1>1, <2>1, <2>2, <2>4 DEF Types, CallOK, NotifiedOnce
<1>13. ASSUME NEW a \in Actor, Notify(a) PROVE CallOK' /\ NotifiedOnce'
  <2> DEFINE o == pc[a].obj
  <2>1. /\ pc[a].at = "notify" /\ o \in icall /\ o \in Obj /\ UNCHANGED <<st, icall, main>>
        /\ told' = [told EXCEPT ![o] = @ + 1]
    BY <1>1, <1>13 DEF Types, Notify, object, queues
  <2>2. Ends(a) /\ st[o] = "invalidating" /\ told[o] = 0
    BY <1>1, <2>1 DEF EndsOK, CallOK, Ends
  <2>3. told'[o] = 1 /\ \A x \in Obj \ {o} : told'[x] = told[x]
    BY <1>1, <2>1, <2>2 DEF Types
  <2>4. pc'[a].at = "source" /\ \A c \in Actor \ {a} : pc'[c] = pc[c]
    BY <1>1, <1>13, Goes DEF Notify
  <2>5. \A c \in Actor \ {a} : pc[c].at = "notify" => pc[c].obj # o
    BY <1>1, <2>2 DEF EndsOK, Ends
  <2>6. \A b \in main : b.obj # o
    BY <1>1, <2>2 DEF EndsOK
  <2> HIDE DEF o
  <2>7. NotifiedOnce'
    BY <1>1, <2>3 DEF NotifiedOnce
  <2>8. CallOK'
    BY <1>1, <2>1, <2>2, <2>3, <2>4, <2>5, <2>6 DEF Types, CallOK
  <2> QED BY <2>7, <2>8
<1>14. ASSUME NEW a \in Actor, EndSource(a) \/ ReleaseInfo(a) PROVE CallOK' /\ NotifiedOnce'
  BY <1>4, <1>14 DEF EndSource, ReleaseInfo, object, client, queues
<1>15. ASSUME NEW a \in Actor, Finish(a) PROVE CallOK' /\ NotifiedOnce'
  <2>1. \A o \in Obj : st'[o] \in Early => st[o] \in Early
    BY <1>1, <1>15 DEF Types, Finish
  <2> QED BY <1>3, <1>8, <1>15, <2>1 DEF Finish, client, queues
<1>16. ASSUME NEW o \in Obj, Deallocate(o) \/ Reclaim(o) PROVE CallOK' /\ NotifiedOnce'
  <2>1. UNCHANGED <<icall, told, pc, main>>
    BY <1>16, Unowned DEF Reclaim, client, queues
  <2>2. \E state \in {"deallocating", "gone"} : st' = [st EXCEPT ![o] = state]
    BY <1>16, Unowned DEF Reclaim
  <2>3. \A x \in Obj : st'[x] \in Early => st[x] \in Early
    BY <1>1, <2>2 DEF Types
  <2> QED BY <1>2, <2>1, <2>3
<1>17. ASSUME NEW t \in Thread, NEW o \in Obj, NEW on \in BOOLEAN, SetCallBack(t, o, on)
       PROVE  CallOK' /\ NotifiedOnce'
  <2>1. UNCHANGED <<st, pc, main>> /\ \A x \in icall' : x = o \/ x \in icall
    BY <1>17 DEF SetCallBack, object, queues
  <2>2. told'[o] = 0 /\ \A x \in Obj \ {o} : told'[x] = told[x]
    BY <1>1, <1>17 DEF Types, SetCallBack
  <2> QED BY <1>1, <2>1, <2>2 DEF Types, CallOK, NotifiedOnce, Blocks
<1>18. ASSUME NEW t \in Thread, NEW o \in Obj, CallLate(t, o) PROVE CallOK' /\ NotifiedOnce'
  <2>1. UNCHANGED <<st, pc, main, icall>> /\ o \notin icall
    BY <1>18 DEF CallLate, object, queues
  <2>2. told'[o] = 1 /\ \A x \in Obj \ {o} : told'[x] = told[x]
    BY <1>1, <1>18 DEF Types, CallLate
  <2> QED BY <1>1, <2>1, <2>2 DEF Types, CallOK, NotifiedOnce, Blocks
<1>19. ASSUME UNCHANGED <<st, pc, main, icall, told>> PROVE CallOK' /\ NotifiedOnce'
  BY <1>2, <1>19
<1>20. ASSUME NEW t \in Thread, NEW o \in Obj, Release(t, o) PROVE CallOK' /\ NotifiedOnce'
  BY <1>19, <1>20 DEF Release, client, queues
<1>21. ASSUME NEW t \in Thread, NEW s \in Source, InvalidateSource(t, s) \/ ReleaseSource(t, s)
       PROVE  CallOK' /\ NotifiedOnce'
  BY <1>19, <1>21 DEF InvalidateSource, ReleaseSource, object, client, queues
<1>22. ASSUME \/ \E p \in Port : Die(p)
              \/ \E o \in Obj : Fire(o) \/ CancelHandler(o)
              \/ TestSource \/ Perform \/ Performed \/ \E s \in Source : Arrive(s)
       PROVE  CallOK' /\ NotifiedOnce'
  BY <1>19, <1>22
     DEF Die, Fire, CancelHandler, TestSource, Perform, Performed, Arrive, object, client, queues
<1>23. ASSUME NEW t \in Thread, NEW o \in Obj, BeginCreateSource(t, o) PROVE CallOK' /\ NotifiedOnce'
  <2>1. PICK r \in Steps : r = At("create", o)
    BY DEF At, Steps
  <2>2. r.at # "notify" /\ pc' = [pc EXCEPT ![t] = r] /\ UNCHANGED <<st, icall, told, main>>
    BY <1>23, <2>1 DEF At, BeginCreateSource, object, client, queues
  <2> QED BY <1>3, <2>2
<1>24. ASSUME NEW t \in Thread, NEW s \in Source, BeginAddSource(t, s) PROVE CallOK' /\ NotifiedOnce'
  <2>1. PICK r \in Steps : r = [at |-> "add", obj |-> None, src |-> s]
    BY DEF Steps
  <2>2. r.at # "notify" /\ pc' = [pc EXCEPT ![t] = r] /\ UNCHANGED <<st, icall, told, main>>
    BY <1>24, <2>1 DEF BeginAddSource, object, client, queues
  <2> QED BY <1>3, <2>2
<1>25. ASSUME NEW t \in Thread, CreateSource(t) \/ AddSource(t) PROVE CallOK' /\ NotifiedOnce'
  BY <1>3, <1>8, <1>25 DEF CreateSource, AddSource, object, client, queues
<1> QED BY <1>5, <1>6, <1>7, <1>9, <1>10, <1>11, <1>12, <1>13, <1>14, <1>15, <1>16, <1>17, <1>18, <1>20,
           <1>21, <1>22, <1>23, <1>24, <1>25
        DEF Next, Call, Create, Step, Dispatch, RunLoop

-----------------------------------------------------------------------------
(* Run loop sources.                                                       *)

LEMMA NextSources == Inv /\ Next => SourceOK'
<1> SUFFICES ASSUME Inv, Next PROVE SourceOK'
  OBVIOUS
<1> USE Names
<1>1. Types /\ StepsOK /\ TableOK /\ EndsOK /\ SourceOK
  BY DEF Inv
\* Steps of calls have their records' source or none.
<1>2. /\ \A a \in Actor : HasSource(pc[a]) => Ends(a) /\ pc[a].src \in Source
      /\ \A b \in main : HasSource(b) => b.src \in Source
  BY <1>1 DEF Types, HasSource, Ends, Steps, Blocks
<1>3. ASSUME UNCHANGED <<src, port>>, main' = main, valid' \subseteq valid,
             \A o \in Obj : st[o] = "ready" => st'[o] = "ready",
             \A s \in Source : /\ "port" \in keep[s] => "port" \in keep'[s]
                               /\ s \in valid /\ keep'[s] # {} => keep[s] # {},
             \A a \in Actor : /\ HasSource(pc'[a]) <=> HasSource(pc[a])
                              /\ HasSource(pc[a]) => pc'[a].src = pc[a].src /\ pc'[a].obj = pc[a].obj
      PROVE  SourceOK'
  <2>1. \A o \in Obj : src[o] # None => src[o] \in Source
    BY <1>1 DEF Types
  <2>2. \A o \in Obj : src'[o] # None => st'[o] = "ready" /\ Linked(src[o], o)'
    BY <1>1, <1>3, <2>1 DEF SourceOK, Linked
  <2>3. \A a \in Actor : HasSource(pc'[a]) => port'[pc'[a].src] = pc'[a].obj /\ "port" \in keep'[pc'[a].src]
    BY <1>1, <1>2, <1>3 DEF SourceOK, Linked
  <2>4. \A b \in main : HasSource(b) => port'[b.src] = b.obj /\ "port" \in keep'[b.src]
    BY <1>1, <1>2, <1>3 DEF SourceOK, Linked
  <2>5. \A s \in valid' : keep'[s] # {} =>
          \/ \E o \in Obj : src'[o] = s
          \/ \E a \in Actor : HasSource(pc'[a]) /\ pc'[a].src = s
          \/ \E b \in main : HasSource(b) /\ b.src = s
    BY <1>1, <1>3 DEF Types, SourceOK
  <2> QED BY <1>3, <2>2, <2>3, <2>4, <2>5 DEF SourceOK, Linked
<1>4. ASSUME UNCHANGED <<src, port, valid, keep>>, main' = main,
             \A o \in Obj : st[o] = "ready" => st'[o] = "ready",
             NEW a \in Actor, NEW r \in Steps, pc' = [pc EXCEPT ![a] = r], ~HasSource(r), ~HasSource(pc[a])
      PROVE  SourceOK'
  <2>1. pc'[a] = r /\ \A c \in Actor \ {a} : pc'[c] = pc[c]
    BY <1>1, <1>4, Sets
  <2> QED BY <1>3, <1>4, <2>1
<1>5. ASSUME NEW a \in Actor, NEW step \in {"source", "info", "finish", "watch", "validate"}, GoTo(a, step),
             UNCHANGED <<src, port, valid, keep>>, main' = main,
             \A o \in Obj : st[o] = "ready" => st'[o] = "ready",
             HasSource(pc[a]) <=> step = "source" /\ pc[a].src # None
      PROVE  SourceOK'
  <2>1. /\ \A c \in Actor \ {a} : pc'[c] = pc[c]
        /\ pc'[a].at = step /\ pc'[a].obj = pc[a].obj /\ pc'[a].src = pc[a].src
    BY <1>1, <1>5, Goes
  <2>2. HasSource(pc'[a]) <=> HasSource(pc[a])
    BY <1>5, <2>1 DEF HasSource
  <2> QED BY <1>3, <1>5, <2>1, <2>2
<1>6. ASSUME NEW t \in Thread, NEW o \in Obj, Find(t, o) PROVE SourceOK'
  <2>1. UNCHANGED <<src, port, valid, keep>> /\ main' = main /\ ~HasSource(pc[t])
    BY <1>6 DEF Find, sources, queues, Free, Idle, HasSource
  <2>2. \A x \in Obj : st[x] = "ready" => st'[x] = "ready"
    BY <1>1, <1>6 DEF Types, Find
  <2>3. PICK x \in Obj : pc' = [pc EXCEPT ![t] = At("validate", x)] \/ pc' = [pc EXCEPT ![t] = At("insert", x)]
    BY <1>6 DEF Find
  <2>4. PICK r \in Steps : pc' = [pc EXCEPT ![t] = r] /\ ~HasSource(r)
    <3>1. At("validate", x) \in Steps /\ At("insert", x) \in Steps
      BY DEF At, Steps
    <3>2. ~HasSource(At("validate", x)) /\ ~HasSource(At("insert", x))
      BY DEF At, HasSource
    <3> QED BY <2>3, <3>1, <3>2
  <2> QED BY <1>4, <2>1, <2>2, <2>4
<1>7. ASSUME NEW t \in Thread, Insert(t) PROVE SourceOK'
  <2>1. UNCHANGED <<src, port, valid, keep>> /\ main' = main /\ ~HasSource(pc[t])
    BY <1>7 DEF Insert, sources, queues, HasSource
  <2>2. \A x \in Obj : st[x] = "ready" => st'[x] = "ready"
    BY <1>1, <1>7 DEF Types, Insert
  <2>3. \E step \in {"watch", "validate"} : GoTo(t, step)
    BY <1>7 DEF Insert
  <2> QED BY <1>5, <2>1, <2>2, <2>3
<1>8. ASSUME NEW t \in Thread, Watch(t) PROVE SourceOK'
  BY <1>5, <1>8 DEF Watch, sources, queues, HasSource
<1>9. Idle \in Steps /\ ~HasSource(Idle)
  BY DEF Idle, Steps, HasSource
<1>10. ASSUME NEW t \in Thread, Validate(t) PROVE SourceOK'
  BY <1>4, <1>9, <1>10 DEF Validate, sources, queues, HasSource
<1>11. ASSUME NEW t \in Thread, NEW o \in Obj, BeginInvalidate(t, o) PROVE SourceOK'
  <2>1. PICK r \in Steps : r = [at |-> "notify", obj |-> o, src |-> src[o]]
    BY <1>1 DEF Types, Steps
  <2>2. pc' = [pc EXCEPT ![t] = r] /\ r.at = "notify" /\ r.obj = o /\ r.src = src[o]
    BY <1>11, <2>1 DEF BeginInvalidate
  <2>3. pc'[t] = r /\ \A c \in Actor \ {t} : pc'[c] = pc[c]
    BY <1>1, <2>2, Sets
  <2>4. UNCHANGED <<main, port, valid, keep>> /\ ~HasSource(pc[t])
    BY <1>11 DEF BeginInvalidate, queues, Free, Idle, HasSource
  <2>5. src'[o] = None /\ \A x \in Obj \ {o} : src'[x] = src[x] /\ st'[x] = st[x]
    BY <1>1, <1>11 DEF Types, BeginInvalidate
  <2>6. \A x \in Obj : src'[x] # None => st'[x] = "ready" /\ port[src'[x]] = x /\ "port" \in keep[src'[x]]
    BY <1>1, <2>5 DEF SourceOK, Linked
  <2>7. HasSource(r) <=> src[o] # None
    BY <2>2 DEF HasSource
  <2>8. \A c \in Actor : HasSource(pc'[c]) => port[pc'[c].src] = pc'[c].obj /\ "port" \in keep[pc'[c].src]
    BY <1>1, <2>2, <2>3, <2>7 DEF SourceOK, Linked
  <2>9. ASSUME NEW s \in valid, keep[s] # {}
        PROVE  \/ \E x \in Obj : src'[x] = s
               \/ \E c \in Actor : HasSource(pc'[c]) /\ pc'[c].src = s
               \/ \E b \in main : HasSource(b) /\ b.src = s
    <3>1. s # None
      BY <1>1 DEF Types
    <3>2. CASE \E x \in Obj : src[x] = s
      BY <2>2, <2>3, <2>5, <2>7, <3>1, <3>2
    <3>3. CASE \E c \in Actor : HasSource(pc[c]) /\ pc[c].src = s
      BY <2>3, <2>4, <3>3
    <3> QED BY <1>1, <2>9, <3>2, <3>3 DEF SourceOK
  <2> QED BY <1>1, <2>4, <2>6, <2>8, <2>9 DEF SourceOK, Linked
<1>12. CASE Check
  <2> DEFINE ready == {o \in Obj : Unwanted(o) /\ st[o] = "ready"}
             block(o) == [at |-> "notify", obj |-> o, src |-> src[o]]
  <2>1. pc' = pc /\ main' = main \cup {block(o) : o \in ready} /\ UNCHANGED <<port, valid, keep>>
    BY <1>12 DEF Check
  <2>2. \A o \in Obj : /\ st'[o] = IF o \in ready THEN "invalidating" ELSE st[o]
                       /\ src'[o] = IF o \in ready THEN None ELSE src[o]
    BY <1>12 DEF Check
  <2>3. \A o \in ready : block(o) \in main' /\ block(o).obj = o /\ block(o).src = src[o]
                         /\ (HasSource(block(o)) <=> src[o] # None)
    BY <2>1 DEF HasSource
  <2>4. \A b \in main' : b \in main \/ (b.obj \in ready /\ b = block(b.obj))
    BY <2>1
  <2>5. main \subseteq main' /\ ready \subseteq Obj
    BY <2>1
  <2> HIDE DEF ready, block
  <2>6. \A x \in Obj : src'[x] # None => st'[x] = "ready" /\ port[src'[x]] = x /\ "port" \in keep[src'[x]]
    BY <1>1, <2>2 DEF SourceOK, Linked
  <2>7. ASSUME NEW b \in main', HasSource(b) PROVE port[b.src] = b.obj /\ "port" \in keep[b.src]
    <3>1. CASE b \in main
      BY <1>1, <2>7, <3>1 DEF SourceOK, Linked
    <3>2. CASE b.obj \in ready /\ b = block(b.obj)
      BY <1>1, <2>3, <2>5, <2>7, <3>2 DEF SourceOK, Linked
    <3> QED BY <2>4, <2>7, <3>1, <3>2
  <2>8. ASSUME NEW s \in valid, keep[s] # {}
        PROVE  \/ \E x \in Obj : src'[x] = s
               \/ \E c \in Actor : HasSource(pc[c]) /\ pc[c].src = s
               \/ \E b \in main' : HasSource(b) /\ b.src = s
    <3>1. s # None
      BY <1>1 DEF Types
    <3>2. CASE \E x \in Obj : src[x] = s
      BY <2>2, <2>3, <3>1, <3>2
    <3>3. CASE \E b \in main : HasSource(b) /\ b.src = s
      BY <2>5, <3>3
    <3> QED BY <1>1, <2>8, <3>2, <3>3 DEF SourceOK
  <2> QED BY <1>1, <2>1, <2>6, <2>7, <2>8 DEF SourceOK, Linked
<1>13. CASE StartBlock
  <2>1. PICK b \in main : pc' = [pc EXCEPT !["main"] = b] /\ main' = main \ {b}
    BY <1>13 DEF StartBlock
  <2>2. UNCHANGED <<st, src, port, valid, keep>> /\ ~HasSource(pc["main"])
    BY <1>13 DEF StartBlock, object, sources, Free, Idle, HasSource
  <2>3. b \in Steps
    BY <1>1, <2>1 DEF Types, Blocks, Steps
  <2>4. pc'["main"] = b /\ \A c \in Actor \ {"main"} : pc'[c] = pc[c]
    BY <1>1, <2>1, <2>3, Sets
  <2>5. ASSUME NEW s \in valid, keep[s] # {}
        PROVE  \/ \E x \in Obj : src[x] = s
               \/ \E c \in Actor : HasSource(pc'[c]) /\ pc'[c].src = s
               \/ \E c \in main' : HasSource(c) /\ c.src = s
    <3>1. CASE \E c \in Actor : HasSource(pc[c]) /\ pc[c].src = s
      BY <2>2, <2>4, <3>1
    <3>2. CASE \E c \in main : HasSource(c) /\ c.src = s
      BY <2>1, <2>4, <3>2
    <3> QED BY <1>1, <2>5, <3>1, <3>2 DEF SourceOK
  <2>6. \A c \in Actor : HasSource(pc'[c]) => port[pc'[c].src] = pc'[c].obj /\ "port" \in keep[pc'[c].src]
    BY <1>1, <2>4 DEF SourceOK, Linked
  <2> QED BY <1>1, <2>1, <2>2, <2>5, <2>6 DEF SourceOK, Linked
<1>14. ASSUME NEW a \in Actor, Notify(a) PROVE SourceOK'
  BY <1>5, <1>14 DEF Notify, object, sources, queues, HasSource
<1>15. ASSUME NEW a \in Actor, EndSource(a) PROVE SourceOK'
  <2> DEFINE s == pc[a].src
  <2>1. /\ HasSource(pc[a]) /\ UNCHANGED <<st, src, port, main>>
        /\ valid' = valid \ {s} /\ keep' = [keep EXCEPT ![s] = @ \ {"port", "mode"}]
    BY <1>15 DEF EndSource, AtSource, HasSource, object, queues
  <2>2. /\ \A c \in Actor \ {a} : pc'[c] = pc[c]
        /\ ~HasSource(pc'[a])
    BY <1>1, <1>15, Goes DEF EndSource, HasSource
  <2>3. s \in Source /\ Ends(a) /\ port[s] = pc[a].obj /\ st[pc[a].obj] = "invalidating" /\ pc[a].obj \in Obj
    BY <1>1, <1>2, <2>1 DEF SourceOK, Linked, EndsOK, StepsOK, Ends
  <2>4. \A k \in Source \ {s} : keep'[k] = keep[k]
    BY <1>1, <2>1 DEF Types
  <2>5. \A o \in Obj : src[o] # None => src[o] \in Source \ {s}
    BY <1>1, <2>3 DEF Types, SourceOK, Linked
  <2>6. \A c \in Actor \ {a} : HasSource(pc[c]) => pc[c].src \in Source \ {s}
    BY <1>1, <1>2, <2>3 DEF SourceOK, Linked, EndsOK
  <2>7. \A b \in main : HasSource(b) => b.src \in Source \ {s}
    BY <1>1, <1>2, <2>3 DEF SourceOK, Linked, EndsOK
  <2> HIDE DEF s
  <2>8. \A o \in Obj : src[o] # None => st[o] = "ready" /\ port[src[o]] = o /\ "port" \in keep'[src[o]]
    BY <1>1, <2>4, <2>5 DEF SourceOK, Linked
  <2>9. \A c \in Actor : HasSource(pc'[c]) => port[pc'[c].src] = pc'[c].obj /\ "port" \in keep'[pc'[c].src]
    BY <1>1, <2>2, <2>4, <2>6 DEF SourceOK, Linked
  <2>10. \A b \in main : HasSource(b) => port[b.src] = b.obj /\ "port" \in keep'[b.src]
    BY <1>1, <2>4, <2>7 DEF SourceOK, Linked
  <2>11. ASSUME NEW k \in valid', keep'[k] # {}
         PROVE  \/ \E x \in Obj : src[x] = k
                \/ \E c \in Actor : HasSource(pc'[c]) /\ pc'[c].src = k
                \/ \E b \in main : HasSource(b) /\ b.src = k
    <3>1. k \in valid /\ k # s /\ keep[k] # {}
      BY <1>1, <2>1, <2>4, <2>11 DEF Types
    <3>2. pc[a].src # k
      BY <3>1 DEF s
    <3> QED BY <1>1, <2>2, <3>1, <3>2 DEF SourceOK
  <2> QED BY <2>1, <2>8, <2>9, <2>10, <2>11 DEF SourceOK, Linked
<1>16. ASSUME NEW a \in Actor, ReleaseInfo(a) PROVE SourceOK'
  <2>1. ~HasSource(pc[a])
    BY <1>16 DEF ReleaseInfo, AtInfo, AtSource, HasSource
  <2> QED BY <1>5, <1>16, <2>1 DEF ReleaseInfo, object, sources, queues
<1>17. ASSUME NEW a \in Actor, Finish(a) PROVE SourceOK'
  <2>1. st[pc[a].obj] = "invalidating" /\ ~HasSource(pc[a])
    BY <1>1, <1>17 DEF Finish, EndsOK, Ends, HasSource
  <2>2. \A o \in Obj : st[o] = "ready" => st'[o] = "ready"
    BY <1>1, <1>17, <2>1 DEF Types, Finish
  <2> QED BY <1>4, <1>9, <1>17, <2>1, <2>2 DEF Finish, sources, queues
<1>18. ASSUME NEW o \in Obj, Deallocate(o) \/ Reclaim(o) PROVE SourceOK'
  <2>1. UNCHANGED <<src, port, valid, keep, pc, main>> /\ st[o] # "ready"
    BY <1>18, Unowned DEF Reclaim, sources, queues
  <2>2. \E state \in {"deallocating", "gone"} : st' = [st EXCEPT ![o] = state]
    BY <1>18, Unowned DEF Reclaim
  <2>3. \A x \in Obj : st[x] = "ready" => st'[x] = "ready"
    BY <1>1, <2>1, <2>2 DEF Types
  <2> QED BY <1>3, <2>1, <2>3
<1>19. ASSUME NEW t \in Thread, CreateSource(t) PROVE SourceOK'
  <2> DEFINE o == pc[t].obj
  <2>1. /\ UNCHANGED <<st, main>> /\ pc[t].at = "create" /\ pc' = [pc EXCEPT ![t] = Idle]
        /\ IF st[o] = "ready" THEN SourceOf(t, o) ELSE UNCHANGED sources
    BY <1>19 DEF CreateSource, object, queues
  <2>2. o \in Obj
    BY <1>1, <2>1 DEF StepsOK
  <2>3. pc'[t] = Idle /\ \A c \in Actor \ {t} : pc'[c] = pc[c]
    BY <1>1, <1>9, <2>1, Sets
  <2>4. \A c \in Actor : /\ HasSource(pc'[c]) <=> HasSource(pc[c])
                         /\ HasSource(pc[c]) => pc'[c] = pc[c]
    BY <1>9, <2>1, <2>3 DEF HasSource
  <2> HIDE DEF o
  <2>5. CASE UNCHANGED sources
    BY <1>3, <2>1, <2>4, <2>5 DEF sources
  <2>6. ASSUME st[o] = "ready", src[o] \in valid, UNCHANGED <<src, port, valid>>,
               keep' = [keep EXCEPT ![src[o]] = @ \cup {t}]
        PROVE  SourceOK'
    <3>1. src[o] \in Source /\ "port" \in keep[src[o]]
      BY <1>1, <2>2, <2>6 DEF Types, SourceOK, Linked
    <3>2. \A s \in Source : /\ "port" \in keep[s] => "port" \in keep'[s]
                            /\ s \in valid /\ keep'[s] # {} => keep[s] # {}
      BY <1>1, <2>6, <3>1 DEF Types
    <3> QED BY <1>3, <2>1, <2>4, <2>6, <3>2
  \* The object's old source is nobody else's.
  <2>7. ASSUME st[o] = "ready"
        PROVE  /\ \A x \in Obj \ {o} : src[x] # None => src[x] \in Source \ {src[o]}
               /\ \A c \in Actor : HasSource(pc[c]) => pc[c].obj # o /\ pc[c].src \in Source \ {src[o]}
               /\ \A b \in main : HasSource(b) => b.obj # o /\ b.src \in Source \ {src[o]}
    <3>1. \A c \in Actor : HasSource(pc[c]) => pc[c].obj # o
      BY <1>1, <1>2, <2>7 DEF EndsOK
    <3>2. \A b \in main : b.obj # o
      BY <1>1, <2>7 DEF EndsOK
    <3>3. src[o] # None => port[src[o]] = o
      BY <1>1, <2>2 DEF SourceOK, Linked
    <3>4. \A x \in Obj \ {o} : src[x] # None => src[x] \in Source \ {src[o]}
      BY <1>1, <3>3 DEF Types, SourceOK, Linked
    <3>5. \A c \in Actor : HasSource(pc[c]) => pc[c].src \in Source \ {src[o]}
      BY <1>1, <1>2, <3>1, <3>3 DEF SourceOK, Linked
    <3>6. \A b \in main : HasSource(b) => b.src \in Source \ {src[o]}
      BY <1>1, <1>2, <3>2, <3>3 DEF SourceOK, Linked
    <3> QED BY <3>1, <3>2, <3>4, <3>5, <3>6
  <2>8. ASSUME st[o] = "ready", src[o] \notin valid,
               NEW s \in Source, keep[s] \subseteq {"port"}, s # src[o] => keep[s] = {},
               keep' = [k \in Source |-> IF k = s THEN {"port", t}
                                ELSE IF k = src[o] THEN keep[k] \ {"port"} ELSE keep[k]],
               src' = [src EXCEPT ![o] = s], port' = [port EXCEPT ![s] = o], valid' = valid \cup {s}
        PROVE  SourceOK'
    <3>1. /\ src'[o] = s /\ \A x \in Obj \ {o} : src'[x] = src[x]
          /\ port'[s] = o /\ \A k \in Source \ {s} : port'[k] = port[k]
          /\ "port" \in keep'[s] /\ \A k \in Source \ {s, src[o]} : keep'[k] = keep[k]
          /\ \A k \in Source \ {s} : keep'[k] \subseteq keep[k]
      BY <1>1, <2>2, <2>8 DEF Types
    <3>2. \A k \in Source : "port" \in keep[k] /\ k # src[o] => k # s
      BY <2>8
    <3>3. \A x \in Obj \ {o} : src[x] # None => src[x] \in Source \ {s, src[o]}
      BY <1>1, <2>7, <2>8, <3>2 DEF SourceOK, Linked
    <3>4. \A c \in Actor : HasSource(pc[c]) => pc[c].src \in Source \ {s, src[o]}
      BY <1>1, <2>7, <2>8, <3>2 DEF SourceOK, Linked
    <3>5. \A b \in main : HasSource(b) => b.src \in Source \ {s, src[o]}
      BY <1>1, <2>7, <2>8, <3>2 DEF SourceOK, Linked
    <3>6. \A x \in Obj : src'[x] # None => st[x] = "ready" /\ port'[src'[x]] = x /\ "port" \in keep'[src'[x]]
      BY <1>1, <2>8, <3>1, <3>3 DEF SourceOK, Linked
    <3>7. \A c \in Actor : HasSource(pc[c]) => port'[pc[c].src] = pc[c].obj /\ "port" \in keep'[pc[c].src]
      BY <1>1, <3>1, <3>4 DEF SourceOK, Linked
    <3>8. \A b \in main : HasSource(b) => port'[b.src] = b.obj /\ "port" \in keep'[b.src]
      BY <1>1, <3>1, <3>5 DEF SourceOK, Linked
    <3>9. ASSUME NEW k \in valid', keep'[k] # {}
          PROVE  \/ \E x \in Obj : src'[x] = k
                 \/ \E c \in Actor : HasSource(pc[c]) /\ pc[c].src = k
                 \/ \E b \in main : HasSource(b) /\ b.src = k
      <4>1. CASE k = s
        BY <2>2, <3>1, <4>1
      <4>2. CASE k # s
        <5>1. k \in valid /\ k \in Source /\ keep[k] # {} /\ k # src[o]
          BY <1>1, <2>8, <3>1, <3>9, <4>2 DEF Types
        <5> QED BY <1>1, <3>1, <5>1 DEF SourceOK
      <4> QED BY <4>1, <4>2
    <3> QED BY <2>1, <2>4, <3>6, <3>7, <3>8, <3>9 DEF SourceOK, Linked
  <2>9. ASSUME st[o] = "ready", src[o] \notin valid, UNCHANGED <<port, valid>>,
               keep' = [k \in Source |-> IF k = src[o] THEN keep[k] \ {"port"} ELSE keep[k]],
               src' = [src EXCEPT ![o] = None]
        PROVE  SourceOK'
    <3>1. /\ src'[o] = None /\ \A x \in Obj \ {o} : src'[x] = src[x]
          /\ \A k \in Source \ {src[o]} : keep'[k] = keep[k]
      BY <1>1, <2>2, <2>9 DEF Types
    <3>2. \A x \in Obj : src'[x] # None => st[x] = "ready" /\ port[src'[x]] = x /\ "port" \in keep'[src'[x]]
      BY <1>1, <2>7, <2>9, <3>1 DEF SourceOK, Linked
    <3>3. \A c \in Actor : HasSource(pc[c]) => port[pc[c].src] = pc[c].obj /\ "port" \in keep'[pc[c].src]
      BY <1>1, <2>7, <2>9, <3>1 DEF SourceOK, Linked
    <3>4. \A b \in main : HasSource(b) => port[b.src] = b.obj /\ "port" \in keep'[b.src]
      BY <1>1, <2>7, <2>9, <3>1 DEF SourceOK, Linked
    <3>5. ASSUME NEW k \in valid, keep'[k] # {}
          PROVE  \/ \E x \in Obj : src'[x] = k
                 \/ \E c \in Actor : HasSource(pc[c]) /\ pc[c].src = k
                 \/ \E b \in main : HasSource(b) /\ b.src = k
      <4>1. k \in Source \ {src[o]} /\ keep[k] # {}
        BY <1>1, <2>9, <3>1, <3>5 DEF Types
      <4> QED BY <1>1, <3>1, <4>1 DEF SourceOK
    <3>6. \A c \in Actor : HasSource(pc[c])' => Linked(pc[c].src, pc[c].obj)'
      BY <2>4, <2>9, <3>3 DEF Linked, HasSource
    <3>7. ASSUME NEW s \in valid', keep'[s] # {}
          PROVE  \/ \E x \in Obj : src'[x] = s
                 \/ \E c \in Actor : HasSource(pc'[c]) /\ pc'[c].src = s
                 \/ \E b \in main' : HasSource(b) /\ b.src = s
      <4>1. s \in valid
        BY <2>9, <3>7
      <4>2. CASE \E c \in Actor : HasSource(pc[c]) /\ pc[c].src = s
        <5>1. PICK c \in Actor : HasSource(pc[c]) /\ pc[c].src = s
          BY <4>2
        <5>2. pc'[c] = pc[c]
          BY <2>4, <5>1
        <5> QED BY <5>1, <5>2
      <4> QED BY <2>1, <3>5, <3>7, <4>1, <4>2
    <3> QED BY <2>1, <2>9, <3>2, <3>4, <3>6, <3>7 DEF SourceOK, Linked, HasSource
  <2> QED BY <1>1, <2>1, <2>2, <2>5, <2>6, <2>8, <2>9, Sourced
<1>20. ASSUME UNCHANGED <<st, src, port, pc, main>>, valid' \subseteq valid,
              \A s \in Source : /\ "port" \in keep[s] => "port" \in keep'[s]
                                /\ s \in valid /\ keep'[s] # {} => keep[s] # {}
       PROVE  SourceOK'
  BY <1>3, <1>20
<1>21. ASSUME NEW t \in Thread, NEW s \in Source, InvalidateSource(t, s) \/ ReleaseSource(t, s)
       PROVE  SourceOK'
  <2>1. UNCHANGED <<st, src, port, pc, main>> /\ valid' \subseteq valid /\ keep[s] # {}
    BY <1>21 DEF InvalidateSource, ReleaseSource, object, queues
  <2>2. \A k \in Source : /\ "port" \in keep[k] => "port" \in keep'[k]
                          /\ k # s => keep'[k] = keep[k]
    BY <1>1, <1>21 DEF Types, InvalidateSource, ReleaseSource
  <2> QED BY <1>20, <2>1, <2>2
<1>22. ASSUME NEW s \in Source, Arrive(s) PROVE SourceOK'
  <2>1. UNCHANGED <<st, src, port, valid, pc, main>> /\ keep[s] # {}
    BY <1>22 DEF Arrive, object
  <2>2. \A k \in Source : /\ "port" \in keep[k] => "port" \in keep'[k]
                          /\ k # s => keep'[k] = keep[k]
    BY <1>1, <1>22 DEF Types, Arrive
  <2> QED BY <1>20, <2>1, <2>2
<1>23. CASE TestSource \/ Performed
  <2>1. UNCHANGED <<st, src, port, valid, pc, main>>
    BY <1>23 DEF TestSource, Performed, object
  <2>2. \A k \in Source : /\ "port" \in keep[k] => "port" \in keep'[k]
                          /\ keep'[k] # {} => keep[k] # {}
    BY <1>1, <1>23 DEF Types, TestSource, Performed
  <2> QED BY <1>20, <2>1, <2>2
<1>24. ASSUME UNCHANGED <<st, src, port, valid, keep, pc, main>> PROVE SourceOK'
  BY <1>20, <1>24
<1>25. ASSUME NEW t \in Thread, NEW o \in Obj,
              Release(t, o) \/ CallLate(t, o) \/ \E on \in BOOLEAN : SetCallBack(t, o, on)
       PROVE  SourceOK'
  BY <1>24, <1>25 DEF Release, CallLate, SetCallBack, object, sources, queues
<1>26. ASSUME \/ \E p \in Port : Die(p)
              \/ \E o \in Obj : Fire(o) \/ CancelHandler(o)
              \/ Perform
       PROVE  SourceOK'
  BY <1>24, <1>26 DEF Die, Fire, CancelHandler, Perform, object, sources, queues
<1>27. ASSUME NEW t \in Thread, NEW o \in Obj, BeginCreateSource(t, o) PROVE SourceOK'
  <2>1. PICK r \in Steps : r = At("create", o)
    BY DEF At, Steps
  <2>2. /\ ~HasSource(r) /\ ~HasSource(pc[t]) /\ pc' = [pc EXCEPT ![t] = r]
        /\ UNCHANGED <<st, main, src, port, valid, keep>>
    BY <1>9, <1>27, <2>1 DEF At, HasSource, BeginCreateSource, Free, object, sources, queues
  <2> QED BY <1>4, <2>2
<1>28. ASSUME NEW t \in Thread, NEW s \in Source, BeginAddSource(t, s) PROVE SourceOK'
  <2>1. PICK r \in Steps : r = [at |-> "add", obj |-> None, src |-> s]
    BY DEF Steps
  <2>2. /\ ~HasSource(r) /\ ~HasSource(pc[t]) /\ pc' = [pc EXCEPT ![t] = r]
        /\ UNCHANGED <<st, main, src, port, valid, keep>>
    BY <1>9, <1>28, <2>1 DEF HasSource, BeginAddSource, Free, object, sources, queues
  <2> QED BY <1>4, <2>2
<1>29. ASSUME NEW t \in Thread, AddSource(t) PROVE SourceOK'
  <2>1. /\ UNCHANGED <<st, main, src, port, valid>> /\ pc[t].at = "add"
        /\ pc' = [pc EXCEPT ![t] = Idle] /\ keep' = [keep EXCEPT ![pc[t].src] = @ \cup {"mode"}]
    BY <1>29 DEF AddSource, object, queues
  <2>2. pc[t].src \in Source /\ keep[pc[t].src] # {}
    BY <2>1 DEF Inv, AddsOK
  <2>3. \A k \in Source : /\ "port" \in keep[k] => "port" \in keep'[k]
                          /\ keep'[k] # {} => keep[k] # {}
    BY <1>1, <2>1, <2>2 DEF Types
  <2>4. pc'[t] = Idle /\ \A c \in Actor \ {t} : pc'[c] = pc[c]
    BY <1>1, <1>9, <2>1, Sets
  <2>5. \A c \in Actor : /\ HasSource(pc'[c]) <=> HasSource(pc[c])
                         /\ HasSource(pc[c]) => pc'[c] = pc[c]
    BY <1>9, <2>1, <2>4 DEF HasSource
  <2> QED BY <1>3, <2>1, <2>3, <2>5
<1> QED BY <1>6, <1>7, <1>8, <1>10, <1>11, <1>12, <1>13, <1>14, <1>15, <1>16, <1>17, <1>18, <1>19, <1>21,
           <1>22, <1>23, <1>25, <1>26, <1>27, <1>28, <1>29
        DEF Next, Call, Create, Step, Dispatch, RunLoop

-----------------------------------------------------------------------------
(* A source that is being added to a mode, and the objects in use.          *)

LEMMA NextAdds == Inv /\ Next => AddsOK'
<1> SUFFICES ASSUME Inv, Next PROVE AddsOK'
  OBVIOUS
<1> USE Names
<1>1. Types /\ AddsOK
  BY DEF Inv
<1>2. ASSUME \A a \in Actor : pc'[a].at = "add" => pc'[a] = pc[a],
             \A a \in Actor, s \in Source : pc[a].at = "add" /\ a \in keep[s] => a \in keep'[s]
      PROVE  AddsOK'
  BY <1>1, <1>2 DEF AddsOK
\* Nobody but the thread itself gives its reference to a source back.
<1>3. \A a \in Actor, s \in Source : pc[a].at = "add" /\ a \in keep[s] => a \in keep'[s]
  <2> SUFFICES ASSUME NEW a \in Actor, NEW s \in Source, pc[a].at = "add", a \in keep[s]
               PROVE  a \in keep'[s]
    OBVIOUS
  <2>1. CASE keep' = keep
    BY <2>1
  <2>2. ASSUME NEW t \in Thread, CreateSource(t) PROVE a \in keep'[s]
    <3>1. pc[t].at = "create"
      BY <2>2 DEF CreateSource
    <3>2. pc[t].obj \in Obj
      BY <3>1 DEF Inv, StepsOK
    <3>3. CASE SourceOf(t, pc[t].obj)
      <4> DEFINE o == pc[t].obj
      <4>1. SourceOf(t, o) /\ o \in Obj
        BY <3>2, <3>3
      <4> HIDE DEF o
      <4>2. CASE keep' = [keep EXCEPT ![src[o]] = @ \cup {t}]
        BY <1>1, <4>2 DEF Types
      <4>3. ASSUME NEW k \in Source, keep[k] \subseteq {"port"},
                   keep' = [j \in Source |-> IF j = k THEN {"port", t}
                                    ELSE IF j = src[o] THEN keep[j] \ {"port"} ELSE keep[j]]
            PROVE  a \in keep'[s]
        BY <4>3
      <4>4. CASE keep' = [j \in Source |-> IF j = src[o] THEN keep[j] \ {"port"} ELSE keep[j]]
        BY <4>4
      <4> QED BY <1>1, <4>1, <4>2, <4>3, <4>4, Sourced
    <3>4. CASE UNCHANGED sources
      BY <3>4 DEF sources
    <3> QED BY <2>2, <3>3, <3>4 DEF CreateSource
  <2>3. ASSUME NEW t \in Thread, NEW k \in Source, InvalidateSource(t, k) PROVE a \in keep'[s]
    BY <1>1, <2>3 DEF InvalidateSource, Types
  <2>4. ASSUME NEW t \in Thread, NEW k \in Source, ReleaseSource(t, k) PROVE a \in keep'[s]
    <3>1. a # t
      BY <2>4 DEF ReleaseSource, Free, Idle
    <3> QED BY <1>1, <2>4, <3>1 DEF ReleaseSource, Types
  <2>5. ASSUME NEW t \in Thread, AddSource(t) PROVE a \in keep'[s]
    BY <1>1, <2>5 DEF AddSource, Types
  <2>6. ASSUME NEW k \in Source, Arrive(k) PROVE a \in keep'[s]
    BY <1>1, <2>6 DEF Arrive, Types
  <2>7. CASE TestSource \/ Performed
    BY <1>1, <2>7 DEF TestSource, Performed, Types
  <2>8. ASSUME NEW c \in Actor, EndSource(c) PROVE a \in keep'[s]
    BY <1>1, <2>8 DEF EndSource, Types
  <2>9. ASSUME NEW o \in Obj, Deallocate(o) PROVE keep' = keep
    BY <2>9, Unowned
  <2>10. ASSUME NEW t \in Thread, NEW o \in Obj,
                \/ Find(t, o) \/ Release(t, o) \/ BeginInvalidate(t, o) \/ CallLate(t, o)
                \/ BeginCreateSource(t, o) \/ \E on \in BOOLEAN : SetCallBack(t, o, on)
         PROVE  keep' = keep
    BY <2>10 DEF Find, Release, BeginInvalidate, CallLate, BeginCreateSource, SetCallBack, sources
  <2>11. ASSUME NEW t \in Thread, Insert(t) \/ Watch(t) \/ Validate(t) \/ \E k \in Source : BeginAddSource(t, k)
         PROVE  keep' = keep
    BY <2>11 DEF Insert, Watch, Validate, BeginAddSource, sources
  <2>12. ASSUME NEW c \in Actor, Notify(c) \/ ReleaseInfo(c) \/ Finish(c) PROVE keep' = keep
    BY <2>12 DEF Notify, ReleaseInfo, Finish, sources
  <2>13. ASSUME NEW o \in Obj, Fire(o) \/ CancelHandler(o) \/ Reclaim(o) PROVE keep' = keep
    BY <2>13 DEF Fire, CancelHandler, Reclaim, sources
  <2>14. ASSUME Check \/ StartBlock \/ Perform \/ \E p \in Port : Die(p) PROVE keep' = keep
    BY <2>14 DEF Check, StartBlock, Perform, Die, sources
  <2> QED BY <2>1, <2>2, <2>3, <2>4, <2>5, <2>6, <2>7, <2>8, <2>9, <2>10, <2>11, <2>12, <2>13, <2>14
          DEF Next, Call, Create, Step, Dispatch, RunLoop
<1>4. CASE \A a \in Actor : pc'[a].at = "add" => pc'[a] = pc[a]
  BY <1>2, <1>3, <1>4
<1>5. ASSUME NEW t \in Thread, NEW s \in Source, BeginAddSource(t, s) PROVE AddsOK'
  <2>1. PICK r \in Steps : r = [at |-> "add", obj |-> None, src |-> s]
    BY DEF Steps
  <2>2. pc' = [pc EXCEPT ![t] = r] /\ r.src = s /\ t \in keep[s] /\ keep' = keep
    BY <1>5, <2>1 DEF BeginAddSource, sources
  <2>3. pc'[t] = r /\ \A c \in Actor \ {t} : pc'[c] = pc[c]
    BY <1>1, <2>2, Sets
  <2> QED BY <1>1, <2>2, <2>3 DEF AddsOK
\* Every other step of an actor makes it something else than that.
<1>6. ASSUME NEW a \in Actor, NEW r \in Steps, pc' = [pc EXCEPT ![a] = r], r.at # "add"
      PROVE  \A c \in Actor : pc'[c].at = "add" => pc'[c] = pc[c]
  BY <1>1, <1>6, Sets
<1>7. ASSUME NEW a \in Actor, NEW step \in {"source", "info", "finish", "watch", "validate"}, GoTo(a, step)
      PROVE  \A c \in Actor : pc'[c].at = "add" => pc'[c] = pc[c]
  BY <1>1, <1>7, Goes
<1>8. \A o \in Obj, step \in {"validate", "insert", "create"} :
         At(step, o) \in Steps /\ At(step, o).at = step
  BY DEF At, Steps
<1>9. Idle \in Steps /\ Idle.at = "idle"
  BY DEF Idle, Steps
<1>10. ASSUME NEW t \in Thread, NEW o \in Obj, Find(t, o) \/ BeginCreateSource(t, o)
       PROVE  \A c \in Actor : pc'[c].at = "add" => pc'[c] = pc[c]
  <2>1. \E x \in Obj, step \in {"validate", "insert", "create"} : pc' = [pc EXCEPT ![t] = At(step, x)]
    BY <1>10 DEF Find, BeginCreateSource
  <2> QED BY <1>6, <1>8, <2>1
<1>11. ASSUME NEW t \in Thread, Insert(t) \/ Watch(t)
       PROVE  \A c \in Actor : pc'[c].at = "add" => pc'[c] = pc[c]
  BY <1>7, <1>11 DEF Insert, Watch
<1>12. ASSUME NEW t \in Thread, Validate(t) \/ CreateSource(t) \/ AddSource(t)
       PROVE  \A c \in Actor : pc'[c].at = "add" => pc'[c] = pc[c]
  BY <1>6, <1>9, <1>12 DEF Validate, CreateSource, AddSource
<1>13. ASSUME NEW t \in Thread, NEW o \in Obj, BeginInvalidate(t, o)
       PROVE  \A c \in Actor : pc'[c].at = "add" => pc'[c] = pc[c]
  <2>1. PICK r \in Steps : r = [at |-> "notify", obj |-> o, src |-> src[o]]
    BY <1>1 DEF Types, Steps
  <2>2. pc' = [pc EXCEPT ![t] = r] /\ r.at = "notify"
    BY <1>13, <2>1 DEF BeginInvalidate
  <2> QED BY <1>6, <2>2
<1>14. CASE StartBlock
  <2>1. PICK b \in main : pc' = [pc EXCEPT !["main"] = b]
    BY <1>14 DEF StartBlock
  <2>2. b \in Steps /\ b.at = "notify"
    BY <1>1, <2>1 DEF Types, Blocks, Steps
  <2> QED BY <1>4, <1>6, <2>1, <2>2
<1>15. ASSUME NEW a \in Actor, Notify(a) \/ EndSource(a) \/ ReleaseInfo(a) \/ Finish(a)
       PROVE  \A c \in Actor : pc'[c].at = "add" => pc'[c] = pc[c]
  BY <1>6, <1>7, <1>9, <1>15 DEF Notify, EndSource, ReleaseInfo, Finish
<1>16. ASSUME NEW o \in Obj, Fire(o) \/ CancelHandler(o) \/ Deallocate(o) \/ Reclaim(o) PROVE pc' = pc
  BY <1>16, Unowned DEF Fire, CancelHandler, Reclaim, queues
<1>17. ASSUME NEW t \in Thread, NEW o \in Obj,
              Release(t, o) \/ CallLate(t, o) \/ \E on \in BOOLEAN : SetCallBack(t, o, on)
       PROVE  pc' = pc
  BY <1>17 DEF Release, CallLate, SetCallBack
<1>18. ASSUME NEW t \in Thread, NEW s \in Source, InvalidateSource(t, s) \/ ReleaseSource(t, s) PROVE pc' = pc
  BY <1>18 DEF InvalidateSource, ReleaseSource
<1>19. ASSUME Check \/ RunLoop \/ \E p \in Port : Die(p) PROVE pc' = pc
  BY <1>19 DEF Check, Die, RunLoop, TestSource, Perform, Performed, Arrive
<1> QED BY <1>4, <1>5, <1>10, <1>11, <1>12, <1>13, <1>14, <1>15, <1>16, <1>17, <1>18, <1>19
        DEF Next, Call, Create, Step, Dispatch

-----------------------------------------------------------------------------
(* The theorems.                                                           *)

LEMMA InitInv == Init => Inv
<1> SUFFICES ASSUME Init PROVE Inv
  OBVIOUS
<1> USE Names
<1>1. Idle \in Steps /\ Idle.at = "idle" /\ Idle.obj = None
  BY DEF Idle, Steps
<1>2. Types
  BY <1>1 DEF Init, Types
<1>3. \A a \in Actor : pc[a] = Idle
  BY DEF Init
<1>4. MainOK /\ StepsOK /\ AddsOK
  BY <1>1, <1>3 DEF Init, MainOK, StepsOK, AddsOK
<1>5. \A a \in Actor : ~Ends(a) /\ ~HasSource(pc[a])
  BY <1>1, <1>3 DEF Ends, HasSource
<1>6. TableOK /\ EndsOK
  BY <1>5 DEF Init, TableOK, EndsOK
<1>7. CallOK /\ NotifiedOnce
  BY <1>1, <1>3 DEF Init, CallOK, NotifiedOnce
<1>8. SourceOK
  BY <1>5 DEF Init, SourceOK
<1> QED BY <1>2, <1>4, <1>6, <1>7, <1>8 DEF Inv

LEMMA StutterInv == Inv /\ UNCHANGED vars => Inv'
BY DEF Inv, vars, object, client, sources, queues, Types, MainOK, StepsOK, AddsOK, TableOK, EndsOK, Ends,
       CallOK, SourceOK, HasSource, Linked, NotifiedOnce

LEMMA StepInv == Inv /\ [Next]_vars => Inv'
<1> SUFFICES ASSUME Inv, [Next]_vars PROVE Inv'
  OBVIOUS
<1>1. CASE Next
  BY <1>1, NextTypes, NextOwners, NextTable, NextEnds, NextCalls, NextSources, NextAdds DEF Inv
<1>2. CASE UNCHANGED vars
  BY <1>2, StutterInv
<1> QED BY <1>1, <1>2

\* The inductive invariant: who owns an object, who ends it, and who holds its source.
THEOREM Invariance == Spec => []Inv
BY InitInv, StepInv, PTL DEF Spec

\* Types; and exactly the blocks that the main queue has still to run, or runs, own
\* their objects, so that no object is deallocated under its queued block.
THEOREM TypeCorrect == Spec => []TypeOK
<1>1. Inv => TypeOK
  BY DEF Inv, Types, MainOK, TypeOK, Steps, Blocks
<1> QED BY <1>1, Invariance, PTL

\* The invalidation callback that was set last is called at most once, however many
\* threads, the checker and a late CFMachPortSetInvalidationCallBack compete.
THEOREM CalledOnce == Spec => []NotifiedOnce
<1>1. Inv => NotifiedOnce
  BY DEF Inv
<1> QED BY <1>1, Invariance, PTL

\* A run loop source that is valid and owned belongs to an object that is ready, or
\* whose invalidation has still to reach the source.
THEOREM NoSourceLeft == Spec => []SourcesEnd
<1>1. Inv => SourcesEnd
  <2> SUFFICES ASSUME Inv, NEW s \in Source, s \in valid, keep[s] # {}
               PROVE  st[port[s]] \in {"ready", "invalidating"}
    BY DEF SourcesEnd
  <2>1. CASE \E o \in Obj : src[o] = s
    <3>1. PICK o \in Obj : src[o] = s
      BY <2>1
    <3>2. src[o] # None
      BY <3>1, Names
    <3> QED BY <3>1, <3>2 DEF Inv, SourceOK, Linked
  <2>2. CASE \E a \in Actor : HasSource(pc[a]) /\ pc[a].src = s
    <3>1. PICK a \in Actor : HasSource(pc[a]) /\ pc[a].src = s
      BY <2>2
    <3>2. port[s] = pc[a].obj /\ Ends(a)
      BY <3>1 DEF Inv, SourceOK, Linked, HasSource, Ends
    <3> QED BY <3>2 DEF Inv, EndsOK
  <2>3. CASE \E b \in main : HasSource(b) /\ b.src = s
    BY <2>3 DEF Inv, SourceOK, Linked, EndsOK
  <2> QED BY <2>1, <2>2, <2>3 DEF Inv, SourceOK
<1> QED BY <1>1, Invariance, PTL

\* __CFMachPortPerform retains the context's info only while the object owns it.
THEOREM NeverRevived == Spec => InfoNotRevived
<1>1. ASSUME Inv, [Next]_vars, NEW o \in Obj, st[o] \notin {"unused", "new"}, info[o] = {}
      PROVE  info'[o] = {}
  <2>1. Types /\ st[o] # "ready"
    BY <1>1 DEF Inv, TableOK
  <2>2. CASE info' = info
    BY <1>1, <2>2
  <2>3. ASSUME NEW t \in Thread, Insert(t) PROVE info'[o] = {}
    <3>1. st[pc[t].obj] = "new"
      BY <2>3, <1>1, Names DEF Insert, Inv, StepsOK
    <3> QED BY <1>1, <2>1, <2>3, <3>1 DEF Insert, Types
  <2>4. ASSUME NEW a \in Actor, ReleaseInfo(a) PROVE info'[o] = {}
    BY <1>1, <2>1, <2>4 DEF ReleaseInfo, Types
  <2>5. CASE Perform
    BY <1>1, <2>1, <2>5 DEF Perform, Types
  <2>6. CASE Performed
    BY <1>1, <2>1, <2>6 DEF Performed, Types
  <2>7. ASSUME NEW x \in Obj, Deallocate(x) PROVE info' = info
    BY <1>1, <2>7, Unowned
  <2>8. ASSUME NEW t \in Thread, NEW x \in Obj,
               \/ Find(t, x) \/ Release(t, x) \/ BeginInvalidate(t, x) \/ CallLate(t, x)
               \/ BeginCreateSource(t, x) \/ \E on \in BOOLEAN : SetCallBack(t, x, on)
        PROVE  info' = info
    BY <2>8 DEF Find, Release, BeginInvalidate, CallLate, BeginCreateSource, SetCallBack, client
  <2>9. ASSUME NEW t \in Thread, NEW s \in Source, BeginAddSource(t, s) \/ InvalidateSource(t, s) \/ ReleaseSource(t, s)
        PROVE  info' = info
    BY <2>9 DEF BeginAddSource, InvalidateSource, ReleaseSource, client
  <2>10. ASSUME NEW t \in Thread, Watch(t) \/ Validate(t) \/ CreateSource(t) \/ AddSource(t)
         PROVE  info' = info
    BY <2>10 DEF Watch, Validate, CreateSource, AddSource, client
  <2>11. ASSUME NEW a \in Actor, Notify(a) \/ EndSource(a) \/ Finish(a) PROVE info' = info
    BY <2>11 DEF Notify, EndSource, Finish, client
  <2>12. ASSUME NEW x \in Obj, Fire(x) \/ CancelHandler(x) \/ Reclaim(x) PROVE info' = info
    BY <2>12 DEF Fire, CancelHandler, Reclaim, client
  <2>13. ASSUME Check \/ StartBlock \/ (\E p \in Port : Die(p)) \/ (\E s \in Source : Arrive(s))
                \/ TestSource \/ UNCHANGED vars
         PROVE  info' = info
    BY <2>13 DEF Check, StartBlock, Die, Arrive, TestSource, client, vars
  <2> QED BY <1>1, <2>2, <2>3, <2>4, <2>5, <2>6, <2>7, <2>8, <2>9, <2>10, <2>11, <2>12, <2>13
          DEF Next, Call, Create, Step, Dispatch, RunLoop
<1>2. Inv /\ [Next]_vars =>
        [\A o \in Obj : st[o] \notin {"unused", "new"} /\ info[o] = {} => info'[o] = {}]_vars
  BY <1>1
<1> QED BY <1>2, Invariance, PTL DEF Spec, InfoNotRevived

\* __CFMachPortDeallocate finds an object that is invalid: whoever has begun to end it
\* keeps a reference until it is done.
THEOREM InvalidFirst == Spec => InvalidBeforeDealloc
<1>1. ASSUME Inv, [Next]_vars, NEW o \in Obj, st'[o] = "deallocating", st[o] # "deallocating"
      PROVE  st[o] = "invalid"
  <2>1. Types
    BY <1>1 DEF Inv
  <2>2. ASSUME NEW x \in Obj, Deallocate(x) PROVE st[o] = "invalid"
    BY <1>1, <2>1, <2>2, Unowned DEF Types
  <2>3. st' # st
    BY <1>1
  <2>4. ASSUME NEW t \in Thread, NEW x \in Obj, Find(t, x) \/ BeginInvalidate(t, x) PROVE FALSE
    BY <1>1, <2>1, <2>3, <2>4 DEF Types, Find, BeginInvalidate
  <2>5. ASSUME NEW t \in Thread, Insert(t) PROVE FALSE
    BY <1>1, <2>1, <2>5 DEF Types, Insert
  <2>6. ASSUME NEW a \in Actor, Finish(a) PROVE FALSE
    BY <1>1, <2>1, <2>6 DEF Types, Finish
  <2>7. ASSUME NEW x \in Obj, Reclaim(x) PROVE FALSE
    BY <1>1, <2>1, <2>7 DEF Types, Reclaim
  <2>8. CASE Check
    BY <1>1, <2>8 DEF Check
  <2>9. ASSUME NEW t \in Thread, NEW x \in Obj,
               \/ Release(t, x) \/ CallLate(t, x)
               \/ BeginCreateSource(t, x) \/ \E on \in BOOLEAN : SetCallBack(t, x, on)
        PROVE  FALSE
    BY <2>3, <2>9 DEF Release, CallLate, BeginCreateSource, SetCallBack, object
  <2>10. ASSUME NEW t \in Thread, NEW s \in Source, BeginAddSource(t, s) \/ InvalidateSource(t, s) \/ ReleaseSource(t, s)
         PROVE  FALSE
    BY <2>3, <2>10 DEF BeginAddSource, InvalidateSource, ReleaseSource, object
  <2>11. ASSUME NEW t \in Thread, Watch(t) \/ Validate(t) \/ CreateSource(t) \/ AddSource(t)
         PROVE  FALSE
    BY <2>3, <2>11 DEF Watch, Validate, CreateSource, AddSource, object
  <2>12. ASSUME NEW a \in Actor, Notify(a) \/ EndSource(a) \/ ReleaseInfo(a) PROVE FALSE
    BY <2>3, <2>12 DEF Notify, EndSource, ReleaseInfo, object
  <2>13. ASSUME NEW x \in Obj, Fire(x) \/ CancelHandler(x) PROVE FALSE
    BY <2>3, <2>13 DEF Fire, CancelHandler
  <2>14. ASSUME StartBlock \/ (\E p \in Port : Die(p)) \/ Perform \/ Performed
                \/ (\E s \in Source : Arrive(s)) \/ TestSource \/ UNCHANGED vars
         PROVE  FALSE
    BY <2>3, <2>14 DEF StartBlock, Die, Arrive, Perform, Performed, TestSource, object, vars
  <2> QED BY <1>1, <2>2, <2>4, <2>5, <2>6, <2>7, <2>8, <2>9, <2>10, <2>11, <2>12, <2>13, <2>14
          DEF Next, Call, Create, Step, Dispatch, RunLoop
<1>2. Inv /\ [Next]_vars =>
        [\A o \in Obj : st'[o] = "deallocating" /\ st[o] # "deallocating" => st[o] = "invalid"]_vars
  BY <1>1
<1> QED BY <1>2, Invariance, PTL DEF Spec, InvalidBeforeDealloc

\* The checker never sweeps out an object of a live port that somebody has: a thread
\* that has called create, or a source that a run loop has alone.
THEOREM OnlyUnwantedSwept == Spec => []InUseStays
<1> DEFINE Ours(o) == \A t \in Thread : <<t, "invalidate", o>> \notin Calls
           Past(o) == PortOf[o] \in alive /\ st[o] \notin {"unused", "new", "ready"}
           Kept(o) == \E s \in Source : port[s] = o /\ keep[s] # {}
           Alone == \A o \in Obj : Ours(o) /\ Past(o) => refs[o] \subseteq {"main"} /\ ~Kept(o)
<1>1. InUseStays <=> Alone
  <2>1. ASSUME NEW o \in Obj PROVE Owners(o) \subseteq {"main"} <=> refs[o] \subseteq {"main"} /\ ~Kept(o)
    <3>1. "main" \notin Source
      BY PortAssumption
    <3> QED BY <3>1 DEF Owners
  <2> QED BY <2>1 DEF InUseStays
<1>2. Init => Alone
  BY DEF Init
<1>3. ASSUME Inv, Alone, [Next]_vars PROVE Alone'
  <2> USE Names
  <2>1. Types /\ StepsOK /\ TableOK /\ AddsOK /\ SourceOK
    BY <1>3 DEF Inv
  \* Objects that were swept before, and objects that somebody gave back.
  <2>2. ASSUME \A o \in Obj : Ours(o) /\ Past(o)' => Past(o) /\ refs'[o] \subseteq refs[o] /\ (Kept(o)' => Kept(o))
        PROVE  Alone'
    BY <1>3, <2>2
  <2>3. ASSUME UNCHANGED <<alive, st, refs>>, UNCHANGED port, \A s \in Source : keep'[s] # {} => keep[s] # {}
        PROVE  Alone'
    BY <2>2, <2>3
  <2>4. ASSUME UNCHANGED <<alive, st, port, keep>>,
               NEW t \in Thread, NEW x \in Obj, refs' = [refs EXCEPT ![x] = @ \ {t}]
        PROVE  Alone'
    BY <2>1, <2>2, <2>4 DEF Types
  <2>5. ASSUME NEW p \in Port, Die(p) PROVE Alone'
    BY <2>2, <2>5 DEF Die, object, sources
  <2>6. ASSUME NEW t \in Thread, NEW x \in Obj, Find(t, x) PROVE Alone'
    <3>1. UNCHANGED <<alive, port, keep>>
      BY <2>6 DEF Find, sources
    <3>2. CASE \E y \in Obj : InTable(y) /\ st' = st /\ refs' = [refs EXCEPT ![y] = @ \cup {t}]
      BY <2>1, <2>2, <3>1, <3>2 DEF Types, TableOK, InTable
    <3>3. CASE st' = [st EXCEPT ![x] = "new"] /\ refs' = [refs EXCEPT ![x] = {t}]
      BY <2>1, <2>2, <3>1, <3>3 DEF Types
    <3> QED BY <2>6, <3>2, <3>3 DEF Find
  <2>7. ASSUME NEW t \in Thread, Insert(t) PROVE Alone'
    BY <2>1, <2>2, <2>7 DEF Types, Insert, sources
  <2>8. ASSUME NEW t \in Thread, Validate(t) PROVE Alone'
    <3>1. CASE refs' = refs
      BY <2>3, <2>8, <3>1 DEF Validate, sources
    <3>2. CASE refs' = [refs EXCEPT ![pc[t].obj] = @ \ {t}]
      <4>1. pc[t].obj \in Obj
        BY <2>1, <2>8 DEF Validate, StepsOK
      <4> QED BY <2>4, <2>8, <3>2, <4>1 DEF Validate, sources
    <3> QED BY <2>8, <3>1, <3>2 DEF Validate
  <2>9. ASSUME NEW t \in Thread, NEW x \in Obj, Release(t, x) PROVE Alone'
    BY <2>4, <2>9 DEF Release, sources
  <2>10. ASSUME NEW t \in Thread, NEW x \in Obj, BeginInvalidate(t, x), <<t, "invalidate", x>> \in Calls
         PROVE  Alone'
    <3>1. /\ UNCHANGED <<alive, port, keep>> /\ ~Ours(x)
          /\ \A o \in Obj \ {x} : st'[o] = st[o] /\ refs'[o] = refs[o]
      BY <2>1, <2>10 DEF Types, BeginInvalidate
    <3> QED BY <2>2, <3>1
  \* With a live port only what nobody else owns is swept.
  <2>11. CASE Check
    <3>1. UNCHANGED <<alive, port, keep>>
      BY <2>11 DEF Check
    <3>2. ASSUME NEW o \in Obj, Ours(o), Past(o)' PROVE refs'[o] \subseteq {"main"} /\ ~Kept(o)'
      <4>1. CASE Past(o)
        <5>1. "table" \notin refs[o] /\ ~Unwanted(o)
          BY <2>1, <4>1 DEF TableOK, Unwanted, InTable
        <5>2. refs'[o] = refs[o]
          BY <2>11, <5>1 DEF Check
        <5> QED BY <1>3, <3>1, <3>2, <4>1, <5>2
      <4>2. CASE ~Past(o)
        <5>1. Unwanted(o) /\ st[o] = "ready" /\ PortOf[o] \in alive
          BY <2>11, <3>1, <3>2, <4>2 DEF Check
        <5>2. refs[o] \cup {s \in Source : port[s] = o /\ keep[s] # {}} = {"table"}
          BY <5>1 DEF Unwanted, Owners
        <5>3. refs'[o] = (refs[o] \ {"table"}) \cup {"main"}
          BY <2>11, <5>1 DEF Check
        <5>4. ~Kept(o)
          BY <5>2
        <5> QED BY <3>1, <5>2, <5>3, <5>4
      <4> QED BY <4>1, <4>2
    <3> QED BY <3>2
  <2>12. ASSUME NEW a \in Actor, Finish(a) PROVE Alone'
    <3>1. st[pc[a].obj] = "invalidating" /\ pc[a].obj \in Obj
      BY <1>3, <2>12 DEF Finish, Inv, EndsOK, Ends, StepsOK
    <3>2. UNCHANGED <<alive, port, keep>> /\ \A o \in Obj : refs'[o] \subseteq refs[o]
      BY <2>1, <2>12 DEF Types, Finish, sources
    <3>3. \A o \in Obj : Past(o)' => Past(o)
      BY <2>1, <2>12, <3>1, <3>2 DEF Types, Finish
    <3> QED BY <2>2, <3>2, <3>3
  <2>13. ASSUME NEW a \in Actor, EndSource(a) PROVE Alone'
    <3>1. \A s \in Source : keep'[s] # {} => keep[s] # {}
      BY <2>1, <2>13 DEF Types, EndSource
    <3> QED BY <2>3, <2>13, <3>1 DEF EndSource, object
  <2>14. ASSUME NEW x \in Obj, Deallocate(x) \/ Reclaim(x) PROVE Alone'
    <3>1. /\ UNCHANGED <<alive, refs, port, keep>> /\ st[x] \in {"invalid", "deallocating"}
          /\ \A o \in Obj \ {x} : st'[o] = st[o]
      BY <1>3, <2>1, <2>14, Unowned DEF Types, Reclaim, sources
    <3> QED BY <2>2, <3>1
  <2>15. ASSUME NEW t \in Thread, CreateSource(t) PROVE Alone'
    <3> DEFINE o == pc[t].obj
    <3>1. UNCHANGED <<alive, st, refs>> /\ o \in Obj
      BY <2>1, <2>15 DEF CreateSource, StepsOK, object
    <3>2. CASE UNCHANGED sources
      BY <2>3, <3>1, <3>2 DEF sources
    <3>3. CASE st[o] = "ready" /\ SourceOf(t, o)
      <4> HIDE DEF o
      <4>1. src[o] # None => port[src[o]] = o
        BY <2>1, <3>1 DEF SourceOK, Linked
      <4>5. ~Past(o)
        BY <3>3
      <4>6. ASSUME \A k \in Obj \ {o} : Kept(k)' => Kept(k) PROVE Alone'
        <5>1. \A k \in Obj : (Past(k)' <=> Past(k)) /\ refs'[k] = refs[k]
          BY <3>1
        <5> HIDE DEF Past, Kept, Ours, Alone
        <5>2. \A k \in Obj : Ours(k) /\ Past(k)' => Past(k) /\ refs'[k] \subseteq refs[k] /\ (Kept(k)' => Kept(k))
          BY <4>5, <4>6, <5>1
        <5> QED BY <2>2, <5>2
      <4>2. CASE UNCHANGED port /\ src[o] \in valid /\ keep' = [keep EXCEPT ![src[o]] = @ \cup {t}]
        <5>1. \A s \in Source : s # src[o] => keep'[s] = keep[s]
          BY <2>1, <4>2 DEF Types
        <5>2. port[src[o]] = o
          BY <2>1, <4>1, <4>2 DEF Types
        <5>3. \A k \in Obj \ {o} : Kept(k)' => Kept(k)
          BY <4>2, <5>1, <5>2
        <5> QED BY <4>6, <5>3
      <4>3. ASSUME NEW s \in Source, port' = [port EXCEPT ![s] = o],
                   keep' = [k \in Source |-> IF k = s THEN {"port", t}
                                   ELSE IF k = src[o] THEN keep[k] \ {"port"} ELSE keep[k]]
            PROVE  Alone'
        <5>1. port'[s] = o /\ \A k \in Source \ {s} : port'[k] = port[k] /\ keep'[k] \subseteq keep[k]
          BY <2>1, <4>3 DEF Types
        <5>2. \A k \in Obj \ {o} : Kept(k)' => Kept(k)
          BY <5>1
        <5> QED BY <4>6, <5>2
      <4>4. CASE /\ UNCHANGED port
                 /\ keep' = [k \in Source |-> IF k = src[o] THEN keep[k] \ {"port"} ELSE keep[k]]
        BY <2>3, <3>1, <4>4
      <4> QED BY <2>1, <3>1, <3>3, <4>2, <4>3, <4>4, Sourced
    <3> QED BY <2>15, <3>2, <3>3 DEF CreateSource
  <2>16. ASSUME NEW t \in Thread, AddSource(t) PROVE Alone'
    <3>1. pc[t].src \in Source /\ keep[pc[t].src] # {}
      BY <2>1, <2>16 DEF AddSource, AddsOK
    <3>2. \A s \in Source : keep'[s] # {} => keep[s] # {}
      BY <2>1, <2>16, <3>1 DEF Types, AddSource
    <3> QED BY <2>3, <2>16, <3>2 DEF AddSource, object
  <2>17. ASSUME NEW t \in Thread, NEW s \in Source, InvalidateSource(t, s) \/ ReleaseSource(t, s)
         PROVE  Alone'
    <3>1. \A k \in Source : keep'[k] # {} => keep[k] # {}
      BY <2>1, <2>17 DEF Types, InvalidateSource, ReleaseSource
    <3> QED BY <2>3, <2>17, <3>1 DEF InvalidateSource, ReleaseSource, object
  <2>18. ASSUME NEW s \in Source, Arrive(s) PROVE Alone'
    <3>1. \A k \in Source : keep'[k] # {} => keep[k] # {}
      BY <2>1, <2>18 DEF Types, Arrive
    <3> QED BY <2>3, <2>18, <3>1 DEF Arrive, object
  <2>19. CASE TestSource \/ Performed
    <3>1. \A k \in Source : keep'[k] # {} => keep[k] # {}
      BY <2>1, <2>19 DEF Types, TestSource, Performed
    <3> QED BY <2>3, <2>19, <3>1 DEF TestSource, Performed, object
  <2>20. ASSUME UNCHANGED <<alive, st, refs, port, keep>> PROVE Alone'
    BY <2>3, <2>20
  <2>21. ASSUME NEW t \in Thread, NEW o \in Obj,
                CallLate(t, o) \/ BeginCreateSource(t, o) \/ \E on \in BOOLEAN : SetCallBack(t, o, on)
         PROVE  Alone'
    BY <2>20, <2>21 DEF CallLate, BeginCreateSource, SetCallBack, object, sources
  <2>22. ASSUME NEW t \in Thread, Watch(t) \/ \E s \in Source : BeginAddSource(t, s) PROVE Alone'
    BY <2>20, <2>22 DEF Watch, BeginAddSource, object, sources
  <2>23. ASSUME NEW a \in Actor, Notify(a) \/ ReleaseInfo(a) PROVE Alone'
    BY <2>20, <2>23 DEF Notify, ReleaseInfo, object, sources
  <2>24. ASSUME NEW o \in Obj, Fire(o) \/ CancelHandler(o) PROVE Alone'
    BY <2>20, <2>24 DEF Fire, CancelHandler, sources
  <2>25. CASE StartBlock \/ Perform \/ UNCHANGED vars
    BY <2>20, <2>25 DEF StartBlock, Perform, object, sources, vars
  <2> HIDE DEF Alone
  <2> QED BY <1>3, <2>5, <2>6, <2>7, <2>8, <2>9, <2>10, <2>11, <2>12, <2>13, <2>14, <2>15, <2>16, <2>17,
             <2>18, <2>19, <2>21, <2>22, <2>23, <2>24, <2>25
          DEF Next, Call, Create, Step, Dispatch, RunLoop
<1> HIDE DEF Alone
<1> QED BY <1>1, <1>2, <1>3, Invariance, PTL DEF Spec
=============================================================================
