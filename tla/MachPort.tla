------------------------------ MODULE MachPort ------------------------------
(***************************************************************************)
(* CFMachPort (CFMachPort.c): objects that wrap a Mach port, the table     *)
(* that holds one for every port in use, the dispatch source that watches  *)
(* the port's death, the run loop source that brings its messages, and     *)
(* the ways all of them end: an invalidation by a client, the checker that *)
(* runs when some port has died, and the last release.                     *)
(*                                                                         *)
(* A step ends where a lock is given up.  Callouts last from the step that *)
(* starts them to the actor's next step.  Reference counts are sets of     *)
(* owners: a thread holds one reference to an object at a time.            *)
(***************************************************************************)
EXTENDS Naturals, FiniteSets

CONSTANTS Thread, Obj, Source, Port, None,
          PortOf,        \* the port each object of the pool wraps
          Calls,         \* which thread calls what about which object
          Sends          \* ports with a send right, whose death is watched

ASSUME PortAssumption ==
    /\ PortOf \in [Obj -> Port] /\ Sends \subseteq Port
    /\ Calls \subseteq Thread \X {"create", "invalidate", "callback", "source"} \X Obj
    /\ None \notin Obj \cup Source
    /\ (Thread \cup Source) \cap {"table", "main", "port", "mode", "loop"} = {}

VARIABLES alive,         \* ports that have rights
          st,            \* _state of each object
          refs,          \* its owners; "table": it is in __CFAllMachPorts
          watch,         \* its dispatch source; _dsrc # NULL: "live" or "fired"
          icall,         \* objects with an invalidation callback
          told,          \* times the callback set last has been called
          info,          \* owners of the context's info
          src,           \* _source of each object
          port, valid,   \* of each run loop source: the object, __CFIsValid
          keep,          \* owners of each run loop source
          pc,            \* a thread's call, or the block the main queue runs
          main,          \* blocks queued to the main queue
          checking,      \* the serial queue has called the checker
          loop           \* what the run loop does, and with which source

vars == <<alive, st, refs, watch, icall, told, info, src, port, valid, keep,
          pc, main, checking, loop>>
object == <<st, refs, watch>>
client == <<icall, told, info>>
sources == <<src, port, valid, keep>>
queues == <<main, checking, loop>>

Actor == Thread \cup {"main"}
Idle == [at |-> "idle", obj |-> None, src |-> None]
At(step, o) == [at |-> step, obj |-> o, src |-> None]
GoTo(a, step) == pc' = [pc EXCEPT ![a].at = step]
Free(t) == pc[t] = Idle

\* A run loop source retains its object until it is deallocated itself.
Owners(o) == refs[o] \cup {s \in Source : port[s] = o /\ keep[s] # {}}
InTable(o) == "table" \in refs[o]
HasWatch(o) == watch[o] \in {"live", "fired"}
Cancelled(w) == IF w \in {"live", "fired"} THEN "cancelled" ELSE w

Init ==
    /\ alive = Port
    /\ st = [o \in Obj |-> "unused"]
    /\ refs = [o \in Obj |-> {}] /\ info = [o \in Obj |-> {}]
    /\ watch = [o \in Obj |-> "none"]
    /\ icall = {} /\ told = [o \in Obj |-> 0]
    /\ src = [o \in Obj |-> None]
    /\ port = [s \in Source |-> None] /\ valid = {}
    /\ keep = [s \in Source |-> {}]
    /\ pc = [a \in Actor |-> Idle]
    /\ main = {} /\ checking = FALSE
    /\ loop = [at |-> "wait", src |-> None]

\* The holder of the receive right gives it up.
Die(p) == /\ p \in alive
          /\ alive' = alive \ {p}
          /\ UNCHANGED <<object, client, sources, pc, queues>>

-----------------------------------------------------------------------------
(* _CFMachPortCreateWithPort2.  The lock of the table is given up between   *)
(* the search and the insertion.                                           *)

\* With an object of the pool for the port, should it need a new one.
Find(t, new) ==
    LET p == PortOf[new]
        found == {o \in Obj : PortOf[o] = p /\ InTable(o)} IN
    /\ Free(t) /\ p \in alive
    /\ \/ /\ \E o \in found : /\ t \notin refs[o]
                           /\ refs' = [refs EXCEPT ![o] = @ \cup {t}]
                           /\ pc' = [pc EXCEPT ![t] = At("validate", o)]
          /\ UNCHANGED st
       \/ /\ found = {} /\ st[new] = "unused"
          /\ st' = [st EXCEPT ![new] = "new"]
          /\ refs' = [refs EXCEPT ![new] = {t}]
          /\ pc' = [pc EXCEPT ![t] = At("insert", new)]
    /\ UNCHANGED <<alive, watch, client, sources, queues>>

Insert(t) ==
    LET o == pc[t].obj IN
    /\ pc[t].at = "insert"
    /\ st' = [st EXCEPT ![o] = "ready"]
    /\ refs' = [refs EXCEPT ![o] = @ \cup {"table"}]
    /\ info' = [info EXCEPT ![o] = {"port"}]
    /\ GoTo(t, IF PortOf[o] \in Sends THEN "watch" ELSE "validate")
    /\ UNCHANGED <<alive, watch, icall, told, sources, queues>>

\* Outside any lock.  dispatch_source_create may fail.
Watch(t) ==
    LET o == pc[t].obj IN
    /\ pc[t].at = "watch"
    /\ \E w \in {"live", "none"} : watch' = [watch EXCEPT ![o] = w]
    /\ GoTo(t, "validate")
    /\ UNCHANGED <<alive, st, refs, client, sources, queues>>

\* CFMachPortIsValid; an object that went invalid is given back.
Validate(t) ==
    LET o == pc[t].obj IN
    /\ pc[t].at = "validate"
    /\ refs' = IF st[o] = "ready" /\ PortOf[o] \in alive THEN refs
               ELSE [refs EXCEPT ![o] = @ \ {t}]
    /\ pc' = [pc EXCEPT ![t] = Idle]
    /\ UNCHANGED <<alive, st, watch, client, sources, queues>>

Release(t, o) ==
    /\ Free(t) /\ t \in refs[o]
    /\ refs' = [refs EXCEPT ![o] = @ \ {t}]
    /\ UNCHANGED <<alive, st, watch, client, sources, pc, queues>>

-----------------------------------------------------------------------------
(* Invalidation: begun by CFMachPortInvalidate or by the checker, ended by  *)
(* __CFMachPortInvalidateLocked in the client's thread or the main queue.  *)

BeginInvalidateAgain(t, o) ==          \* mutant: wasReady is not looked at
    /\ Free(t) /\ t \in refs[o] /\ st[o] \in {"ready", "invalidating", "invalid"}
    /\ st' = [st EXCEPT ![o] = "invalidating"]
    /\ refs' = [refs EXCEPT ![o] = @ \ {"table"}]
    /\ watch' = [watch EXCEPT ![o] = Cancelled(@)]
    /\ src' = [src EXCEPT ![o] = None]
    /\ pc' = [pc EXCEPT ![t] = [at |-> "notify", obj |-> o, src |-> src[o]]]
    /\ UNCHANGED <<alive, client, port, valid, keep, queues>>
BeginInvalidate(t, o) ==
    /\ Free(t) /\ t \in refs[o] /\ st[o] = "ready"
    /\ st' = [st EXCEPT ![o] = "invalidating"]
    /\ refs' = [refs EXCEPT ![o] = @ \ {"table"}]
    /\ watch' = [watch EXCEPT ![o] = Cancelled(@)]
    /\ src' = [src EXCEPT ![o] = None]
    /\ pc' = [pc EXCEPT ![t] = [at |-> "notify", obj |-> o, src |-> src[o]]]
    /\ UNCHANGED <<alive, client, port, valid, keep, queues>>

\* The port's death reaches the dispatch source, once.
Fire(o) ==
    /\ watch[o] = "live" /\ PortOf[o] \notin alive /\ ~checking
    /\ watch' = [watch EXCEPT ![o] = "fired"]
    /\ checking' = TRUE
    /\ UNCHANGED <<alive, st, refs, client, sources, pc, main, loop>>

UnwantedByOne(o) ==                    \* mutant: the table's reference is not counted
    InTable(o) /\ (PortOf[o] \notin alive \/ Cardinality(Owners(o)) <= 2)
UnwantedOnly(o) == InTable(o) /\ Owners(o) = {"table"}   \* mutant: dead ports stay
\* __CFMachPortChecker sweeps out what is dead and what nobody else wants.
Unwanted(o) == InTable(o) /\ (PortOf[o] \notin alive \/ Owners(o) = {"table"})
CheckUnretained ==                     \* mutant: the queued block owns nothing
    LET swept == {o \in Obj : Unwanted(o)}
        ready == {o \in swept : st[o] = "ready"} IN
    /\ checking
    /\ st' = [o \in Obj |-> IF o \in ready THEN "invalidating" ELSE st[o]]
    /\ watch' = [o \in Obj |-> IF o \in ready THEN Cancelled(watch[o]) ELSE watch[o]]
    /\ refs' = [o \in Obj |-> IF o \in swept THEN refs[o] \ {"table"} ELSE refs[o]]
    /\ src' = [o \in Obj |-> IF o \in ready THEN None ELSE src[o]]
    /\ main' = main \cup {[at |-> "notify", obj |-> o, src |-> src[o]] : o \in ready}
    /\ checking' = FALSE
    /\ UNCHANGED <<alive, client, port, valid, keep, pc, loop>>
Check ==
    LET swept == {o \in Obj : Unwanted(o)}
        ready == {o \in swept : st[o] = "ready"} IN
    /\ checking
    /\ st' = [o \in Obj |-> IF o \in ready THEN "invalidating" ELSE st[o]]
    /\ watch' = [o \in Obj |-> IF o \in ready THEN Cancelled(watch[o]) ELSE watch[o]]
    /\ refs' = [o \in Obj |-> IF o \in ready THEN (refs[o] \ {"table"}) \cup {"main"}
                              ELSE IF o \in swept THEN refs[o] \ {"table"} ELSE refs[o]]
    /\ src' = [o \in Obj |-> IF o \in ready THEN None ELSE src[o]]
    /\ main' = main \cup {[at |-> "notify", obj |-> o, src |-> src[o]] : o \in ready}
    /\ checking' = FALSE
    /\ UNCHANGED <<alive, client, port, valid, keep, pc, loop>>

StartBlock ==
    /\ Free("main")
    /\ \E b \in main : pc' = [pc EXCEPT !["main"] = b] /\ main' = main \ {b}
    /\ UNCHANGED <<alive, object, client, sources, checking, loop>>

Notify(a) ==
    LET o == pc[a].obj IN
    /\ pc[a].at = "notify" /\ o \in icall
    /\ told' = [told EXCEPT ![o] = @ + 1]
    /\ GoTo(a, "source")
    /\ UNCHANGED <<alive, object, icall, info, sources, queues>>

\* Steps that have nothing to call keep the lock and pass to the next.
AtSource(a) == pc[a].at = "source" \/ (pc[a].at = "notify" /\ pc[a].obj \notin icall)
AtInfo(a) == pc[a].at = "info" \/ (AtSource(a) /\ pc[a].src = None)

\* CFRunLoopSourceInvalidate, which takes it out of its modes, and CFRelease.
EndSource(a) ==
    LET s == pc[a].src IN
    /\ AtSource(a) /\ s # None
    /\ valid' = valid \ {s}
    /\ keep' = [keep EXCEPT ![s] = @ \ {"port", "mode"}]
    /\ GoTo(a, "info")
    /\ UNCHANGED <<alive, object, client, src, port, queues>>

ReleaseInfo(a) ==
    LET o == pc[a].obj IN
    /\ AtInfo(a)
    /\ info' = [info EXCEPT ![o] = @ \ {"port"}]
    /\ GoTo(a, "finish")
    /\ UNCHANGED <<alive, object, icall, told, sources, queues>>

FinishLeak(a) ==                       \* mutant: the queued block's CFRelease is lost
    /\ pc[a].at = "finish"
    /\ st' = [st EXCEPT ![pc[a].obj] = "invalid"]
    /\ pc' = [pc EXCEPT ![a] = Idle]
    /\ UNCHANGED <<alive, refs, watch, client, sources, queues>>
Finish(a) ==
    LET o == pc[a].obj IN
    /\ pc[a].at = "finish"
    /\ st' = [st EXCEPT ![o] = "invalid"]
    /\ refs' = [refs EXCEPT ![o] = IF a = "main" THEN @ \ {"main"} ELSE @]
    /\ pc' = [pc EXCEPT ![a] = Idle]
    /\ UNCHANGED <<alive, watch, client, sources, queues>>

-----------------------------------------------------------------------------
(* The end of an object nobody owns.                                       *)

\* The branch for an object that is still ready, whose callouts nobody can meet.
InvalidateUnowned(o) ==
    LET s == src[o] IN
    /\ watch' = [watch EXCEPT ![o] = Cancelled(@)]
    /\ told' = [told EXCEPT ![o] = IF o \in icall THEN @ + 1 ELSE @]
    /\ info' = [info EXCEPT ![o] = @ \ {"port"}]
    /\ src' = [src EXCEPT ![o] = None]
    /\ valid' = valid \ {s}
    /\ keep' = [k \in Source |-> IF k = s THEN keep[k] \ {"port", "mode"} ELSE keep[k]]

Deallocate(o) ==
    /\ Owners(o) = {} /\ st[o] \in {"ready", "invalidating", "invalid"}
    /\ st' = [st EXCEPT ![o] = "deallocating"]
    /\ IF st[o] = "ready" THEN InvalidateUnowned(o)
       ELSE UNCHANGED <<watch, told, info, src, valid, keep>>
    /\ UNCHANGED <<alive, refs, icall, port, pc, queues>>

\* The cancel handler signals the semaphore ...
CancelHandler(o) ==
    /\ watch[o] = "cancelled"
    /\ watch' = [watch EXCEPT ![o] = "ended"]
    /\ UNCHANGED <<alive, st, refs, client, sources, pc, queues>>

ReclaimSignalled(o) ==                 \* mutant: waits although there is no semaphore
    /\ st[o] = "deallocating" /\ watch[o] = "ended"
    /\ st' = [st EXCEPT ![o] = "gone"]
    /\ UNCHANGED <<alive, refs, watch, client, sources, pc, queues>>
\* ... that the background block waits for before it gives the rights back.
Reclaim(o) ==
    /\ st[o] = "deallocating" /\ watch[o] \in {"none", "ended"}
    /\ st' = [st EXCEPT ![o] = "gone"]
    /\ UNCHANGED <<alive, refs, watch, client, sources, pc, queues>>

-----------------------------------------------------------------------------
(* CFMachPortSetInvalidationCallBack.                                      *)

\* While the object is ready; NULL at any time.
SetCallBack(t, o, on) ==
    /\ Free(t) /\ t \in refs[o] /\ (st[o] = "ready" \/ ~on)
    /\ icall' = IF on THEN icall \cup {o} ELSE icall \ {o}
    /\ told' = [told EXCEPT ![o] = 0]
    /\ UNCHANGED <<alive, object, info, sources, pc, queues>>

\* Too late to be kept: it is called at once, unless another one is set.
CallLate(t, o) ==
    /\ Free(t) /\ t \in refs[o] /\ st[o] # "ready" /\ o \notin icall
    /\ told' = [told EXCEPT ![o] = 1]
    /\ UNCHANGED <<alive, object, icall, info, sources, pc, queues>>

-----------------------------------------------------------------------------
(* The run loop source.                                                    *)

\* CFMachPortCreateRunLoopSource: CFMachPortIsValid, which also asks for the port,
\* comes before the lock.
BeginCreateSource(t, o) ==
    /\ Free(t) /\ t \in refs[o] /\ st[o] = "ready" /\ PortOf[o] \in alive
    /\ pc' = [pc EXCEPT ![t] = At("create", o)]
    /\ UNCHANGED <<alive, object, client, sources, queues>>

\* The source of the object, a new one when it has none or an invalid one.
SourceOf(t, o) ==
    IF src[o] \in valid
    THEN /\ keep' = [keep EXCEPT ![src[o]] = @ \cup {t}]
         /\ UNCHANGED <<src, port, valid>>
    ELSE LET kept == [s \in Source |-> IF s = src[o] THEN keep[s] \ {"port"} ELSE keep[s]]
         IN \/ \E s \in Source :
                 /\ kept[s] = {}
                 /\ keep' = [kept EXCEPT ![s] = {"port", t}]
                 /\ src' = [src EXCEPT ![o] = s]
                 /\ port' = [port EXCEPT ![s] = o]
                 /\ valid' = valid \cup {s}
            \/ \* CFRunLoopSourceCreate fails
               /\ keep' = kept
               /\ src' = [src EXCEPT ![o] = None]
               /\ UNCHANGED <<port, valid>>

CreateSourceLate(t) ==                 \* mutant: validity is not tested again
    /\ pc[t].at = "create"
    /\ SourceOf(t, pc[t].obj)
    /\ pc' = [pc EXCEPT ![t] = Idle]
    /\ UNCHANGED <<alive, object, client, queues>>
CreateSource(t) ==
    LET o == pc[t].obj IN
    /\ pc[t].at = "create"
    /\ IF st[o] = "ready" THEN SourceOf(t, o) ELSE UNCHANGED sources
    /\ pc' = [pc EXCEPT ![t] = Idle]
    /\ UNCHANGED <<alive, object, client, queues>>

\* CFRunLoopAddSource of a client tests the source before it takes the loop's lock.
BeginAddSource(t, s) ==
    /\ Free(t) /\ t \in keep[s] /\ s \in valid
    /\ pc' = [pc EXCEPT ![t] = [at |-> "add", obj |-> None, src |-> s]]
    /\ UNCHANGED <<alive, object, client, sources, queues>>

AddSource(t) ==
    /\ pc[t].at = "add"
    /\ keep' = [keep EXCEPT ![pc[t].src] = @ \cup {"mode"}]
    /\ pc' = [pc EXCEPT ![t] = Idle]
    /\ UNCHANGED <<alive, object, client, src, port, valid, queues>>

\* CFRunLoopSourceInvalidate and CFRelease of a client.
InvalidateSource(t, s) ==
    /\ Free(t) /\ t \in keep[s] /\ s \in valid
    /\ valid' = valid \ {s}
    /\ keep' = [keep EXCEPT ![s] = @ \ {"mode"}]
    /\ UNCHANGED <<alive, object, client, src, port, pc, queues>>

ReleaseSource(t, s) ==
    /\ Free(t) /\ t \in keep[s]
    /\ keep' = [keep EXCEPT ![s] = @ \ {t}]
    /\ UNCHANGED <<alive, object, client, src, port, valid, pc, queues>>

\* A message arrives: __CFRunLoopDoSource1 retains the source and gives up the
\* loop's lock ...
Arrive(s) ==
    /\ loop.at = "wait" /\ "mode" \in keep[s] /\ PortOf[port[s]] \in alive
    /\ keep' = [keep EXCEPT ![s] = @ \cup {"loop"}]
    /\ loop' = [at |-> "test", src |-> s]
    /\ UNCHANGED <<alive, object, client, src, port, valid, pc, main, checking>>

\* ... and tests under the source's lock whether it is still valid.
TestSource ==
    LET s == loop.src IN
    /\ loop.at = "test"
    /\ IF s \in valid
       THEN /\ loop' = [loop EXCEPT !.at = "perform"]
            /\ UNCHANGED keep
       ELSE /\ keep' = [keep EXCEPT ![s] = @ \ {"loop"}]
            /\ loop' = [at |-> "wait", src |-> None]
    /\ UNCHANGED <<alive, object, client, src, port, valid, pc, main, checking>>

\* __CFMachPortPerform looks at the object's state under the object's lock.
PerformInvalid ==                      \* mutant: isValid is not looked at
    /\ loop.at = "perform"
    /\ info' = [info EXCEPT ![port[loop.src]] = @ \cup {"loop"}]
    /\ loop' = [loop EXCEPT !.at = "callout"]
    /\ UNCHANGED <<alive, object, icall, told, sources, pc, main, checking>>
Perform ==
    LET o == port[loop.src] IN
    /\ loop.at = "perform"
    /\ info' = IF st[o] = "ready" THEN [info EXCEPT ![o] = @ \cup {"loop"}] ELSE info
    /\ loop' = [loop EXCEPT !.at = "callout"]
    /\ UNCHANGED <<alive, object, icall, told, sources, pc, main, checking>>

Performed ==
    LET s == loop.src IN
    /\ loop.at = "callout"
    /\ info' = [info EXCEPT ![port[s]] = @ \ {"loop"}]
    /\ keep' = [keep EXCEPT ![s] = @ \ {"loop"}]
    /\ loop' = [at |-> "wait", src |-> None]
    /\ UNCHANGED <<alive, object, icall, told, src, port, valid, pc, main, checking>>

-----------------------------------------------------------------------------
Call(t) == \E o \in Obj :
    \/ <<t, "create", o>> \in Calls /\ (Find(t, o) \/ Release(t, o))
    \/ <<t, "invalidate", o>> \in Calls /\ BeginInvalidate(t, o)
    \/ /\ <<t, "callback", o>> \in Calls
       /\ CallLate(t, o) \/ \E on \in BOOLEAN : SetCallBack(t, o, on)
    \/ /\ <<t, "source", o>> \in Calls
       /\ \/ BeginCreateSource(t, o)
          \/ \E s \in Source : /\ port[s] = o
                               /\ \/ BeginAddSource(t, s) \/ InvalidateSource(t, s)
                                  \/ ReleaseSource(t, s)
Step(a) == Notify(a) \/ EndSource(a) \/ ReleaseInfo(a) \/ Finish(a)
Create(t) == Insert(t) \/ Watch(t) \/ Validate(t) \/ CreateSource(t) \/ AddSource(t)
Dispatch == \E o \in Obj : Fire(o) \/ CancelHandler(o) \/ Deallocate(o) \/ Reclaim(o)
RunLoop == TestSource \/ Perform \/ Performed \/ \E s \in Source : Arrive(s)

Next == \/ \E p \in Port : Die(p)
        \/ \E t \in Thread : Call(t) \/ Create(t)
        \/ \E a \in Actor : Step(a)
        \/ Check \/ StartBlock \/ Dispatch \/ RunLoop

Spec == Init /\ [][Next]_vars

\* A call that has begun goes on, dispatch runs what it was given, the callout of a
\* message returns.
Fairness ==
    /\ \A t \in Thread : WF_vars(Create(t))
    /\ \A a \in Actor : WF_vars(Step(a))
    /\ WF_vars(Check) /\ WF_vars(StartBlock)
    /\ WF_vars(TestSource) /\ WF_vars(Perform) /\ WF_vars(Performed)
    /\ \A o \in Obj : /\ WF_vars(Fire(o)) /\ WF_vars(CancelHandler(o))
                      /\ WF_vars(Deallocate(o)) /\ WF_vars(Reclaim(o))
LiveSpec == Spec /\ Fairness

-----------------------------------------------------------------------------
(* Properties.                                                             *)

\* Types, and: a block of the main queue owns its object until it has run.
TypeOK ==
    /\ alive \subseteq Port
    /\ st \in [Obj -> {"unused", "new", "ready", "invalidating", "invalid",
                      "deallocating", "gone"}]
    /\ refs \in [Obj -> SUBSET (Thread \cup {"table", "main"})]
    /\ watch \in [Obj -> {"none", "live", "fired", "cancelled", "ended"}]
    /\ icall \subseteq Obj /\ told \in [Obj -> Nat]
    /\ info \in [Obj -> SUBSET {"port", "loop"}]
    /\ src \in [Obj -> Source \cup {None}]
    /\ port \in [Source -> Obj \cup {None}] /\ valid \subseteq Source
    /\ keep \in [Source -> SUBSET (Thread \cup {"port", "mode", "loop"})]
    /\ pc \in [Actor -> [at : {"idle", "insert", "watch", "validate", "notify", "source",
                               "info", "finish", "create", "add"},
                         obj : Obj \cup {None}, src : Source \cup {None}]]
    /\ main \subseteq [at : {"notify"}, obj : Obj, src : Source \cup {None}]
    /\ checking \in BOOLEAN
    /\ loop \in [at : {"wait", "test", "perform", "callout"}, src : Source \cup {None}]
    /\ \A o \in Obj : "main" \in refs[o] <=>
          pc["main"].obj = o \/ \E b \in main : b.obj = o

\* The callback set last is called once, whichever of a client, the checker and
\* the last release ends the object, and however late the callback was set.
NotifiedOnce == \A o \in Obj : told[o] <= 1

\* The message callout holds the context's info, and once its last owner has
\* released the info nobody retains it again.
InfoNotRevived ==
    [][\A o \in Obj : st[o] \notin {"unused", "new"} /\ info[o] = {} => info'[o] = {}]_vars

\* An object that is done going invalid leaves no run loop source that could
\* still be scheduled or bring a message.
SourcesEnd ==
    \A s \in Source : s \in valid /\ keep[s] # {}
        => st[port[s]] \in {"ready", "invalidating"}

\* The checker sweeps out only what is dead or wanted by nobody: as long as its port
\* lives, an object that no client invalidates is ready for everybody who has it,
\* whether a thread, or a run loop through a source nobody else keeps.
InUseStays ==
    \A o \in Obj :
        /\ PortOf[o] \in alive /\ st[o] \notin {"unused", "new", "ready"}
        /\ \A t \in Thread : <<t, "invalidate", o>> \notin Calls
        => Owners(o) \subseteq {"main"}

\* "CFMachPortRef is invalid before we get here" (CFMachPort.c:176): an object
\* loses its last owner only after its invalidation has ended.
InvalidBeforeDealloc ==
    [][\A o \in Obj : st'[o] = "deallocating" /\ st[o] # "deallocating" => st[o] = "invalid"]_vars

\* A deallocated object's dispatch source has been cancelled, so that the block
\* that waits for its cancel handler ends.  _dsrc is "protected by _lock".
NoWatchLeft == \A o \in Obj : st[o] = "deallocating" => ~HasWatch(o)

\* The death of a watched port, like a client's call, ends in an invalid object
\* whose callback has been called, unless it was withdrawn.
DeathNotified ==
    \A o \in Obj :
        (st[o] = "ready" /\ HasWatch(o) /\ PortOf[o] \notin alive /\ o \in icall)
            ~> (st[o] # "ready" /\ (told[o] = 1 \/ o \notin icall))

\* The rights of an invalid object that nobody owns are given back, unless its
\* dispatch source was missed by the invalidation.
Reclaimed ==
    \A o \in Obj : (st[o] = "invalid" /\ Owners(o) = {} /\ ~HasWatch(o)) ~> (st[o] = "gone")
=============================================================================
