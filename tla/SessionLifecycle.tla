-------------------------- MODULE SessionLifecycle --------------------------
(***************************************************************************)
(* Who owns an RdpSession, and who may still be using one.                 *)
(*                                                                         *)
(* native_bridge.cpp keeps the current session in one global unique_ptr,   *)
(* g_session, guarded by g_stateMutex. The JNI entry points run on any     *)
(* thread of the app's IO dispatcher: nativeConnect and nativeDisconnect   *)
(* move sessions between g_session and unique_ptrs of their own stack      *)
(* frames, drop the mutex, and stop and join workers without it. Every     *)
(* session has one worker thread.                                          *)
(*                                                                         *)
(* A session is the heap address it lives at, so an address is used again  *)
(* after its session is destroyed. The connection is abstracted here to    *)
(* what the entry points can see of it (RdpSession.tla has the details).   *)
(***************************************************************************)
EXTENDS RdpCodes

CONSTANTS
    Callers,    \* threads that run JNI calls, one call at a time each
    Sessions,   \* heap addresses an RdpSession can live at
    Targets,    \* host:port pairs the app asks for
    Outcomes,   \* codes a failed connect reports
    None        \* a null pointer, an absent caller or target

ASSUME NoneAssumption     == None \notin Callers \cup Sessions \cup Targets
ASSUME NoneIsNoCode       == None \notin Int
ASSUME OutcomesAssumption == Outcomes \subseteq ConnectFailureCodes

VARIABLES
    (* the bridge's globals, and the unique_ptrs on the callers' stacks *)
    initialized,    \* g_initialized
    stateMutex,     \* the caller that holds g_stateMutex across a step, or None
    ptr,            \* what each unique_ptr points at
    (* one per caller *)
    pc,             \* where its call has got to
    wanted,         \* the target its nativeConnect asks for
    pending,        \* pendingSession, the raw pointer nativeConnect waits on
    result,         \* the code its last call returned, or this one is to return
    (* one per session *)
    creator,        \* the caller whose nativeConnect made it; None: free address
    target,         \* host and port
    stopRequested,  \* stopRequested
    connected,      \* connected
    report,         \* connectResult once connectFinished is set, None before
    worker          \* where the worker thread has got to

callerVars  == <<pc, wanted, pending, result>>
sessionVars == <<creator, target, stopRequested, connected, report, worker>>
vars == <<initialized, stateMutex, ptr, callerVars, sessionVars>>

-----------------------------------------------------------------------------
(* The unique_ptrs: g_session, and per caller oldSession, newSession and the *)
(* one a session is taken into to be ended (failedSession in nativeConnect,  *)
(* session in nativeDisconnect, the displaced value of a move-assignment).   *)
G        == <<"g_session">>
Old(c)   == <<"oldSession", c>>
New(c)   == <<"newSession", c>>
Taken(c) == <<"taken", c>>
Slots == {G} \cup UNION {{Old(c), New(c), Taken(c)} : c \in Callers}

Codes == Outcomes \cup {RC_OK, RC_ALREADY_CONNECTED, RC_NOT_CONNECTED,
                        RC_INVALID_ARGUMENT, RC_NETWORK_FAILURE, RC_BACKEND_UNAVAILABLE}

Pcs == {"idle", "stopOld", "joinOld", "create", "publish", "stopDisplaced",
        "joinDisplaced", "wait", "reap", "stopTaken", "joinTaken", "return", "use"}

WorkerPcs == {"dialing", "up", "online", "closing", "exited"}

Live(s) == creator[s] # None

TypeOK ==
    /\ initialized \in BOOLEAN
    /\ stateMutex \in Callers \cup {None}
    /\ ptr \in [Slots -> Sessions \cup {None}]
    /\ pc \in [Callers -> Pcs]
    /\ wanted \in [Callers -> Targets \cup {None}]
    /\ pending \in [Callers -> Sessions \cup {None}]
    /\ result \in [Callers -> Codes \cup {None}]
    /\ creator \in [Sessions -> Callers \cup {None}]
    /\ target \in [Sessions -> Targets \cup {None}]
    /\ stopRequested \in [Sessions -> BOOLEAN]
    /\ connected \in [Sessions -> BOOLEAN]
    /\ report \in [Sessions -> Codes \cup {None}]
    /\ worker \in [Sessions -> WorkerPcs]
    /\ \A c \in Callers :
          pc[c] \in {"publish", "stopDisplaced", "joinDisplaced", "wait", "reap"}
              => pending[c] # None

Init ==
    /\ initialized = FALSE
    /\ stateMutex = None
    /\ ptr = [x \in Slots |-> None]
    /\ pc = [c \in Callers |-> "idle"]
    /\ wanted = [c \in Callers |-> None]
    /\ pending = [c \in Callers |-> None]
    /\ result = [c \in Callers |-> None]
    /\ creator = [s \in Sessions |-> None]
    /\ target = [s \in Sessions |-> None]
    /\ stopRequested = [s \in Sessions |-> FALSE]
    /\ connected = [s \in Sessions |-> FALSE]
    /\ report = [s \in Sessions |-> None]
    /\ worker = [s \in Sessions |-> "exited"]

-----------------------------------------------------------------------------
(* Steps shared by the calls.                                                *)

(* dst = std::move(src), for an empty dst *)
Move(src, dst) == ptr' = [ptr EXCEPT ![dst] = ptr[src], ![src] = None]

(* Mutant: stop() wakes the worker without setting the flag.                 *)
RequestStopUnheard(s) == stopRequested[s] \in BOOLEAN /\ UNCHANGED sessionVars

(* The first statement of stop(); the rest of it wakes the worker.           *)
RequestStop(s) ==
    /\ stopRequested' = [stopRequested EXCEPT ![s] = TRUE]
    /\ UNCHANGED <<creator, target, connected, report, worker>>

(* Mutant: the worker is detached.                                           *)
JoinedNever(s) == worker[s] \in WorkerPcs

(* worker.join() at the end of stop()                                        *)
Joined(s) == worker[s] = "exited"

(* The destructor: by then the worker is joined. The fields of a free        *)
(* address mean nothing and are put back to the constructor's.               *)
Destroy(s) ==
    /\ creator' = [creator EXCEPT ![s] = None]
    /\ target' = [target EXCEPT ![s] = None]
    /\ stopRequested' = [stopRequested EXCEPT ![s] = FALSE]
    /\ connected' = [connected EXCEPT ![s] = FALSE]
    /\ report' = [report EXCEPT ![s] = None]
    /\ UNCHANGED worker

Goto(c, where) == pc' = [pc EXCEPT ![c] = where]
Set(c, code)   == result' = [result EXCEPT ![c] = code]

(* A call that starts with lock_guard(g_stateMutex) gets past it.            *)
Locks(c) == pc[c] = "idle" /\ stateMutex = None

(* isTarget reads connectFinished without connectMutex.                      *)
isTarget(s, t) == (connected[s] \/ report[s] = None) /\ target[s] = t

-----------------------------------------------------------------------------
(* nativeInit: what it does to the environment is not modelled.              *)
NativeInit(c) ==
    /\ Locks(c)
    /\ initialized' = TRUE
    /\ UNCHANGED <<stateMutex, ptr, callerVars, sessionVars>>

(* nativeConnect's early returns                                             *)
ConnectRefused(c, t) ==
    /\ \/ pc[c] = "idle" /\ Set(c, RC_INVALID_ARGUMENT)
       \/ Locks(c) /\ ~initialized /\ Set(c, RC_BACKEND_UNAVAILABLE)
       \/ /\ Locks(c) /\ initialized
          /\ ptr[G] # None /\ isTarget(ptr[G], t)
          /\ Set(c, RC_ALREADY_CONNECTED)
    /\ UNCHANGED <<initialized, stateMutex, ptr, pc, wanted, pending, sessionVars>>

(* The first critical section: the current session, if there is one, moves   *)
(* to oldSession.                                                            *)
ConnectBegins(c, t) ==
    /\ Locks(c) /\ initialized
    /\ wanted' = [wanted EXCEPT ![c] = t] /\ Set(c, None)
    /\ \/ ptr[G] = None /\ Goto(c, "create") /\ UNCHANGED ptr
       \/ ptr[G] # None /\ ~isTarget(ptr[G], t) /\ Goto(c, "stopOld") /\ Move(G, Old(c))
    /\ UNCHANGED <<initialized, stateMutex, pending, sessionVars>>

StopOld(c) ==
    /\ pc[c] = "stopOld" /\ Goto(c, "joinOld")
    /\ RequestStop(ptr[Old(c)])
    /\ UNCHANGED <<initialized, stateMutex, ptr, wanted, pending, result>>

JoinOld(c) ==
    /\ pc[c] = "joinOld" /\ Goto(c, "create")
    /\ Joined(ptr[Old(c)])
    /\ UNCHANGED <<initialized, stateMutex, ptr, wanted, pending, result, sessionVars>>

(* Mutant: pendingSession is read from newSession before it is assigned.     *)
CreateAndStartNull(c, s) ==
    /\ pc[c] = "create" /\ Goto(c, "publish")
    /\ ~Live(s)
    /\ ptr' = [ptr EXCEPT ![New(c)] = s]
    /\ pending' = [pending EXCEPT ![c] = ptr[New(c)]]
    /\ creator' = [creator EXCEPT ![s] = c]
    /\ target' = [target EXCEPT ![s] = wanted[c]]
    /\ worker' = [worker EXCEPT ![s] = "dialing"]
    /\ UNCHANGED <<initialized, stateMutex, wanted, result, stopRequested, connected, report>>

(* make_unique and start(): from here on the worker runs.                    *)
CreateAndStart(c, s) ==
    /\ pc[c] = "create" /\ Goto(c, "publish")
    /\ ~Live(s)
    /\ ptr' = [ptr EXCEPT ![New(c)] = s]
    /\ pending' = [pending EXCEPT ![c] = s]
    /\ creator' = [creator EXCEPT ![s] = c]
    /\ target' = [target EXCEPT ![s] = wanted[c]]
    /\ worker' = [worker EXCEPT ![s] = "dialing"]
    /\ UNCHANGED <<initialized, stateMutex, wanted, result, stopRequested, connected, report>>

(* No stop event or no thread: newSession never had a worker and goes with   *)
(* the call.                                                                 *)
StartFails(c) ==
    /\ pc[c] = "create" /\ Goto(c, "return")
    /\ Set(c, RC_BACKEND_UNAVAILABLE)
    /\ UNCHANGED <<initialized, stateMutex, ptr, wanted, pending, sessionVars>>

(* Mutant: the displaced session is released and forgotten.                  *)
PublishForgetting(c) ==
    /\ pc[c] = "publish" /\ stateMutex = None
    /\ Move(New(c), G) /\ Goto(c, "wait")
    /\ UNCHANGED <<initialized, stateMutex, wanted, pending, result, sessionVars>>

(* g_session = std::move(newSession). A session another call published since *)
(* the first critical section is destroyed by the assignment, and its worker *)
(* joined, with g_stateMutex held.                                           *)
Publish(c) ==
    /\ pc[c] = "publish" /\ stateMutex = None
    /\ \/ /\ ptr[G] = None
          /\ Move(New(c), G)
          /\ Goto(c, "wait") /\ UNCHANGED stateMutex
       \/ /\ ptr[G] # None
          /\ ptr' = [ptr EXCEPT ![Taken(c)] = ptr[G], ![G] = ptr[New(c)], ![New(c)] = None]
          /\ Goto(c, "stopDisplaced") /\ stateMutex' = c
    /\ UNCHANGED <<initialized, wanted, pending, result, sessionVars>>

StopDisplaced(c) ==
    /\ pc[c] = "stopDisplaced" /\ Goto(c, "joinDisplaced")
    /\ RequestStop(ptr[Taken(c)])
    /\ UNCHANGED <<initialized, stateMutex, ptr, wanted, pending, result>>

JoinDisplaced(c) ==
    /\ pc[c] = "joinDisplaced" /\ Goto(c, "wait")
    /\ Joined(ptr[Taken(c)]) /\ Destroy(ptr[Taken(c)])
    /\ ptr' = [ptr EXCEPT ![Taken(c)] = None]
    /\ stateMutex' = None
    /\ UNCHANGED <<initialized, wanted, pending, result>>

(* What waitForConnectResult answers. It follows the raw pendingSession      *)
(* without g_stateMutex: if that memory was freed the answer is whatever the *)
(* read finds, and if the address is in use again it is the other session's. *)
Answers(c, code) ==
    LET s == pending[c] IN
    \/ ~Live(s) /\ code \in Outcomes \cup {RC_OK, RC_NETWORK_FAILURE}
    \/ Live(s) /\ report[s] = None /\ code = RC_NETWORK_FAILURE    \* 120 s passed
    \/ Live(s) /\ report[s] # None /\ code = report[s]

Waits(c) ==
    /\ pc[c] = "wait"
    /\ \E code \in Codes :
          /\ Answers(c, code) /\ Set(c, code)
          /\ Goto(c, IF code < 0 THEN "reap" ELSE "return")
    /\ UNCHANGED <<initialized, stateMutex, ptr, wanted, pending, sessionVars>>

(* g_session is taken back if it is still the pending one, by address.       *)
Reap(c) ==
    /\ pc[c] = "reap" /\ stateMutex = None
    /\ IF ptr[G] = pending[c] THEN Move(G, Taken(c)) /\ Goto(c, "stopTaken")
                              ELSE UNCHANGED ptr /\ Goto(c, "return")
    /\ UNCHANGED <<initialized, stateMutex, wanted, pending, result, sessionVars>>

StopTaken(c) ==
    /\ pc[c] = "stopTaken" /\ Goto(c, "joinTaken")
    /\ RequestStop(ptr[Taken(c)])
    /\ UNCHANGED <<initialized, stateMutex, ptr, wanted, pending, result>>

JoinTaken(c) ==
    /\ pc[c] = "joinTaken" /\ Goto(c, "return")
    /\ Joined(ptr[Taken(c)]) /\ Destroy(ptr[Taken(c)])
    /\ ptr' = [ptr EXCEPT ![Taken(c)] = None]
    /\ UNCHANGED <<initialized, stateMutex, wanted, pending, result>>

(* Mutant: oldSession is a raw pointer nobody deletes.                       *)
ReturnsLeaking(c) ==
    /\ pc[c] = "return" /\ Goto(c, "idle")
    /\ wanted' = [wanted EXCEPT ![c] = None]
    /\ pending' = [pending EXCEPT ![c] = None]
    /\ ptr' = [ptr EXCEPT ![Old(c)] = None]
    /\ UNCHANGED <<initialized, stateMutex, result, sessionVars>>

(* oldSession lives until the call returns.                                  *)
Returns(c) ==
    /\ pc[c] = "return" /\ Goto(c, "idle")
    /\ wanted' = [wanted EXCEPT ![c] = None]
    /\ pending' = [pending EXCEPT ![c] = None]
    /\ IF ptr[Old(c)] = None
       THEN UNCHANGED <<ptr, sessionVars>>
       ELSE ptr' = [ptr EXCEPT ![Old(c)] = None] /\ Destroy(ptr[Old(c)])
    /\ UNCHANGED <<initialized, stateMutex, result>>

-----------------------------------------------------------------------------
DisconnectRefused(c) ==
    /\ Locks(c)
    /\ \/ ~initialized /\ Set(c, RC_BACKEND_UNAVAILABLE)
       \/ initialized /\ ptr[G] = None /\ Set(c, RC_NOT_CONNECTED)
    /\ UNCHANGED <<initialized, stateMutex, ptr, pc, wanted, pending, sessionVars>>

(* Mutant: the session is ended while g_session still points at it.          *)
DisconnectInPlace(c) ==
    /\ Locks(c) /\ initialized /\ ptr[G] # None
    /\ ptr' = [ptr EXCEPT ![Taken(c)] = ptr[G]]
    /\ Goto(c, "stopTaken") /\ Set(c, RC_OK)
    /\ UNCHANGED <<initialized, stateMutex, wanted, pending, sessionVars>>

DisconnectTakes(c) ==
    /\ Locks(c) /\ initialized /\ ptr[G] # None
    /\ Move(G, Taken(c)) /\ Goto(c, "stopTaken") /\ Set(c, RC_OK)
    /\ UNCHANGED <<initialized, stateMutex, wanted, pending, sessionVars>>

(* Mutant: the mutex is dropped once g_session was tested.                   *)
UseBeginsUnlocked(c) ==
    /\ Locks(c) /\ initialized /\ ptr[G] # None
    /\ Goto(c, "use") /\ Set(c, None)
    /\ UNCHANGED <<initialized, stateMutex, ptr, wanted, pending, sessionVars>>

(* The calls that use g_session for as long as they hold g_stateMutex: input,*)
(* frame info and copy, event polling, certificate decisions.                *)
UseBegins(c) ==
    /\ Locks(c) /\ initialized /\ ptr[G] # None
    /\ Goto(c, "use") /\ stateMutex' = c /\ Set(c, None)
    /\ UNCHANGED <<initialized, ptr, wanted, pending, sessionVars>>

UseEnds(c) ==
    /\ pc[c] = "use" /\ Goto(c, "idle") /\ stateMutex' = None
    /\ UNCHANGED <<initialized, ptr, wanted, pending, result, sessionVars>>

-----------------------------------------------------------------------------
(* The worker thread, run().                                                 *)
WorkerMoves(s, from, to) ==
    /\ worker[s] = from
    /\ worker' = [worker EXCEPT ![s] = to]
    /\ UNCHANGED <<initialized, stateMutex, ptr, callerVars, creator, target, stopRequested>>

(* connected.store(true), and as a second step setConnectResult(RC_OK)       *)
WorkerConnects(s) ==
    /\ WorkerMoves(s, "dialing", "up")
    /\ connected' = [connected EXCEPT ![s] = TRUE]
    /\ UNCHANGED report

WorkerReportsOk(s) ==
    /\ WorkerMoves(s, "up", "online")
    /\ report' = [report EXCEPT ![s] = RC_OK]
    /\ UNCHANGED connected

WorkerReportsFailure(s) ==
    /\ WorkerMoves(s, "dialing", "closing")
    /\ \E code \in Outcomes : report' = [report EXCEPT ![s] = code]
    /\ UNCHANGED connected

WorkerStops(s) ==
    /\ WorkerMoves(s, "online", "closing")
    /\ stopRequested[s]
    /\ UNCHANGED <<connected, report>>

WorkerLosesConnection(s) ==
    /\ WorkerMoves(s, "online", "closing")
    /\ UNCHANGED <<connected, report>>

(* cleanup() first takes the session offline; run() returns when the FreeRDP *)
(* instance is freed.                                                        *)
WorkerGoesOffline(s) ==
    /\ WorkerMoves(s, "closing", "closing")
    /\ connected[s] /\ connected' = [connected EXCEPT ![s] = FALSE]
    /\ UNCHANGED report

WorkerExits(s) ==
    /\ WorkerMoves(s, "closing", "exited")
    /\ ~connected[s]
    /\ UNCHANGED <<connected, report>>

-----------------------------------------------------------------------------
(* A call in progress, past the lock it started with                         *)
CallSteps(c) ==
    \/ StopOld(c) \/ JoinOld(c)
    \/ (\E s \in Sessions : CreateAndStart(c, s)) \/ StartFails(c)
    \/ Publish(c) \/ StopDisplaced(c) \/ JoinDisplaced(c)
    \/ Waits(c) \/ Reap(c) \/ StopTaken(c) \/ JoinTaken(c)
    \/ Returns(c) \/ UseEnds(c)

CallBegins(c) ==
    \/ NativeInit(c)
    \/ \E t \in Targets : ConnectRefused(c, t) \/ ConnectBegins(c, t)
    \/ DisconnectRefused(c) \/ DisconnectTakes(c)
    \/ UseBegins(c)

WorkerSteps(s) ==
    \/ WorkerConnects(s) \/ WorkerReportsOk(s) \/ WorkerReportsFailure(s)
    \/ WorkerStops(s) \/ WorkerGoesOffline(s) \/ WorkerExits(s)

Next ==
    \/ \E c \in Callers : CallBegins(c) \/ CallSteps(c)
    \/ \E s \in Sessions : WorkerSteps(s) \/ WorkerLosesConnection(s)

Spec == Init /\ [][Next]_vars

(* Threads are scheduled, the wait in nativeConnect is bounded, and a thread *)
(* that waits for g_stateMutex gets it if it keeps becoming free. Of a worker*)
(* only one thing is assumed: that it goes on once it is asked to stop, as   *)
(* SessionContract promises. Nobody promises that a call is made, that a     *)
(* connect attempt left alone ends or that a connection breaks.              *)
Fairness ==
    /\ \A c \in Callers : WF_vars(CallSteps(c)) /\ SF_vars(Publish(c)) /\ SF_vars(Reap(c))
    /\ \A s \in Sessions : WF_vars(stopRequested[s] /\ WorkerSteps(s))

FairSpec == Spec /\ Fairness

-----------------------------------------------------------------------------
(* Every session has exactly one owner: no unique_ptr points at freed memory,*)
(* no two at the same session, and none is lost without being destroyed.     *)
UniqueOwner ==
    /\ \A x \in Slots : ptr[x] # None => Live(ptr[x])
    /\ \A x, y \in Slots : ptr[x] # None /\ ptr[x] = ptr[y] => x = y
    /\ \A s \in Sessions : Live(s) => \E x \in Slots : ptr[x] = s

(* A session is freed only after its worker thread was joined: nothing runs  *)
(* on a freed session's fields, and no joinable std::thread is destroyed.    *)
NoThreadOnFreedSession == \A s \in Sessions : ~Live(s) => worker[s] = "exited"

(* stop() is never called on the session g_session points at: what the other *)
(* calls find there is not being torn down by anybody.                       *)
PublishedIsNotStopping == ptr[G] # None => ~stopRequested[ptr[G]]

(* While a short call uses g_session it holds the mutex alone and the session*)
(* it looks at is live, and no step of another call replaces it.             *)
UseIsProtected ==
    [][\A c \in Callers : pc[c] = "use" =>
          /\ stateMutex = c /\ ptr[G] # None /\ Live(ptr[G])
          /\ ptr'[G] = ptr[G] /\ Live(ptr[G])']_vars

(* When no call is in progress, the only worker that runs is g_session's:    *)
(* every connection a call replaced, gave up or closed is over.              *)
QuiescentSingle ==
    (\A c \in Callers : pc[c] = "idle") =>
        \A s \in Sessions : Live(s) \/ worker[s] # "exited" => ptr[G] = s

(* Every call returns: stop() makes a worker end whatever it is doing, so no *)
(* join blocks for ever, not even the one made with g_stateMutex held.       *)
CallsReturn == \A c \in Callers : pc[c] # "idle" ~> pc[c] = "idle"

(* A session asked to stop is destroyed, and its address is free again.      *)
StoppedSessionsEnd == \A s \in Sessions : stopRequested[s] ~> ~stopRequested[s]

(* docs/ARCHITECTURE.md says the bridge maintains a single RdpContext that   *)
(* the global mutex protects. So the session a caller waits on in            *)
(* nativeConnect is the live one it created.                                 *)
WaitsOnOwnSession ==
    \A c \in Callers : pc[c] = "wait" => creator[pending[c]] = c
=============================================================================
