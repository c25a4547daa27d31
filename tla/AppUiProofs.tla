---------------------------- MODULE AppUiProofs -----------------------------
(***************************************************************************)
(* The safety properties of AppUi, for any number of clicks, sessions,     *)
(* certificate requests and recreations of the activity. Every step of the *)
(* app is a step of SessionLifecycle or leaves the bridge alone, so the    *)
(* bridge's inductive invariant comes with SessionLifecycleProofs.         *)
(***************************************************************************)
EXTENDS AppUi, SessionLifecycleProofs

(* What a worker has reported at each of its steps                           *)
WorkerOk(s) ==
    /\ worker[s] \in {"dialing", "up"} => report[s] = None
    /\ worker[s] = "online" => report[s] = RC_OK
    /\ report[s] \in Outcomes \cup {RC_OK, None}
    /\ connected[s] => worker[s] \in {"up", "online", "closing"}
    /\ ~Live(s) => report[s] = None /\ ~connected[s]

WorkerInv == \A s \in Sessions : WorkerOk(s)

-----------------------------------------------------------------------------
(* What the app does is a step of the bridge, or nothing to the bridge.      *)
LEMMA AppSteps ==
    ASSUME UiNext
    PROVE  \/ UNCHANGED vars
           \/ \E c \in Callers : (CallBegins(c) \/ CallSteps(c)) /\ Survive
           \/ \E s \in Sessions : WorkerLoses(s) \/ WorkerGoesOn(s)
<1>1. CASE User \/ PollLoopSteps \/ SnackbarEnds \/ StrayPolls
  BY <1>1 DEF User, ClickConnect, ClickDisconnect, ActivityRecreated, PollLoopSteps,
              Polls, HandlesPrompt, HandlesLoss, SnackbarEnds, StrayPolls
<1>2. ASSUME NEW c \in Callers, JobSteps(c)
      PROVE  UNCHANGED vars \/ ((CallBegins(c) \/ CallSteps(c)) /\ Survive)
  <2>1. CASE Initializes(c) \/ DisconnectCalls(c)
    BY <2>1 DEF Initializes, DisconnectCalls, CallBegins
  <2>2. CASE ConnectCalls(c)
    BY <2>2 DEF ConnectCalls, CallBegins
  <2>3. CASE CallGoesOn(c)
    BY <2>3 DEF CallGoesOn
  <2>4. CASE ConnectResult(c)
    BY <2>4 DEF ConnectResult
  <2>5. CASE DisconnectResult(c)
    BY <2>5 DEF DisconnectResult
  <2> QED
    BY <1>2, <2>1, <2>2, <2>3, <2>4, <2>5 DEF JobSteps
<1>3. ASSUME NEW s \in Sessions, Asks(s) \/ StopsAsking(s) \/ Announces(s)
      PROVE  UNCHANGED vars
  BY <1>3 DEF Asks, StopsAsking, Announces
<1> QED
  BY <1>1, <1>2, <1>3 DEF UiNext

(* So a step of the app is one of SessionLifecycle or a stutter.             *)
LEMMA AppImplementsBridge == [UiNext]_allVars => [Next]_vars
<1>1. UNCHANGED allVars => UNCHANGED vars
  BY DEF allVars
<1>2. UiNext => [Next]_vars
  BY AppSteps DEF Next, WorkerLoses, WorkerGoesOn
<1> QED
  BY <1>1, <1>2

(* The app drives the bridge as SessionLifecycle allows: all that is proved  *)
(* of the bridge holds under the app.                                        *)
THEOREM AppUsesBridge == UiSpec => Spec
<1>1. UiInit => Init
  BY DEF UiInit
<1> QED
  BY <1>1, AppImplementsBridge, PTL DEF UiSpec, Spec

-----------------------------------------------------------------------------
(* Which steps of the bridge change what a session is or has reported        *)
LEMMA SessionChanges ==
    ASSUME IInv, [Next]_vars
    PROVE  \/ UNCHANGED <<creator, connected, report, worker>>
           \/ \E s \in Sessions : Destroy(s)
           \/ \E c \in Callers, s \in Sessions : CreateAndStart(c, s)
           \/ \E s \in Sessions : WorkerSteps(s) \/ WorkerLosesConnection(s)
<1>0. TypeOK /\ \A c \in Callers : CallInv(c)
  BY DEF IInv, PcInv
<1>1. CASE UNCHANGED vars
  BY <1>1 DEF vars, sessionVars
<1>2. ASSUME NEW c \in Callers, CallBegins(c)
      PROVE  UNCHANGED <<creator, connected, report, worker>>
  BY <1>2 DEF CallBegins, NativeInit, ConnectRefused, ConnectBegins, DisconnectRefused,
              DisconnectTakes, UseBegins, sessionVars
<1>3. ASSUME NEW c \in Callers, CallSteps(c)
      PROVE  \/ UNCHANGED <<creator, connected, report, worker>>
             \/ \E s \in Sessions : Destroy(s)
             \/ \E s \in Sessions : CreateAndStart(c, s)
  <2>1. CASE StopOld(c) \/ StopDisplaced(c) \/ StopTaken(c)
    BY <2>1 DEF StopOld, StopDisplaced, StopTaken, RequestStop
  <2>2. CASE \/ JoinOld(c) \/ StartFails(c) \/ Publish(c) \/ Waits(c) \/ Reap(c) \/ UseEnds(c)
    BY <2>2 DEF JoinOld, StartFails, Publish, Waits, Reap, UseEnds, sessionVars
  <2>3. CASE JoinDisplaced(c) \/ JoinTaken(c)
    <3>1. ptr[Taken(c)] # None
      BY <1>0, <2>3 DEF CallInv, JoinDisplaced, JoinTaken
    <3>2. ptr[Taken(c)] \in Sessions
      BY <1>0, <3>1, SlotFacts DEF TypeOK
    <3> QED
      BY <2>3, <3>2 DEF JoinDisplaced, JoinTaken
  <2>4. CASE Returns(c)
    <3>1. ptr[Old(c)] # None => ptr[Old(c)] \in Sessions
      BY <1>0, SlotFacts DEF TypeOK
    <3> QED
      BY <2>4, <3>1 DEF Returns, sessionVars
  <2> QED
    BY <1>3, <2>1, <2>2, <2>3, <2>4 DEF CallSteps
<1> QED
  BY <1>1, <1>2, <1>3 DEF Next

(* A worker reports once, and success before it is online.                   *)
LEMMA WorkerStep == IInv /\ WorkerInv /\ [Next]_vars => WorkerInv'
<1> SUFFICES ASSUME IInv, WorkerInv, [Next]_vars, NEW u \in Sessions PROVE WorkerOk(u)'
  BY DEF WorkerInv
<1>0. WorkerOk(u) /\ TypeOK
  BY DEF WorkerInv, IInv
<1> USE DEF WorkerOk, Live
<1>1. CASE UNCHANGED <<creator, connected, report, worker>>
  BY <1>0, <1>1
<1>2. ASSUME NEW s \in Sessions, Destroy(s) PROVE WorkerOk(u)'
  <2>1. IInv'
    BY IInvStep
  <2>2. creator'[u] = None => worker'[u] = "exited"
    BY <2>1 DEF IInv, NoThreadOnFreedSession
  <2> QED
    BY <1>0, <1>2, <2>2 DEF Destroy, TypeOK
<1>3. ASSUME NEW c \in Callers, NEW s \in Sessions, CreateAndStart(c, s) PROVE WorkerOk(u)'
  BY <1>0, <1>3, NoneAssumption DEF CreateAndStart, TypeOK
<1>4. ASSUME NEW s \in Sessions, WorkerSteps(s) \/ WorkerLosesConnection(s)
      PROVE  WorkerOk(u)'
  <2>1. creator[s] # None \/ worker[s] = "exited"
    BY DEF IInv, NoThreadOnFreedSession
  <2>2. CASE WorkerConnects(s) \/ WorkerGoesOffline(s)
    BY <1>0, <2>1, <2>2 DEF WorkerConnects, WorkerGoesOffline, WorkerMoves, TypeOK
  <2>3. CASE WorkerReportsOk(s) \/ WorkerReportsFailure(s)
    BY <1>0, <2>1, <2>3 DEF WorkerReportsOk, WorkerReportsFailure, WorkerMoves, TypeOK
  <2>4. CASE WorkerStops(s) \/ WorkerLosesConnection(s) \/ WorkerExits(s)
    BY <1>0, <2>4 DEF WorkerStops, WorkerLosesConnection, WorkerExits, WorkerMoves, TypeOK
  <2> QED
    BY <1>4, <2>2, <2>3, <2>4 DEF WorkerSteps
<1> QED
  BY <1>1, <1>2, <1>3, <1>4, SessionChanges

-----------------------------------------------------------------------------
(* Types                                                                     *)
(* A sequence of some events is one of more events.                          *)
LEMMA SeqMono == ASSUME NEW S, NEW T, S \subseteq T, NEW q \in Seq(S) PROVE q \in Seq(T)
  OBVIOUS

(* Every request that was ever made stays an event.                          *)
LEMMA EventsMono ==
    ASSUME NEW r \in Nat
    PROVE  Events(r) \subseteq Events(r + 1) /\ Prompt(r + 1) \in Events(r + 1)
  BY DEF Events

Elems(q) == {q[i] : i \in DOMAIN q}

(* What popping an event does                                                *)
LEMMA PopElems ==
    ASSUME NEW S, NEW q \in Seq(S), q # <<>>
    PROVE  Elems(q) = {Head(q)} \cup Elems(Tail(q))
<1> DEFINE p == Tail(q)
<1>1. /\ DOMAIN q = 1 .. Len(q) /\ Len(q) \in Nat \ {0} /\ DOMAIN p = 1 .. Len(q) - 1
      /\ \A i \in 1 .. Len(q) - 1 : p[i] = q[i + 1]
      /\ Head(q) = q[1]
  OBVIOUS
<1> HIDE DEF p
<1>2. Elems(p) \subseteq Elems(q) /\ Head(q) \in Elems(q)
  BY <1>1 DEF Elems
<1>3. ASSUME NEW i \in DOMAIN q PROVE q[i] \in {Head(q)} \cup Elems(p)
  <2>1. CASE i = 1
    BY <1>1, <2>1
  <2>2. CASE i # 1
    <3>1. i - 1 \in DOMAIN p /\ q[i] = p[i - 1]
      BY <1>1, <2>2
    <3> QED
      BY <3>1 DEF Elems
  <2> QED
    BY <2>1, <2>2
<1> QED
  BY <1>2, <1>3 DEF p, Elems

(* Of a coroutine that is cancelled, only a call that has begun is left.     *)
LEMMA CancelledIs ==
    ASSUME NEW phase \in Jobs, NEW begun \in BOOLEAN
    PROVE  /\ Cancelled(phase, begun) \in {"none", "strayConnect", "strayDisconnect", "done"}
           /\ Cancelled(phase, begun) # "done" =>
                 phase \in {"none", "connect", "disconnect", "strayConnect", "strayDisconnect"}
  BY DEF Cancelled, Jobs

(* What a call that reaches nobody takes off a queue was in it.              *)
LEMMA StrayPop ==
    ASSUME ExtrasTyped, StrayPolls, NEW s \in Sessions
    PROVE  /\ queue'[s] \in Seq(Events(requests))
           /\ Elems(queue'[s]) \subseteq Elems(queue[s])
           /\ queue[s] = <<>> => queue'[s] = <<>>
<1>1. queue[s] \in Seq(Events(requests))
  BY DEF ExtrasTyped
<1>2. CASE queue'[s] = queue[s]
  BY <1>1, <1>2
<1>3. CASE queue[s] # <<>> /\ queue'[s] = Tail(queue[s])
  <2>1. Elems(queue[s]) = {Head(queue[s])} \cup Elems(Tail(queue[s]))
    BY <1>1, <1>3, PopElems
  <2>2. Tail(queue[s]) \in Seq(Events(requests))
    BY <1>1, <1>3
  <2> QED
    BY <1>3, <2>1, <2>2
<1> QED
  BY <1>2, <1>3 DEF StrayPolls

(* The extras keep their types when their sessions go.                       *)
LEMMA SurviveType == ExtrasTyped /\ Survive => ExtrasTyped'
<1> SUFFICES ASSUME ExtrasTyped, Survive PROVE ExtrasTyped'
  OBVIOUS
<1>1. \A s \in Sessions : queue[s] \in Seq(Events(requests)) /\ <<>> \in Seq(Events(requests))
  BY DEF ExtrasTyped
<1>2. queue' \in [Sessions -> Seq(Events(requests))]
  BY <1>1 DEF Survive
<1>3. asking' \in [Sessions -> 0 .. requests] /\ loss' \in [Sessions -> {"none", "lost", "announced"}]
  BY DEF Survive, ExtrasTyped
<1> QED
  BY <1>2, <1>3 DEF Survive, ExtrasTyped

(* The steps of a session beside its bridge keep the types of its extras.    *)
LEMMA SessionType ==
    ASSUME ExtrasTyped, NEW s \in Sessions,
           Asks(s) \/ StopsAsking(s) \/ WorkerLoses(s) \/ Announces(s) \/ WorkerGoesOn(s)
    PROVE  ExtrasTyped' /\ (requests' = requests \/ requests' = requests + 1)
<1>0. requests \in Nat /\ \A u \in Sessions : queue[u] \in Seq(Events(requests))
  BY DEF ExtrasTyped
<1>1. CASE Asks(s)
  <2> DEFINE E == Events(requests + 1)
  <2>1. Prompt(requests + 1) \in E /\ \A u \in Sessions : queue[u] \in Seq(E)
    BY <1>0, EventsMono, SeqMono
  <2>2. queue' \in [Sessions -> Seq(E)]
    <3> HIDE DEF E
    <3>1. Append(queue[s], Prompt(requests + 1)) \in Seq(E)
      BY <2>1
    <3>2. queue \in [Sessions -> Seq(E)]
      BY <2>1 DEF ExtrasTyped
    <3> QED
      BY <1>1, <3>1, <3>2 DEF Asks
  <2>3. asking' \in [Sessions -> 0 .. requests + 1]
    BY <1>1 DEF Asks, ExtrasTyped
  <2> QED
    BY <1>0, <1>1, <2>2, <2>3 DEF Asks, ExtrasTyped
<1>2. CASE StopsAsking(s)
  BY <1>2 DEF StopsAsking, ExtrasTyped
<1>3. CASE WorkerLoses(s)
  BY <1>3 DEF WorkerLoses, ExtrasTyped
<1>4. CASE Announces(s)
  <2>1. Append(queue[s], Loss) \in Seq(Events(requests))
    BY <1>0 DEF Events
  <2>2. queue' \in [Sessions -> Seq(Events(requests))]
    BY <1>4, <2>1 DEF Announces, ExtrasTyped
  <2>3. loss' \in [Sessions -> {"none", "lost", "announced"}]
    BY <1>4 DEF Announces, ExtrasTyped
  <2> QED
    BY <1>4, <2>2, <2>3 DEF Announces, ExtrasTyped
<1>5. CASE WorkerGoesOn(s)
  BY <1>5 DEF WorkerGoesOn, sessionExtras, ExtrasTyped
<1> QED
  BY <1>1, <1>2, <1>3, <1>4, <1>5

(* Every step of the app keeps the types.                                    *)
LEMMA UiTypeStep == UiTypeOK /\ [UiNext]_allVars => UiTypeOK'
<1> SUFFICES ASSUME TypeOK, ExtrasTyped, AppTyped, [UiNext]_allVars
             PROVE  TypeOK' /\ ExtrasTyped' /\ AppTyped'
  BY DEF UiTypeOK
<1>1. TypeOK'
  BY TypeStep, AppImplementsBridge
<1>2. CASE UNCHANGED allVars
  BY <1>1, <1>2 DEF allVars, sessionExtras, uiVars, loopVars, ExtrasTyped, AppTyped
<1>3. CASE User
  <2>1. CASE ActivityRecreated
    <3>1. recreations' \in 0 .. MaxRecreations
      BY <2>1, BoundsAssumption DEF ActivityRecreated, AppTyped
    <3>2. job' \in [Callers -> Jobs]
      <4>1. PICK begun \in SUBSET Callers :
               job' = [c \in Callers |-> Cancelled(job[c], c \in begun)]
        BY <2>1 DEF ActivityRecreated
      <4>2. \A c \in Callers : job[c] \in Jobs
        BY DEF AppTyped
      <4>3. ASSUME NEW c \in Callers PROVE Cancelled(job[c], c \in begun) \in Jobs
        <5>1. (c \in begun) \in BOOLEAN
          OBVIOUS
        <5>2. Cancelled(job[c], c \in begun)
                 \in {"none", "strayConnect", "strayDisconnect", "done"}
          BY <4>2, <5>1, CancelledIs
        <5> QED
          BY <5>2 DEF Jobs
      <4> QED
        BY <4>1, <4>3
    <3>3. strays' \in 0 .. recreations'
      <4>1. strays' = strays \/ strays' = strays + 1
        BY <2>1 DEF ActivityRecreated
      <4> QED
        BY <2>1, <4>1, BoundsAssumption DEF ActivityRecreated, AppTyped
    <3> QED
      BY <1>1, <2>1, <3>1, <3>2, <3>3
         DEF ActivityRecreated, AppTyped, ExtrasTyped, sessionExtras, Screens, Statuses
  <2>2. ASSUME NEW c \in Callers, ClickConnect(c) \/ ClickDisconnect(c)
        PROVE  ExtrasTyped' /\ AppTyped'
    BY <2>2 DEF ClickConnect, ClickDisconnect, Click, Becomes, AppTyped, ExtrasTyped, Jobs,
                sessionExtras, loopVars, Screens, Statuses
  <2> QED
    BY <1>1, <1>3, <2>1, <2>2 DEF User
<1>7. CASE StrayPolls
  <2>1. queue' \in [Sessions -> Seq(Events(requests))]
    <3>1. \A s \in Sessions : queue'[s] \in Seq(Events(requests))
      BY <1>7, StrayPop
    <3> QED
      BY <1>7, <3>1 DEF StrayPolls
  <2>2. strays' \in 0 .. recreations'
    BY <1>7, BoundsAssumption DEF StrayPolls, AppTyped
  <2> QED
    BY <1>1, <1>7, <2>1, <2>2 DEF StrayPolls, AppTyped, ExtrasTyped, loopVars
<1>4. CASE PollLoopSteps \/ SnackbarEnds
  <2>1. CASE Polls
    <3> DEFINE s == ptr[G]
    <3>1. s \in Sessions
      BY <2>1, SlotFacts DEF Polls, TypeOK
    <3>2. queue[s] \in Seq(Events(requests)) /\ queue[s] # <<>>
      BY <2>1, <3>1 DEF Polls, ExtrasTyped
    <3> HIDE DEF s
    <3>3. Head(queue[s]) \in Events(requests) /\ Tail(queue[s]) \in Seq(Events(requests))
      BY <3>2
    <3>4. queue' \in [Sessions -> Seq(Events(requests))]
      BY <2>1, <3>1, <3>3 DEF s, Polls, ExtrasTyped
    <3>5. event' \in {NoEvent} \cup Events(requests)
      BY <2>1, <3>3 DEF s, Polls
    <3> QED
      BY <1>1, <2>1, <3>4, <3>5 DEF Polls, ExtrasTyped, AppTyped
  <2>2. CASE HandlesPrompt
    <3>1. asking' \in [Sessions -> 0 .. requests]
      BY <2>2 DEF HandlesPrompt, ExtrasTyped
    <3> QED
      BY <1>1, <2>2, <3>1 DEF HandlesPrompt, ExtrasTyped, AppTyped
  <2>3. CASE HandlesLoss
    <3>1. ExtrasTyped'
      BY <2>3 DEF HandlesLoss, ExtrasTyped, sessionExtras
    <3>2. status' \in Statuses /\ overtaken' \in BOOLEAN /\ pollLoop' \in {"poll", "handle", "snackbar"}
      BY <2>3 DEF HandlesLoss, AppTyped, Statuses
    <3> QED
      BY <1>1, <2>3, <3>1, <3>2 DEF HandlesLoss, AppTyped
  <2>4. CASE SnackbarEnds
    BY <1>1, <2>4 DEF SnackbarEnds, ExtrasTyped, AppTyped, sessionExtras
  <2> QED
    BY <1>4, <2>1, <2>2, <2>3, <2>4 DEF PollLoopSteps
<1>5. ASSUME NEW c \in Callers, JobSteps(c) PROVE ExtrasTyped' /\ AppTyped'
  <2>1. CASE Initializes(c) \/ CallGoesOn(c)
    BY <2>1, SurviveType DEF Initializes, CallGoesOn, Survive, uiVars, loopVars, AppTyped
  <2>2. CASE ConnectCalls(c)
    BY <2>2, SurviveType DEF ConnectCalls, Survive, loopVars, AppTyped, Becomes, Jobs
  <2>3. CASE DisconnectCalls(c)
    BY <2>3, SurviveType DEF DisconnectCalls, Survive, loopVars, AppTyped, Becomes, Jobs
  <2>4. CASE ConnectResult(c)
    BY <2>4 DEF ConnectResult, AppTyped, ExtrasTyped, Becomes, Jobs, sessionExtras, loopVars, Statuses
  <2>5. CASE DisconnectResult(c)
    BY <2>5 DEF DisconnectResult, AppTyped, ExtrasTyped, Becomes, Jobs, sessionExtras, loopVars, Statuses
  <2> QED
    BY <1>5, <2>1, <2>2, <2>3, <2>4, <2>5 DEF JobSteps
<1>6. ASSUME NEW s \in Sessions,
             Asks(s) \/ StopsAsking(s) \/ WorkerLoses(s) \/ Announces(s) \/ WorkerGoesOn(s)
      PROVE  ExtrasTyped' /\ AppTyped'
  <2>1. ExtrasTyped' /\ (requests' = requests \/ requests' = requests + 1)
    BY <1>6, SessionType
  <2>2. event \in {NoEvent} \cup Events(requests')
    BY <2>1, EventsMono DEF AppTyped, ExtrasTyped
  <2>3. CASE Asks(s) \/ StopsAsking(s) \/ WorkerLoses(s) \/ Announces(s)
    <3>1. UNCHANGED uiVars
      BY <2>3 DEF Asks, StopsAsking, WorkerLoses, Announces
    <3> QED
      BY <2>1, <2>2, <3>1 DEF uiVars, loopVars, AppTyped
  <2>4. CASE WorkerGoesOn(s)
    <3>1. /\ UNCHANGED <<screen, status, job, pollLoop, event, recreations, strays>>
          /\ overtaken' \in BOOLEAN
      BY <2>4 DEF WorkerGoesOn, loopVars
    <3> QED
      BY <2>1, <2>2, <3>1 DEF AppTyped
  <2> QED
    BY <1>6, <2>3, <2>4
<1> QED
  BY <1>1, <1>2, <1>3, <1>4, <1>5, <1>6, <1>7 DEF UiNext

-----------------------------------------------------------------------------
(* Where the sessions are                                                    *)
(* The steps of the bridge that move sessions between the unique_ptrs        *)
LEMMA PtrChanges ==
    ASSUME [Next]_vars
    PROVE  \/ UNCHANGED ptr
           \/ \E c \in Callers : \E x \in {Old(c), Taken(c)} :
                 Move(G, x) \/ ptr' = [ptr EXCEPT ![x] = None]
           \/ \E c \in Callers : Publish(c) \/ \E s \in Sessions : CreateAndStart(c, s)
<1>1. CASE UNCHANGED vars
  BY <1>1 DEF vars
<1>2. ASSUME NEW c \in Callers, CallBegins(c)
      PROVE  UNCHANGED ptr \/ \E x \in {Old(c), Taken(c)} : Move(G, x)
  BY <1>2 DEF CallBegins, NativeInit, ConnectRefused, ConnectBegins, DisconnectRefused,
              DisconnectTakes, UseBegins
<1>3. ASSUME NEW c \in Callers, CallSteps(c)
      PROVE  \/ UNCHANGED ptr
             \/ \E x \in {Old(c), Taken(c)} : Move(G, x) \/ ptr' = [ptr EXCEPT ![x] = None]
             \/ Publish(c) \/ \E s \in Sessions : CreateAndStart(c, s)
  BY <1>3 DEF CallSteps, StopOld, JoinOld, StartFails, StopDisplaced, JoinDisplaced, Waits,
              Reap, StopTaken, JoinTaken, Returns, UseEnds
<1>4. ASSUME NEW s \in Sessions, WorkerSteps(s) \/ WorkerLosesConnection(s)
      PROVE  UNCHANGED ptr
  BY <1>4 DEF WorkerSteps, WorkerLosesConnection, WorkerConnects, WorkerReportsOk,
              WorkerReportsFailure, WorkerStops, WorkerGoesOffline, WorkerExits, WorkerMoves
<1> QED
  BY <1>1, <1>2, <1>3, <1>4 DEF Next

(* A session comes into g_session from a newSession, and into a newSession   *)
(* when it is made.                                                          *)
LEMMA PtrStep ==
    ASSUME TypeOK, [Next]_vars
    PROVE  /\ \/ ptr'[G] \in {None, ptr[G]}
              \/ \E c \in Callers : Publish(c) /\ ptr'[G] = ptr[New(c)]
           /\ \A c \in Callers :
                 \/ ptr'[New(c)] \in {None, ptr[New(c)]}
                 \/ \E s \in Sessions : CreateAndStart(c, s) /\ ptr'[New(c)] = s
<1>0. DOMAIN ptr = Slots
  BY DEF TypeOK
<1>1. CASE UNCHANGED ptr
  BY <1>1
<1>2. ASSUME NEW c \in Callers, NEW x \in {Old(c), Taken(c)},
             Move(G, x) \/ ptr' = [ptr EXCEPT ![x] = None]
      PROVE  ptr'[G] \in {None, ptr[G]} /\ \A d \in Callers : ptr'[New(d)] = ptr[New(d)]
  <2>1. x \in Slots /\ x # G /\ \A d \in Callers : New(d) \in Slots \ {G, x}
    BY SlotFacts
  <2> QED
    BY <1>0, <1>2, <2>1, SlotFacts DEF Move
<1>3. ASSUME NEW c \in Callers, Publish(c)
      PROVE  /\ ptr'[G] = ptr[New(c)]
             /\ \A d \in Callers : ptr'[New(d)] \in {None, ptr[New(d)]}
  <2>1. CASE Move(New(c), G)
    BY <1>0, <2>1, SlotFacts DEF Move
  <2>2. CASE ptr' = [ptr EXCEPT ![Taken(c)] = ptr[G], ![G] = ptr[New(c)], ![New(c)] = None]
    <3>1. \A z \in Slots : ptr'[z] = IF z = New(c) THEN None
                                     ELSE IF z = G THEN ptr[New(c)]
                                     ELSE IF z = Taken(c) THEN ptr[G] ELSE ptr[z]
      BY <1>0, <2>2, Zenon
    <3> QED
      BY <3>1, SlotFacts
  <2> QED
    BY <1>3, <2>1, <2>2 DEF Publish
<1>4. ASSUME NEW c \in Callers, NEW s \in Sessions, CreateAndStart(c, s)
      PROVE  /\ ptr'[G] = ptr[G] /\ ptr'[New(c)] = s
             /\ \A d \in Callers : d # c => ptr'[New(d)] = ptr[New(d)]
  BY <1>0, <1>4, SlotFacts DEF CreateAndStart
<1> QED
  BY <1>1, <1>2, <1>3, <1>4, PtrChanges

-----------------------------------------------------------------------------
(* Events on their way                                                       *)
(* A session that is gone has no events, and a loss that is known of ended   *)
(* its worker.                                                               *)
ExtrasOk(s) ==
    /\ ~Live(s) => queue[s] = <<>> /\ asking[s] = 0 /\ loss[s] = "none"
    /\ loss[s] # "none" \/ Loss \in Elems(queue[s]) => worker[s] \in {"closing", "exited"}

ExtrasInv == \A s \in Sessions : ExtrasOk(s)

EventInv == pollLoop # "handle" => event = NoEvent

(* Where the prompt of a question is: in the queue, and from g_session's     *)
(* queue the poll loop may have taken it.                                    *)
PromptOk(s) ==
    asking[s] # 0 /\ recreations = 0 =>
        /\ \A c \in Callers : ptr[New(c)] = s => Prompt(asking[s]) \in Elems(queue[s])
        /\ ptr[G] = s => Prompt(asking[s]) \in {event} \cup Elems(queue[s])

PromptInv == \A s \in Sessions : PromptOk(s)

(* What pushing an event does                                                *)
LEMMA AppendElems ==
    ASSUME NEW S, NEW q \in Seq(S), NEW e \in S
    PROVE  Elems(Append(q, e)) = Elems(q) \cup {e}
<1> DEFINE p == Append(q, e)
<1>1. /\ DOMAIN q = 1 .. Len(q) /\ DOMAIN p = 1 .. Len(q) + 1 /\ Len(q) \in Nat
      /\ \A i \in 1 .. Len(q) : p[i] = q[i]
      /\ p[Len(q) + 1] = e
  OBVIOUS
<1> HIDE DEF p
<1>2. Elems(p) \subseteq Elems(q) \cup {e}
  BY <1>1 DEF Elems
<1>3. Elems(q) \subseteq Elems(p) /\ e \in Elems(p)
  BY <1>1 DEF Elems
<1> QED
  BY <1>2, <1>3 DEF p

(* Calls do not touch the workers, except that they start them.              *)
LEMMA CallsAndWorkers ==
    ASSUME NEW c \in Callers, CallBegins(c) \/ CallSteps(c)
    PROVE  UNCHANGED worker \/ \E s \in Sessions : CreateAndStart(c, s)
<1>1. CASE CallBegins(c)
  BY <1>1 DEF CallBegins, NativeInit, ConnectRefused, ConnectBegins, DisconnectRefused,
              DisconnectTakes, UseBegins, sessionVars
<1>2. CASE CallSteps(c)
  BY <1>2 DEF CallSteps, StopOld, JoinOld, StartFails, Publish, StopDisplaced, JoinDisplaced,
              Waits, Reap, StopTaken, JoinTaken, Returns, UseEnds, RequestStop, Destroy, sessionVars
<1> QED
  BY <1>1, <1>2

(* The events of a session end with it, and a loss comes after its worker    *)
(* was online.                                                               *)
LEMMA ExtrasStep == IInv /\ UiTypeOK /\ ExtrasInv /\ [UiNext]_allVars => ExtrasInv'
<1> SUFFICES ASSUME IInv, UiTypeOK, ExtrasInv, [UiNext]_allVars, NEW u \in Sessions
             PROVE  ExtrasOk(u)'
  BY DEF ExtrasInv
<1>0. ExtrasOk(u) /\ TypeOK /\ ExtrasTyped
  BY DEF ExtrasInv, UiTypeOK
<1>t. queue[u] \in Seq(Events(requests)) /\ Elems(<<>>) = {}
  BY <1>0 DEF ExtrasTyped, Elems
<1>a. ASSUME UNCHANGED vars, UNCHANGED sessionExtras PROVE ExtrasOk(u)'
  BY <1>0, <1>a DEF ExtrasOk, Live, vars, sessionVars, sessionExtras
<1>b. ASSUME NEW c \in Callers, CallBegins(c) \/ CallSteps(c), Survive PROVE ExtrasOk(u)'
  <2>1. /\ queue'[u] = IF Live(u)' THEN queue[u] ELSE <<>>
        /\ asking'[u] = IF Live(u)' THEN asking[u] ELSE 0
        /\ loss'[u] = IF Live(u)' THEN loss[u] ELSE "none"
    BY <1>b DEF Survive
  <2>2. worker'[u] = worker[u] \/ ~Live(u)
    BY <1>0, <1>b, CallsAndWorkers DEF CreateAndStart, TypeOK
  <2> HIDE DEF Live
  <2> QED
    BY <1>0, <1>t, <2>1, <2>2 DEF ExtrasOk
<1>1. CASE UNCHANGED allVars
  BY <1>1, <1>a DEF allVars
<1>2. CASE User
  BY <1>2, <1>a DEF User, ActivityRecreated, ClickConnect, ClickDisconnect
<1>3. CASE PollLoopSteps \/ SnackbarEnds
  <2>1. CASE Polls
    <3>1. ptr[G] \in Sessions
      BY <2>1, <1>0, SlotFacts DEF Polls, TypeOK
    <3>2. CASE u = ptr[G]
      <4>1. queue'[u] = Tail(queue[u]) /\ queue[u] # <<>>
        BY <2>1, <1>0, <3>2 DEF Polls, ExtrasTyped
      <4>2. Elems(queue'[u]) \subseteq Elems(queue[u])
        BY <1>t, <4>1, PopElems
      <4> QED
        BY <1>0, <2>1, <4>1, <4>2 DEF Polls, ExtrasOk, Live, vars, sessionVars
    <3>3. CASE u # ptr[G]
      <4>1. queue'[u] = queue[u]
        BY <2>1, <1>0, <3>3 DEF Polls, ExtrasTyped
      <4> QED
        BY <1>0, <2>1, <4>1 DEF Polls, ExtrasOk, Live, vars, sessionVars
    <3> QED
      BY <3>2, <3>3
  <2>2. CASE HandlesPrompt
    <3>1. asking'[u] \in {0, asking[u]}
      BY <2>2 DEF HandlesPrompt
    <3> QED
      BY <1>0, <2>2, <3>1 DEF HandlesPrompt, ExtrasOk, Live, vars, sessionVars
  <2>3. CASE HandlesLoss \/ SnackbarEnds
    BY <2>3, <1>a DEF HandlesLoss, SnackbarEnds
  <2> QED
    BY <1>3, <2>1, <2>2, <2>3 DEF PollLoopSteps
<1>4. ASSUME NEW c \in Callers, JobSteps(c) PROVE ExtrasOk(u)'
  <2>1. CASE Initializes(c) \/ CallGoesOn(c)
    BY <2>1, <1>b DEF Initializes, CallGoesOn, CallBegins
  <2>2. CASE ConnectCalls(c)
    BY <2>2, <1>b DEF ConnectCalls, CallBegins
  <2>3. CASE DisconnectCalls(c)
    BY <2>3, <1>b DEF DisconnectCalls, CallBegins
  <2>4. CASE ConnectResult(c)
    BY <2>4, <1>a DEF ConnectResult
  <2>5. CASE DisconnectResult(c)
    BY <2>5, <1>a DEF DisconnectResult
  <2> QED
    BY <1>4, <2>1, <2>2, <2>3, <2>4, <2>5 DEF JobSteps
<1>5. ASSUME NEW s \in Sessions,
             Asks(s) \/ StopsAsking(s) \/ WorkerLoses(s) \/ Announces(s) \/ WorkerGoesOn(s)
      PROVE  ExtrasOk(u)'
  <2>0. worker[s] # "exited" => Live(s)
    BY DEF IInv, NoThreadOnFreedSession
  <2>1. CASE Asks(s)
    <3>1. CASE u = s
      <4>1. worker[u] = "dialing" /\ Live(u) /\ UNCHANGED vars /\ UNCHANGED loss
        BY <2>0, <2>1, <3>1 DEF Asks
      <4>2. queue'[u] = Append(queue[u], Prompt(requests + 1))
        BY <1>0, <2>1, <3>1 DEF Asks, ExtrasTyped
      <4>3. requests \in Nat
        BY <1>0 DEF ExtrasTyped
      <4>4. queue[u] \in Seq(Events(requests + 1)) /\ Prompt(requests + 1) \in Events(requests + 1)
        BY <1>t, <4>3, EventsMono, SeqMono
      <4>5. Elems(queue'[u]) = Elems(queue[u]) \cup {Prompt(requests + 1)}
        BY <4>2, <4>4, AppendElems
      <4>6. Prompt(requests + 1) # Loss
        BY DEF Prompt, Loss
      <4> QED
        BY <1>0, <4>1, <4>5, <4>6 DEF ExtrasOk, Live, vars, sessionVars
    <3>2. CASE u # s
      <4>1. queue'[u] = queue[u] /\ asking'[u] = asking[u]
        BY <1>0, <2>1, <3>2 DEF Asks, ExtrasTyped
      <4> QED
        BY <1>0, <2>1, <4>1 DEF Asks, ExtrasOk, Live, vars, sessionVars
    <3> QED
      BY <3>1, <3>2
  <2>2. CASE StopsAsking(s)
    <3>1. asking'[u] \in {0, asking[u]}
      BY <1>0, <2>2 DEF StopsAsking, ExtrasTyped
    <3> QED
      BY <1>0, <2>2, <3>1 DEF StopsAsking, ExtrasOk, Live, vars, sessionVars
  <2>3. CASE WorkerLoses(s)
    <3>1. UNCHANGED <<queue, asking, creator>>
      BY <2>3 DEF WorkerLoses, WorkerLosesConnection, WorkerMoves
    <3>2. u = s => Live(u) /\ worker'[u] = "closing"
      BY <1>0, <2>0, <2>3 DEF WorkerLoses, WorkerLosesConnection, WorkerMoves, TypeOK
    <3>3. u # s => worker'[u] = worker[u] /\ loss'[u] = loss[u]
      BY <1>0, <2>3 DEF WorkerLoses, WorkerLosesConnection, WorkerMoves, TypeOK, ExtrasTyped
    <3> QED
      BY <1>0, <3>1, <3>2, <3>3 DEF ExtrasOk, Live
  <2>4. CASE Announces(s)
    <3>1. CASE u = s
      <4>1. worker'[u] = "closing" /\ Live(u) /\ UNCHANGED <<creator, asking>>
        BY <2>0, <2>4, <3>1 DEF Announces, vars, sessionVars
      <4> QED
        BY <4>1 DEF ExtrasOk, Live
    <3>2. CASE u # s
      <4>1. queue'[u] = queue[u] /\ loss'[u] = loss[u]
        BY <1>0, <2>4, <3>2 DEF Announces, ExtrasTyped
      <4> QED
        BY <1>0, <2>4, <4>1 DEF Announces, ExtrasOk, Live, vars, sessionVars
    <3> QED
      BY <3>1, <3>2
  <2>5. CASE WorkerGoesOn(s)
    <3>1. UNCHANGED <<queue, asking, loss, creator>>
      BY <2>5 DEF WorkerGoesOn, sessionExtras, WorkerSteps, WorkerConnects, WorkerReportsOk,
                  WorkerReportsFailure, WorkerStops, WorkerGoesOffline, WorkerExits, WorkerMoves
    <3>2. worker[u] \in {"closing", "exited"} => worker'[u] \in {"closing", "exited"}
      BY <1>0, <2>5 DEF WorkerGoesOn, WorkerSteps, WorkerConnects, WorkerReportsOk,
            WorkerReportsFailure, WorkerStops, WorkerGoesOffline, WorkerExits, WorkerMoves, TypeOK
    <3> QED
      BY <1>0, <3>1, <3>2 DEF ExtrasOk, Live
  <2> QED
    BY <1>5, <2>1, <2>2, <2>3, <2>4, <2>5
<1>6. CASE StrayPolls
  <2>1. UNCHANGED <<asking, loss, creator, worker>>
    BY <1>6 DEF StrayPolls, vars, sessionVars
  <2> QED
    BY <1>0, <1>6, <2>1, StrayPop DEF ExtrasOk, Live
<1> QED
  BY <1>1, <1>2, <1>3, <1>4, <1>5, <1>6 DEF UiNext

(* Only the poll loop has an event in hand.                                  *)
LEMMA EventStep == EventInv /\ [UiNext]_allVars => EventInv'
<1> SUFFICES ASSUME EventInv, [UiNext]_allVars PROVE EventInv'
  OBVIOUS
<1> USE DEF EventInv
<1>1. CASE UNCHANGED allVars
  BY <1>1 DEF allVars, uiVars, loopVars
<1>2. CASE User
  BY <1>2 DEF User, ActivityRecreated, ClickConnect, ClickDisconnect, loopVars
<1>3. CASE PollLoopSteps \/ SnackbarEnds \/ StrayPolls
  BY <1>3 DEF PollLoopSteps, Polls, HandlesPrompt, HandlesLoss, SnackbarEnds, StrayPolls, loopVars
<1>4. ASSUME NEW c \in Callers, JobSteps(c) PROVE UNCHANGED loopVars
  <2>1. CASE Initializes(c) \/ CallGoesOn(c)
    BY <2>1 DEF Initializes, CallGoesOn, uiVars
  <2>2. CASE ConnectCalls(c)
    BY <2>2 DEF ConnectCalls
  <2>3. CASE DisconnectCalls(c)
    BY <2>3 DEF DisconnectCalls
  <2>4. CASE ConnectResult(c)
    BY <2>4 DEF ConnectResult
  <2>5. CASE DisconnectResult(c)
    BY <2>5 DEF DisconnectResult
  <2> QED
    BY <1>4, <2>1, <2>2, <2>3, <2>4, <2>5 DEF JobSteps
<1>5. ASSUME NEW s \in Sessions,
             Asks(s) \/ StopsAsking(s) \/ WorkerLoses(s) \/ Announces(s) \/ WorkerGoesOn(s)
      PROVE  UNCHANGED loopVars
  BY <1>5 DEF Asks, StopsAsking, WorkerLoses, Announces, WorkerGoesOn, uiVars
<1> QED
  BY <1>1, <1>2, <1>3, <1>4, <1>5 DEF UiNext, loopVars

(* The prompt of a question stays on its way until it is answered.           *)
LEMMA PromptStep ==
    IInv /\ UiTypeOK /\ ExtrasInv /\ EventInv /\ PromptInv /\ [UiNext]_allVars => PromptInv'
<1> SUFFICES ASSUME IInv, UiTypeOK, ExtrasInv, EventInv, PromptInv, [UiNext]_allVars,
                    NEW u \in Sessions
             PROVE  PromptOk(u)'
  BY DEF PromptInv
<1>0. PromptOk(u) /\ TypeOK /\ ExtrasTyped /\ u # None
  BY NoneAssumption DEF PromptInv, UiTypeOK
<1>t. queue[u] \in Seq(Events(requests)) /\ requests \in Nat
  BY <1>0 DEF ExtrasTyped
<1>p. \A i : Prompt(i) # Loss /\ Prompt(i) # NoEvent /\ Prompt(i).id = i
  BY DEF Prompt, Loss, NoEvent
<1>a. ASSUME UNCHANGED ptr, UNCHANGED recreations, event' = event \/ event = Loss,
             asking'[u] \in {0, asking[u]}, Elems(queue[u]) \subseteq Elems(queue'[u])
      PROVE  PromptOk(u)'
  BY <1>0, <1>a, <1>p DEF PromptOk
<1>b. ASSUME NEW c \in Callers, CallBegins(c) \/ CallSteps(c), Survive,
             UNCHANGED <<event, recreations>>
      PROVE  PromptOk(u)'
  <2>1. asking'[u] # 0 => asking'[u] = asking[u] /\ queue'[u] = queue[u]
    BY <1>b DEF Survive
  <2>2. asking'[u] # 0 => Live(u)
    BY <2>1 DEF ExtrasInv, ExtrasOk
  <2>3. ptr'[G] = u => ptr[G] = u \/ \E d \in Callers : ptr[New(d)] = u
    BY <1>0, <1>b, PtrStep DEF Next
  <2>4. \A d \in Callers : ptr'[New(d)] = u => ptr[New(d)] = u \/ ~Live(u)
    BY <1>0, <1>b, PtrStep DEF Next, CreateAndStart
  <2> HIDE DEF Live
  <2> QED
    BY <1>0, <1>b, <2>1, <2>2, <2>3, <2>4 DEF PromptOk
<1>1. CASE UNCHANGED allVars
  BY <1>1, <1>a DEF allVars, vars, sessionExtras, uiVars, loopVars
<1>2. CASE User
  <2>1. CASE ActivityRecreated
    <3>1. recreations \in Nat /\ recreations' = recreations + 1
      BY <2>1, BoundsAssumption DEF ActivityRecreated, UiTypeOK, AppTyped
    <3>2. recreations' # 0
      BY <3>1
    <3> QED
      BY <3>2 DEF PromptOk
  <2>2. ASSUME NEW c \in Callers, ClickConnect(c) \/ ClickDisconnect(c) PROVE PromptOk(u)'
    BY <2>2, <1>a DEF ClickConnect, ClickDisconnect, vars, sessionExtras, loopVars
  <2> QED
    BY <1>2, <2>1, <2>2 DEF User
<1>3. CASE PollLoopSteps \/ SnackbarEnds
  <2>1. CASE Polls
    <3>1. ptr[G] \in Sessions /\ event = NoEvent
      BY <2>1, <1>0, SlotFacts DEF Polls, TypeOK, EventInv
    <3>2. UNCHANGED <<ptr, asking, recreations>>
      BY <2>1 DEF Polls, vars
    <3>3. CASE u = ptr[G]
      <4>1. queue'[u] = Tail(queue[u]) /\ event' = Head(queue[u]) /\ queue[u] # <<>>
        BY <2>1, <1>0, <3>3 DEF Polls, ExtrasTyped
      <4>2. Elems(queue[u]) = {event'} \cup Elems(queue'[u])
        BY <1>t, <4>1, PopElems
      <4>3. \A c \in Callers : ptr[New(c)] # u
        BY <1>0, <3>3, SlotFacts DEF IInv, UniqueOwner
      <4> QED
        BY <1>0, <1>p, <3>1, <3>2, <4>2, <4>3 DEF PromptOk
    <3>4. CASE u # ptr[G]
      <4>1. queue'[u] = queue[u]
        BY <2>1, <1>0, <3>4 DEF Polls, ExtrasTyped
      <4> QED
        BY <1>0, <3>2, <3>4, <4>1 DEF PromptOk
    <3> QED
      BY <3>3, <3>4
  <2>2. CASE HandlesPrompt
    <3>1. UNCHANGED <<ptr, queue, recreations>>
      BY <2>2 DEF HandlesPrompt, vars
    <3>2. asking'[u] = IF u = ptr[G] /\ asking[u] = event.id THEN 0 ELSE asking[u]
      BY <2>2 DEF HandlesPrompt
    <3> QED
      BY <1>0, <1>p, <3>1, <3>2 DEF PromptOk
  <2>3. CASE HandlesLoss
    BY <2>3, <1>a DEF HandlesLoss, vars, sessionExtras
  <2>4. CASE SnackbarEnds
    BY <2>4, <1>a DEF SnackbarEnds, vars, sessionExtras
  <2> QED
    BY <1>3, <2>1, <2>2, <2>3, <2>4 DEF PollLoopSteps
<1>4. ASSUME NEW c \in Callers, JobSteps(c) PROVE PromptOk(u)'
  <2>1. CASE Initializes(c) \/ CallGoesOn(c)
    BY <2>1, <1>b DEF Initializes, CallGoesOn, CallBegins, uiVars, loopVars
  <2>2. CASE ConnectCalls(c)
    BY <2>2, <1>b DEF ConnectCalls, CallBegins, loopVars
  <2>3. CASE DisconnectCalls(c)
    BY <2>3, <1>b DEF DisconnectCalls, CallBegins, loopVars
  <2>4. CASE ConnectResult(c)
    BY <2>4, <1>a DEF ConnectResult, vars, sessionExtras, loopVars
  <2>5. CASE DisconnectResult(c)
    BY <2>5, <1>a DEF DisconnectResult, vars, sessionExtras, loopVars
  <2> QED
    BY <1>4, <2>1, <2>2, <2>3, <2>4, <2>5 DEF JobSteps
<1>5. ASSUME NEW s \in Sessions,
             Asks(s) \/ StopsAsking(s) \/ WorkerLoses(s) \/ Announces(s) \/ WorkerGoesOn(s)
      PROVE  PromptOk(u)'
  <2>0. UNCHANGED <<event, recreations, ptr>>
    BY <1>5 DEF Asks, StopsAsking, WorkerLoses, Announces, WorkerGoesOn, vars, WorkerSteps,
        WorkerLosesConnection, WorkerConnects, WorkerReportsOk, WorkerReportsFailure, WorkerStops,
        WorkerGoesOffline, WorkerExits, WorkerMoves, uiVars, loopVars
  <2>1. CASE Asks(s)
    <3>1. CASE u = s
      <4>1. queue'[u] = Append(queue[u], Prompt(requests + 1)) /\ asking'[u] = requests + 1
        BY <1>0, <2>1, <3>1 DEF Asks, ExtrasTyped
      <4>2. queue[u] \in Seq(Events(requests + 1)) /\ Prompt(requests + 1) \in Events(requests + 1)
        BY <1>t, EventsMono, SeqMono
      <4>3. Elems(queue'[u]) = Elems(queue[u]) \cup {Prompt(requests + 1)}
        BY <4>1, <4>2, AppendElems
      <4> QED
        BY <4>1, <4>3 DEF PromptOk
    <3>2. CASE u # s
      <4>1. queue'[u] = queue[u] /\ asking'[u] = asking[u]
        BY <1>0, <2>1, <3>2 DEF Asks, ExtrasTyped
      <4> QED
        BY <1>a, <2>0, <4>1
    <3> QED
      BY <3>1, <3>2
  <2>2. CASE StopsAsking(s)
    <3>1. asking'[u] \in {0, asking[u]} /\ queue' = queue
      BY <1>0, <2>2 DEF StopsAsking, ExtrasTyped
    <3> QED
      BY <1>a, <2>0, <3>1
  <2>3. CASE WorkerLoses(s) \/ WorkerGoesOn(s)
    BY <1>a, <2>0, <2>3 DEF WorkerLoses, WorkerGoesOn, sessionExtras
  <2>4. CASE Announces(s)
    <3>1. CASE u = s
      <4>1. queue'[u] = Append(queue[u], Loss) /\ Loss \in Events(requests)
        BY <1>0, <2>4, <3>1 DEF Announces, ExtrasTyped, Events
      <4>2. Elems(queue'[u]) = Elems(queue[u]) \cup {Loss}
        BY <1>t, <4>1, AppendElems
      <4> QED
        BY <1>a, <2>0, <2>4, <4>2 DEF Announces
    <3>2. CASE u # s
      <4>1. queue'[u] = queue[u]
        BY <1>0, <2>4, <3>2 DEF Announces, ExtrasTyped
      <4> QED
        BY <1>a, <2>0, <2>4, <4>1 DEF Announces
    <3> QED
      BY <3>1, <3>2
  <2> QED
    BY <1>5, <2>1, <2>2, <2>3, <2>4
<1>6. CASE StrayPolls
  <2>1. recreations' # 0
    BY <1>6 DEF StrayPolls, UiTypeOK, AppTyped
  <2> QED
    BY <2>1 DEF PromptOk
<1> QED
  BY <1>1, <1>2, <1>3, <1>4, <1>5, <1>6 DEF UiNext

-----------------------------------------------------------------------------
(* Calls and answers                                                         *)
(* The app makes no call while its coroutine has not come to it, and a       *)
(* disconnect is past its critical section at once.                          *)
JobOk(c) ==
    /\ job[c] \in {"none", "connect", "disconnect", "strayConnect", "strayDisconnect"}
          => pc[c] = "idle"
    /\ job[c] = "disconnectCalled" => pc[c] \in {"idle", "stopTaken", "joinTaken", "return"}
    /\ pc[c] # "use"

JobInv ==
    /\ \A c \in Callers : JobOk(c)
    /\ ~initialized => ptr[G] = None /\ \A c \in Callers : pc[c] = "idle"

(* g_session has reported, or the call that waits for its report is under way*)
(* and will take it back if there is none.                                   *)
AnswerPending(s) ==
    \E c \in Callers : /\ pending[c] = s
                       /\ pc[c] \in {"stopDisplaced", "joinDisplaced", "wait", "reap"}

AnswerInv ==
    /\ \A c \in Callers : ptr[New(c)] # None => pending[c] = ptr[New(c)]
    /\ ptr[G] # None => report[ptr[G]] # None \/ AnswerPending(ptr[G])

(* A call changes its own variables only.                                    *)
LEMMA CallFrame ==
    ASSUME TypeOK, NEW c \in Callers, CallBegins(c) \/ CallSteps(c)
    PROVE  \A d \in Callers : d # c =>
              pc'[d] = pc[d] /\ pending'[d] = pending[d] /\ result'[d] = result[d]
<1> USE DEF Goto, Set
<1>0. DOMAIN pc = Callers /\ DOMAIN pending = Callers /\ DOMAIN result = Callers
  BY DEF TypeOK
<1>1. CASE CallBegins(c)
  BY <1>0, <1>1 DEF CallBegins, NativeInit, ConnectRefused, ConnectBegins, DisconnectRefused,
              DisconnectTakes, UseBegins, callerVars
<1>2. CASE CallSteps(c)
  <2>1. CASE StopOld(c) \/ JoinOld(c) \/ StartFails(c) \/ Publish(c) \/ StopDisplaced(c)
    BY <1>0, <2>1 DEF StopOld, JoinOld, StartFails, Publish, StopDisplaced
  <2>2. CASE JoinDisplaced(c) \/ Waits(c) \/ Reap(c) \/ StopTaken(c) \/ JoinTaken(c)
    BY <1>0, <2>2 DEF JoinDisplaced, Waits, Reap, StopTaken, JoinTaken
  <2>3. CASE Returns(c) \/ UseEnds(c) \/ \E s \in Sessions : CreateAndStart(c, s)
    BY <1>0, <2>3 DEF Returns, UseEnds, CreateAndStart
  <2> QED
    BY <1>2, <2>1, <2>2, <2>3 DEF CallSteps
<1> QED
  BY <1>1, <1>2

(* Workers change nothing of the calls.                                      *)
LEMMA WorkerFrame ==
    ASSUME NEW s \in Sessions, WorkerSteps(s) \/ WorkerLosesConnection(s)
    PROVE  UNCHANGED <<initialized, stateMutex, ptr, callerVars, creator, target, stopRequested>>
  BY DEF WorkerSteps, WorkerLosesConnection, WorkerConnects, WorkerReportsOk,
         WorkerReportsFailure, WorkerStops, WorkerGoesOffline, WorkerExits, WorkerMoves

(* Where a call can be after one of its steps                                *)
LEMMA PcOfCall ==
    ASSUME TypeOK, NEW c \in Callers, CallSteps(c)
    PROVE  /\ pc[c] # "idle" /\ UNCHANGED initialized
           /\ pc[c] # "use" => pc'[c] # "use"
           /\ pc[c] \in {"stopTaken", "joinTaken", "return"}
                 => pc'[c] \in {"idle", "joinTaken", "return"}
           /\ pc[c] \in {"stopDisplaced", "joinDisplaced"}
                 => pc'[c] \in {"joinDisplaced", "wait"} /\ pending'[c] = pending[c]
<1> USE DEF Goto, Set
<1>0. pc \in [Callers -> Pcs] /\ pending \in [Callers -> Sessions \cup {None}]
  BY DEF TypeOK
<1>1. CASE StopOld(c) \/ JoinOld(c) \/ StartFails(c) \/ StopDisplaced(c)
  BY <1>0, <1>1 DEF StopOld, JoinOld, StartFails, StopDisplaced
<1>2. CASE JoinDisplaced(c) \/ StopTaken(c) \/ JoinTaken(c)
  BY <1>0, <1>2 DEF JoinDisplaced, StopTaken, JoinTaken
<1>3. CASE Returns(c) \/ UseEnds(c) \/ \E s \in Sessions : CreateAndStart(c, s)
  BY <1>0, <1>3 DEF Returns, UseEnds, CreateAndStart
<1>4. CASE Waits(c) \/ Reap(c) \/ Publish(c)
  BY <1>0, <1>4 DEF Waits, Reap, Publish
<1> QED
  BY <1>1, <1>2, <1>3, <1>4 DEF CallSteps

(* Jobs and their calls stay in step.                                        *)
LEMMA JobStep == IInv /\ UiTypeOK /\ JobInv /\ [UiNext]_allVars => JobInv'
<1> SUFFICES ASSUME IInv, UiTypeOK, JobInv, [UiNext]_allVars PROVE JobInv'
  OBVIOUS
<1>0. /\ TypeOK /\ AppTyped /\ [Next]_vars
      /\ job \in [Callers -> Jobs] /\ pc \in [Callers -> Pcs]
      /\ \A c \in Callers : CallInv(c) /\ JobOk(c)
  BY AppImplementsBridge DEF IInv, PcInv, UiTypeOK, JobInv, TypeOK, AppTyped
<1>1. ~initialized' => ptr'[G] = None /\ \A c \in Callers : pc'[c] = "idle"
  <2> SUFFICES ASSUME ~initialized'
               PROVE  ptr'[G] = None /\ \A c \in Callers : pc'[c] = "idle"
    OBVIOUS
  <2>1. ASSUME NEW c \in Callers, CallBegins(c)
        PROVE  ~initialized /\ pc' = pc
    BY <2>1 DEF CallBegins, NativeInit, ConnectRefused, ConnectBegins, DisconnectRefused,
                DisconnectTakes, UseBegins
  <2>2. ~initialized /\ pc' = pc
    <3>1. ASSUME NEW c \in Callers, CallSteps(c) PROVE FALSE
      <4>1. pc[c] # "idle" /\ UNCHANGED initialized
        BY <1>0, <3>1, PcOfCall
      <4> QED
        BY <4>1 DEF JobInv
    <3>2. ASSUME NEW s \in Sessions, WorkerSteps(s) \/ WorkerLosesConnection(s)
          PROVE  ~initialized /\ pc' = pc
      BY <3>2, WorkerFrame DEF callerVars
    <3>3. CASE UNCHANGED vars
      BY <3>3 DEF vars, callerVars
    <3> QED
      BY <1>0, <2>1, <3>1, <3>2, <3>3 DEF Next
  <2>3. ptr[G] = None /\ \A c \in Callers : pc[c] = "idle" /\ ptr[New(c)] = None
    BY <1>0, <2>2 DEF JobInv, CallInv
  <2> QED
    BY <1>0, <2>2, <2>3, PtrStep
<1>2. ASSUME NEW d \in Callers PROVE JobOk(d)'
  <2>a. ASSUME pc'[d] = pc[d], job'[d] = job[d] PROVE JobOk(d)'
    BY <1>0, <2>a DEF JobOk
  <2>1. CASE UNCHANGED allVars
    BY <2>1, <2>a DEF allVars, vars, callerVars, uiVars
  <2>2. CASE User
    <3>1. CASE ActivityRecreated
      <4>1. PICK begun \in SUBSET Callers :
               job' = [c \in Callers |-> Cancelled(job[c], c \in begun)]
        BY <3>1 DEF ActivityRecreated
      <4>2. job'[d] = Cancelled(job[d], d \in begun) /\ job[d] \in Jobs
        BY <1>0, <4>1
      <4>3. /\ job'[d] \in {"none", "strayConnect", "strayDisconnect", "done"}
            /\ job'[d] # "done" =>
                  job[d] \in {"none", "connect", "disconnect", "strayConnect", "strayDisconnect"}
        <5>1. (d \in begun) \in BOOLEAN
          OBVIOUS
        <5>2. job[d] \in Jobs
          BY <4>2
        <5> DEFINE next == Cancelled(job[d], d \in begun)
        <5>3. next \in {"none", "strayConnect", "strayDisconnect", "done"}
          BY <5>1, <5>2, CancelledIs
        <5>4. next # "done" =>
                 job[d] \in {"none", "connect", "disconnect", "strayConnect", "strayDisconnect"}
          BY <5>1, <5>2, CancelledIs
        <5> HIDE DEF next
        <5> QED
          BY <4>2, <5>3, <5>4 DEF next
      <4>4. pc' = pc
        BY <3>1 DEF ActivityRecreated, vars, callerVars
      <4> QED
        BY <1>0, <4>3, <4>4 DEF JobOk
    <3>2. ASSUME NEW c \in Callers, ClickConnect(c) \/ ClickDisconnect(c) PROVE JobOk(d)'
      BY <1>0, <3>2 DEF ClickConnect, ClickDisconnect, Becomes, NextJob, JobOk, vars, callerVars
    <3> QED
      BY <2>2, <3>1, <3>2 DEF User
  <2>3. CASE PollLoopSteps \/ SnackbarEnds \/ StrayPolls
    BY <2>3, <2>a DEF PollLoopSteps, Polls, HandlesPrompt, HandlesLoss, SnackbarEnds, StrayPolls,
                      vars, callerVars
  <2>4. ASSUME NEW c \in Callers, JobSteps(c) PROVE JobOk(d)'
    <3>1. CASE Initializes(c)
      BY <2>a, <3>1 DEF Initializes, NativeInit, uiVars, callerVars
    <3>2. CASE CallGoesOn(c)
      <4>1. job' = job
        BY <3>2 DEF CallGoesOn, uiVars
      <4>2. CASE d # c
        BY <1>0, <2>a, <3>2, <4>1, <4>2, CallFrame DEF CallGoesOn
      <4>3. CASE d = c
        BY <1>0, <3>2, <4>1, <4>3, PcOfCall DEF CallGoesOn, JobOk
      <4> QED
        BY <4>2, <4>3
    <3>3. CASE ConnectCalls(c)
      <4>1. job' = [job EXCEPT ![c] = "connectCalled"] \/ job' = [job EXCEPT ![c] = "done"]
        BY <3>3 DEF ConnectCalls, Becomes
      <4>2. CASE d # c
        BY <1>0, <2>a, <3>3, <4>1, <4>2, CallFrame DEF ConnectCalls, CallBegins
      <4>3. CASE d = c
        <5>1. pc'[c] \in {"idle", "create", "stopOld"}
          BY <1>0, <3>3 DEF ConnectCalls, ConnectBegins, ConnectRefused, Goto, Locks, JobOk
        <5> QED
          BY <1>0, <4>1, <4>3, <5>1 DEF JobOk
      <4> QED
        BY <4>2, <4>3
    <3>4. CASE DisconnectCalls(c)
      <4>1. job' = [job EXCEPT ![c] = "disconnectCalled"] \/ job' = [job EXCEPT ![c] = "done"]
        BY <3>4 DEF DisconnectCalls, Becomes
      <4>2. CASE d # c
        BY <1>0, <2>a, <3>4, <4>1, <4>2, CallFrame DEF DisconnectCalls, CallBegins
      <4>3. CASE d = c
        <5>1. pc'[c] \in {"idle", "stopTaken"}
          BY <1>0, <3>4 DEF DisconnectCalls, DisconnectTakes, DisconnectRefused, Goto, Locks
        <5> QED
          BY <1>0, <4>1, <4>3, <5>1 DEF JobOk
      <4> QED
        BY <4>2, <4>3
    <3>5. CASE ConnectResult(c)
      BY <1>0, <3>5 DEF ConnectResult, Becomes, JobOk, vars, callerVars
    <3>6. CASE DisconnectResult(c)
      BY <1>0, <3>6 DEF DisconnectResult, Becomes, JobOk, vars, callerVars
    <3> QED
      BY <2>4, <3>1, <3>2, <3>3, <3>4, <3>5, <3>6 DEF JobSteps
  <2>5. ASSUME NEW s \in Sessions,
               Asks(s) \/ StopsAsking(s) \/ WorkerLoses(s) \/ Announces(s) \/ WorkerGoesOn(s)
        PROVE  JobOk(d)'
    <3>1. job' = job
      BY <2>5 DEF Asks, StopsAsking, WorkerLoses, Announces, WorkerGoesOn, uiVars
    <3>2. pc' = pc
      BY <2>5, WorkerFrame DEF Asks, StopsAsking, WorkerLoses, Announces, WorkerGoesOn, vars, callerVars
    <3> QED
      BY <2>a, <3>1, <3>2
  <2> QED
    BY <2>1, <2>2, <2>3, <2>4, <2>5 DEF UiNext
<1> QED
  BY <1>1, <1>2 DEF JobInv

(* What a session has reported it has reported for as long as it lives.      *)
LEMMA ReportStays ==
    ASSUME IInv, WorkerInv, [Next]_vars, NEW s \in Sessions, Live(s)', report[s] # None
    PROVE  report'[s] = report[s]
<1>0. TypeOK /\ WorkerOk(s)
  BY DEF IInv, WorkerInv
<1>1. CASE UNCHANGED <<creator, connected, report, worker>>
  BY <1>1
<1>2. ASSUME NEW x \in Sessions, Destroy(x) PROVE report'[s] = report[s]
  BY <1>0, <1>2 DEF Destroy, TypeOK, Live
<1>3. ASSUME NEW c \in Callers, NEW x \in Sessions, CreateAndStart(c, x)
      PROVE  report'[s] = report[s]
  BY <1>3 DEF CreateAndStart
<1>4. ASSUME NEW x \in Sessions, WorkerSteps(x) \/ WorkerLosesConnection(x)
      PROVE  report'[s] = report[s]
  <2>1. CASE WorkerReportsOk(x) \/ WorkerReportsFailure(x)
    BY <1>0, <2>1 DEF WorkerReportsOk, WorkerReportsFailure, WorkerMoves, TypeOK, WorkerOk
  <2>2. CASE ~WorkerReportsOk(x) /\ ~WorkerReportsFailure(x)
    BY <1>4, <2>2 DEF WorkerSteps, WorkerLosesConnection, WorkerConnects, WorkerStops,
                      WorkerGoesOffline, WorkerExits
  <2> QED
    BY <2>1, <2>2
<1> QED
  BY <1>1, <1>2, <1>3, <1>4, SessionChanges

(* nativeConnect takes back what it got no answer from: the session in       *)
(* g_session has reported or is still waited for.                            *)
LEMMA AnswerStep == IInv /\ WorkerInv /\ AnswerInv /\ [Next]_vars => AnswerInv'
<1> SUFFICES ASSUME IInv, WorkerInv, AnswerInv, [Next]_vars PROVE AnswerInv'
  OBVIOUS
<1>0. TypeOK /\ UniqueOwner /\ \A c \in Callers : CallInv(c)
  BY DEF IInv, PcInv
<1>i. IInv'
  BY IInvStep
<1>t. /\ DOMAIN pc = Callers /\ DOMAIN pending = Callers /\ DOMAIN result = Callers
      /\ G \in Slots /\ \A c \in Callers : New(c) \in Slots
  BY <1>0, SlotFacts DEF TypeOK
<1>1. ASSUME NEW d \in Callers, ptr'[New(d)] # None PROVE pending'[d] = ptr'[New(d)]
  <2>1. CASE ptr'[New(d)] = ptr[New(d)]
    <3>1. pc[d] = "publish" /\ pc'[d] = "publish" /\ pending[d] = ptr[New(d)]
      BY <1>0, <1>1, <1>i, <2>1 DEF IInv, PcInv, CallInv, AnswerInv
    <3>2. pending'[d] = pending[d]
      <4>1. ASSUME NEW c \in Callers, CallBegins(c) \/ CallSteps(c) PROVE pending'[d] = pending[d]
        <5>1. CASE d # c
          BY <1>0, <4>1, <5>1, CallFrame
        <5>2. CASE d = c /\ CallBegins(c)
          BY <5>2 DEF CallBegins, NativeInit, ConnectRefused, ConnectBegins, DisconnectRefused,
                      DisconnectTakes, UseBegins, callerVars
        <5>3. CASE d = c /\ CallSteps(c)
          <6>1. Publish(c)
            BY <3>1, <5>3 DEF CallSteps, StopOld, JoinOld, CreateAndStart, StartFails, StopDisplaced,
                  JoinDisplaced, Waits, Reap, StopTaken, JoinTaken, Returns, UseEnds
          <6> QED
            BY <6>1 DEF Publish
        <5> QED
          BY <4>1, <5>1, <5>2, <5>3
      <4>2. ASSUME NEW s \in Sessions, WorkerSteps(s) \/ WorkerLosesConnection(s)
            PROVE  pending'[d] = pending[d]
        BY <4>2, WorkerFrame DEF callerVars
      <4>3. CASE UNCHANGED vars
        BY <4>3 DEF vars, callerVars
      <4> QED
        BY <4>1, <4>2, <4>3 DEF Next
    <3> QED
      BY <2>1, <3>1, <3>2
  <2>2. ASSUME NEW s \in Sessions, CreateAndStart(d, s), ptr'[New(d)] = s
        PROVE  pending'[d] = ptr'[New(d)]
    BY <1>t, <2>2 DEF CreateAndStart
  <2> QED
    BY <1>0, <1>1, <2>1, <2>2, PtrStep
<1>2. ASSUME ptr'[G] # None PROVE (report[ptr[G]] # None \/ AnswerPending(ptr[G]))'
  <2>1. ASSUME NEW c \in Callers, Publish(c), ptr'[G] = ptr[New(c)] PROVE AnswerPending(ptr[G])'
    <3>1. pending[c] = ptr'[G] /\ pending'[c] = pending[c]
      BY <1>2, <2>1 DEF AnswerInv, Publish
    <3>2. pc'[c] \in {"wait", "stopDisplaced"}
      BY <1>t, <2>1 DEF Publish, Goto
    <3> QED
      BY <3>1, <3>2 DEF AnswerPending
  <2>2. ASSUME NEW s \in Sessions, ptr[G] = s, ptr'[G] = s
        PROVE  (report[ptr[G]] # None \/ AnswerPending(ptr[G]))'
    <3>0. Live(s) /\ Live(s)'
      BY <1>0, <1>2, <1>i, <1>t, <2>2 DEF IInv, UniqueOwner, Live
    <3>1. CASE report[s] # None
      BY <3>0, <3>1, <2>2, ReportStays
    <3>2. CASE report[s] = None
      <4>1. PICK c \in Callers : /\ pending[c] = s
                                 /\ pc[c] \in {"stopDisplaced", "joinDisplaced", "wait", "reap"}
        BY <1>2, <2>2, <3>2 DEF AnswerInv, AnswerPending
      <4>2. pending'[c] = s /\ pc'[c] \in {"stopDisplaced", "joinDisplaced", "wait", "reap"}
        <5>1. CASE pending'[c] = pending[c] /\ pc'[c] = pc[c]
          BY <4>1, <5>1
        <5>2. CASE CallSteps(c)
          <6>1. CASE pc[c] \in {"stopDisplaced", "joinDisplaced"}
            BY <1>0, <4>1, <5>2, <6>1, PcOfCall
          <6>2. CASE pc[c] = "wait"
            <7>1. Waits(c)
              BY <5>2, <6>2 DEF CallSteps, StopOld, JoinOld, CreateAndStart, StartFails, Publish,
                    StopDisplaced, JoinDisplaced, Reap, StopTaken, JoinTaken, Returns, UseEnds
            <7>2. PICK code \in Codes : Answers(c, code) /\ pc' = [pc EXCEPT ![c] =
                                            IF code < 0 THEN "reap" ELSE "return"]
              BY <7>1 DEF Waits, Goto
            <7>3. code = RC_NETWORK_FAILURE
              BY <3>0, <3>2, <4>1, <7>2 DEF Answers
            <7>4. code < 0
              BY <7>3 DEF RC_NETWORK_FAILURE
            <7> QED
              BY <1>t, <4>1, <7>1, <7>2, <7>4 DEF Waits
          <6>3. CASE pc[c] = "reap"
            <7>1. Reap(c)
              BY <5>2, <6>3 DEF CallSteps, StopOld, JoinOld, CreateAndStart, StartFails, Publish,
                    StopDisplaced, JoinDisplaced, Waits, StopTaken, JoinTaken, Returns, UseEnds
            <7>2. Move(G, Taken(c))
              BY <2>2, <4>1, <7>1 DEF Reap
            <7>3. ptr'[G] = None
              BY <1>0, <7>2, SlotFacts DEF Move, TypeOK
            <7> QED
              BY <1>2, <7>3
          <6> QED
            BY <4>1, <6>1, <6>2, <6>3
        <5>3. CASE CallBegins(c)
          BY <4>1, <5>1, <5>3 DEF CallBegins, NativeInit, ConnectRefused, ConnectBegins,
                DisconnectRefused, DisconnectTakes, UseBegins, Locks, callerVars
        <5>4. ASSUME NEW d \in Callers, d # c, CallBegins(d) \/ CallSteps(d)
              PROVE  pending'[c] = pending[c] /\ pc'[c] = pc[c]
          BY <1>0, <5>4, CallFrame
        <5>5. ASSUME NEW x \in Sessions, WorkerSteps(x) \/ WorkerLosesConnection(x)
              PROVE  pending'[c] = pending[c] /\ pc'[c] = pc[c]
          BY <5>5, WorkerFrame DEF callerVars
        <5>6. CASE UNCHANGED vars
          BY <5>1, <5>6 DEF vars, callerVars
        <5> QED
          BY <5>1, <5>2, <5>3, <5>4, <5>5, <5>6 DEF Next
      <4> QED
        BY <2>2, <4>2 DEF AnswerPending
    <3> QED
      BY <3>1, <3>2
  <2>3. ptr[G] \in Sessions \cup {None}
    BY <1>0, <1>t DEF TypeOK
  <2> QED
    BY <1>0, <1>2, <2>1, <2>2, <2>3, PtrStep
<1> QED
  BY <1>1, <1>2 DEF AnswerInv

-----------------------------------------------------------------------------
(* When the status can be trusted                                            *)
(* What nativeConnect takes for success                                      *)
Succeeded(s) == report[s] # None /\ report[s] >= 0

(* Sessions that did succeed if they are taken for it, and are online or     *)
(* their loss is told                                                        *)
SoundSessions ==
    {s \in Sessions :
        Succeeded(s) => report[s] = RC_OK /\ (worker[s] = "online" \/ LossPending(s))}

Connected == ptr[G] # None /\ report[ptr[G]] = RC_OK /\ ptr[G] \in SoundSessions

(* Nobody else is calling, so a connect finds g_session empty once it took   *)
(* the old session, publishes its own and answers for that one.              *)
ConnectState(c) ==
    /\ pc[c] \notin {"stopDisplaced", "joinDisplaced"}
    /\ pc[c] \in {"stopOld", "joinOld", "create", "publish", "stopTaken", "joinTaken"}
          => ptr[G] = None
    /\ pc[c] = "publish" => ptr[New(c)] \in SoundSessions
    /\ pc[c] \in {"wait", "reap"} => ptr[G] = pending[c] /\ ptr[G] \in SoundSessions
    /\ pc[c] \in {"reap", "stopTaken", "joinTaken"} => result[c] \in Int /\ result[c] < 0
    /\ pc[c] \in {"return", "idle"} => IF result[c] >= 0 THEN Connected ELSE ptr[G] = None

Active(c) == job[c] \notin {"none", "done"} \/ pc[c] # "idle"

JobTold(c) ==
    /\ job[c] \notin {"strayConnect", "strayDisconnect"}
    /\ pc[c] # "idle" => job[c] \in {"connectCalled", "disconnectCalled"}
    /\ job[c] \in {"connect", "connectCalled"} => status = "CONNECTING"
    /\ job[c] \in {"disconnect", "disconnectCalled"} => status = "DISCONNECTING"
    /\ job[c] = "connectCalled" => ConnectState(c)
    /\ job[c] = "disconnectCalled" => ptr[G] = None

LossTold == event = Loss /\ ptr[G] # None => worker[ptr[G]] \in {"closing", "exited"}

StatusTold ==
    IF status = "CONNECTED"
    THEN Connected
    ELSE /\ status \notin {"CONNECTING", "DISCONNECTING"}
         /\ ptr[G] # None => worker[ptr[G]] # "online"

Trusted ==
    /\ \A c, d \in Callers : Active(c) /\ Active(d) => c = d
    /\ \A c \in Callers : JobTold(c)
    /\ strays = 0
    /\ Quiet => LossTold /\ StatusTold

TrustInv == ~overtaken => Trusted

(* The invariants of the app so far                                          *)
AppInv ==
    /\ IInv /\ WorkerInv /\ UiTypeOK /\ ExtrasInv /\ EventInv /\ PromptInv /\ JobInv

-----------------------------------------------------------------------------
(* LossPending in terms of what is in the queue                              *)
LEMMA LossElems ==
    ASSUME NEW s PROVE LossPending(s) <=> loss[s] = "lost" \/ Loss \in Elems(queue[s]) \/ event = Loss
  BY DEF LossPending, Elems

(* A loss that is told stays told until the app handles it, unless a call of *)
(* an earlier activity takes it away.                                        *)
LEMMA LossStays ==
    ASSUME UiTypeOK, EventInv, [UiNext]_allVars, ~HandlesLoss, ~overtaken', strays = 0,
           NEW s \in Sessions, Live(s)', LossPending(s)
    PROVE  loss'[s] = "lost" \/ Loss \in Elems(queue'[s]) \/ event' = Loss
<1>0. /\ TypeOK /\ ExtrasTyped
      /\ loss[s] = "lost" \/ Loss \in Elems(queue[s]) \/ event = Loss
      /\ queue[s] \in Seq(Events(requests)) /\ Loss \in Events(requests) /\ requests \in Nat
  BY LossElems DEF UiTypeOK, ExtrasTyped, Events
<1>1. CASE UNCHANGED sessionExtras /\ UNCHANGED event
  BY <1>0, <1>1 DEF sessionExtras
<1>2. CASE Survive /\ UNCHANGED event
  BY <1>0, <1>2 DEF Survive
<1>3. CASE User \/ SnackbarEnds \/ UNCHANGED allVars
  BY <1>1, <1>3 DEF User, ActivityRecreated, ClickConnect, ClickDisconnect, SnackbarEnds, loopVars,
                    uiVars, allVars
<1>8. ~StrayPolls
  BY DEF StrayPolls
<1>4. CASE Polls
  <2>1. event # Loss /\ ptr[G] \in Sessions /\ UNCHANGED loss
    BY <1>0, <1>4, SlotFacts DEF Polls, EventInv, NoEvent, Loss, TypeOK
  <2>2. CASE s = ptr[G]
    <3>1. queue'[s] = Tail(queue[s]) /\ event' = Head(queue[s]) /\ queue[s] # <<>>
      BY <1>0, <1>4, <2>2 DEF Polls, ExtrasTyped
    <3>2. Elems(queue[s]) = {event'} \cup Elems(queue'[s])
      BY <1>0, <3>1, PopElems
    <3> QED
      BY <1>0, <2>1, <3>2
  <2>3. CASE s # ptr[G]
    BY <1>0, <1>4, <2>1, <2>3 DEF Polls, ExtrasTyped
  <2> QED
    BY <2>2, <2>3
<1>5. CASE HandlesPrompt
  <2>1. event # Loss
    BY <1>5 DEF HandlesPrompt, Loss
  <2> QED
    BY <1>0, <1>5, <2>1 DEF HandlesPrompt
<1>6. ASSUME NEW c \in Callers, JobSteps(c)
      PROVE  (UNCHANGED sessionExtras \/ Survive) /\ UNCHANGED event
  <2>1. CASE Initializes(c) \/ CallGoesOn(c)
    BY <2>1 DEF Initializes, CallGoesOn, uiVars, loopVars
  <2>2. CASE ConnectCalls(c)
    BY <2>2 DEF ConnectCalls, loopVars
  <2>3. CASE DisconnectCalls(c)
    BY <2>3 DEF DisconnectCalls, loopVars
  <2>4. CASE ConnectResult(c)
    BY <2>4 DEF ConnectResult, loopVars
  <2>5. CASE DisconnectResult(c)
    BY <2>5 DEF DisconnectResult, loopVars
  <2> QED
    BY <1>6, <2>1, <2>2, <2>3, <2>4, <2>5 DEF JobSteps
<1>7. ASSUME NEW x \in Sessions,
             Asks(x) \/ StopsAsking(x) \/ WorkerLoses(x) \/ Announces(x) \/ WorkerGoesOn(x)
      PROVE  loss'[s] = "lost" \/ Loss \in Elems(queue'[s]) \/ event' = Loss
  <2>0. UNCHANGED event
    BY <1>7 DEF Asks, StopsAsking, WorkerLoses, Announces, WorkerGoesOn, uiVars, loopVars
  <2>1. CASE Asks(x) /\ x = s
    <3>1. queue'[s] = Append(queue[s], Prompt(requests + 1)) /\ UNCHANGED loss
      BY <1>0, <2>1 DEF Asks, ExtrasTyped
    <3>2. queue[s] \in Seq(Events(requests + 1)) /\ Prompt(requests + 1) \in Events(requests + 1)
      BY <1>0, EventsMono, SeqMono
    <3> QED
      BY <1>0, <2>0, <3>1, <3>2, AppendElems
  <2>2. CASE Announces(x) /\ x = s
    <3>1. queue'[s] = Append(queue[s], Loss)
      BY <1>0, <2>2 DEF Announces, ExtrasTyped
    <3> QED
      BY <1>0, <3>1, AppendElems
  <2>3. CASE (Asks(x) \/ Announces(x)) /\ x # s
    BY <1>0, <2>0, <2>3 DEF Asks, Announces, ExtrasTyped
  <2>4. CASE StopsAsking(x) \/ WorkerLoses(x) \/ WorkerGoesOn(x)
    BY <1>0, <2>0, <2>4 DEF StopsAsking, WorkerLoses, WorkerGoesOn, ExtrasTyped, sessionExtras
  <2> QED
    BY <1>7, <2>1, <2>2, <2>3, <2>4
<1> QED
  BY <1>1, <1>2, <1>3, <1>4, <1>5, <1>6, <1>7, <1>8 DEF UiNext, PollLoopSteps

(* The worker of a session that is not asked to stop ends only with a loss,  *)
(* and is online only by reporting so.                                       *)
LEMMA OnlineStep ==
    ASSUME AppInv, [UiNext]_allVars, ~overtaken',
           NEW s \in Sessions, Live(s), Live(s)', ~stopRequested[s]
    PROVE  /\ \/ report'[s] = report[s]
              \/ ~Succeeded(s)'
              \/ report'[s] = RC_OK /\ worker'[s] = "online"
           /\ worker[s] = "online" => worker'[s] = "online" \/ WorkerLoses(s)
           /\ worker'[s] = "online" => worker[s] = "online" \/ report[s] = None
           /\ worker[s] \in {"closing", "exited"} => worker'[s] \in {"closing", "exited"}
<1>0. TypeOK /\ WorkerOk(s) /\ IInv /\ [Next]_vars
  BY AppImplementsBridge DEF AppInv, IInv, WorkerInv
<1> DEFINE Fine == /\ \/ report'[s] = report[s]
                      \/ ~(report'[s] # None /\ report'[s] >= 0)
                      \/ report'[s] = RC_OK /\ worker'[s] = "online"
                   /\ worker[s] = "online" => worker'[s] = "online" \/ WorkerLoses(s)
                   /\ worker'[s] = "online" => worker[s] = "online" \/ report[s] = None
                   /\ worker[s] \in {"closing", "exited"} => worker'[s] \in {"closing", "exited"}
<1>1. CASE UNCHANGED vars
  BY <1>1 DEF vars, sessionVars
<1>2. ASSUME NEW c \in Callers, CallBegins(c) \/ CallSteps(c) PROVE Fine
  <2>1. worker'[s] = worker[s]
    BY <1>0, <1>2, CallsAndWorkers DEF CreateAndStart, TypeOK
  <2>2. report'[s] = report[s] \/ report'[s] = None
    <3>1. CASE UNCHANGED <<creator, connected, report, worker>>
      BY <3>1
    <3>2. ASSUME NEW x \in Sessions, Destroy(x) PROVE report'[s] = report[s] \/ report'[s] = None
      BY <1>0, <3>2 DEF Destroy, TypeOK
    <3>3. ASSUME NEW d \in Callers, NEW x \in Sessions, CreateAndStart(d, x)
          PROVE  report'[s] = report[s]
      BY <3>3 DEF CreateAndStart
    <3>4. ASSUME NEW x \in Sessions, WorkerSteps(x) \/ WorkerLosesConnection(x), report' # report
          PROVE  report'[s] = report[s] \/ x = s
      BY <1>0, <3>4 DEF WorkerSteps, WorkerLosesConnection, WorkerConnects, WorkerReportsOk, TypeOK,
           WorkerReportsFailure, WorkerStops, WorkerGoesOffline, WorkerExits
    <3>5. ASSUME WorkerSteps(s) \/ WorkerLosesConnection(s) PROVE report'[s] = report[s]
      BY <1>0, <2>1, <3>5 DEF WorkerSteps, WorkerLosesConnection, WorkerConnects, WorkerReportsOk,
           WorkerReportsFailure, WorkerStops, WorkerGoesOffline, WorkerExits, WorkerMoves, TypeOK
    <3> QED
      BY <1>0, <3>1, <3>2, <3>3, <3>4, <3>5, SessionChanges
  <2> QED
    BY <1>0, <2>1, <2>2
<1>3. ASSUME NEW x \in Sessions, WorkerLoses(x) \/ WorkerGoesOn(x) PROVE Fine
  <2>1. CASE x # s
    <3>1. report'[s] = report[s] /\ worker'[s] = worker[s]
      BY <1>0, <1>3, <2>1 DEF WorkerLoses, WorkerGoesOn, WorkerSteps, WorkerLosesConnection,
           WorkerConnects, WorkerReportsOk, WorkerReportsFailure, WorkerStops, WorkerGoesOffline,
           WorkerExits, WorkerMoves, TypeOK
    <3> QED
      BY <3>1
  <2>2. CASE x = s
    <3>1. CASE WorkerLoses(s)
      BY <1>0, <3>1 DEF WorkerLoses, WorkerLosesConnection, WorkerMoves, TypeOK
    <3>2. CASE WorkerConnects(s) \/ WorkerStops(s) \/ WorkerGoesOffline(s) \/ WorkerExits(s)
      BY <1>0, <3>2 DEF WorkerConnects, WorkerStops, WorkerGoesOffline, WorkerExits, WorkerMoves, TypeOK
    <3>3. CASE WorkerReportsOk(s)
      BY <1>0, <3>3 DEF WorkerReportsOk, WorkerMoves, TypeOK, WorkerOk
    <3>4. CASE WorkerReportsFailure(s)
      <4>1. worker[s] = "dialing" /\ worker'[s] = "closing"
        BY <1>0, <3>4 DEF WorkerReportsFailure, WorkerMoves, TypeOK
      <4>2. WorkerGoesOn(s)
        BY <1>3, <2>2, <4>1 DEF WorkerLoses, WorkerLosesConnection, WorkerMoves
      <4>3. ~(report'[s] >= 0)
        BY <4>1, <4>2 DEF WorkerGoesOn, FailsUnseen
      <4> QED
        BY <4>1, <4>3
    <3> QED
      BY <1>3, <2>2, <3>1, <3>2, <3>3, <3>4 DEF WorkerGoesOn, WorkerSteps
  <2> QED
    BY <2>1, <2>2
<1>4. CASE UNCHANGED allVars
  BY <1>1, <1>4 DEF allVars
<1> QED
  BY <1>1, <1>2, <1>3, <1>4, AppSteps DEF Succeeded

(* A session that is sound stays so while nobody stops it and no loss is     *)
(* handled.                                                                  *)
LEMMA SoundStep ==
    ASSUME AppInv, [UiNext]_allVars, ~HandlesLoss, ~overtaken', strays = 0,
           NEW s \in Sessions, Live(s), Live(s)', ~stopRequested[s], s \in SoundSessions
    PROVE  s \in SoundSessions'
<1> SUFFICES ASSUME Succeeded(s)'
             PROVE  /\ report'[s] = RC_OK
                    /\ \/ worker'[s] = "online" \/ loss'[s] = "lost"
                       \/ Loss \in Elems(queue'[s]) \/ event' = Loss
  BY DEF SoundSessions, LossPending, Elems
<1>1. LossPending(s) => loss'[s] = "lost" \/ Loss \in Elems(queue'[s]) \/ event' = Loss
  BY LossStays DEF AppInv
<1>2. WorkerLoses(s) => loss'[s] = "lost"
  BY DEF WorkerLoses, AppInv, UiTypeOK, ExtrasTyped
<1>3. CASE report'[s] = report[s]
  <2>1. report[s] = RC_OK /\ (worker[s] = "online" \/ LossPending(s))
    BY <1>3 DEF SoundSessions, Succeeded
  <2> QED
    BY <1>1, <1>2, <1>3, <2>1, OnlineStep
<1>4. CASE report'[s] = RC_OK /\ worker'[s] = "online"
  BY <1>4
<1> QED
  BY <1>3, <1>4, OnlineStep

(* What is in g_session or a newSession stays what it is.                    *)
LEMMA HeldStays ==
    ASSUME AppInv, [UiNext]_allVars, ~HandlesLoss, ~overtaken', strays = 0,
           NEW s \in Sessions,
           ptr[G] = s \/ \E c \in Callers : ptr[New(c)] = s,
           ptr'[G] = s \/ \E c \in Callers : ptr'[New(c)] = s
    PROVE  /\ s \in SoundSessions => s \in SoundSessions'
           /\ report[s] # None => report'[s] = report[s]
<1>1. IInv /\ IInv' /\ [Next]_vars /\ WorkerInv
  BY AppImplementsBridge, IInvStep DEF AppInv
<1>2. Live(s) /\ ~stopRequested[s]
  BY <1>1, SlotFacts, NoneAssumption DEF IInv, UniqueOwner, StopInv, PublishedIsNotStopping
<1>3. Live(s)'
  BY <1>1, SlotFacts, NoneAssumption DEF IInv, UniqueOwner, Live
<1> QED
  BY <1>1, <1>2, <1>3, SoundStep, ReportStays

(* Who is active is alone.                                                   *)
LEMMA Alone ==
    ASSUME Trusted, NEW c \in Callers, Active(c)
    PROVE  \A d \in Callers : d # c => job[d] \in {"none", "done"} /\ pc[d] = "idle"
  BY DEF Trusted, Active

(* If one coroutine is active after a step that left the others alone, only  *)
(* that one matters.                                                         *)
LEMMA StillAlone ==
    ASSUME Trusted, NEW c \in Callers, Active(c),
           \A d \in Callers : d # c => job'[d] = job[d] /\ pc'[d] = pc[d],
           JobTold(c)', strays' = strays, Quiet' => (LossTold /\ StatusTold)'
    PROVE  Trusted'
<1>1. \A d \in Callers : d # c => job'[d] \in {"none", "done"} /\ pc'[d] = "idle"
  BY Alone
<1>2. \A d \in Callers : d # c => JobTold(d)' /\ ~Active(d)'
  BY <1>1 DEF JobTold, Active
<1> QED
  BY <1>2 DEF Trusted

(* Nothing is quiet while a call is under way.                               *)
LEMMA NotQuiet ==
    ASSUME NEW c \in Callers, job'[c] \notin {"none", "done"} PROVE ~Quiet'
  BY DEF Quiet

(* The user starts a coroutine that can be trusted when nothing else goes on.*)
LEMMA ClickTrusted ==
    ASSUME AppInv, NEW c \in Callers, ClickConnect(c) \/ ClickDisconnect(c), ~overtaken'
    PROVE  Trusted'
<1>0. job \in [Callers -> Jobs] /\ pc' = pc
  BY DEF AppInv, UiTypeOK, AppTyped, ClickConnect, ClickDisconnect, vars, callerVars
<1>1. Quiet
  BY DEF ClickConnect, ClickDisconnect, Click
<1>2. \A d \in Callers : d # c => job'[d] \in {"none", "done"} /\ pc'[d] = "idle"
  BY <1>0, <1>1 DEF ClickConnect, ClickDisconnect, Becomes, Quiet
<1>3. /\ pc'[c] = "idle"
      /\ \/ job'[c] = "connect" /\ status' = "CONNECTING"
         \/ job'[c] = "disconnect" /\ status' = "DISCONNECTING"
  BY <1>0, <1>1 DEF ClickConnect, ClickDisconnect, Becomes, Quiet
<1>4. ~Quiet'
  BY <1>3 DEF Quiet
<1>5. \A d \in Callers : JobTold(d)' /\ (Active(d)' => d = c)
  BY <1>2, <1>3 DEF JobTold, Active
<1>6. strays' = 0
  BY DEF ClickConnect, ClickDisconnect, Click
<1> QED
  BY <1>4, <1>5, <1>6 DEF Trusted

-----------------------------------------------------------------------------
(* A coroutine makes its call.                                               *)
(* nativeConnect, called alone: it finds the session it is to keep, or none  *)
(* when it has taken the one there was.                                      *)
LEMMA ConnectCallsTrusted ==
    ASSUME AppInv, AnswerInv, Trusted, NEW c \in Callers, ConnectCalls(c), ~overtaken'
    PROVE  Trusted'
<1>0. /\ TypeOK /\ WorkerInv /\ IInv
      /\ DOMAIN pc = Callers /\ DOMAIN result = Callers /\ job \in [Callers -> Jobs]
  BY DEF AppInv, IInv, TypeOK, UiTypeOK, AppTyped
<1>1. /\ job[c] = "connect" /\ pc[c] = "idle" /\ status' = status /\ Active(c)
      /\ job'[c] = "connectCalled" /\ \A d \in Callers : d # c => job'[d] = job[d]
      /\ strays' = strays
  <2>1. job[c] # "strayConnect"
    BY DEF Trusted, JobTold
  <2> QED
    BY <1>0, <2>1 DEF ConnectCalls, Becomes, Active, AppInv, JobInv, JobOk
<1>2. \A d \in Callers : d # c => pc'[d] = pc[d]
  BY <1>0, CallFrame DEF ConnectCalls, CallBegins
<1>3. status = "CONNECTING"
  BY <1>1 DEF Trusted, JobTold
<1>4. ConnectState(c)'
  <2>1. PICK t \in Targets :
           ConnectBegins(c, t) \/ (ConnectRefused(c, t) /\ result'[c] # RC_INVALID_ARGUMENT)
    BY DEF ConnectCalls
  <2>2. CASE ConnectBegins(c, t)
    <3>1. pc'[c] \in {"create", "stopOld"}
      BY <1>0, <2>2 DEF ConnectBegins, Goto
    <3>2. ptr'[G] = None
      BY <1>0, <2>2, SlotFacts DEF ConnectBegins, Move, TypeOK
    <3> QED
      BY <3>1, <3>2 DEF ConnectState
  <2>3. CASE ConnectRefused(c, t) /\ result'[c] # RC_INVALID_ARGUMENT
    <3>1. /\ ptr[G] # None /\ isTarget(ptr[G], t)
          /\ result'[c] = RC_ALREADY_CONNECTED
      BY <1>0, <2>3 DEF ConnectRefused, Set, ConnectCalls
    <3>2. UNCHANGED <<ptr, pc, sessionVars>>
      BY <2>3 DEF ConnectRefused
    <3>3. ptr[G] \in Sessions
      BY <1>0, <3>1, SlotFacts DEF TypeOK
    <3>4. report[ptr[G]] # None
      <4>1. \A d \in Callers : pc[d] = "idle"
        BY <1>1, Alone
      <4>2. ~AnswerPending(ptr[G])
        BY <4>1 DEF AnswerPending
      <4> QED
        BY <3>1, <4>2 DEF AnswerInv
    <3>5. ~Ending(ptr[G])
      BY <3>1 DEF ConnectCalls
    <3>6. connected[ptr[G]]
      BY <1>0, <3>1, <3>4 DEF isTarget
    <3>7. worker[ptr[G]] = "online"
      BY <1>0, <3>3, <3>4, <3>5, <3>6 DEF WorkerInv, WorkerOk, Ending
    <3>11. report[ptr[G]] = RC_OK
      BY <1>0, <3>3, <3>7 DEF WorkerInv, WorkerOk
    <3>8. ptr[G] \in SoundSessions'
      BY <3>2, <3>3, <3>7, <3>11 DEF SoundSessions, sessionVars
    <3>9. Connected'
      BY <3>1, <3>2, <3>11, <3>8 DEF Connected, sessionVars
    <3>10. pc'[c] = "idle" /\ result'[c] >= 0
      BY <1>1, <3>1, <3>2 DEF RC_ALREADY_CONNECTED
    <3> QED
      BY <3>9, <3>10 DEF ConnectState
  <2> QED
    BY <2>1, <2>2, <2>3
<1>5. JobTold(c)'
  BY <1>1, <1>3, <1>4 DEF JobTold
<1>6. ~Quiet'
  BY <1>1, NotQuiet
<1> QED
  BY <1>1, <1>2, <1>5, <1>6, StillAlone

(* nativeDisconnect leaves g_session empty at once.                          *)
LEMMA DisconnectCallsTrusted ==
    ASSUME AppInv, Trusted, NEW c \in Callers, DisconnectCalls(c) PROVE Trusted'
<1>0. TypeOK /\ DOMAIN pc = Callers /\ job \in [Callers -> Jobs]
  BY DEF AppInv, IInv, TypeOK, UiTypeOK, AppTyped
<1>1. /\ job[c] = "disconnect" /\ status' = status /\ Active(c)
      /\ job'[c] = "disconnectCalled" /\ \A d \in Callers : d # c => job'[d] = job[d]
      /\ strays' = strays
  <2>1. job[c] # "strayDisconnect"
    BY DEF Trusted, JobTold
  <2> QED
    BY <1>0, <2>1 DEF DisconnectCalls, Becomes, Active
<1>2. \A d \in Callers : d # c => pc'[d] = pc[d]
  BY <1>0, CallFrame DEF DisconnectCalls, CallBegins
<1>3. status = "DISCONNECTING"
  BY <1>1 DEF Trusted, JobTold
<1>4. ptr'[G] = None
  <2>1. CASE DisconnectTakes(c)
    BY <1>0, <2>1, SlotFacts DEF DisconnectTakes, Move, TypeOK
  <2>2. CASE DisconnectRefused(c)
    BY <2>2 DEF DisconnectRefused, AppInv, JobInv
  <2> QED
    BY <2>1, <2>2 DEF DisconnectCalls
<1>5. JobTold(c)'
  BY <1>1, <1>3, <1>4 DEF JobTold
<1>6. ~Quiet'
  BY <1>1, NotQuiet
<1> QED
  BY <1>1, <1>2, <1>5, <1>6, StillAlone

(* A step of nativeConnect, called alone                                     *)
LEMMA ConnectStateStep ==
    ASSUME AppInv, AnswerInv, NEW c \in Callers, CallGoesOn(c), ~overtaken', strays = 0,
           pc[c] # "use", ConnectState(c)
    PROVE  ConnectState(c)'
<1>0. /\ TypeOK /\ IInv /\ IInv' /\ [Next]_vars /\ [UiNext]_allVars /\ WorkerInv /\ CallInv(c)
      /\ DOMAIN pc = Callers /\ DOMAIN result = Callers /\ DOMAIN ptr = Slots
  <2>1. [UiNext]_allVars
    BY DEF UiNext, JobSteps
  <2> QED
    BY <2>1, AppImplementsBridge, IInvStep DEF AppInv, IInv, TypeOK, PcInv
<1>1. ~HandlesLoss /\ CallSteps(c) /\ c # None
  <2>1. pc[c] # "idle" /\ CallSteps(c)
    BY <1>0, PcOfCall DEF CallGoesOn
  <2>2. event' = event
    BY DEF CallGoesOn, uiVars, loopVars
  <2>3. ~HandlesLoss
    BY <2>2 DEF HandlesLoss, Loss, NoEvent
  <2> QED
    BY <2>1, <2>3, NoneAssumption
<1>2. ASSUME ptr[G] # None, ptr'[G] = ptr[G]
      PROVE  /\ ptr[G] \in SoundSessions => ptr[G] \in SoundSessions'
             /\ report[ptr[G]] # None => report'[ptr[G]] = report[ptr[G]]
  BY <1>0, <1>1, <1>2, HeldStays, SlotFacts DEF TypeOK
<1> USE DEF Goto, Set
<1>3. CASE StopOld(c) \/ JoinOld(c)
  BY <1>0, <1>3 DEF StopOld, JoinOld, ConnectState
<1>4. ASSUME NEW s \in Sessions, CreateAndStart(c, s) PROVE ConnectState(c)'
  <2>1. pc'[c] = "publish" /\ ptr'[G] = None /\ ptr'[New(c)] = s
    BY <1>0, <1>4, SlotFacts DEF CreateAndStart, ConnectState
  <2>2. report'[s] = None
    BY <1>4, <1>0 DEF CreateAndStart, WorkerInv, WorkerOk
  <2>3. s \in SoundSessions'
    BY <2>2 DEF SoundSessions, Succeeded
  <2> QED
    BY <2>1, <2>3 DEF ConnectState
<1>5. CASE StartFails(c)
  <2>1. pc'[c] = "return" /\ ptr'[G] = None /\ result'[c] = RC_BACKEND_UNAVAILABLE
    BY <1>0, <1>5 DEF StartFails, ConnectState
  <2>2. ~(result'[c] >= 0)
    BY <2>1 DEF RC_BACKEND_UNAVAILABLE
  <2> QED
    BY <2>1, <2>2 DEF ConnectState
<1>6. CASE Publish(c)
  <2>1. ptr[G] = None /\ ptr[New(c)] \in SoundSessions /\ ptr[New(c)] # None
    BY <1>0, <1>6 DEF Publish, ConnectState, CallInv
  <2>2. pc'[c] = "wait" /\ ptr'[G] = ptr[New(c)] /\ pending' = pending
    BY <1>0, <1>6, <2>1, SlotFacts DEF Publish, Move
  <2>3. pending[c] = ptr[New(c)]
    BY <2>1 DEF AppInv, AnswerInv
  <2>4. ptr[New(c)] \in Sessions
    BY <2>1 DEF SoundSessions
  <2>5. ptr[New(c)] \in SoundSessions'
    BY <1>0, <1>1, <2>1, <2>2, <2>4, HeldStays
  <2> QED
    BY <2>2, <2>3, <2>5 DEF ConnectState
<1>7. CASE Waits(c)
  <2> DEFINE s == pending[c]
  <2>1. /\ ptr[G] = s /\ s # None /\ s \in SoundSessions /\ Live(s) /\ s \in Sessions
        /\ UNCHANGED ptr
    BY <1>0, <1>7, SlotFacts DEF Waits, ConnectState, TypeOK, IInv, UniqueOwner
  <2>2. PICK code \in Codes : /\ Answers(c, code) /\ result' = [result EXCEPT ![c] = code]
                              /\ pc' = [pc EXCEPT ![c] = IF code < 0 THEN "reap" ELSE "return"]
    BY <1>7 DEF Waits
  <2>3. code = RC_NETWORK_FAILURE \/ (code = report[s] /\ report[s] # None)
    BY <2>1, <2>2 DEF Answers
  <2>4. ptr'[G] = s /\ s \in SoundSessions'
    BY <1>2, <2>1
  <2>5. code \in Int
    <3>1. ConnectFailureCodes \subseteq Int
      BY DEF ConnectFailureCodes, mapFreeRdpError, LastErrors, RC_OK, RC_AUTH_FAILURE,
             RC_TLS_FAILURE, RC_NOT_CONNECTED, RC_NETWORK_FAILURE, RC_INTERNAL_ERROR,
             RC_CERTIFICATE_REJECTED, RC_BACKEND_UNAVAILABLE, RC_INVALID_ARGUMENT
    <3>2. code \in Outcomes \cup {RC_OK, RC_NETWORK_FAILURE}
      BY <1>0, <2>1, <2>3 DEF WorkerInv, WorkerOk
    <3> QED
      BY <3>1, <3>2, OutcomesAssumption DEF RC_OK, RC_NETWORK_FAILURE
  <2>6. CASE code >= 0
    <3>1. code = report[s] /\ report[s] # None
      BY <2>3, <2>6 DEF RC_NETWORK_FAILURE
    <3>2. Succeeded(s)
      BY <2>6, <3>1 DEF Succeeded
    <3>3. report[s] = RC_OK
      BY <2>1, <3>2 DEF SoundSessions
    <3>4. report'[s] = RC_OK
      BY <1>2, <2>1, <3>1, <3>3
    <3>5. Connected'
      BY <2>1, <2>4, <3>4 DEF Connected
    <3>6. ~(code < 0)
      BY <2>5, <2>6
    <3>7. pc'[c] = "return" /\ result'[c] = code
      BY <1>0, <2>2, <3>6
    <3> QED
      BY <2>6, <3>5, <3>7 DEF ConnectState
  <2>7. CASE code < 0
    <3>1. pc'[c] = "reap" /\ result'[c] = code /\ pending' = pending
      BY <1>0, <1>7, <2>2, <2>7 DEF Waits
    <3> QED
      BY <2>4, <2>5, <2>7, <3>1 DEF ConnectState
  <2> QED
    BY <2>5, <2>6, <2>7
<1>8. CASE Reap(c)
  <2>1. Move(G, Taken(c)) /\ pc'[c] = "stopTaken" /\ result' = result
    BY <1>0, <1>8 DEF Reap, ConnectState
  <2>2. ptr'[G] = None
    BY <1>0, <2>1, SlotFacts DEF Move
  <2> QED
    BY <1>8, <2>1, <2>2 DEF Reap, ConnectState
<1>9. CASE StopTaken(c) \/ JoinTaken(c)
  <2>1. /\ pc[c] \in {"stopTaken", "joinTaken"} /\ pc'[c] \in {"joinTaken", "return"}
        /\ result' = result
    BY <1>0, <1>9 DEF StopTaken, JoinTaken
  <2>2. ptr'[G] = None
    BY <1>0, <1>9, SlotFacts DEF StopTaken, JoinTaken, ConnectState
  <2>3. result[c] \in Int /\ result[c] < 0
    BY <2>1 DEF ConnectState
  <2>4. ~(result'[c] >= 0)
    BY <2>1, <2>3
  <2> QED
    BY <2>1, <2>2, <2>3, <2>4 DEF ConnectState
<1>10. CASE Returns(c)
  <2>1. pc[c] = "return" /\ pc'[c] = "idle" /\ result' = result
    BY <1>0, <1>10 DEF Returns
  <2>2. ptr'[G] = ptr[G]
    BY <1>0, <1>10, SlotFacts DEF Returns
  <2>3. IF result[c] >= 0 THEN Connected ELSE ptr[G] = None
    BY <2>1 DEF ConnectState
  <2>4. Connected => Connected'
    BY <1>2, <2>2, NoneIsNoCode DEF Connected, RC_OK
  <2> QED
    BY <2>1, <2>2, <2>3, <2>4 DEF ConnectState
<1>11. ~StopDisplaced(c) /\ ~JoinDisplaced(c) /\ ~UseEnds(c)
  BY DEF StopDisplaced, JoinDisplaced, UseEnds, ConnectState
<1> QED
  BY <1>1, <1>3, <1>4, <1>5, <1>6, <1>7, <1>8, <1>9, <1>10, <1>11 DEF CallSteps

(* A call under way, alone, leads where its coroutine expects it.            *)
LEMMA CallGoesOnTrusted ==
    ASSUME AppInv, AnswerInv, Trusted, NEW c \in Callers, CallGoesOn(c), ~overtaken'
    PROVE  Trusted'
<1>0. TypeOK /\ CallSteps(c) /\ JobOk(c) /\ DOMAIN ptr = Slots /\ pc \in [Callers -> Pcs]
  BY DEF AppInv, IInv, TypeOK, CallGoesOn, JobInv
<1>1. /\ job' = job /\ status' = status /\ pc[c] # "idle" /\ Active(c) /\ JobTold(c)
      /\ strays = 0 /\ strays' = strays
  BY <1>0, PcOfCall DEF CallGoesOn, uiVars, Active, Trusted
<1>2. \A d \in Callers : d # c => pc'[d] = pc[d]
  BY <1>0, CallFrame
<1>3. JobTold(c)'
  <2>1. CASE job[c] = "connectCalled"
    <3>1. ConnectState(c)'
      BY <1>0, <1>1, <2>1, ConnectStateStep DEF JobTold, JobOk
    <3> QED
      BY <1>1, <2>1, <3>1 DEF JobTold
  <2>2. CASE job[c] = "disconnectCalled"
    <3>1. pc[c] \in {"stopTaken", "joinTaken", "return"}
      BY <1>0, <1>1, <2>2 DEF JobOk
    <3>2. StopTaken(c) \/ JoinTaken(c) \/ Returns(c)
      BY <1>0, <3>1 DEF CallSteps, StopOld, JoinOld, CreateAndStart, StartFails, Publish,
                        StopDisplaced, JoinDisplaced, Waits, Reap, UseEnds
    <3>3. ptr'[G] = ptr[G]
      BY <1>0, <3>2, SlotFacts DEF StopTaken, JoinTaken, Returns
    <3> QED
      BY <1>1, <2>2, <3>3 DEF JobTold
  <2> QED
    BY <1>1, <2>1, <2>2 DEF JobTold
<1>4. ~Quiet'
  BY <1>1, NotQuiet DEF JobTold
<1> QED
  BY <1>1, <1>2, <1>3, <1>4, StillAlone

-----------------------------------------------------------------------------
(* A coroutine sets the status when its call has returned: things are quiet  *)
(* then.                                                                     *)
LEMMA ResultTrusted ==
    ASSUME AppInv, Trusted, NEW c \in Callers, ConnectResult(c) \/ DisconnectResult(c), ~overtaken'
    PROVE  Trusted'
<1>0. DOMAIN job = Callers /\ UNCHANGED vars /\ UNCHANGED sessionExtras /\ UNCHANGED <<event, strays>>
  BY DEF AppInv, UiTypeOK, AppTyped, ConnectResult, DisconnectResult, loopVars
<1>1. /\ Active(c) /\ JobTold(c) /\ pc[c] = "idle" /\ job'[c] = "done"
      /\ \A d \in Callers : d # c => job'[d] = job[d]
  BY <1>0 DEF ConnectResult, DisconnectResult, Becomes, Active, Trusted
<1>2. \A d \in Callers : pc'[d] = pc[d]
  BY <1>0 DEF vars, callerVars
<1>3. JobTold(c)'
  BY <1>1, <1>2 DEF JobTold
<1>4. (LossTold /\ StatusTold)'
  <2>1. CASE ConnectResult(c)
    <3>1. ConnectState(c) /\ event' # Loss
      BY <1>0, <1>1, <2>1 DEF ConnectResult, JobTold
    <3>2. CASE result[c] >= 0
      <4>1. Connected /\ status' = "CONNECTED"
        BY <1>1, <2>1, <3>1, <3>2 DEF ConnectState, ConnectResult
      <4>2. Connected'
        BY <1>0, <4>1 DEF Connected, SoundSessions, Succeeded, LossPending, vars, sessionVars, sessionExtras
      <4> QED
        BY <3>1, <4>1, <4>2 DEF LossTold, StatusTold
    <3>3. CASE ~(result[c] >= 0)
      <4>1. ptr'[G] = None /\ status' = "ERROR"
        BY <1>0, <1>1, <2>1, <3>1, <3>3 DEF ConnectState, ConnectResult, vars
      <4> QED
        BY <4>1 DEF LossTold, StatusTold
    <3> QED
      BY <3>2, <3>3
  <2>2. CASE DisconnectResult(c)
    <3>1. ptr'[G] = None /\ status' \in {"DISCONNECTED", "ERROR"}
      BY <1>0, <1>1, <2>2 DEF DisconnectResult, JobTold, vars
    <3> QED
      BY <3>1 DEF LossTold, StatusTold
  <2> QED
    BY <2>1, <2>2
<1> QED
  BY <1>0, <1>1, <1>2, <1>3, <1>4, StillAlone

-----------------------------------------------------------------------------
(* The poll loop tells the user of a loss.                                   *)
LEMMA HandlesLossTrusted ==
    ASSUME AppInv, Trusted, HandlesLoss, ~overtaken' PROVE Trusted'
<1>0. /\ UNCHANGED vars /\ UNCHANGED sessionExtras /\ UNCHANGED <<job, strays>>
      /\ event' = NoEvent /\ event = Loss /\ NoEvent # Loss
  BY DEF HandlesLoss, NoEvent, Loss
<1>u. /\ Quiet' = Quiet /\ \A c \in Callers : Active(c)' = Active(c)
      /\ ptr' = ptr /\ worker' = worker /\ pc' = pc
  BY <1>0 DEF Quiet, Active, vars, callerVars, sessionVars
<1>1. CASE status = "DISCONNECTING" /\ UNCHANGED status
  <2>1. \A c \in Callers : job[c] # "connectCalled"
    BY <1>1 DEF Trusted, JobTold
  <2>2. \A c \in Callers : JobTold(c)'
    BY <1>0, <1>1, <1>u, <2>1 DEF Trusted, JobTold
  <2>3. ~Quiet
    BY <1>1 DEF Trusted, StatusTold
  <2> QED
    BY <1>0, <1>u, <2>2, <2>3 DEF Trusted
<1>2. CASE status' \in {"ERROR", "DISCONNECTED"} /\ Quiet
  <2>1. \A c \in Callers : JobTold(c)'
    BY <1>0, <1>2, <1>u DEF JobTold, Quiet
  <2>2. LossTold /\ LossTold' /\ StatusTold'
    BY <1>0, <1>2, <1>u DEF Trusted, LossTold, StatusTold
  <2> QED
    BY <1>0, <1>u, <2>1, <2>2 DEF Trusted
<1> QED
  BY <1>1, <1>2 DEF HandlesLoss

(* A step of a worker or of the poll loop that leaves the coroutines, their  *)
(* calls and the status alone: the session in g_session stays what the status*)
(* says, and a loss that was polled ended its worker.                        *)
LEMMA BackgroundTrusted ==
    ASSUME AppInv, AnswerInv, Trusted, [UiNext]_allVars, ~HandlesLoss, ~overtaken',
           UNCHANGED <<job, status, strays, ptr, callerVars>>,
           event' = Loss => event = Loss \/ (Polls /\ Loss \in Elems(queue[ptr[G]]))
    PROVE  Trusted'
<1>0. TypeOK /\ IInv /\ WorkerInv /\ IInv' /\ [Next]_vars
  BY AppImplementsBridge, IInvStep DEF AppInv, IInv
<1>1. /\ Quiet' = Quiet /\ \A c \in Callers : Active(c)' = Active(c)
      /\ pc' = pc /\ result' = result /\ pending' = pending
  BY DEF Quiet, Active, callerVars
<1>2. \A x \in {G} \cup {New(c) : c \in Callers} : ptr[x] # None =>
         /\ ptr[x] \in SoundSessions => ptr[x] \in SoundSessions'
         /\ report[ptr[x]] # None => report'[ptr[x]] = report[ptr[x]]
  <2> TAKE x \in {G} \cup {New(c) : c \in Callers}
  <2> HAVE ptr[x] # None
  <2>1. ptr[x] \in Sessions /\ x \in Slots
    BY <1>0, SlotFacts DEF TypeOK
  <2> QED
    BY <2>1, HeldStays DEF Trusted
<1>3. Connected => Connected'
  BY <1>2, NoneIsNoCode DEF Connected, RC_OK
<1>4. \A c \in Callers : ConnectState(c) => ConnectState(c)'
  <2> SUFFICES ASSUME NEW c \in Callers, ConnectState(c) PROVE ConnectState(c)'
    OBVIOUS
  <2>1. pc[c] = "publish" => ptr'[New(c)] \in SoundSessions'
    <3> SUFFICES ASSUME pc[c] = "publish" PROVE ptr'[New(c)] \in SoundSessions'
      OBVIOUS
    <3>1. ptr[New(c)] \in SoundSessions /\ ptr[New(c)] # None
      BY <1>0 DEF ConnectState, IInv, PcInv, CallInv
    <3> QED
      BY <1>2, <3>1
  <2>2. pc[c] \in {"wait", "reap"} => ptr'[G] \in SoundSessions'
    <3> SUFFICES ASSUME pc[c] \in {"wait", "reap"} PROVE ptr'[G] \in SoundSessions'
      OBVIOUS
    <3>1. ptr[G] \in SoundSessions /\ ptr[G] # None
      BY NoneAssumption DEF ConnectState, SoundSessions
    <3> QED
      BY <1>2, <3>1
  <2> QED
    BY <1>1, <1>3, <2>1, <2>2 DEF ConnectState
<1>5. \A c \in Callers : JobTold(c)'
  BY <1>1, <1>4 DEF JobTold, Trusted
<1>6. ASSUME Quiet, ptr[G] # None
      PROVE  /\ report[ptr[G]] # None
             /\ worker'[ptr[G]] = "online" => worker[ptr[G]] = "online"
             /\ worker[ptr[G]] \in {"closing", "exited"} => worker'[ptr[G]] \in {"closing", "exited"}
  <2>1. ptr[G] \in Sessions /\ Live(ptr[G]) /\ ~stopRequested[ptr[G]]
    BY <1>0, <1>6, SlotFacts DEF TypeOK, IInv, UniqueOwner, StopInv, PublishedIsNotStopping
  <2>2. creator'[ptr[G]] # None
    BY <1>0, <1>6, SlotFacts DEF IInv, UniqueOwner, Live
  <2>3. report[ptr[G]] # None
    BY <1>6 DEF AnswerInv, AnswerPending, Quiet
  <2>4. \A s \in Sessions : Live(s) /\ creator'[s] # None /\ ~stopRequested[s] /\ report[s] # None =>
          /\ worker'[s] = "online" => worker[s] = "online"
          /\ worker[s] \in {"closing", "exited"} => worker'[s] \in {"closing", "exited"}
    BY OnlineStep DEF Live
  <2> QED
    BY <2>1, <2>2, <2>3, <2>4
<1>7. ASSUME Quiet PROVE LossTold'
  <2> SUFFICES ASSUME event' = Loss, ptr[G] # None PROVE worker'[ptr[G]] \in {"closing", "exited"}
    BY DEF LossTold
  <2>1. ptr[G] \in Sessions
    BY <1>0, SlotFacts DEF TypeOK
  <2>2. worker[ptr[G]] \in {"closing", "exited"}
    BY <1>7, <2>1 DEF Trusted, LossTold, AppInv, ExtrasInv, ExtrasOk
  <2> QED
    BY <1>6, <1>7, <2>2
<1>8. ASSUME Quiet PROVE StatusTold'
  BY <1>3, <1>6, <1>8 DEF Trusted, StatusTold
<1> QED
  BY <1>1, <1>5, <1>7, <1>8 DEF Trusted

(* Every step leaves the status to be trusted, or marks it as overtaken.     *)
LEMMA TrustStep ==
    ASSUME AppInv, AnswerInv, TrustInv, [UiNext]_allVars PROVE TrustInv'
<1> SUFFICES ASSUME ~overtaken' PROVE Trusted'
  BY DEF TrustInv
<1>n. event' = event => ~HandlesLoss
  BY DEF HandlesLoss, Loss, NoEvent
<1>1. CASE UNCHANGED allVars
  BY <1>1, <1>n, BackgroundTrusted DEF TrustInv, allVars, vars, uiVars, loopVars
<1>2. CASE User
  <2>1. ~ActivityRecreated
    BY DEF ActivityRecreated
  <2> QED
    BY <1>2, <2>1, ClickTrusted DEF User
<1>3. CASE PollLoopSteps \/ SnackbarEnds
  <2>1. CASE Polls
    <3>1. /\ UNCHANGED <<job, status, strays, ptr, callerVars>> /\ ~overtaken
          /\ pollLoop' = "handle" /\ pollLoop = "poll"
      BY <2>1 DEF Polls, vars
    <3>2. ~HandlesLoss
      BY <3>1 DEF HandlesLoss
    <3>3. event' \in Elems(queue[ptr[G]])
      <4>1. ptr[G] \in Sessions /\ queue[ptr[G]] # <<>>
        BY <2>1, SlotFacts DEF Polls, AppInv, IInv, TypeOK
      <4>2. queue[ptr[G]] \in Seq(Events(requests))
        BY <4>1 DEF AppInv, UiTypeOK, ExtrasTyped
      <4>3. Elems(queue[ptr[G]]) = {Head(queue[ptr[G]])} \cup Elems(Tail(queue[ptr[G]]))
        BY <4>1, <4>2, PopElems
      <4> QED
        BY <2>1, <4>3 DEF Polls
    <3> QED
      BY <2>1, <3>1, <3>2, <3>3, BackgroundTrusted DEF TrustInv
  <2>2. CASE HandlesPrompt
    <3>1. /\ UNCHANGED <<job, status, strays, ptr, callerVars>> /\ ~overtaken
          /\ event' # Loss /\ event # Loss
      BY <2>2 DEF HandlesPrompt, vars, Loss, NoEvent
    <3>2. ~HandlesLoss
      BY <3>1 DEF HandlesLoss
    <3> QED
      BY <3>1, <3>2, BackgroundTrusted DEF TrustInv
  <2>3. CASE HandlesLoss
    <3>1. ~overtaken
      BY <2>3 DEF HandlesLoss
    <3> QED
      BY <2>3, <3>1, HandlesLossTrusted DEF TrustInv
  <2>4. CASE SnackbarEnds
    BY <2>4, <1>n, BackgroundTrusted DEF TrustInv, SnackbarEnds, vars
  <2> QED
    BY <1>3, <2>1, <2>2, <2>3, <2>4 DEF PollLoopSteps
<1>4. ASSUME NEW c \in Callers, JobSteps(c) PROVE Trusted'
  <2>1. CASE Initializes(c)
    <3>1. /\ UNCHANGED <<job, status, strays, ptr, callerVars>> /\ ~overtaken
          /\ event' = event
      BY <2>1 DEF Initializes, NativeInit, uiVars, loopVars
    <3> QED
      BY <1>n, <3>1, BackgroundTrusted DEF TrustInv
  <2>2. CASE ConnectCalls(c)
    <3>1. ~overtaken
      BY <2>2 DEF ConnectCalls
    <3> QED
      BY <2>2, <3>1, ConnectCallsTrusted DEF TrustInv
  <2>3. CASE DisconnectCalls(c)
    <3>1. ~overtaken
      BY <2>3 DEF DisconnectCalls
    <3> QED
      BY <2>3, <3>1, DisconnectCallsTrusted DEF TrustInv
  <2>4. CASE CallGoesOn(c)
    <3>1. ~overtaken
      BY <2>4 DEF CallGoesOn, uiVars
    <3> QED
      BY <2>4, <3>1, CallGoesOnTrusted DEF TrustInv
  <2>5. CASE ConnectResult(c) \/ DisconnectResult(c)
    <3>1. ~overtaken
      BY <2>5 DEF ConnectResult, DisconnectResult
    <3> QED
      BY <2>5, <3>1, ResultTrusted DEF TrustInv
  <2> QED
    BY <1>4, <2>1, <2>2, <2>3, <2>4, <2>5 DEF JobSteps
<1>5. ASSUME NEW s \in Sessions,
             Asks(s) \/ StopsAsking(s) \/ WorkerLoses(s) \/ Announces(s) \/ WorkerGoesOn(s)
      PROVE  Trusted'
  <2>1. UNCHANGED <<job, status, strays, ptr, callerVars>>
    BY <1>5, WorkerFrame DEF Asks, StopsAsking, WorkerLoses, Announces, WorkerGoesOn, vars, uiVars
  <2>2. ~overtaken /\ event' = event
    <3>1. CASE Asks(s) \/ StopsAsking(s) \/ WorkerLoses(s) \/ Announces(s)
      BY <3>1 DEF Asks, StopsAsking, WorkerLoses, Announces, uiVars, loopVars
    <3>2. CASE WorkerGoesOn(s)
      BY <3>2 DEF WorkerGoesOn, loopVars
    <3> QED
      BY <1>5, <3>1, <3>2
  <2> QED
    BY <1>n, <2>1, <2>2, BackgroundTrusted DEF TrustInv
<1>6. ~StrayPolls
  <2>1. StrayPolls => ~overtaken /\ strays # 0
    BY DEF StrayPolls
  <2> QED
    BY <2>1 DEF TrustInv, Trusted
<1> QED
  BY <1>1, <1>2, <1>3, <1>4, <1>5, <1>6 DEF UiNext

-----------------------------------------------------------------------------
(* The app's invariants hold at the start.                                   *)
LEMMA AppInitially == UiInit => AppInv /\ AnswerInv /\ TrustInv
<1> SUFFICES ASSUME UiInit PROVE AppInv /\ AnswerInv /\ TrustInv
  OBVIOUS
<1>0. Init
  BY DEF UiInit
<1>1. IInv
  BY <1>0, IInvInitially
<1>2. WorkerInv
  BY <1>0 DEF Init, WorkerInv, WorkerOk
<1>3. UiTypeOK
  <2>1. ExtrasTyped
    BY DEF UiInit, ExtrasTyped
  <2>2. recreations \in 0 .. MaxRecreations /\ strays \in 0 .. recreations
    BY BoundsAssumption DEF UiInit
  <2>3. AppTyped
    BY <2>2 DEF UiInit, AppTyped, Screens, Statuses, Jobs
  <2> QED
    BY <1>1, <2>1, <2>3 DEF IInv, UiTypeOK
<1>4. ExtrasInv
  BY <1>0 DEF UiInit, Init, ExtrasInv, ExtrasOk, Elems
<1>5. EventInv /\ PromptInv
  BY DEF UiInit, EventInv, PromptInv, PromptOk
<1>6. JobInv /\ AnswerInv
  BY <1>0, SlotFacts DEF UiInit, Init, JobInv, JobOk, AnswerInv
<1>7. Trusted
  <2>1. /\ ptr[G] = None /\ status = "IDLE" /\ strays = 0
        /\ \A c \in Callers : job[c] = "none" /\ pc[c] = "idle"
    BY <1>0, SlotFacts DEF UiInit, Init
  <2> QED
    BY <2>1 DEF Trusted, Active, JobTold, LossTold, StatusTold
<1> QED
  BY <1>1, <1>2, <1>3, <1>4, <1>5, <1>6, <1>7 DEF AppInv, TrustInv

(* What holds of the app whether the status was overtaken or not is inductive*)
LEMMA AppInvariance == UiSpec => []AppInv
<1>1. UiInit => AppInv
  BY AppInitially
<1>2. AppInv /\ [UiNext]_allVars => AppInv'
  <2> SUFFICES ASSUME AppInv, [UiNext]_allVars PROVE AppInv'
    OBVIOUS
  <2>1. IInv' /\ WorkerInv'
    BY AppImplementsBridge, IInvStep, WorkerStep DEF AppInv
  <2> QED
    BY <2>1, UiTypeStep, ExtrasStep, EventStep, PromptStep, JobStep DEF AppInv
<1> QED
  BY <1>1, <1>2, PTL DEF UiSpec

(* Every variable of the app keeps its type.                                 *)
THEOREM UiTypeCorrect == UiSpec => []UiTypeOK
<1>1. AppInv => UiTypeOK
  BY DEF AppInv
<1> QED
  BY <1>1, AppInvariance, PTL

(* No question is dropped between a worker and the user: from the moment it  *)
(* is asked, its prompt is in a queue the app will poll, or in its hands.    *)
THEOREM PromptsStayOnTheirWay == UiSpec => []PromptIsOnItsWay
<1>1. AppInv => PromptIsOnItsWay
  <2> SUFFICES ASSUME AppInv, ptr[G] # None, asking[ptr[G]] # 0, recreations = 0
               PROVE  Prompt(asking[ptr[G]]) \in {event} \cup Elems(queue[ptr[G]])
    BY DEF PromptIsOnItsWay, Elems
  <2>1. ptr[G] \in Sessions
    BY SlotFacts DEF AppInv, IInv, TypeOK
  <2> QED
    BY <2>1 DEF AppInv, PromptInv, PromptOk
<1> QED
  BY <1>1, AppInvariance, PTL

(* When things are quiet and nothing was overtaken the status is the truth,  *)
(* whatever code a failed connect reports.                                   *)
THEOREM StatusTellsTheTruth == UiSpec => []StatusIsTrue
<1>1. UiInit => AppInv /\ AnswerInv /\ TrustInv
  BY AppInitially
<1>2. AppInv /\ AnswerInv /\ TrustInv /\ [UiNext]_allVars => AnswerInv' /\ TrustInv'
  BY AnswerStep, TrustStep, AppImplementsBridge DEF AppInv
<1>3. AppInv /\ TrustInv => StatusIsTrue
  <2>1. Connected => worker[ptr[G]] = "online" \/ LossPending(ptr[G])
    <3>1. RC_OK # None /\ RC_OK >= 0
      BY NoneIsNoCode DEF RC_OK
    <3> QED
      BY <3>1 DEF Connected, SoundSessions, Succeeded
  <2> QED
    BY <2>1 DEF TrustInv, Trusted, StatusTold, Connected, StatusIsTrue
<1> QED
  BY <1>1, <1>2, <1>3, AppInvariance, PTL DEF UiSpec
=============================================================================
