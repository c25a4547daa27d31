----------------------- MODULE SessionLifecycleProofs -----------------------
(***************************************************************************)
(* The safety properties of SessionLifecycle, for any number of callers,   *)
(* addresses and targets. Ownership is inductive only together with what   *)
(* each call holds at each of its steps, with which sessions can have been *)
(* asked to stop, and with the old session's worker being over once it was *)
(* joined: IInv below.                                                     *)
(***************************************************************************)
EXTENDS SessionLifecycle, TLAPS

(* Which steps of a call hold the mutex, and what it owns at each step       *)
CallInv(c) ==
    /\ stateMutex = c <=> pc[c] \in {"use", "stopDisplaced", "joinDisplaced"}
    /\ pc[c] \in {"stopOld", "joinOld"} => ptr[Old(c)] # None
    /\ pc[c] \in {"idle", "use"} => ptr[Old(c)] = None
    /\ pc[c] = "publish" <=> ptr[New(c)] # None
    /\ pc[c] \in {"stopDisplaced", "joinDisplaced", "stopTaken", "joinTaken"}
          <=> ptr[Taken(c)] # None
    /\ pc[c] = "use" => ptr[G] # None

PcInv == \A c \in Callers : CallInv(c)

JoinedInv == \A c \in Callers :
    pc[c] \notin {"stopOld", "joinOld"} /\ ptr[Old(c)] # None
        => worker[ptr[Old(c)]] = "exited"

(* Only sessions in an oldSession or taken out of g_session are stopped.     *)
StopInv ==
    /\ PublishedIsNotStopping
    /\ \A c \in Callers : ptr[New(c)] # None => ~stopRequested[ptr[New(c)]]
    /\ \A s \in Sessions : ~Live(s) => ~stopRequested[s]

IInv ==
    /\ TypeOK /\ UniqueOwner /\ PcInv
    /\ JoinedInv /\ NoThreadOnFreedSession /\ StopInv

-----------------------------------------------------------------------------
(* The unique_ptrs are pairwise different variables.                         *)
LEMMA SlotFacts ==
    /\ G \in Slots
    /\ \A c \in Callers : Old(c) \in Slots /\ New(c) \in Slots /\ Taken(c) \in Slots
    /\ \A c \in Callers : G # Old(c) /\ G # New(c) /\ G # Taken(c)
    /\ \A c, d \in Callers : Old(c) # New(d) /\ Old(c) # Taken(d) /\ New(c) # Taken(d)
    /\ \A c, d \in Callers : c # d => Old(c) # Old(d) /\ New(c) # New(d) /\ Taken(c) # Taken(d)
    /\ \A x \in Slots : x = G \/ \E c \in Callers : x = Old(c) \/ x = New(c) \/ x = Taken(c)
  BY DEF Slots, G, Old, New, Taken

-----------------------------------------------------------------------------
(* Types: destroying a session leaves every field with a value of its type.  *)
LEMMA DestroyType ==
    ASSUME TypeOK, NEW s, Destroy(s)
    PROVE  /\ creator' \in [Sessions -> Callers \cup {None}]
           /\ target' \in [Sessions -> Targets \cup {None}]
           /\ stopRequested' \in [Sessions -> BOOLEAN]
           /\ connected' \in [Sessions -> BOOLEAN]
           /\ report' \in [Sessions -> Codes \cup {None}]
           /\ worker' \in [Sessions -> WorkerPcs]
  BY DEF TypeOK, Destroy

(* std::move between two unique_ptrs keeps them of their type.              *)
LEMMA MoveType ==
    ASSUME TypeOK, NEW x \in Slots, NEW y \in Slots, Move(x, y)
    PROVE  ptr' \in [Slots -> Sessions \cup {None}]
  BY DEF TypeOK, Move

(* Every step of a call or a worker keeps the types.                        *)
LEMMA TypeStep == TypeOK /\ [Next]_vars => TypeOK'
<1> SUFFICES ASSUME TypeOK, [Next]_vars PROVE TypeOK'
  OBVIOUS
<1> USE DEF Goto, Set
<1>1. CASE UNCHANGED vars
  BY <1>1 DEF TypeOK, vars, callerVars, sessionVars
<1>2. ASSUME NEW c \in Callers, CallBegins(c) PROVE TypeOK'
  <2>1. CASE NativeInit(c)
    BY <2>1 DEF TypeOK, NativeInit, callerVars, sessionVars
  <2>2. ASSUME NEW t \in Targets, ConnectRefused(c, t) PROVE TypeOK'
    BY <2>2 DEF TypeOK, ConnectRefused, Codes, sessionVars
  <2>3. ASSUME NEW t \in Targets, ConnectBegins(c, t) PROVE TypeOK'
    <3>1. ptr' \in [Slots -> Sessions \cup {None}]
      BY <2>3, SlotFacts, MoveType DEF TypeOK, ConnectBegins
    <3> QED
      BY <2>3, <3>1 DEF TypeOK, ConnectBegins, Pcs, sessionVars
  <2>4. CASE DisconnectRefused(c)
    BY <2>4 DEF TypeOK, DisconnectRefused, Codes, sessionVars
  <2>5. CASE DisconnectTakes(c)
    <3>1. ptr' \in [Slots -> Sessions \cup {None}]
      BY <2>5, SlotFacts, MoveType DEF DisconnectTakes
    <3> QED
      BY <2>5, <3>1 DEF TypeOK, DisconnectTakes, Codes, Pcs, sessionVars
  <2>6. CASE UseBegins(c)
    BY <2>6 DEF TypeOK, UseBegins, Pcs, sessionVars
  <2> QED
    BY <1>2, <2>1, <2>2, <2>3, <2>4, <2>5, <2>6 DEF CallBegins
<1>3. ASSUME NEW c \in Callers, CallSteps(c) PROVE TypeOK'
  <2>1. CASE StopOld(c)
    BY <2>1 DEF TypeOK, StopOld, RequestStop, Pcs
  <2>2. CASE JoinOld(c)
    BY <2>2 DEF TypeOK, JoinOld, Pcs, sessionVars
  <2>3. ASSUME NEW s \in Sessions, CreateAndStart(c, s) PROVE TypeOK'
    BY <2>3, SlotFacts, NoneAssumption DEF TypeOK, CreateAndStart, Pcs, WorkerPcs
  <2>4. CASE StartFails(c)
    BY <2>4 DEF TypeOK, StartFails, Pcs, Codes, sessionVars
  <2>5. CASE Publish(c)
    <3>1. ptr' \in [Slots -> Sessions \cup {None}]
      <4>1. ptr[G] \in Sessions \cup {None} /\ ptr[New(c)] \in Sessions \cup {None}
        BY SlotFacts DEF TypeOK
      <4> QED
        BY <2>5, <4>1 DEF TypeOK, Publish, Move
    <3>2. pc' \in [Callers -> Pcs] /\ stateMutex' \in Callers \cup {None}
      BY <2>5 DEF TypeOK, Publish, Pcs
    <3>3. \A d \in Callers :
            pc'[d] \in {"publish", "stopDisplaced", "joinDisplaced", "wait", "reap"}
                => pending'[d] # None
      BY <2>5 DEF TypeOK, Publish
    <3> QED
      BY <2>5, <3>1, <3>2, <3>3 DEF TypeOK, Publish, sessionVars
  <2>6. CASE StopDisplaced(c)
    BY <2>6 DEF TypeOK, StopDisplaced, RequestStop, Pcs
  <2>7. CASE JoinDisplaced(c)
    <3>1. ptr' \in [Slots -> Sessions \cup {None}]
      BY <2>7 DEF TypeOK, JoinDisplaced
    <3>2. /\ creator' \in [Sessions -> Callers \cup {None}]
          /\ target' \in [Sessions -> Targets \cup {None}]
          /\ stopRequested' \in [Sessions -> BOOLEAN]
          /\ connected' \in [Sessions -> BOOLEAN]
          /\ report' \in [Sessions -> Codes \cup {None}]
          /\ worker' \in [Sessions -> WorkerPcs]
      BY <2>7, DestroyType DEF JoinDisplaced
    <3> QED
      BY <2>7, <3>1, <3>2 DEF TypeOK, JoinDisplaced, Pcs
  <2>8. CASE Waits(c)
    BY <2>8 DEF TypeOK, Waits, Pcs, sessionVars
  <2>9. CASE Reap(c)
    BY <2>9, SlotFacts, MoveType DEF TypeOK, Reap, Pcs, sessionVars
  <2>10. CASE StopTaken(c)
    BY <2>10 DEF TypeOK, StopTaken, RequestStop, Pcs
  <2>11. CASE JoinTaken(c)
    BY <2>11, SlotFacts, DestroyType DEF TypeOK, JoinTaken, Pcs
  <2>12. CASE Returns(c)
    BY <2>12, SlotFacts, DestroyType DEF TypeOK, Returns, Pcs, sessionVars
  <2>13. CASE UseEnds(c)
    BY <2>13 DEF TypeOK, UseEnds, Pcs, sessionVars
  <2> QED
    BY <1>3, <2>1, <2>2, <2>3, <2>4, <2>5, <2>6, <2>7, <2>8, <2>9, <2>10, <2>11,
       <2>12, <2>13 DEF CallSteps
<1>4. ASSUME NEW s \in Sessions, WorkerSteps(s) \/ WorkerLosesConnection(s) PROVE TypeOK'
  <2>1. CASE WorkerConnects(s) \/ WorkerGoesOffline(s) \/ WorkerExits(s)
    BY <2>1 DEF TypeOK, WorkerConnects, WorkerGoesOffline, WorkerExits, WorkerMoves, WorkerPcs, callerVars
  <2>2. CASE WorkerReportsOk(s) \/ WorkerReportsFailure(s)
    BY <2>2 DEF TypeOK, WorkerReportsOk, WorkerReportsFailure, WorkerMoves, WorkerPcs,
                Codes, callerVars
  <2>3. CASE WorkerStops(s) \/ WorkerLosesConnection(s)
    BY <2>3 DEF TypeOK, WorkerStops, WorkerLosesConnection, WorkerMoves, WorkerPcs, callerVars
  <2> QED
    BY <1>4, <2>1, <2>2, <2>3 DEF WorkerSteps
<1> QED
  BY <1>1, <1>2, <1>3, <1>4 DEF Next

(* Every variable keeps its type, whatever the calls and workers do.         *)
THEOREM TypeCorrect == Spec => []TypeOK
<1>1. Init => TypeOK
  BY NoneAssumption DEF Init, TypeOK, Pcs, WorkerPcs, Slots
<1> QED
  BY <1>1, TypeStep, PTL DEF Spec

-----------------------------------------------------------------------------
(* Ownership survives a move into an empty unique_ptr.                       *)
LEMMA MoveKeepsOwners ==
    ASSUME TypeOK, UniqueOwner, UNCHANGED creator,
           NEW x \in Slots, NEW y \in Slots, x # y, ptr[y] = None, Move(x, y)
    PROVE  UniqueOwner'
<1>1. ptr'[x] = None /\ ptr'[y] = ptr[x]
      /\ \A z \in Slots : z # x /\ z # y => ptr'[z] = ptr[z]
  BY DEF TypeOK, Move
<1>2. \A z \in Slots : ptr'[z] # None => creator[ptr'[z]] # None
  BY <1>1 DEF UniqueOwner, Live
<1>3. \A v, w \in Slots : ptr'[v] # None /\ ptr'[v] = ptr'[w] => v = w
  BY <1>1 DEF UniqueOwner
<1>4. \A s \in Sessions : creator[s] # None => \E z \in Slots : ptr'[z] = s
  <2> SUFFICES ASSUME NEW s \in Sessions, creator[s] # None PROVE \E z \in Slots : ptr'[z] = s
    OBVIOUS
  <2>1. PICK z \in Slots : ptr[z] = s
    BY DEF UniqueOwner, Live
  <2>2. z # y
    BY <2>1, NoneAssumption
  <2> QED
    BY <1>1, <2>1, <2>2
<1> QED
  BY <1>2, <1>3, <1>4 DEF UniqueOwner, Live

(* It survives the destruction of a session by the unique_ptr that owns it. *)
LEMMA DestroyKeepsOwners ==
    ASSUME TypeOK, UniqueOwner, NEW x \in Slots, ptr[x] # None,
           ptr' = [ptr EXCEPT ![x] = None], Destroy(ptr[x])
    PROVE  UniqueOwner'
<1>1. ptr'[x] = None /\ \A z \in Slots : z # x => ptr'[z] = ptr[z]
  BY DEF TypeOK
<1>2. ptr[x] \in Sessions
  BY DEF TypeOK
<1>3. creator'[ptr[x]] = None /\ \A s \in Sessions : s # ptr[x] => creator'[s] = creator[s]
  BY <1>2 DEF TypeOK, Destroy
<1>4. \A z \in Slots : ptr'[z] # None => creator'[ptr'[z]] # None
  <2> SUFFICES ASSUME NEW z \in Slots, ptr'[z] # None PROVE creator'[ptr'[z]] # None
    OBVIOUS
  <2>1. z # x /\ ptr'[z] = ptr[z]
    BY <1>1
  <2>2. ptr[z] # ptr[x] /\ creator[ptr[z]] # None
    BY <2>1 DEF UniqueOwner, Live
  <2>3. ptr[z] \in Sessions
    BY <2>1 DEF TypeOK
  <2> QED
    BY <1>3, <2>1, <2>2, <2>3
<1>5. \A v, w \in Slots : ptr'[v] # None /\ ptr'[v] = ptr'[w] => v = w
  BY <1>1 DEF UniqueOwner
<1>6. \A s \in Sessions : creator'[s] # None => \E z \in Slots : ptr'[z] = s
  <2> SUFFICES ASSUME NEW s \in Sessions, creator'[s] # None PROVE \E z \in Slots : ptr'[z] = s
    OBVIOUS
  <2>1. s # ptr[x] /\ creator[s] # None
    BY <1>3
  <2>2. PICK z \in Slots : ptr[z] = s
    BY <2>1 DEF UniqueOwner, Live
  <2> QED
    BY <1>1, <2>1, <2>2
<1> QED
  BY <1>4, <1>5, <1>6 DEF UniqueOwner, Live

(* It survives make_unique at a free address into an empty unique_ptr.      *)
LEMMA CreateKeepsOwners ==
    ASSUME TypeOK, UniqueOwner, NEW c \in Callers, NEW s \in Sessions,
           ptr[New(c)] = None, CreateAndStart(c, s)
    PROVE  UniqueOwner'
<1>1. /\ New(c) \in Slots /\ ptr'[New(c)] = s
      /\ \A z \in Slots : z # New(c) => ptr'[z] = ptr[z]
  BY SlotFacts DEF TypeOK, CreateAndStart
<1>2. c # None
  BY NoneAssumption
<1>3. /\ creator[s] = None /\ creator'[s] # None
      /\ \A u \in Sessions : u # s => creator'[u] = creator[u]
  BY <1>2 DEF TypeOK, CreateAndStart, Live
<1>4. \A z \in Slots : ptr[z] # None =>
          ptr[z] \in Sessions /\ creator[ptr[z]] # None /\ ptr[z] # s
  BY <1>3 DEF TypeOK, UniqueOwner, Live
<1>5. \A z \in Slots : ptr'[z] # None => creator'[ptr'[z]] # None
  BY <1>1, <1>3, <1>4
<1>6. \A v, w \in Slots : ptr'[v] # None /\ ptr'[v] = ptr'[w] => v = w
  BY <1>1, <1>4 DEF UniqueOwner
<1>7. \A u \in Sessions : creator'[u] # None => \E z \in Slots : ptr'[z] = u
  <2> SUFFICES ASSUME NEW u \in Sessions, creator'[u] # None PROVE \E z \in Slots : ptr'[z] = u
    OBVIOUS
  <2>1. CASE u = s
    BY <1>1, <2>1
  <2>2. CASE u # s
    <3>1. PICK z \in Slots : ptr[z] = u
      BY <1>3, <2>2 DEF UniqueOwner, Live
    <3>2. z # New(c)
      BY <3>1, NoneAssumption
    <3> QED
      BY <1>1, <3>1, <3>2
  <2> QED
    BY <2>1, <2>2
<1> QED
  BY <1>5, <1>6, <1>7 DEF UniqueOwner, Live

(* It survives the assignment to a g_session that is not null: newSession goes*)
(* in and what was there is handed to the call's own unique_ptr.            *)
LEMMA DisplaceKeepsOwners ==
    ASSUME TypeOK, UniqueOwner, UNCHANGED creator, NEW c \in Callers,
           ptr[Taken(c)] = None, ptr[G] # None, ptr[New(c)] # None,
           ptr' = [ptr EXCEPT ![Taken(c)] = ptr[G], ![G] = ptr[New(c)], ![New(c)] = None]
    PROVE  UniqueOwner'
<1>1. /\ G \in Slots /\ New(c) \in Slots /\ Taken(c) \in Slots
      /\ G # New(c) /\ G # Taken(c) /\ New(c) # Taken(c)
  BY SlotFacts
<1>2. /\ ptr'[Taken(c)] = ptr[G] /\ ptr'[G] = ptr[New(c)] /\ ptr'[New(c)] = None
      /\ \A z \in Slots : z # Taken(c) /\ z # G /\ z # New(c) => ptr'[z] = ptr[z]
  <2>1. DOMAIN ptr = Slots
    BY DEF TypeOK
  <2> QED
    BY <1>1, <2>1, Zenon
<1>3. \A z \in Slots : ptr'[z] # None => creator[ptr'[z]] # None
  <2>1. creator[ptr[G]] # None /\ creator[ptr[New(c)]] # None
    BY <1>1 DEF UniqueOwner, Live
  <2>2. \A z \in Slots : ptr[z] # None => creator[ptr[z]] # None
    BY DEF UniqueOwner, Live
  <2> QED
    BY <1>1, <1>2, <2>1, <2>2
<1>4. \A v, w \in Slots : ptr'[v] # None /\ ptr'[v] = ptr'[w] => v = w
  <2> SUFFICES ASSUME NEW v \in Slots, NEW w \in Slots, v # w, ptr'[v] # None
               PROVE  ptr'[v] # ptr'[w]
    OBVIOUS
  <2>1. \A x, y \in Slots : ptr[x] # None /\ ptr[x] = ptr[y] => x = y
    BY DEF UniqueOwner
  <2>2. v # New(c)
    BY <1>2
  <2>3. CASE w = New(c)
    BY <1>2, <2>3
  <2>4. CASE w # New(c)
    <3>1. CASE v = G
      BY <1>1, <1>2, <2>1, <2>4, <3>1
    <3>2. CASE v = Taken(c)
      BY <1>1, <1>2, <2>1, <2>4, <3>2
    <3>3. CASE v # G /\ v # Taken(c)
      BY <1>1, <1>2, <2>1, <2>2, <2>4, <3>3
    <3> QED
      BY <3>1, <3>2, <3>3
  <2> QED
    BY <2>3, <2>4
<1>5. \A s \in Sessions : creator[s] # None => \E z \in Slots : ptr'[z] = s
  <2> SUFFICES ASSUME NEW s \in Sessions, creator[s] # None PROVE \E z \in Slots : ptr'[z] = s
    OBVIOUS
  <2>1. PICK z \in Slots : ptr[z] = s
    BY DEF UniqueOwner, Live
  <2>2. z # Taken(c)
    BY <2>1, NoneAssumption
  <2> QED
    BY <1>1, <1>2, <2>1, <2>2
<1> QED
  BY <1>3, <1>4, <1>5 DEF UniqueOwner, Live

(* A step that moves, makes and destroys no session changes no owner.       *)
LEMMA SameOwners == UniqueOwner /\ UNCHANGED <<ptr, creator>> => UniqueOwner'
  BY DEF UniqueOwner, Live

(* Every step of a call or a worker keeps one owner per session.            *)
LEMMA OwnerStep == IInv /\ [Next]_vars => UniqueOwner'
<1> SUFFICES ASSUME IInv, [Next]_vars PROVE UniqueOwner'
  OBVIOUS
<1>0. TypeOK /\ UniqueOwner /\ \A c \in Callers : CallInv(c)
  BY DEF IInv, PcInv
<1>1. CASE UNCHANGED vars
  BY <1>0, <1>1, SameOwners DEF vars, sessionVars
<1>2. ASSUME NEW c \in Callers, CallBegins(c) PROVE UniqueOwner'
  <2>0. /\ G \in Slots /\ Old(c) \in Slots /\ Taken(c) \in Slots
        /\ G # Old(c) /\ G # Taken(c)
    BY SlotFacts
  <2>1. CASE NativeInit(c) \/ DisconnectRefused(c) \/ UseBegins(c)
    BY <1>0, <2>1, SameOwners DEF NativeInit, DisconnectRefused, UseBegins, sessionVars
  <2>2. ASSUME NEW t \in Targets, ConnectRefused(c, t) PROVE UniqueOwner'
    BY <1>0, <2>2, SameOwners DEF ConnectRefused, sessionVars
  <2>3. ASSUME NEW t \in Targets, ConnectBegins(c, t) PROVE UniqueOwner'
    <3>1. CASE UNCHANGED ptr
      BY <1>0, <2>3, <3>1, SameOwners DEF ConnectBegins, sessionVars
    <3>2. CASE Move(G, Old(c))
      <4>1. ptr[Old(c)] = None /\ UNCHANGED creator
        BY <1>0, <2>3 DEF CallInv, ConnectBegins, Locks, sessionVars
      <4> QED
        BY <1>0, <2>0, <3>2, <4>1, MoveKeepsOwners
    <3> QED
      BY <2>3, <3>1, <3>2 DEF ConnectBegins
  <2>4. CASE DisconnectTakes(c)
    <3>1. ptr[Taken(c)] = None /\ UNCHANGED creator /\ Move(G, Taken(c))
      BY <1>0, <2>4 DEF CallInv, DisconnectTakes, Locks, sessionVars
    <3> QED
      BY <1>0, <2>0, <3>1, MoveKeepsOwners
  <2> QED
    BY <1>2, <2>1, <2>2, <2>3, <2>4 DEF CallBegins
<1>3. ASSUME NEW c \in Callers, CallSteps(c) PROVE UniqueOwner'
  <2>0. /\ G \in Slots /\ Old(c) \in Slots /\ New(c) \in Slots /\ Taken(c) \in Slots
        /\ G # New(c) /\ G # Taken(c)
    BY SlotFacts
  <2>1. CASE StopOld(c) \/ StopDisplaced(c) \/ StopTaken(c)
    BY <1>0, <2>1, SameOwners DEF StopOld, StopDisplaced, StopTaken, RequestStop
  <2>2. CASE JoinOld(c) \/ StartFails(c) \/ Waits(c) \/ UseEnds(c)
    BY <1>0, <2>2, SameOwners DEF JoinOld, StartFails, Waits, UseEnds, sessionVars
  <2>3. ASSUME NEW s \in Sessions, CreateAndStart(c, s) PROVE UniqueOwner'
    <3>1. ptr[New(c)] = None
      BY <1>0, <2>3 DEF CallInv, CreateAndStart
    <3> QED
      BY <1>0, <2>3, <3>1, CreateKeepsOwners
  <2>4. CASE Publish(c)
    <3>1. ptr[New(c)] # None /\ ptr[Taken(c)] = None /\ UNCHANGED creator
      BY <1>0, <2>4 DEF CallInv, Publish, sessionVars
    <3>2. CASE ptr[G] = None
      <4>1. Move(New(c), G)
        BY <2>4, <3>2 DEF Publish
      <4> QED
        BY <1>0, <2>0, <3>1, <3>2, <4>1, MoveKeepsOwners
    <3>3. CASE ptr[G] # None
      <4>1. ptr' = [ptr EXCEPT ![Taken(c)] = ptr[G], ![G] = ptr[New(c)], ![New(c)] = None]
        BY <2>4, <3>3 DEF Publish
      <4> QED
        BY <1>0, <3>1, <3>3, <4>1, DisplaceKeepsOwners
    <3> QED
      BY <3>2, <3>3
  <2>5. CASE JoinDisplaced(c) \/ JoinTaken(c)
    <3>1. /\ ptr[Taken(c)] # None /\ Destroy(ptr[Taken(c)])
          /\ ptr' = [ptr EXCEPT ![Taken(c)] = None]
      BY <1>0, <2>5 DEF CallInv, JoinDisplaced, JoinTaken
    <3> QED
      BY <1>0, <2>0, <3>1, DestroyKeepsOwners
  <2>6. CASE Reap(c)
    <3>1. ptr[Taken(c)] = None /\ UNCHANGED creator
      BY <1>0, <2>6 DEF CallInv, Reap, sessionVars
    <3>2. CASE Move(G, Taken(c))
      BY <1>0, <2>0, <3>1, <3>2, MoveKeepsOwners
    <3>3. CASE UNCHANGED ptr
      BY <1>0, <3>1, <3>3, SameOwners
    <3> QED
      BY <2>6, <3>2, <3>3 DEF Reap
  <2>7. CASE Returns(c)
    <3>1. CASE ptr[Old(c)] = None
      BY <1>0, <2>7, <3>1, SameOwners DEF Returns, sessionVars
    <3>2. CASE ptr[Old(c)] # None
      <4>1. ptr' = [ptr EXCEPT ![Old(c)] = None] /\ Destroy(ptr[Old(c)])
        BY <2>7, <3>2 DEF Returns
      <4> QED
        BY <1>0, <2>0, <3>2, <4>1, DestroyKeepsOwners
    <3> QED
      BY <3>1, <3>2
  <2> QED
    BY <1>3, <2>1, <2>2, <2>3, <2>4, <2>5, <2>6, <2>7 DEF CallSteps
<1>4. ASSUME NEW s \in Sessions, WorkerSteps(s) \/ WorkerLosesConnection(s) PROVE UniqueOwner'
  <2>1. UNCHANGED <<ptr, creator>>
    BY <1>4 DEF WorkerSteps, WorkerLosesConnection, WorkerConnects, WorkerReportsOk,
                WorkerReportsFailure, WorkerStops, WorkerGoesOffline, WorkerExits, WorkerMoves
  <2> QED
    BY <1>0, <2>1, SameOwners
<1> QED
  BY <1>1, <1>2, <1>3, <1>4 DEF Next

-----------------------------------------------------------------------------
(* What a call owns at each of its steps, and who holds the mutex.           *)
LEMMA OtherSlots ==
    ASSUME NEW c \in Callers, NEW d \in Callers, c # d
    PROVE  /\ Old(d) \in Slots \ {G, Old(c), New(c), Taken(c)}
           /\ New(d) \in Slots \ {G, Old(c), New(c), Taken(c)}
           /\ Taken(d) \in Slots \ {G, Old(c), New(c), Taken(c)}
  BY SlotFacts

(* A step of caller c keeps what holds of the others if it touches no more   *)
(* than its own unique_ptrs and, with the mutex free, g_session and the mutex*)
LEMMA OthersKeep ==
    ASSUME PcInv, TypeOK, NEW c \in Callers, CallInv(c)',
           \A d \in Callers : d # c => pc'[d] = pc[d],
           \A z \in Slots \ {G, Old(c), New(c), Taken(c)} : ptr'[z] = ptr[z],
           \/ stateMutex \in {None, c} /\ stateMutex' \in {None, c}
           \/ stateMutex' = stateMutex,
           stateMutex = None \/ ptr'[G] = ptr[G]
    PROVE  PcInv'
<1> SUFFICES ASSUME NEW d \in Callers, d # c PROVE CallInv(d)'
  BY DEF PcInv
<1>1. ptr'[Old(d)] = ptr[Old(d)] /\ ptr'[New(d)] = ptr[New(d)] /\ ptr'[Taken(d)] = ptr[Taken(d)]
  BY OtherSlots
<1>2. CallInv(d) /\ pc'[d] = pc[d] /\ d # None
  BY NoneAssumption DEF PcInv
<1>3. stateMutex' = d <=> stateMutex = d
  BY <1>2
<1>4. pc[d] = "use" => ptr'[G] = ptr[G]
  BY <1>2 DEF CallInv
<1> QED
  BY <1>1, <1>2, <1>3, <1>4 DEF CallInv

(* Every call still owns, and holds, what its position says it does.        *)
LEMMA PcStep == IInv /\ [Next]_vars => PcInv'
<1> SUFFICES ASSUME IInv, [Next]_vars PROVE PcInv'
  OBVIOUS
<1>0. TypeOK /\ PcInv
  BY DEF IInv
<1>1. CASE UNCHANGED vars
  BY <1>0, <1>1 DEF vars, callerVars, PcInv, CallInv
<1> DEFINE OthersPc(c) == \A d \in Callers : d # c => pc'[d] = pc[d]
           Frame(c)    == \A z \in Slots \ {G, Old(c), New(c), Taken(c)} : ptr'[z] = ptr[z]
<1>2. ASSUME NEW c \in Callers, CallBegins(c) PROVE PcInv'
  <2>0. c # None /\ CallInv(c)
    BY <1>0, NoneAssumption DEF PcInv
  <2>1. CASE NativeInit(c) \/ DisconnectRefused(c)
    BY <1>0, <2>1 DEF NativeInit, DisconnectRefused, callerVars, PcInv, CallInv
  <2>2. ASSUME NEW t \in Targets, ConnectRefused(c, t) PROVE PcInv'
    BY <1>0, <2>2 DEF ConnectRefused, PcInv, CallInv
  <2>3. ASSUME NEW t \in Targets, ConnectBegins(c, t) PROVE PcInv'
    <3>1. pc[c] = "idle" /\ stateMutex = None /\ stateMutex' = None
      BY <2>3 DEF ConnectBegins, Locks
    <3>2. OthersPc(c)
      BY <1>0, <2>3 DEF TypeOK, ConnectBegins, Goto
    <3>3. CASE ptr[G] = None /\ Goto(c, "create") /\ UNCHANGED ptr
      <4>1. pc'[c] = "create"
        BY <1>0, <3>3 DEF TypeOK, Goto
      <4>2. CallInv(c)'
        BY <2>0, <3>1, <3>3, <4>1 DEF CallInv
      <4> QED
        BY <1>0, <3>1, <3>2, <3>3, <4>2, OthersKeep
    <3>4. CASE ptr[G] # None /\ Goto(c, "stopOld") /\ Move(G, Old(c))
      <4>1. pc'[c] = "stopOld"
        BY <1>0, <3>4 DEF TypeOK, Goto
      <4>2. ptr'[Old(c)] = ptr[G] /\ ptr'[New(c)] = ptr[New(c)] /\ ptr'[Taken(c)] = ptr[Taken(c)]
            /\ Frame(c)
        BY <1>0, <3>4, SlotFacts DEF TypeOK, Move
      <4>3. CallInv(c)'
        BY <2>0, <3>1, <3>4, <4>1, <4>2 DEF CallInv
      <4> QED
        BY <1>0, <3>1, <3>2, <4>2, <4>3, OthersKeep
    <3> QED
      BY <2>3, <3>3, <3>4 DEF ConnectBegins
  <2>4. CASE DisconnectTakes(c)
    <3>1. pc[c] = "idle" /\ stateMutex = None /\ stateMutex' = None /\ ptr[G] # None
      BY <2>4 DEF DisconnectTakes, Locks
    <3>2. pc'[c] = "stopTaken" /\ OthersPc(c)
      BY <1>0, <2>4 DEF TypeOK, DisconnectTakes, Goto
    <3>3. ptr'[Old(c)] = ptr[Old(c)] /\ ptr'[New(c)] = ptr[New(c)] /\ ptr'[Taken(c)] = ptr[G]
          /\ Frame(c)
      BY <1>0, <2>4, SlotFacts DEF TypeOK, Move, DisconnectTakes
    <3>4. CallInv(c)'
      BY <2>0, <3>1, <3>2, <3>3 DEF CallInv
    <3> QED
      BY <1>0, <3>1, <3>2, <3>3, <3>4, OthersKeep
  <2>5. CASE UseBegins(c)
    <3>1. pc[c] = "idle" /\ stateMutex = None /\ stateMutex' = c /\ ptr[G] # None /\ ptr' = ptr
      BY <2>5 DEF UseBegins, Locks
    <3>2. pc'[c] = "use" /\ OthersPc(c)
      BY <1>0, <2>5 DEF TypeOK, UseBegins, Goto
    <3>3. CallInv(c)'
      BY <2>0, <3>1, <3>2 DEF CallInv
    <3> QED
      BY <1>0, <3>1, <3>2, <3>3, OthersKeep
  <2> QED
    BY <1>2, <2>1, <2>2, <2>3, <2>4, <2>5 DEF CallBegins
<1>3. ASSUME NEW c \in Callers, CallSteps(c) PROVE PcInv'
  <2>0. c # None /\ CallInv(c)
    BY <1>0, NoneAssumption DEF PcInv
  <2>1. CASE StopOld(c) \/ StopDisplaced(c) \/ StopTaken(c) \/ JoinOld(c)
             \/ StartFails(c) \/ Waits(c)
    <3>1. ptr' = ptr /\ stateMutex' = stateMutex /\ OthersPc(c)
      BY <1>0, <2>1 DEF TypeOK, StopOld, StopDisplaced, StopTaken, JoinOld, StartFails, Waits, Goto
    <3>2. \/ pc[c] = "stopOld" /\ pc'[c] = "joinOld"
          \/ pc[c] = "stopDisplaced" /\ pc'[c] = "joinDisplaced"
          \/ pc[c] = "stopTaken" /\ pc'[c] = "joinTaken"
          \/ pc[c] \in {"joinOld", "create", "wait"} /\ pc'[c] \in {"create", "reap", "return"}
      BY <1>0, <2>1 DEF TypeOK, StopOld, StopDisplaced, StopTaken, JoinOld, StartFails, Waits, Goto
    <3>3. CallInv(c)'
      BY <2>0, <3>1, <3>2 DEF CallInv
    <3> QED
      BY <1>0, <3>1, <3>3, OthersKeep
  <2>2. CASE UseEnds(c)
    <3>1. pc[c] = "use" /\ stateMutex' = None /\ ptr' = ptr
      BY <2>2 DEF UseEnds
    <3>2. pc'[c] = "idle" /\ OthersPc(c)
      BY <1>0, <2>2 DEF TypeOK, UseEnds, Goto
    <3>3. CallInv(c)' /\ stateMutex = c
      BY <2>0, <3>1, <3>2 DEF CallInv
    <3> QED
      BY <1>0, <3>1, <3>2, <3>3, OthersKeep
  <2>3. ASSUME NEW s \in Sessions, CreateAndStart(c, s) PROVE PcInv'
    <3>1. pc[c] = "create" /\ stateMutex' = stateMutex
      BY <2>3 DEF CreateAndStart
    <3>2. pc'[c] = "publish" /\ OthersPc(c)
      BY <1>0, <2>3 DEF TypeOK, Goto, CreateAndStart
    <3>3. /\ ptr'[New(c)] # None /\ ptr'[Old(c)] = ptr[Old(c)] /\ ptr'[Taken(c)] = ptr[Taken(c)]
          /\ ptr'[G] = ptr[G] /\ Frame(c)
      BY <1>0, <2>3, SlotFacts, NoneAssumption DEF TypeOK, CreateAndStart
    <3>4. CallInv(c)'
      BY <2>0, <3>1, <3>2, <3>3 DEF CallInv
    <3> QED
      BY <1>0, <3>1, <3>2, <3>3, <3>4, OthersKeep
  <2>4. CASE Publish(c)
    <3>1. pc[c] = "publish" /\ stateMutex = None /\ ptr[New(c)] # None
      BY <2>0, <2>4 DEF Publish, CallInv
    <3>2. OthersPc(c)
      BY <1>0, <2>4 DEF TypeOK, Goto, Publish
    <3>3. CASE ptr[G] = None
      <4>1. pc'[c] = "wait" /\ stateMutex' = None
        BY <1>0, <2>4, <3>1, <3>3 DEF TypeOK, Goto, Publish
      <4>2. /\ ptr'[New(c)] = None /\ ptr'[Old(c)] = ptr[Old(c)]
            /\ ptr'[Taken(c)] = ptr[Taken(c)] /\ Frame(c)
        BY <1>0, <2>4, <3>3, SlotFacts DEF TypeOK, Move, Publish
      <4>3. CallInv(c)'
        BY <2>0, <3>1, <4>1, <4>2 DEF CallInv
      <4> QED
        BY <1>0, <3>1, <3>2, <4>1, <4>2, <4>3, OthersKeep
    <3>4. CASE ptr[G] # None
      <4>1. pc'[c] = "stopDisplaced" /\ stateMutex' = c
        BY <1>0, <2>4, <3>4 DEF TypeOK, Goto, Publish
      <4>2. ptr' = [ptr EXCEPT ![Taken(c)] = ptr[G], ![G] = ptr[New(c)], ![New(c)] = None]
        BY <2>4, <3>4 DEF Publish
      <4>3. DOMAIN ptr = Slots
        BY <1>0 DEF TypeOK
      <4>4. /\ G \in Slots /\ New(c) \in Slots /\ Taken(c) \in Slots /\ Old(c) \in Slots
            /\ G # New(c) /\ G # Taken(c) /\ New(c) # Taken(c)
            /\ Old(c) # G /\ Old(c) # New(c) /\ Old(c) # Taken(c)
        BY SlotFacts
      <4>5. /\ ptr'[New(c)] = None /\ ptr'[Taken(c)] = ptr[G] /\ ptr'[Old(c)] = ptr[Old(c)]
            /\ Frame(c)
        BY <4>2, <4>3, <4>4, Zenon
      <4>6. CallInv(c)'
        BY <2>0, <3>1, <3>4, <4>1, <4>5 DEF CallInv
      <4> QED
        BY <1>0, <3>1, <3>2, <4>1, <4>5, <4>6, OthersKeep
    <3> QED
      BY <3>3, <3>4
  <2>5. CASE JoinDisplaced(c) \/ JoinTaken(c)
    <3>1. /\ pc'[c] \in {"wait", "return"} /\ OthersPc(c)
          /\ \/ pc[c] = "joinDisplaced" /\ stateMutex' = None
             \/ pc[c] = "joinTaken" /\ stateMutex' = stateMutex
      BY <1>0, <2>5 DEF TypeOK, JoinDisplaced, JoinTaken, Goto
    <3>2. /\ ptr'[Taken(c)] = None /\ ptr'[Old(c)] = ptr[Old(c)] /\ ptr'[New(c)] = ptr[New(c)]
          /\ ptr'[G] = ptr[G] /\ Frame(c)
      BY <1>0, <2>5, SlotFacts DEF TypeOK, JoinDisplaced, JoinTaken
    <3>3. CallInv(c)' /\ (stateMutex' = None => stateMutex \in {None, c})
      BY <2>0, <3>1, <3>2 DEF CallInv
    <3> QED
      BY <1>0, <3>1, <3>2, <3>3, OthersKeep
  <2>6. CASE Reap(c)
    <3>1. pc[c] = "reap" /\ stateMutex = None /\ stateMutex' = None
      BY <2>6 DEF Reap
    <3>2. OthersPc(c)
      BY <1>0, <2>6 DEF TypeOK, Goto, Reap
    <3>3. CASE ptr[G] = pending[c]
      <4>1. ptr[G] # None
        BY <1>0, <3>1, <3>3 DEF TypeOK
      <4>2. pc'[c] = "stopTaken"
        BY <1>0, <2>6, <3>3 DEF TypeOK, Goto, Reap
      <4>3. /\ ptr'[Taken(c)] = ptr[G] /\ ptr'[Old(c)] = ptr[Old(c)] /\ ptr'[New(c)] = ptr[New(c)]
            /\ Frame(c)
        BY <1>0, <2>6, <3>3, SlotFacts DEF TypeOK, Move, Reap
      <4>4. CallInv(c)'
        BY <2>0, <3>1, <4>1, <4>2, <4>3 DEF CallInv
      <4> QED
        BY <1>0, <3>1, <3>2, <4>3, <4>4, OthersKeep
    <3>4. CASE ptr[G] # pending[c]
      <4>1. pc'[c] = "return" /\ ptr' = ptr
        BY <1>0, <2>6, <3>4 DEF TypeOK, Goto, Reap
      <4>2. CallInv(c)'
        BY <2>0, <3>1, <4>1 DEF CallInv
      <4> QED
        BY <1>0, <3>1, <3>2, <4>1, <4>2, OthersKeep
    <3> QED
      BY <3>3, <3>4
  <2>7. CASE Returns(c)
    <3>1. pc[c] = "return" /\ stateMutex' = stateMutex
      BY <2>7 DEF Returns
    <3>2. pc'[c] = "idle" /\ OthersPc(c)
      BY <1>0, <2>7 DEF TypeOK, Goto, Returns
    <3>3. /\ ptr'[Old(c)] = None /\ ptr'[New(c)] = ptr[New(c)] /\ ptr'[Taken(c)] = ptr[Taken(c)]
          /\ ptr'[G] = ptr[G] /\ Frame(c)
      BY <1>0, <2>7, SlotFacts DEF TypeOK, Returns
    <3>4. CallInv(c)'
      BY <2>0, <3>1, <3>2, <3>3 DEF CallInv
    <3> QED
      BY <1>0, <3>1, <3>2, <3>3, <3>4, OthersKeep
  <2> QED
    BY <1>3, <2>1, <2>2, <2>3, <2>4, <2>5, <2>6, <2>7 DEF CallSteps
<1>4. ASSUME NEW s \in Sessions, WorkerSteps(s) \/ WorkerLosesConnection(s) PROVE PcInv'
  <2>1. UNCHANGED <<ptr, pc, stateMutex>>
    BY <1>4 DEF WorkerSteps, WorkerLosesConnection, WorkerConnects, WorkerReportsOk,
                WorkerReportsFailure, WorkerStops, WorkerGoesOffline, WorkerExits, WorkerMoves, callerVars
  <2> QED
    BY <1>0, <2>1 DEF PcInv, CallInv
<1> QED
  BY <1>1, <1>2, <1>3, <1>4 DEF Next

-----------------------------------------------------------------------------
(* A session asked to stop is still one that a call has taken.               *)
LEMMA StopStep == IInv /\ [Next]_vars => StopInv'
<1> SUFFICES ASSUME IInv, [Next]_vars PROVE StopInv'
  OBVIOUS
<1>0. /\ TypeOK /\ UniqueOwner /\ StopInv
      /\ \A c \in Callers : CallInv(c)
  BY DEF IInv, PcInv
<1>a. ASSUME UNCHANGED <<ptr, creator, stopRequested>> PROVE StopInv'
  BY <1>0, <1>a DEF StopInv, PublishedIsNotStopping, Live
<1>b. ASSUME NEW c \in Callers, NEW x \in {Old(c), Taken(c)}, ptr[x] # None,
             RequestStop(ptr[x]), UNCHANGED ptr
      PROVE  StopInv'
  <2>1. x \in Slots /\ x # G /\ \A d \in Callers : x # New(d)
    BY <1>b, SlotFacts
  <2>2. ptr[x] \in Sessions /\ creator[ptr[x]] # None
    BY <1>0, <1>b, <2>1 DEF TypeOK, UniqueOwner, Live
  <2>3. \A u \in Sessions : u # ptr[x] => stopRequested'[u] = stopRequested[u]
    BY <1>0, <1>b DEF TypeOK, RequestStop
  <2>4. \A y \in Slots : ptr[y] # None /\ y # x => ptr[y] # ptr[x] /\ ptr[y] \in Sessions
    BY <1>0, <2>1 DEF TypeOK, UniqueOwner
  <2>5. UNCHANGED creator
    BY <1>b DEF RequestStop
  <2>6. ptr[G] # None => ~stopRequested'[ptr[G]]
    BY <1>0, <2>1, <2>3, <2>4, SlotFacts DEF StopInv, PublishedIsNotStopping
  <2>7. \A d \in Callers : ptr[New(d)] # None => ~stopRequested'[ptr[New(d)]]
    BY <1>0, <2>1, <2>3, <2>4, SlotFacts DEF StopInv
  <2>8. \A u \in Sessions : creator[u] = None => ~stopRequested'[u]
    BY <1>0, <2>2, <2>3 DEF StopInv, Live
  <2> QED
    BY <1>b, <2>5, <2>6, <2>7, <2>8 DEF StopInv, PublishedIsNotStopping, Live
<1>c. ASSUME NEW x \in Slots, ptr[x] # None, Destroy(ptr[x]), ptr' = [ptr EXCEPT ![x] = None]
      PROVE  StopInv'
  <2>1. \A y \in Slots : ptr'[y] = IF y = x THEN None ELSE ptr[y]
    BY <1>0, <1>c DEF TypeOK
  <2>2. \A u \in Sessions : stopRequested'[u] => u # ptr[x] /\ stopRequested[u]
    BY <1>0, <1>c DEF TypeOK, Destroy
  <2>3. \A u \in Sessions : creator'[u] = IF u = ptr[x] THEN None ELSE creator[u]
    BY <1>0, <1>c DEF TypeOK, Destroy
  <2>4. \A y \in Slots : ptr[y] # None => ptr[y] \in Sessions
    BY <1>0 DEF TypeOK
  <2>5. ptr'[G] # None => ~stopRequested'[ptr'[G]]
    BY <1>0, <2>1, <2>2, <2>4, SlotFacts DEF StopInv, PublishedIsNotStopping
  <2>6. \A d \in Callers : ptr'[New(d)] # None => ~stopRequested'[ptr'[New(d)]]
    BY <1>0, <2>1, <2>2, <2>4, SlotFacts DEF StopInv
  <2>7. \A u \in Sessions : creator'[u] = None => ~stopRequested'[u]
    BY <1>0, <2>2, <2>3 DEF StopInv, Live
  <2> QED
    BY <2>5, <2>6, <2>7 DEF StopInv, PublishedIsNotStopping, Live
(* A move within the unique_ptrs: what ends in g_session or a newSession was *)
(* in one of them before.                                                    *)
<1>d. ASSUME UNCHANGED <<creator, stopRequested>>,
             \/ ptr'[G] = None
             \/ ptr'[G] = ptr[G]
             \/ \E c \in Callers : ptr'[G] = ptr[New(c)],
             \A d \in Callers : ptr'[New(d)] # None => ptr'[New(d)] = ptr[New(d)]
      PROVE  StopInv'
  BY <1>0, <1>d DEF StopInv, PublishedIsNotStopping, Live
<1>1. CASE UNCHANGED vars
  BY <1>a, <1>1 DEF vars, sessionVars
<1>2. ASSUME NEW c \in Callers, CallBegins(c) PROVE StopInv'
  <2>0. /\ G \in Slots /\ Old(c) \in Slots /\ Taken(c) \in Slots
        /\ G # Old(c) /\ G # Taken(c)
        /\ \A d \in Callers : New(d) \in Slots /\ New(d) # G /\ New(d) # Old(c) /\ New(d) # Taken(c)
    BY SlotFacts
  <2>1. CASE NativeInit(c) \/ DisconnectRefused(c) \/ UseBegins(c)
    BY <1>a, <2>1 DEF NativeInit, DisconnectRefused, UseBegins, sessionVars
  <2>2. ASSUME NEW t \in Targets, ConnectRefused(c, t) PROVE StopInv'
    BY <1>a, <2>2 DEF ConnectRefused, sessionVars
  <2>3. ASSUME NEW t \in Targets, ConnectBegins(c, t) PROVE StopInv'
    <3>1. UNCHANGED <<creator, stopRequested>> /\ (UNCHANGED ptr \/ Move(G, Old(c)))
      BY <2>3 DEF ConnectBegins, sessionVars
    <3> QED
      BY <1>0, <1>a, <1>d, <2>0, <3>1 DEF TypeOK, Move
  <2>4. CASE DisconnectTakes(c)
    <3>1. UNCHANGED <<creator, stopRequested>> /\ Move(G, Taken(c))
      BY <2>4 DEF DisconnectTakes, sessionVars
    <3> QED
      BY <1>0, <1>d, <2>0, <3>1 DEF TypeOK, Move
  <2> QED
    BY <1>2, <2>1, <2>2, <2>3, <2>4 DEF CallBegins
<1>3. ASSUME NEW c \in Callers, CallSteps(c) PROVE StopInv'
  <2>0. /\ G \in Slots /\ Old(c) \in Slots /\ Taken(c) \in Slots /\ New(c) \in Slots
        /\ G # Old(c) /\ G # Taken(c) /\ G # New(c) /\ New(c) # Taken(c)
        /\ \A d \in Callers : New(d) \in Slots /\ New(d) # G /\ New(d) # Old(c) /\ New(d) # Taken(c)
    BY SlotFacts
  <2>1. CASE StopOld(c)
    <3>1. ptr[Old(c)] # None /\ RequestStop(ptr[Old(c)]) /\ UNCHANGED ptr
      BY <1>0, <2>1 DEF CallInv, StopOld
    <3> QED
      BY <1>b, <3>1
  <2>2. CASE StopDisplaced(c) \/ StopTaken(c)
    <3>1. ptr[Taken(c)] # None /\ RequestStop(ptr[Taken(c)]) /\ UNCHANGED ptr
      BY <1>0, <2>2 DEF CallInv, StopDisplaced, StopTaken
    <3> QED
      BY <1>b, <3>1
  <2>3. CASE JoinOld(c) \/ StartFails(c) \/ Waits(c) \/ UseEnds(c)
    BY <1>a, <2>3 DEF JoinOld, StartFails, Waits, UseEnds, sessionVars
  <2>4. ASSUME NEW s \in Sessions, CreateAndStart(c, s) PROVE StopInv'
    <3>1. \A y \in Slots : ptr'[y] = IF y = New(c) THEN s ELSE ptr[y]
      BY <1>0, <2>4 DEF TypeOK, CreateAndStart
    <3>2. creator[s] = None /\ stopRequested' = stopRequested
      BY <2>4 DEF CreateAndStart, Live
    <3>3. \A u \in Sessions : creator'[u] = None => creator[u] = None
      BY <1>0, <2>4, <3>2 DEF TypeOK, CreateAndStart
    <3> QED
      BY <1>0, <2>0, <3>1, <3>2, <3>3 DEF StopInv, PublishedIsNotStopping, Live
  <2>5. CASE Publish(c)
    <3>1. UNCHANGED <<creator, stopRequested>>
      BY <2>5 DEF Publish, sessionVars
    <3>2. CASE ptr[G] = None
      <4>1. Move(New(c), G)
        BY <2>5, <3>2 DEF Publish
      <4>2. ptr'[G] = ptr[New(c)]
            /\ \A d \in Callers : ptr'[New(d)] # None => ptr'[New(d)] = ptr[New(d)]
        BY <1>0, <2>0, <4>1 DEF TypeOK, Move
      <4> QED
        BY <1>d, <3>1, <4>2
    <3>3. CASE ptr[G] # None
      <4>1. ptr' = [ptr EXCEPT ![Taken(c)] = ptr[G], ![G] = ptr[New(c)], ![New(c)] = None]
        BY <2>5, <3>3 DEF Publish
      <4>2. DOMAIN ptr = Slots
        BY <1>0 DEF TypeOK
      <4>3. ptr'[G] = ptr[New(c)]
            /\ \A d \in Callers : ptr'[New(d)] # None => ptr'[New(d)] = ptr[New(d)]
        BY <2>0, <4>1, <4>2, Zenon
      <4> QED
        BY <1>d, <3>1, <4>3
    <3> QED
      BY <3>2, <3>3
  <2>6. CASE JoinDisplaced(c) \/ JoinTaken(c)
    <3>1. /\ ptr[Taken(c)] # None /\ Destroy(ptr[Taken(c)])
          /\ ptr' = [ptr EXCEPT ![Taken(c)] = None]
      BY <1>0, <2>6 DEF CallInv, JoinDisplaced, JoinTaken
    <3> QED
      BY <1>c, <2>0, <3>1
  <2>7. CASE Reap(c)
    <3>1. UNCHANGED <<creator, stopRequested>> /\ (UNCHANGED ptr \/ Move(G, Taken(c)))
      BY <2>7 DEF Reap, sessionVars
    <3> QED
      BY <1>0, <1>a, <1>d, <2>0, <3>1 DEF TypeOK, Move
  <2>8. CASE Returns(c)
    <3>1. CASE ptr[Old(c)] = None
      BY <1>a, <2>8, <3>1 DEF Returns, sessionVars
    <3>2. CASE ptr[Old(c)] # None
      <4>1. ptr' = [ptr EXCEPT ![Old(c)] = None] /\ Destroy(ptr[Old(c)])
        BY <2>8, <3>2 DEF Returns
      <4> QED
        BY <1>c, <2>0, <3>2, <4>1
    <3> QED
      BY <3>1, <3>2
  <2> QED
    BY <1>3, <2>1, <2>2, <2>3, <2>4, <2>5, <2>6, <2>7, <2>8 DEF CallSteps
<1>4. ASSUME NEW s \in Sessions, WorkerSteps(s) \/ WorkerLosesConnection(s) PROVE StopInv'
  <2>1. UNCHANGED <<ptr, creator, stopRequested>>
    BY <1>4 DEF WorkerSteps, WorkerLosesConnection, WorkerConnects, WorkerReportsOk,
                WorkerReportsFailure, WorkerStops, WorkerGoesOffline, WorkerExits, WorkerMoves
  <2> QED
    BY <1>a, <2>1
<1> QED
  BY <1>1, <1>2, <1>3, <1>4 DEF Next

-----------------------------------------------------------------------------
(* Which sessions still have a thread.                                       *)
ThreadInv == JoinedInv /\ NoThreadOnFreedSession

(* A worker that was joined stays ended, and no other session is freed.     *)
LEMMA ThreadStep == IInv /\ [Next]_vars => ThreadInv'
<1> SUFFICES ASSUME IInv, [Next]_vars PROVE ThreadInv'
  OBVIOUS
<1>0. /\ TypeOK /\ UniqueOwner /\ JoinedInv /\ NoThreadOnFreedSession
      /\ \A c \in Callers : CallInv(c)
  BY DEF IInv, PcInv
<1> USE DEF ThreadInv, JoinedInv, NoThreadOnFreedSession, Live
<1>1. CASE UNCHANGED vars
  BY <1>0, <1>1 DEF vars, callerVars, sessionVars
(* Steps that move a call on without touching a session. What it leaves in   *)
(* oldSession is an old one, or is still to be joined.                       *)
<1>a. ASSUME NEW c \in Callers, UNCHANGED <<creator, worker>>,
             \A d \in Callers : d # c => pc'[d] = pc[d] /\ ptr'[Old(d)] = ptr[Old(d)],
             \/ pc'[c] \in {"stopOld", "joinOld"}
             \/ ptr'[Old(c)] = ptr[Old(c)] /\ pc[c] \notin {"stopOld", "joinOld"}
             \/ ptr'[Old(c)] = ptr[Old(c)] /\ worker[ptr[Old(c)]] = "exited"
      PROVE  ThreadInv'
  BY <1>0, <1>a
(* A session is destroyed after its worker ended.                            *)
<1>b. ASSUME NEW c \in Callers, NEW x \in Slots, ptr[x] # None, worker[ptr[x]] = "exited",
             Destroy(ptr[x]),
             \A d \in Callers : d # c => pc'[d] = pc[d] /\ ptr'[Old(d)] = ptr[Old(d)],
             ptr'[Old(c)] = None \/ ptr'[Old(c)] = ptr[Old(c)],
             pc[c] \notin {"stopOld", "joinOld"}
      PROVE  ThreadInv'
  <2>1. UNCHANGED worker
    BY <1>b DEF Destroy
  <2>2. \A u \in Sessions : creator'[u] = None => creator[u] = None \/ u = ptr[x]
    BY <1>0, <1>b DEF TypeOK, Destroy
  <2> QED
    BY <1>0, <1>b, <2>1, <2>2
<1>2. ASSUME NEW c \in Callers, CallBegins(c) PROVE ThreadInv'
  <2>0. /\ G \in Slots /\ Old(c) \in Slots /\ Taken(c) \in Slots /\ Old(c) # Taken(c) /\ Old(c) # G
        /\ \A d \in Callers : Old(d) \in Slots /\ Old(d) # G /\ Old(d) # Taken(c)
        /\ \A d \in Callers : d # c => Old(d) # Old(c)
    BY SlotFacts
  <2>1. CASE NativeInit(c) \/ DisconnectRefused(c)
    BY <1>0, <2>1 DEF NativeInit, DisconnectRefused, callerVars, sessionVars
  <2>2. ASSUME NEW t \in Targets, ConnectRefused(c, t) PROVE ThreadInv'
    BY <1>0, <2>2 DEF ConnectRefused, sessionVars
  <2>3. ASSUME NEW t \in Targets, ConnectBegins(c, t) PROVE ThreadInv'
    <3>1. UNCHANGED <<creator, worker>> /\ pc[c] = "idle"
      BY <2>3 DEF ConnectBegins, Locks, sessionVars
    <3>2. \A d \in Callers : d # c => pc'[d] = pc[d]
      BY <1>0, <2>3 DEF TypeOK, ConnectBegins, Goto
    <3>3. \/ UNCHANGED ptr
          \/ Move(G, Old(c)) /\ pc'[c] = "stopOld"
      BY <1>0, <2>3 DEF TypeOK, ConnectBegins, Goto
    <3>4. CASE UNCHANGED ptr
      BY <1>a, <3>1, <3>2, <3>4
    <3>5. CASE Move(G, Old(c)) /\ pc'[c] = "stopOld"
      <4>1. \A d \in Callers : d # c => ptr'[Old(d)] = ptr[Old(d)]
        BY <1>0, <2>0, <3>5 DEF TypeOK, Move
      <4> QED
        BY <1>a, <3>1, <3>2, <3>5, <4>1
    <3> QED
      BY <3>3, <3>4, <3>5
  <2>4. CASE DisconnectTakes(c)
    <3>1. UNCHANGED <<creator, worker>> /\ pc[c] = "idle"
          /\ \A d \in Callers : d # c => pc'[d] = pc[d]
      BY <1>0, <2>4 DEF TypeOK, DisconnectTakes, Locks, Goto, sessionVars
    <3>2. \A d \in Callers : ptr'[Old(d)] = ptr[Old(d)]
      BY <1>0, <2>0, <2>4 DEF TypeOK, DisconnectTakes, Move
    <3> QED
      BY <1>a, <3>1, <3>2
  <2>5. CASE UseBegins(c)
    <3>1. UNCHANGED <<creator, worker, ptr>> /\ pc[c] = "idle"
          /\ \A d \in Callers : d # c => pc'[d] = pc[d]
      BY <1>0, <2>5 DEF TypeOK, UseBegins, Locks, Goto, sessionVars
    <3> QED
      BY <1>a, <3>1
  <2> QED
    BY <1>2, <2>1, <2>2, <2>3, <2>4, <2>5 DEF CallBegins
<1>3. ASSUME NEW c \in Callers, CallSteps(c) PROVE ThreadInv'
  <2>0. /\ Old(c) \in Slots /\ Taken(c) \in Slots /\ New(c) \in Slots /\ G \in Slots
        /\ \A d \in Callers : Old(d) \in Slots /\ Old(d) # G /\ Old(d) # Taken(c) /\ Old(d) # New(c)
        /\ \A d \in Callers : d # c => Old(d) # Old(c)
    BY SlotFacts
  <2>1. CASE StopOld(c) \/ StopDisplaced(c) \/ StopTaken(c) \/ StartFails(c) \/ Waits(c) \/ UseEnds(c)
    <3>1. UNCHANGED <<creator, worker, ptr>> /\ \A d \in Callers : d # c => pc'[d] = pc[d]
      BY <1>0, <2>1 DEF TypeOK, StopOld, StopDisplaced, StopTaken, StartFails, Waits, UseEnds,
                        RequestStop, Goto, sessionVars
    <3>2. pc'[c] = "joinOld" \/ pc[c] \notin {"stopOld", "joinOld"}
      BY <1>0, <2>1 DEF TypeOK, StopOld, StopDisplaced, StopTaken, StartFails, Waits, UseEnds, Goto
    <3> QED
      BY <1>a, <3>1, <3>2
  <2>2. CASE JoinOld(c)
    <3>1. UNCHANGED <<creator, worker, ptr>> /\ worker[ptr[Old(c)]] = "exited"
          /\ \A d \in Callers : d # c => pc'[d] = pc[d]
      BY <1>0, <2>2 DEF TypeOK, JoinOld, Joined, Goto, sessionVars
    <3> QED
      BY <1>a, <3>1
  <2>3. ASSUME NEW s \in Sessions, CreateAndStart(c, s) PROVE ThreadInv'
    <3>1. /\ pc[c] = "create" /\ creator[s] = None
          /\ \A d \in Callers : pc'[d] \in {"stopOld", "joinOld"} <=> pc[d] \in {"stopOld", "joinOld"}
      BY <1>0, <2>3 DEF TypeOK, CreateAndStart, Goto
    <3>2. \A d \in Callers : ptr'[Old(d)] = ptr[Old(d)]
      BY <1>0, <2>0, <2>3 DEF TypeOK, CreateAndStart
    <3>3. \A d \in Callers : ptr[Old(d)] # None => ptr[Old(d)] \in Sessions /\ ptr[Old(d)] # s
      BY <1>0, <2>0, <3>1 DEF TypeOK, UniqueOwner
    <3>4. \A u \in Sessions : u # s => worker'[u] = worker[u] /\ creator'[u] = creator[u]
      BY <1>0, <2>3 DEF TypeOK, CreateAndStart
    <3>5. creator'[s] # None
      BY <1>0, <2>3, NoneAssumption DEF TypeOK, CreateAndStart
    <3>6. JoinedInv'
      BY <1>0, <3>1, <3>2, <3>3, <3>4
    <3>7. NoThreadOnFreedSession'
      BY <1>0, <3>4, <3>5
    <3> QED
      BY <3>6, <3>7
  <2>4. CASE Publish(c)
    <3>1. UNCHANGED <<creator, worker>> /\ pc[c] = "publish"
          /\ \A d \in Callers : d # c => pc'[d] = pc[d]
      BY <1>0, <2>4 DEF TypeOK, Publish, Goto, sessionVars
    <3>2. \/ Move(New(c), G)
          \/ ptr' = [ptr EXCEPT ![Taken(c)] = ptr[G], ![G] = ptr[New(c)], ![New(c)] = None]
      BY <2>4 DEF Publish
    <3>3. DOMAIN ptr = Slots
      BY <1>0 DEF TypeOK
    <3>4. \A d \in Callers : ptr'[Old(d)] = ptr[Old(d)]
      BY <2>0, <3>2, <3>3, Zenon DEF Move
    <3> QED
      BY <1>a, <3>1, <3>4
  <2>5. CASE JoinDisplaced(c) \/ JoinTaken(c)
    <3>1. /\ ptr[Taken(c)] # None /\ Destroy(ptr[Taken(c)]) /\ worker[ptr[Taken(c)]] = "exited"
          /\ pc[c] \notin {"stopOld", "joinOld"} /\ \A d \in Callers : d # c => pc'[d] = pc[d]
      BY <1>0, <2>5 DEF TypeOK, CallInv, JoinDisplaced, JoinTaken, Joined, Goto
    <3>2. \A d \in Callers : ptr'[Old(d)] = ptr[Old(d)]
      BY <1>0, <2>0, <2>5 DEF TypeOK, JoinDisplaced, JoinTaken
    <3> QED
      BY <1>b, <2>0, <3>1, <3>2
  <2>6. CASE Reap(c)
    <3>1. UNCHANGED <<creator, worker>> /\ pc[c] = "reap"
          /\ \A d \in Callers : d # c => pc'[d] = pc[d]
      BY <1>0, <2>6 DEF TypeOK, Reap, Goto, sessionVars
    <3>2. \A d \in Callers : ptr'[Old(d)] = ptr[Old(d)]
      BY <1>0, <2>0, <2>6 DEF TypeOK, Reap, Move
    <3> QED
      BY <1>a, <3>1, <3>2
  <2>7. CASE Returns(c)
    <3>1. pc[c] = "return" /\ \A d \in Callers : d # c => pc'[d] = pc[d]
      BY <1>0, <2>7 DEF TypeOK, Returns, Goto
    <3>2. CASE ptr[Old(c)] = None
      BY <1>a, <2>7, <3>1, <3>2 DEF Returns, sessionVars
    <3>3. CASE ptr[Old(c)] # None
      <4>1. /\ worker[ptr[Old(c)]] = "exited" /\ Destroy(ptr[Old(c)])
            /\ ptr' = [ptr EXCEPT ![Old(c)] = None]
        BY <1>0, <2>7, <3>1, <3>3 DEF Returns
      <4>2. ptr'[Old(c)] = None /\ \A d \in Callers : d # c => ptr'[Old(d)] = ptr[Old(d)]
        BY <1>0, <2>0, <4>1 DEF TypeOK
      <4> QED
        BY <1>b, <2>0, <3>1, <3>3, <4>1, <4>2
    <3> QED
      BY <3>2, <3>3
  <2> QED
    BY <1>3, <2>1, <2>2, <2>3, <2>4, <2>5, <2>6, <2>7 DEF CallSteps
<1>4. ASSUME NEW s \in Sessions, WorkerSteps(s) \/ WorkerLosesConnection(s) PROVE ThreadInv'
  <2>1. /\ UNCHANGED <<ptr, pc, creator>> /\ worker[s] # "exited"
        /\ \A u \in Sessions : u # s => worker'[u] = worker[u]
    BY <1>0, <1>4 DEF TypeOK, WorkerSteps, WorkerLosesConnection, WorkerConnects, WorkerReportsOk,
                WorkerReportsFailure, WorkerStops, WorkerGoesOffline, WorkerExits, WorkerMoves, callerVars
  <2>2. \A d \in Callers : ptr[Old(d)] # None => ptr[Old(d)] \in Sessions
    BY <1>0, SlotFacts DEF TypeOK
  <2> QED
    BY <1>0, <2>1, <2>2
<1> QED
  BY <1>1, <1>2, <1>3, <1>4 DEF Next

-----------------------------------------------------------------------------
(* The conjunction holds at the start.                                       *)
LEMMA IInvInitially == Init => IInv
<1>1. Init => TypeOK
  BY NoneAssumption DEF Init, TypeOK, Pcs, WorkerPcs, Slots
<1>2. Init => UniqueOwner /\ NoThreadOnFreedSession /\ JoinedInv
  BY SlotFacts DEF Init, UniqueOwner, Live, NoThreadOnFreedSession, JoinedInv
<1>3. Init => PcInv
  BY SlotFacts, NoneAssumption DEF Init, PcInv, CallInv
<1>4. Init => StopInv
  BY SlotFacts DEF Init, StopInv, PublishedIsNotStopping
<1> QED
  BY <1>1, <1>2, <1>3, <1>4 DEF IInv

(* Every step keeps it.                                                      *)
LEMMA IInvStep == IInv /\ [Next]_vars => IInv'
  BY TypeStep, OwnerStep, PcStep, StopStep, ThreadStep DEF IInv, ThreadInv

(* The conjunction is inductive.                                             *)
LEMMA Invariance == Spec => []IInv
  BY IInvInitially, IInvStep, PTL DEF Spec

(* No unique_ptr dangles, no session is owned twice, none is leaked.         *)
THEOREM UniqueOwnerAlways == Spec => []UniqueOwner
<1>1. IInv => UniqueOwner
  BY DEF IInv
<1> QED
  BY <1>1, Invariance, PTL

(* A freed session's worker is over.                                         *)
THEOREM NoThreadOnFreedSessionAlways == Spec => []NoThreadOnFreedSession
<1>1. IInv => NoThreadOnFreedSession
  BY DEF IInv
<1> QED
  BY <1>1, Invariance, PTL

(* The session the other calls find in g_session is not being torn down.     *)
THEOREM PublishedIsNotStoppingAlways == Spec => []PublishedIsNotStopping
<1>1. IInv => PublishedIsNotStopping
  BY DEF IInv, StopInv
<1> QED
  BY <1>1, Invariance, PTL

(* Between calls only g_session's worker runs.                               *)
THEOREM QuiescentSingleAlways == Spec => []QuiescentSingle
<1>1. IInv => QuiescentSingle
  <2> SUFFICES ASSUME IInv, \A c \in Callers : pc[c] = "idle",
                      NEW s \in Sessions, Live(s) \/ worker[s] # "exited"
               PROVE  ptr[G] = s
    BY DEF QuiescentSingle
  <2>1. Live(s)
    BY DEF IInv, NoThreadOnFreedSession
  <2>2. PICK x \in Slots : ptr[x] = s
    BY <2>1 DEF IInv, UniqueOwner
  <2>3. \A c \in Callers : ptr[Old(c)] = None /\ ptr[New(c)] = None /\ ptr[Taken(c)] = None
    BY DEF IInv, PcInv, CallInv
  <2> QED
    BY <2>2, <2>3, SlotFacts, NoneAssumption
<1> QED
  BY <1>1, Invariance, PTL

(* A short call has the mutex to itself and its session stays where it is.   *)
THEOREM UseIsProtectedAlways == Spec => UseIsProtected
<1> DEFINE Protected == \A c \in Callers : pc[c] = "use" =>
              /\ stateMutex = c /\ ptr[G] # None /\ Live(ptr[G])
              /\ ptr'[G] = ptr[G] /\ Live(ptr[G])'
<1>1. IInv /\ IInv' /\ [Next]_vars => [Protected]_vars
  <2> SUFFICES ASSUME IInv, IInv', Next, NEW c \in Callers, pc[c] = "use"
               PROVE  /\ stateMutex = c /\ ptr[G] # None /\ Live(ptr[G])
                      /\ ptr'[G] = ptr[G] /\ Live(ptr[G])'
    OBVIOUS
  <2>1. stateMutex = c /\ ptr[G] # None /\ Live(ptr[G]) /\ stateMutex # None
    BY SlotFacts, NoneAssumption DEF IInv, PcInv, CallInv, UniqueOwner
  <2>2. ptr'[G] = ptr[G]
    <3>1. ASSUME NEW d \in Callers, CallBegins(d) PROVE ptr'[G] = ptr[G]
      BY <2>1, <3>1 DEF CallBegins, NativeInit, ConnectRefused, ConnectBegins, DisconnectRefused,
                        DisconnectTakes, UseBegins, Locks
    <3>2. ASSUME NEW d \in Callers, CallSteps(d) PROVE ptr'[G] = ptr[G]
      <4>1. CASE \E s \in Sessions : CreateAndStart(d, s)
        BY <4>1, SlotFacts DEF IInv, TypeOK, CreateAndStart
      <4>2. CASE JoinDisplaced(d) \/ JoinTaken(d) \/ Returns(d)
        BY <4>2, SlotFacts DEF IInv, TypeOK, JoinDisplaced, JoinTaken, Returns
      <4>3. CASE \/ StopOld(d) \/ JoinOld(d) \/ StartFails(d) \/ StopDisplaced(d)
                 \/ Waits(d) \/ StopTaken(d) \/ UseEnds(d)
        BY <4>3 DEF StopOld, JoinOld, StartFails, StopDisplaced, Waits, StopTaken, UseEnds
      <4>4. ~Publish(d) /\ ~Reap(d)
        BY <2>1 DEF Publish, Reap
      <4> QED
        BY <3>2, <4>1, <4>2, <4>3, <4>4 DEF CallSteps
    <3>3. ASSUME NEW s \in Sessions, WorkerSteps(s) \/ WorkerLosesConnection(s)
          PROVE  ptr'[G] = ptr[G]
      BY <3>3 DEF WorkerSteps, WorkerLosesConnection, WorkerConnects, WorkerReportsOk,
                  WorkerReportsFailure, WorkerStops, WorkerGoesOffline, WorkerExits, WorkerMoves
    <3> QED
      BY <3>1, <3>2, <3>3 DEF Next
  <2>3. Live(ptr[G])'
    BY <2>1, <2>2, SlotFacts DEF IInv, UniqueOwner
  <2> QED
    BY <2>1, <2>2, <2>3
<1> QED
  BY <1>1, Invariance, PTL DEF Spec, UseIsProtected
=============================================================================
