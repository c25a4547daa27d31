-------------------------- MODULE RdpSessionProofs --------------------------
(***************************************************************************)
(* The safety properties of RdpSession, for any number of certificate      *)
(* questions. Each of the properties says what holds at some steps of      *)
(* run(); what makes them inductive is what every other step has set up    *)
(* for them: which fields of the certificate mean something while the      *)
(* worker waits, where in run() there is an instance, a connection, a      *)
(* result, a loss, and where there can be no frame: IInv below.            *)
(***************************************************************************)
EXTENDS RdpSession, TLAPS

Waiting   == {"push", "check", "unsatisfied", "asleep"}
Unmade    == {"boot", "leave"}                        \* no instance yet
Dialing   == {"boot", "context", "dial", "dialed"} \cup Waiting
Connected == {"loop", "disconnect", "announce"}
Frameless == {"boot", "context", "leave", "freeContext", "freeInstance", "forget", "done"}

(* The certificate fields belong to the last request while the worker waits, *)
(* and what they say was submitted for it; later requests have no decision.  *)
CertificateInv ==
    /\ certificate.waiting <=> at \in Waiting
    /\ certificate.waiting =>
          asked > 0 /\ certificate.id = Id /\ trust = "unasked"
    /\ certificate.waiting /\ certificate.accepted => submitted[Id] = "accept"
    /\ submitted[Id] = "reject" => certificate.rejectedByUser
    /\ \A i \in Ids : i > Id => submitted[i] = "none"
    /\ submitted[StaleId] = "none"

InstanceInv ==
    /\ at \in Unmade \cup {"done"} => instance = "null"
    /\ at \in Waiting \cup {"dial", "dialed", "up"} \cup Connected => instance = "ready"
    /\ at = "offline" /\ connected => instance = "ready"
    /\ at = "forget" => instance = "freed"

ConnectionInv ==
    /\ at \in {"up"} \cup Connected => connected
    /\ connected => at \in {"up", "offline"} \cup Connected
    /\ at \in Frameless => frame = "none"

ReportInv ==
    /\ at \in Dialing \cup {"up"} <=> report = None
    /\ connected => report \in {None, RC_OK}
    /\ at \in {"boot", "context"} => asked = 0

LossInv ==
    /\ at \in Dialing \cup {"up", "loop", "leave"} => lossCode = None
    /\ (\E e \in told : e.type = "SESSION_DISCONNECTED") => at \in Closed

IInv ==
    /\ TypeOK
    /\ CertificateInv /\ InstanceInv /\ ConnectionInv /\ ReportInv /\ LossInv
    /\ TrustNeedsAcceptance /\ PromptReachesApp /\ RejectIsReported /\ LossIsAnnounced

-----------------------------------------------------------------------------
(* The codes are numbers, so None is none of them, and the table only yields *)
(* RC_OK for the error that means success.                                   *)
LEMMA CodeFacts ==
    /\ \A e \in LastErrors : mapFreeRdpError(e) \in ConnectFailureCodes
    /\ \A e \in LastErrors \ {"SUCCESS"} : mapFreeRdpError(e) # RC_OK
    /\ {RC_OK, RC_NOT_CONNECTED, RC_NETWORK_FAILURE, RC_CERTIFICATE_REJECTED,
        RC_BACKEND_UNAVAILABLE, RC_INVALID_ARGUMENT} \subseteq ConnectFailureCodes
    /\ None \notin ConnectFailureCodes
    /\ RC_OK # RC_NOT_CONNECTED
<1> USE DEF LastErrors, RC_OK, RC_NOT_CONNECTED, RC_NETWORK_FAILURE, RC_AUTH_FAILURE,
            RC_TLS_FAILURE, RC_CERTIFICATE_REJECTED, RC_BACKEND_UNAVAILABLE,
            RC_INVALID_ARGUMENT, RC_INTERNAL_ERROR
<1>1. \A e \in LastErrors : mapFreeRdpError(e) \in ConnectFailureCodes
  BY DEF ConnectFailureCodes
<1>2. \A e \in LastErrors \ {"SUCCESS"} : mapFreeRdpError(e) # 0
  BY DEF mapFreeRdpError
<1>3. \A e \in LastErrors : mapFreeRdpError(e) \in Int
  BY DEF mapFreeRdpError
<1>4. /\ mapFreeRdpError("SUCCESS") = RC_OK
      /\ mapFreeRdpError("REMOTE_CLOSED") = RC_NOT_CONNECTED
      /\ mapFreeRdpError("NETWORK") = RC_NETWORK_FAILURE
  BY DEF mapFreeRdpError
<1>5. {RC_OK, RC_NOT_CONNECTED, RC_NETWORK_FAILURE} \subseteq ConnectFailureCodes
  BY <1>1, <1>4
<1>6. ConnectFailureCodes \subseteq Int
  BY <1>3 DEF ConnectFailureCodes
<1> QED
  BY <1>1, <1>2, <1>5, <1>6, NoneAssumption DEF ConnectFailureCodes

(* What a step appends to the queue is queued then, with what was before, and*)
(* a poll takes off the head only.                                           *)
LEMMA AppendQueues ==
    ASSUME events \in Seq(Events), NEW e \in Events, events' = Append(events, e)
    PROVE  /\ events' \in Seq(Events)
           /\ \A f : Queued(f)' <=> Queued(f) \/ f = e
           /\ Len(events') = Len(events) + 1 /\ events'[Len(events')] = e
           /\ \A i \in DOMAIN events : i \in DOMAIN events' /\ events'[i] = events[i]
           /\ \A i \in DOMAIN events' : i \in DOMAIN events \/ i = Len(events')
  BY DEF Queued

(* A poll takes the head and leaves the rest as it was.                      *)
LEMMA PollTakesHead ==
    ASSUME events \in Seq(Events), events # <<>>, events' = Tail(events)
    PROVE  /\ events' \in Seq(Events)
           /\ Head(events) \in Events /\ Head(events) = events[1]
           /\ Len(events') = Len(events) - 1
           /\ \A i \in DOMAIN events' : i + 1 \in DOMAIN events /\ events'[i] = events[i + 1]
           /\ \A f : Queued(f) => f = Head(events) \/ Queued(f)'
<1>1. /\ events' \in Seq(Events)
      /\ Head(events) \in Events /\ Head(events) = events[1]
      /\ Len(events') = Len(events) - 1
      /\ \A i \in DOMAIN events' : i + 1 \in DOMAIN events /\ events'[i] = events[i + 1]
  OBVIOUS
<1>2. ASSUME NEW f, Queued(f) PROVE f = Head(events) \/ Queued(f)'
  <2>1. PICK i \in DOMAIN events : events[i] = f
    BY <1>2 DEF Queued
  <2>2. CASE i = 1
    BY <2>1, <2>2, <1>1
  <2>3. CASE i # 1
    <3>1. i - 1 \in DOMAIN events' /\ events'[i - 1] = f
      BY <2>1, <2>3, <1>1
    <3> QED
      BY <3>1 DEF Queued
  <2> QED
    BY <2>2, <2>3
<1> QED
  BY <1>1, <1>2

(* Prompts and losses are events.                                            *)
LEMMA EventFacts ==
    /\ \A i \in Ids : Prompt(i) \in Events
    /\ \A c \in ConnectFailureCodes : Disconnected(c) \in Events
    /\ \A i : Prompt(i).type # "SESSION_DISCONNECTED"
    /\ \A c : Disconnected(c).type = "SESSION_DISCONNECTED" /\ Disconnected(c).code = c
  BY DEF Events, Prompt, Disconnected

-----------------------------------------------------------------------------
(* A new session satisfies IInv.                                             *)
LEMMA InitInv == Init => IInv
<1> SUFFICES ASSUME Init PROVE IInv
  OBVIOUS
<1> USE DEF Init
<1>1. TypeOK
  <2>1. StaleId \in Ids /\ <<>> \in Seq(Events)
    BY MaxPromptsAssumption DEF StaleId, Ids
  <2>2. told \subseteq Events
    BY <2>1, EventFacts
  <2>3. certificate \in [waiting : BOOLEAN, ready : BOOLEAN, accepted : BOOLEAN,
                         rejectedByUser : BOOLEAN, id : {0} \cup Ids]
    BY DEF NoRequest
  <2>4. rdpOnly \in BOOLEAN /\ connected \in BOOLEAN
    BY Zenon
  <2>5. asked \in 0 .. MaxPrompts
    BY MaxPromptsAssumption
  <2>6. /\ at \in Ats /\ report \in ConnectFailureCodes \cup {None}
        /\ lossCode \in ConnectFailureCodes \cup {None}
        /\ submitted \in [Ids -> {"none", "accept", "reject"}]
    BY DEF Ats
  <2> QED
    BY <2>1, <2>2, <2>3, <2>4, <2>5, <2>6 DEF TypeOK
<1>2. CertificateInv /\ RejectIsReported /\ TrustNeedsAcceptance
  BY MaxPromptsAssumption
  DEF CertificateInv, RejectIsReported, TrustNeedsAcceptance, NoRequest, Id, Ids, StaleId,
      Waiting
<1>3. InstanceInv /\ ConnectionInv /\ ReportInv /\ PromptReachesApp
  BY DEF InstanceInv, ConnectionInv, ReportInv, Unmade, Dialing, Connected, Waiting,
         PromptReachesApp
<1>4. LossInv /\ LossIsAnnounced
  <2>1. \A e \in told : e.type # "SESSION_DISCONNECTED"
    BY EventFacts
  <2>2. DOMAIN events = {}
    OBVIOUS
  <2> QED
    BY <2>1, <2>2 DEF LossInv, LossIsAnnounced, Closed, Dialing, Waiting
<1> QED
  BY <1>1, <1>2, <1>3, <1>4 DEF IInv

-----------------------------------------------------------------------------
(* Types                                                                     *)
LEMMA TypeStep == TypeOK /\ CertificateInv /\ [Next]_vars => TypeOK'
<1> SUFFICES ASSUME TypeOK, CertificateInv, [Next]_vars PROVE TypeOK'
  OBVIOUS
<1>0. StaleId \in Ids /\ (\A i \in Ids : i \in Nat)
  BY MaxPromptsAssumption DEF StaleId, Ids
<1> DEFINE Certificates == [waiting : BOOLEAN, ready : BOOLEAN, accepted : BOOLEAN,
                            rejectedByUser : BOOLEAN, id : {0} \cup Ids]
<1>1. CASE UNCHANGED vars
  BY <1>1 DEF TypeOK, vars, workerVars, appVars
<1>2. CASE \/ NewInstance \/ NoInstance \/ Leaves \/ ContextReady \/ ContextFails
  BY <1>2, CodeFacts
  DEF TypeOK, Ats, workerVars, appVars, At, Fails, NewInstance, NoInstance, Leaves,
      ContextReady, ContextFails
<1>3. CASE AsksForDecision
  <2>1. Id' \in Ids /\ asked' \in 0 .. MaxPrompts
    BY <1>3, MaxPromptsAssumption DEF TypeOK, AsksForDecision, Id, Ids
  <2>2. certificate' \in Certificates
    BY <1>3, <2>1 DEF AsksForDecision, NoRequest
  <2>3. at' \in Ats
    BY <1>3 DEF AsksForDecision, At, Ats
  <2> QED
    BY <1>3, <2>1, <2>2, <2>3 DEF TypeOK, AsksForDecision, appVars
<1>4. CASE PushesPrompt
  <2>1. Id \in Ids
    BY MaxPromptsAssumption DEF TypeOK, Id, Ids
  <2>2. events' \in Seq(Events)
    BY <1>4, <2>1, EventFacts, AppendQueues DEF TypeOK, PushesPrompt
  <2> QED
    BY <1>4, <2>2 DEF TypeOK, Ats, PushesPrompt, At, workerVars, appVars
<1>5. CASE ChecksDecision \/ WaitTimesOut
  <2>1. \A rejected \in BOOLEAN : NoRequest(rejected) \in Certificates
    BY DEF NoRequest
  <2>2. ASSUME Decides PROVE certificate' \in Certificates
    BY <2>1, <2>2, Zenon DEF Decides
  <2>3. certificate' \in Certificates
    BY <1>5, <2>2 DEF TypeOK, ChecksDecision, WaitTimesOut
  <2> QED
    BY <1>5, <2>3
    DEF TypeOK, Ats, ChecksDecision, WaitTimesOut, Decides, workerVars, appVars
<1>5a. CASE GoesToSleep \/ PostConnects \/ ClearsFrame
  <2>1. frame' \in {"none", "blank", "painted"} /\ at' \in Ats
    BY <1>5a
    DEF TypeOK, Ats, GoesToSleep, PostConnects, ClearsFrame, At,
        applyDesktopSizeFromSettings
  <2> QED
    BY <1>5a, <2>1
    DEF TypeOK, GoesToSleep, PostConnects, ClearsFrame, workerVars, appVars
<1>6. CASE DialSucceeds \/ RetriesRdpOnly \/ ReportsOk \/ Paints \/ LoopStops
  <2>1. rdpOnly' \in BOOLEAN /\ connected' \in BOOLEAN
    BY <1>6
    DEF TypeOK, DialSucceeds, RetriesRdpOnly, ReportsOk, Paints, LoopStops, workerVars
  <2>2. frame' \in {"none", "blank", "painted"} /\ at' \in Ats
    BY <1>6
    DEF TypeOK, Ats, DialSucceeds, RetriesRdpOnly, ReportsOk, Paints, LoopStops, At,
        applyDesktopSizeFromSettings, captureFrame
  <2> QED
    BY <1>6, <2>1, <2>2, CodeFacts
    DEF TypeOK, DialSucceeds, RetriesRdpOnly, ReportsOk, Paints, LoopStops,
        workerVars, appVars
<1>7. CASE ConnectFails
  BY <1>7, CodeFacts DEF TypeOK, Ats, ConnectFails, At, Fails, workerVars, appVars
<1>8. CASE LoopFails \/ Disconnects
  BY <1>8, CodeFacts DEF TypeOK, Ats, LoopFails, Disconnects, At, appVars
<1>9. CASE Announces
  <2>1. events' \in Seq(Events)
    <3>1. ASSUME lossCode # None PROVE EventCodes \subseteq ConnectFailureCodes
      BY <3>1, CodeFacts DEF TypeOK, EventCodes
    <3> QED
      BY <1>9, <3>1, EventFacts, AppendQueues DEF TypeOK, Announces
  <2> QED
    BY <1>9, <2>1 DEF TypeOK, Ats, Announces, At, workerVars, appVars
<1>10. CASE GoesOffline \/ FreesInstance
  <2>1. connected' \in BOOLEAN
    BY <1>10 DEF TypeOK, GoesOffline, FreesInstance, Frees
  <2> QED
    BY <1>10, <2>1
    DEF TypeOK, Ats, GoesOffline, FreesInstance, Frees, At, workerVars, appVars
<1>11. CASE Poll
  BY <1>11, PollTakesHead DEF TypeOK, Poll, workerVars
<1>12. ASSUME NEW i \in Ids, NEW d \in {"accept", "reject"}, Submit(i, d) PROVE TypeOK'
  <2>1. certificate' \in Certificates
    BY <1>12 DEF TypeOK, Submit
  <2> QED
    BY <1>12, <2>1 DEF TypeOK, Submit, workerVars
<1>13. CASE SubmitNotifies \/ InputBegins \/ InputChecks \/ InputEnds
  <2>1. api' \in {"free", "notify", "inputCheck", "input"}
    BY <1>13 DEF SubmitNotifies, InputBegins, InputChecks, InputEnds
  <2>2. at' \in Ats
    BY <1>13 DEF TypeOK, Ats, SubmitNotifies, NotifyAll, InputBegins, InputChecks, InputEnds
  <2> QED
    BY <1>13, <2>1, <2>2
    DEF TypeOK, SubmitNotifies, InputBegins, InputChecks, InputEnds, workerVars
<1>14. CASE StopBegins \/ StopGoesOn
  <2>1. certificate' \in Certificates
    BY <1>14
    DEF TypeOK, StopBegins, StopGoesOn, StopRefuses, StopNotifies, StopChecksInstance,
        StopAborts, StopJoins
  <2>2. at' \in Ats
    BY <1>14
    DEF TypeOK, Ats, StopBegins, StopGoesOn, StopRefuses, StopNotifies, StopChecksInstance,
        StopAborts, StopJoins, NotifyAll
  <2>3. stopper' \in {"none", "certificate", "notify", "abortCheck", "abort", "join", "joined"}
    BY <1>14
    DEF StopBegins, StopGoesOn, StopRefuses, StopNotifies, StopChecksInstance, StopAborts,
        StopJoins, StopMoves
  <2> QED
    BY <1>14, <2>1, <2>2, <2>3
    DEF TypeOK, StopBegins, StopGoesOn, StopRefuses, StopNotifies, StopChecksInstance,
        StopAborts, StopJoins, workerVars
<1>15. CASE Destroyed
  BY <1>15 DEF Destroyed, TypeOK, vars, workerVars, appVars
<1> QED
  BY <1>1, <1>2, <1>3, <1>4, <1>5, <1>6, <1>7, <1>8, <1>9, <1>10, <1>11, <1>12, <1>13,
     <1>14, <1>15, <1>5a
  DEF Next, WorkerRuns, DialReturns, NetworkActs, ApiSteps, ApiGoesOn

-----------------------------------------------------------------------------
(* Every step but the ones of the certificate protocol leaves its fields, the*)
(* decisions and the number of questions alone.                              *)
Protocol ==
    AsksForDecision \/ PushesPrompt \/ ChecksDecision \/ GoesToSleep \/ WaitTimesOut
Answers  == (\E i \in Ids, d \in {"accept", "reject"} : Submit(i, d)) \/ StopRefuses

(* A wake-up keeps the worker in its wait.                                   *)
Wakes == \/ at' = at
         \/ at = "asleep" /\ at' = "check"

(* A step is one of the protocol, an answer, or leaves the request and the   *)
(* worker's place in or out of the wait as they were.                        *)
LEMMA OtherSteps ==
    ASSUME [Next]_vars
    PROVE  \/ Protocol
           \/ Answers /\ UNCHANGED <<at, workerVars, events, connected, report, frame, told>>
           \/ /\ UNCHANGED <<certificate, asked, submitted>>
              /\ \/ Wakes /\ UNCHANGED <<workerVars, connected, report>>
                 \/ at \notin Waiting /\ at' \notin Waiting
              /\ trust' = trust \/ trust' = "unasked"
<1>1. CASE UNCHANGED vars
  BY <1>1 DEF vars, workerVars, appVars, Wakes
<1>2. CASE WorkerRuns \/ DialReturns
  <2>1. CASE PushesPrompt \/ ChecksDecision \/ GoesToSleep
    BY <2>1 DEF Protocol
  <2>2. CASE NewInstance \/ NoInstance \/ Leaves \/ ContextReady \/ ContextFails
    BY <2>2
    DEF Waiting, NewInstance, NoInstance, Leaves, ContextReady, ContextFails, At, Fails,
        workerVars, appVars
  <2>3. CASE DialReturns
    BY <2>3
    DEF Waiting, DialReturns, PostConnects, DialSucceeds, RetriesRdpOnly, Attempting,
        ConnectFails, At, Fails, workerVars, appVars
  <2>4. CASE ReportsOk \/ LoopStops \/ Disconnects
    BY <2>4 DEF Waiting, ReportsOk, LoopStops, Disconnects, At, workerVars, appVars
  <2>5. CASE Announces \/ GoesOffline \/ ClearsFrame \/ FreesInstance
    BY <2>5
    DEF Waiting, Announces, GoesOffline, ClearsFrame, FreesInstance, Frees, At, workerVars,
        appVars
  <2> QED
    BY <1>2, <2>1, <2>2, <2>3, <2>4, <2>5 DEF WorkerRuns
<1>3. CASE NetworkActs
  BY <1>3
  DEF Protocol, NetworkActs, Waiting, Wakes, Paints, LoopFails, At, workerVars, appVars
<1>4. CASE ApiSteps
  <2>1. CASE \E i \in Ids, d \in {"accept", "reject"} : Submit(i, d)
    BY <2>1 DEF Answers, Submit
  <2>2. CASE Poll \/ InputBegins \/ ApiGoesOn
    BY <2>2
    DEF Poll, InputBegins, ApiGoesOn, SubmitNotifies, NotifyAll, InputChecks, InputEnds,
        Wakes, workerVars
  <2> QED
    BY <1>4, <2>1, <2>2 DEF ApiSteps
<1>5. CASE StopBegins \/ StopGoesOn
  BY <1>5
  DEF Answers, StopBegins, StopGoesOn, StopRefuses, StopNotifies, NotifyAll,
      StopChecksInstance, StopAborts, StopJoins, Wakes, workerVars
<1>6. CASE Destroyed
  BY <1>6 DEF Destroyed, vars, workerVars, appVars, Wakes
<1> QED
  BY <1>1, <1>2, <1>3, <1>4, <1>5, <1>6 DEF Next

-----------------------------------------------------------------------------
(* The certificate protocol: the fields, what was submitted, and the verdict *)
LEMMA CertificateStep ==
    TypeOK /\ CertificateInv /\ TrustNeedsAcceptance /\ ReportInv /\ [Next]_vars
        => CertificateInv' /\ TrustNeedsAcceptance'
<1> SUFFICES ASSUME TypeOK, CertificateInv, TrustNeedsAcceptance, ReportInv, [Next]_vars
             PROVE  CertificateInv' /\ TrustNeedsAcceptance'
  OBVIOUS
<1>0. /\ asked \in 0 .. MaxPrompts /\ Id \in Ids /\ StaleId \in Ids
      /\ \A i \in Ids : i \in Nat
  BY MaxPromptsAssumption DEF TypeOK, Id, Ids, StaleId
<1>1. CASE AsksForDecision
  <2>1. /\ at' = "push" /\ asked' = asked + 1 /\ Id' = Id + 1 /\ Id' \in Ids
        /\ trust' = "unasked" /\ UNCHANGED submitted
    BY <1>0, <1>1, MaxPromptsAssumption DEF AsksForDecision, At, Id, Ids, appVars
  <2>2. /\ certificate'.waiting = TRUE /\ certificate'.accepted = FALSE
        /\ certificate'.id = Id'
    BY <1>1 DEF AsksForDecision, NoRequest
  <2>3. submitted'[Id'] = "none"
    BY <1>0, <2>1 DEF CertificateInv, Id
  <2>4. \A i \in Ids : i > Id' => submitted'[i] = "none"
    BY <1>0, <2>1 DEF CertificateInv
  <2> QED
    BY <1>0, <2>1, <2>2, <2>3, <2>4
    DEF CertificateInv, TrustNeedsAcceptance, Waiting
<1>2. CASE PushesPrompt \/ GoesToSleep
  BY <1>2
  DEF PushesPrompt, GoesToSleep, At, Waiting, Id, CertificateInv, TrustNeedsAcceptance,
      workerVars, appVars
<1>3. ASSUME at \in {"check", "asleep"}, Decides
      PROVE  CertificateInv' /\ TrustNeedsAcceptance'
  <2>1. PICK rejected \in BOOLEAN :
           /\ certificate' = NoRequest(rejected)
           /\ certificate.rejectedByUser => rejected
    BY <1>3, Zenon DEF Decides
  <2>2. /\ certificate'.waiting = FALSE
        /\ certificate.rejectedByUser => certificate'.rejectedByUser
    BY <2>1 DEF NoRequest
  <2>3. trust' = "trusted" => certificate.accepted
    BY <1>3 DEF Decides
  <2>4. trust' = "trusted" => submitted[Id] = "accept"
    BY <1>3, <2>3 DEF CertificateInv, Waiting
  <2>5. /\ at' = "dial" /\ UNCHANGED <<asked, submitted>> /\ Id' = Id
    BY <1>3 DEF Decides, Id, appVars
  <2> QED
    BY <2>2, <2>4, <2>5 DEF CertificateInv, TrustNeedsAcceptance, Waiting
<1>4. CASE ChecksDecision \/ WaitTimesOut
  <2>1. CASE Decides
    BY <1>3, <1>4, <2>1 DEF ChecksDecision, WaitTimesOut
  <2>2. CASE ~Decides
    BY <1>4, <2>2
    DEF ChecksDecision, WaitTimesOut, CertificateInv, TrustNeedsAcceptance, Waiting, Id,
        workerVars, appVars
  <2> QED
    BY <2>1, <2>2
<1>5. ASSUME NEW i \in Ids, NEW d \in {"accept", "reject"}, Submit(i, d)
      PROVE  CertificateInv' /\ TrustNeedsAcceptance'
  <2>1. i = Id /\ asked > 0 /\ certificate.waiting /\ at \in Waiting /\ trust = "unasked"
    BY <1>5 DEF Submit, CertificateInv
  <2>2. UNCHANGED <<at, asked, trust>> /\ Id' = Id
    BY <1>5 DEF Submit, Id, workerVars
  <2>3. /\ certificate'.waiting = certificate.waiting /\ certificate'.id = certificate.id
        /\ certificate'.accepted <=> d = "accept"
        /\ d = "reject" => certificate'.rejectedByUser
    BY <1>5 DEF Submit, TypeOK
  <2>4. submitted' = [submitted EXCEPT ![Id] = d] /\ submitted'[Id] = d
    BY <1>0, <1>5, <2>1 DEF Submit, TypeOK
  <2>5. \A j \in Ids : j # Id => submitted'[j] = submitted[j]
    BY <1>0, <2>4 DEF TypeOK
  <2>6. Id # StaleId /\ (\A j \in Ids : j > Id => j # Id)
    BY <1>0, <2>1 DEF Id, StaleId
  <2>7. submitted'[StaleId] = "none" /\ \A j \in Ids : j > Id => submitted'[j] = "none"
    BY <1>0, <2>5, <2>6 DEF CertificateInv
  <2> QED
    BY <1>0, <2>1, <2>2, <2>3, <2>4, <2>7 DEF CertificateInv, TrustNeedsAcceptance
<1>6. CASE StopRefuses
  <2>1. /\ certificate'.waiting = certificate.waiting /\ certificate'.id = certificate.id
        /\ certificate'.accepted => certificate.accepted
        /\ certificate'.rejectedByUser = certificate.rejectedByUser
    BY <1>6 DEF StopRefuses, TypeOK
  <2>2. UNCHANGED <<at, asked, trust, submitted>> /\ Id' = Id
    BY <1>6 DEF StopRefuses, Id, workerVars
  <2> QED
    BY <2>1, <2>2 DEF CertificateInv, TrustNeedsAcceptance
<1>7. ASSUME UNCHANGED <<certificate, asked, submitted>>,
             trust' = trust \/ trust' = "unasked",
             (Wakes /\ UNCHANGED workerVars) \/ (at \notin Waiting /\ at' \notin Waiting)
      PROVE  CertificateInv' /\ TrustNeedsAcceptance'
  <2>1. Id' = Id
    BY <1>7 DEF Id
  <2>2. at \in Waiting <=> at' \in Waiting
    BY <1>7 DEF Wakes, Waiting
  <2> QED
    BY <1>7, <2>1, <2>2 DEF CertificateInv, TrustNeedsAcceptance
<1> QED
  BY <1>1, <1>2, <1>4, <1>5, <1>6, <1>7, OtherSteps DEF Protocol, Answers

-----------------------------------------------------------------------------
(* Where in run() there is an instance, a connection, a frame and a result.  *)
LEMMA FlowStep ==
    TypeOK /\ CertificateInv /\ InstanceInv /\ ConnectionInv /\ ReportInv /\ [Next]_vars
        => InstanceInv' /\ ConnectionInv' /\ ReportInv'
<1> SUFFICES ASSUME TypeOK, CertificateInv, InstanceInv, ConnectionInv, ReportInv, [Next]_vars
             PROVE  InstanceInv' /\ ConnectionInv' /\ ReportInv'
  OBVIOUS
<1> USE DEF InstanceInv, ConnectionInv, ReportInv, Unmade, Dialing, Connected, Waiting,
            Frameless
<1>1. CASE /\ at' = at \/ (at \in Waiting /\ at' \in Waiting)
           /\ UNCHANGED <<asked, instance, connected, report>>
           /\ at \in Frameless => frame' = frame
  BY <1>1
<1>2. CASE NewInstance \/ NoInstance \/ Leaves \/ ContextReady \/ ContextFails
  <2>1. UNCHANGED <<connected, frame, asked>>
    BY <1>2 DEF NewInstance, NoInstance, Leaves, ContextReady, ContextFails, workerVars
  <2> QED
    BY <1>2, <2>1, CodeFacts
    DEF NewInstance, NoInstance, Leaves, ContextReady, ContextFails, At, Fails, workerVars
<1>3. CASE AsksForDecision \/ PushesPrompt \/ GoesToSleep
  BY <1>3 DEF AsksForDecision, PushesPrompt, GoesToSleep, At, workerVars
<1>4. CASE ChecksDecision \/ WaitTimesOut
  BY <1>4 DEF ChecksDecision, WaitTimesOut, Decides, workerVars
<1>5. CASE PostConnects \/ DialSucceeds
  BY <1>5 DEF PostConnects, DialSucceeds, At, workerVars
<1>6. CASE RetriesRdpOnly \/ ConnectFails
  <2>1. UNCHANGED <<connected, frame, asked, instance>>
    BY <1>6 DEF RetriesRdpOnly, ConnectFails, workerVars
  <2>2. /\ at \in {"dial", "dialed"}
        /\ \/ at' = "dial" /\ report' = report
           \/ at' = "offline" /\ report' # None
    BY <1>6, CodeFacts DEF RetriesRdpOnly, Attempting, ConnectFails, At, Fails
  <2> QED
    BY <2>1, <2>2
<1>7. CASE ReportsOk \/ LoopStops \/ LoopFails
  <2>1. UNCHANGED <<connected, frame, asked, instance>>
    BY <1>7 DEF ReportsOk, LoopStops, LoopFails, workerVars
  <2> QED
    BY <1>7, <2>1, CodeFacts DEF ReportsOk, LoopStops, LoopFails, At
<1>8. CASE Disconnects \/ Announces
  <2>1. UNCHANGED <<connected, frame, asked, instance, report>>
    BY <1>8 DEF Disconnects, Announces, workerVars
  <2> QED
    BY <1>8, <2>1 DEF Disconnects, Announces, At
<1>9. CASE GoesOffline \/ ClearsFrame
  BY <1>9 DEF GoesOffline, ClearsFrame, At, workerVars
<1>10. CASE FreesInstance
  <2>1. UNCHANGED <<connected, frame, asked, report>>
    BY <1>10 DEF FreesInstance, Frees
  <2> QED
    BY <1>10, <2>1 DEF FreesInstance, Frees, At
<1>11. CASE Paints
  BY <1>1, <1>11 DEF Paints, captureFrame, applyDesktopSizeFromSettings, workerVars
<1>12. CASE ApiSteps
  BY <1>1, <1>12
  DEF ApiSteps, Poll, InputBegins, ApiGoesOn, SubmitNotifies, NotifyAll, InputChecks,
      InputEnds, Submit, workerVars
<1>13. CASE StopBegins \/ StopGoesOn \/ Destroyed
  BY <1>1, <1>13
  DEF StopBegins, StopGoesOn, StopRefuses, StopNotifies, NotifyAll, StopChecksInstance,
      StopAborts, StopJoins, Destroyed, vars, workerVars
<1>14. CASE UNCHANGED vars
  BY <1>1, <1>14 DEF vars, workerVars
<1> QED
  BY <1>2, <1>3, <1>4, <1>5, <1>6, <1>7, <1>8, <1>9, <1>10, <1>11, <1>12, <1>13, <1>14
  DEF Next, WorkerRuns, DialReturns, NetworkActs

-----------------------------------------------------------------------------
(* A result that is no success is set before any question was asked, or by a *)
(* failed connect, which looks at rejectedByUser; a decision is only taken   *)
(* before there is a result.                                                 *)
LEMMA ResultIsSet ==
    ASSUME [Next]_vars
    PROVE  \/ report' = report
           \/ at \in {"boot", "context"} /\ UNCHANGED <<asked, submitted>>
           \/ /\ UNCHANGED <<asked, submitted>>
              /\ certificate.rejectedByUser =>
                     report' \in {RC_CERTIFICATE_REJECTED, RC_INVALID_ARGUMENT}
           \/ report' = RC_OK
<1>1. CASE UNCHANGED vars
  BY <1>1 DEF vars
<1>2. CASE WorkerRuns
  BY <1>2
  DEF WorkerRuns, NewInstance, NoInstance, Leaves, ContextReady, ContextFails, PushesPrompt,
      ChecksDecision, GoesToSleep, Decides, ReportsOk, LoopStops, Disconnects, Announces,
      GoesOffline, ClearsFrame, FreesInstance, Frees, Fails, At, workerVars, appVars
<1>3. CASE DialReturns
  BY <1>3
  DEF DialReturns, PostConnects, DialSucceeds, RetriesRdpOnly, ConnectFails, Fails, workerVars, appVars
<1>4. CASE NetworkActs
  BY <1>4 DEF NetworkActs, AsksForDecision, WaitTimesOut, Decides, Paints, LoopFails
<1>5. CASE ApiSteps \/ StopBegins \/ StopGoesOn \/ Destroyed
  BY <1>5
  DEF ApiSteps, Poll, InputBegins, ApiGoesOn, SubmitNotifies, InputChecks, InputEnds, Submit,
      StopBegins, StopGoesOn, StopRefuses, StopNotifies, StopChecksInstance, StopAborts,
      StopJoins, Destroyed, vars
<1> QED
  BY <1>1, <1>2, <1>3, <1>4, <1>5 DEF Next

(* A refusal that has been taken shows in whatever failure is reported.      *)
LEMMA RejectStep ==
    TypeOK /\ CertificateInv /\ ReportInv /\ RejectIsReported /\ [Next]_vars
        => RejectIsReported'
<1> SUFFICES ASSUME TypeOK, CertificateInv, ReportInv, RejectIsReported, [Next]_vars,
                    submitted'[Id'] = "reject", report' # None, report' # RC_OK
             PROVE  report' \in {RC_CERTIFICATE_REJECTED, RC_INVALID_ARGUMENT}
  BY DEF RejectIsReported
<1>1. CASE report' = report
  <2>1. at \notin Dialing
    BY <1>1 DEF ReportInv
  <2>2. UNCHANGED <<asked, submitted>>
    <3>1. ~Protocol
      BY <2>1
      DEF Protocol, AsksForDecision, PushesPrompt, ChecksDecision, GoesToSleep, WaitTimesOut,
          At, Dialing, Waiting
    <3>2. ~\E i \in Ids, d \in {"accept", "reject"} : Submit(i, d)
      BY <2>1 DEF CertificateInv, Submit, Dialing
    <3>3. CASE StopRefuses
      BY <3>3 DEF StopRefuses, workerVars
    <3> QED
      BY <3>1, <3>2, <3>3, OtherSteps DEF Answers
  <2> QED
    BY <1>1, <2>2 DEF RejectIsReported, Id
<1>2. CASE at \in {"boot", "context"} /\ UNCHANGED <<asked, submitted>>
  <2>1. Id' = StaleId
    BY <1>2 DEF ReportInv, Id, StaleId
  <2> QED
    BY <1>2, <2>1 DEF CertificateInv
<1>3. CASE /\ UNCHANGED <<asked, submitted>>
           /\ certificate.rejectedByUser =>
                  report' \in {RC_CERTIFICATE_REJECTED, RC_INVALID_ARGUMENT}
  BY <1>3 DEF CertificateInv, Id
<1> QED
  BY <1>1, <1>2, <1>3, ResultIsSet

-----------------------------------------------------------------------------
(* The events: who appends what, and what a poll takes                       *)
LEMMA QueueSteps ==
    ASSUME [Next]_vars
    PROVE  \/ UNCHANGED <<events, told>>
           \/ Poll
           \/ PushesPrompt
           \/ Announces /\ UNCHANGED told
<1>1. CASE UNCHANGED vars
  BY <1>1 DEF vars, appVars
<1>2. CASE WorkerRuns
  BY <1>2
  DEF WorkerRuns, NewInstance, NoInstance, Leaves, ContextReady, ContextFails,
      ChecksDecision, GoesToSleep, Decides, ReportsOk, LoopStops, Disconnects, Announces,
      GoesOffline, ClearsFrame, FreesInstance, Frees, appVars
<1>3. CASE DialReturns \/ NetworkActs
  BY <1>3
  DEF DialReturns, PostConnects, DialSucceeds, RetriesRdpOnly, ConnectFails, NetworkActs, AsksForDecision,
      WaitTimesOut, Decides, Paints, LoopFails, appVars
<1>4. CASE ApiSteps \/ StopBegins \/ StopGoesOn \/ Destroyed
  BY <1>4
  DEF ApiSteps, InputBegins, ApiGoesOn, SubmitNotifies, InputChecks, InputEnds, Submit,
      StopBegins, StopGoesOn, StopRefuses, StopNotifies, StopChecksInstance, StopAborts,
      StopJoins, Destroyed, vars, appVars
<1> QED
  BY <1>1, <1>2, <1>3, <1>4 DEF Next

(* No step loses the question the worker waits with.                         *)
LEMMA PromptStep ==
    TypeOK /\ CertificateInv /\ CertificateInv' /\ PromptReachesApp /\ [Next]_vars
        => PromptReachesApp'
<1> SUFFICES ASSUME TypeOK, CertificateInv, CertificateInv', PromptReachesApp, [Next]_vars,
                    at' \in {"check", "unsatisfied", "asleep"}
             PROVE  Queued(Prompt(Id))' \/ (Prompt(Id) \in told)'
  BY DEF CertificateInv, Waiting, PromptReachesApp
<1> DEFINE Reaches == Queued(Prompt(Id)) \/ Prompt(Id) \in told
<1>1. CASE PushesPrompt
  <2>1. Id \in Ids /\ Id' = Id
    BY <1>1, MaxPromptsAssumption DEF TypeOK, Id, Ids, PushesPrompt, workerVars
  <2>2. events \in Seq(Events) /\ events' = Append(events, Prompt(Id))
    BY <1>1 DEF TypeOK, PushesPrompt
  <2>3. Queued(Prompt(Id))' <=> \E i \in DOMAIN events' : events'[i] = Prompt(Id)
    BY <2>1 DEF Queued, Prompt
  <2> QED
    BY <2>1, <2>2, <2>3
<1>2. (at \in {"check", "unsatisfied", "asleep"} /\ UNCHANGED asked) \/ PushesPrompt
  <2>1. CASE Protocol
    BY <2>1
    DEF Protocol, AsksForDecision, ChecksDecision, GoesToSleep, WaitTimesOut, Decides, At,
        workerVars
  <2>2. CASE Answers /\ UNCHANGED <<at, workerVars, events, connected, report, frame, told>>
    BY <2>2 DEF workerVars
  <2>3. CASE UNCHANGED asked /\ Wakes
    BY <2>3 DEF Wakes
  <2> QED
    BY <2>1, <2>2, <2>3, OtherSteps DEF Waiting
<1>3. CASE at \in {"check", "unsatisfied", "asleep"} /\ UNCHANGED asked
  <2>1. Reaches /\ Id' = Id
    BY <1>3 DEF PromptReachesApp, Id
  <2>2. CASE UNCHANGED <<events, told>>
    BY <2>1, <2>2 DEF Queued, Prompt
  <2>3. CASE Poll
    <3>1. \A f : Queued(f) => f = Head(events) \/ Queued(f)'
      BY <2>3, PollTakesHead DEF TypeOK, Poll
    <3>2. told' = told \cup {Head(events)}
      BY <2>3 DEF Poll
    <3>3. Queued(Prompt(Id)) =>
             Prompt(Id) \in told' \/ \E i \in DOMAIN events' : events'[i] = Prompt(Id)
      BY <3>1, <3>2 DEF Queued
    <3> QED
      BY <2>1, <3>2, <3>3 DEF Queued, Prompt
  <2>4. ~Announces
    BY <1>3 DEF Announces, At
  <2> QED
    BY <1>1, <2>2, <2>3, <2>4, QueueSteps
<1> QED
  BY <1>1, <1>2, <1>3

-----------------------------------------------------------------------------
(* The loss: it is recorded by the loop or the disconnect after it, announced*)
(* once, behind everything else, and nothing is recorded later.              *)
LEMMA LossMoves ==
    ASSUME [Next]_vars
    PROVE  \/ UNCHANGED lossCode /\ (at' = at \/ (at \in Waiting /\ at' \in Waiting))
           \/ /\ UNCHANGED lossCode
              /\ at \in Dialing \cup {"up", "loop", "leave"}
              /\ at' \in Dialing \cup {"up", "loop", "leave", "disconnect", "offline", "done"}
           \/ at \in {"loop", "disconnect"} /\ at' \in {"disconnect", "announce"}
           \/ Announces
           \/ UNCHANGED lossCode /\ at \in Closed /\ at' \in Closed
<1> DEFINE Stays == UNCHANGED lossCode /\ (at' = at \/ (at \in Waiting /\ at' \in Waiting))
<1>1. CASE UNCHANGED vars
  BY <1>1 DEF vars, workerVars
<1>2. CASE NewInstance \/ NoInstance \/ Leaves \/ ContextReady \/ ContextFails
  BY <1>2
  DEF Dialing, Closed, NewInstance, NoInstance, Leaves, ContextReady, ContextFails, At, Fails,
      workerVars
<1>3. CASE PushesPrompt \/ ChecksDecision \/ GoesToSleep \/ WaitTimesOut \/ AsksForDecision
  BY <1>3
  DEF Dialing, Waiting, PushesPrompt, ChecksDecision, GoesToSleep, WaitTimesOut,
      AsksForDecision, Decides, At, workerVars
<1>4. CASE DialReturns
  BY <1>4
  DEF Dialing, DialReturns, PostConnects, DialSucceeds, RetriesRdpOnly, Attempting,
      ConnectFails, Fails, At, workerVars
<1>5. CASE ReportsOk \/ LoopStops \/ LoopFails \/ Disconnects \/ Paints
  BY <1>5 DEF ReportsOk, LoopStops, LoopFails, Disconnects, Paints, At, workerVars
<1>6. CASE GoesOffline \/ ClearsFrame \/ FreesInstance
  BY <1>6 DEF Closed, GoesOffline, ClearsFrame, FreesInstance, Frees, At, workerVars
<1>7. CASE ApiSteps
  <2>1. Stays
    BY <1>7
    DEF Waiting, ApiSteps, Poll, InputBegins, ApiGoesOn, SubmitNotifies, NotifyAll,
        InputChecks, InputEnds, Submit, workerVars
  <2> QED
    BY <2>1
<1>8. CASE StopBegins \/ StopGoesOn \/ Destroyed
  <2>1. Stays
    BY <1>8
    DEF Waiting, StopBegins, StopGoesOn, StopRefuses, StopNotifies, NotifyAll,
        StopChecksInstance, StopAborts, StopJoins, Destroyed, vars, workerVars
  <2> QED
    BY <2>1
<1> QED
  BY <1>1, <1>2, <1>3, <1>4, <1>5, <1>6, <1>7, <1>8 DEF Next, WorkerRuns, NetworkActs

(* A stop is never taken back.                                               *)
LEMMA StopStays == TypeOK /\ [Next]_vars /\ stopRequested => stopRequested'
<1> SUFFICES ASSUME TypeOK, [Next]_vars, stopRequested PROVE stopRequested'
  OBVIOUS
<1> USE DEF stopRequested
<1>1. CASE UNCHANGED stopper
  BY <1>1
<1>2. CASE WorkerRuns
  BY <1>1, <1>2
  DEF WorkerRuns, NewInstance, NoInstance, Leaves, ContextReady, ContextFails, PushesPrompt,
      ChecksDecision, GoesToSleep, Decides, ReportsOk, LoopStops, Disconnects, Announces,
      GoesOffline, ClearsFrame, FreesInstance, Frees, appVars
<1>3. CASE DialReturns \/ NetworkActs
  BY <1>1, <1>3
  DEF DialReturns, PostConnects, DialSucceeds, RetriesRdpOnly, ConnectFails, NetworkActs, AsksForDecision,
      WaitTimesOut, Decides, Paints, LoopFails, appVars
<1>4. CASE ApiSteps
  BY <1>1, <1>4
  DEF ApiSteps, Poll, InputBegins, ApiGoesOn, SubmitNotifies, InputChecks, InputEnds, Submit
<1>5. CASE StopBegins \/ StopGoesOn
  BY <1>5
  DEF StopBegins, StopGoesOn, StopRefuses, StopNotifies, StopChecksInstance, StopAborts,
      StopJoins, StopMoves
<1>6. CASE Destroyed \/ UNCHANGED vars
  BY <1>1, <1>6 DEF Destroyed, vars, appVars
<1> QED
  BY <1>2, <1>3, <1>4, <1>5, <1>6 DEF Next

(* What is appended for a loss is an announcement with an error's code.      *)
LEMMA AnnouncesLoss ==
    ASSUME TypeOK, lossCode # None, NEW c \in EventCodes
    PROVE  /\ Disconnected(c) \in Events /\ Announced(Disconnected(c))
           /\ Disconnected(c).type = "SESSION_DISCONNECTED"
<1>1. c \in ConnectFailureCodes /\ c # RC_OK
  BY CodeFacts DEF TypeOK, EventCodes
<1> QED
  BY <1>1, EventFacts DEF Announced

(* No step loses an announced loss, and none adds a second.                  *)
LEMMA LossStep ==
    TypeOK /\ LossInv /\ LossIsAnnounced /\ [Next]_vars => LossInv' /\ LossIsAnnounced'
<1> SUFFICES ASSUME TypeOK, LossInv, LossIsAnnounced, [Next]_vars
             PROVE  LossInv' /\ LossIsAnnounced'
  OBVIOUS
<1> DEFINE IsLoss(e) == e.type = "SESSION_DISCONNECTED"
           Known     == \E e \in Events : Announced(e) /\ (Queued(e) \/ e \in told)
           Last      == \A i \in DOMAIN events : IsLoss(events[i]) =>
                           /\ at \in Closed /\ i = Len(events) /\ Announced(events[i])
                           /\ ~\E e \in told : IsLoss(e)
<1>0. /\ Last /\ events \in Seq(Events)
      /\ at \in Closed /\ lossCode # None /\ ~stopRequested => Known
      /\ (\E e \in told : IsLoss(e)) => at \in Closed
      /\ stopRequested => stopRequested'
  BY StopStays DEF LossIsAnnounced, LossInv, TypeOK
<1>1. /\ at \in Closed => at' \in Closed
      /\ at' \in Dialing \cup {"up", "loop", "leave"} => lossCode' = None
  BY LossMoves DEF LossInv, Dialing, Waiting, Closed, Announces, At, workerVars
<1>2. SUFFICES /\ Last'
               /\ at' \in Closed /\ lossCode' # None /\ ~stopRequested' => Known'
               /\ (\E e \in told' : IsLoss(e)) => at' \in Closed
  BY <1>1 DEF LossInv, LossIsAnnounced
<1>3. CASE Announces
  <2>1. at = "announce" /\ at' = "offline" /\ UNCHANGED <<lossCode, told>>
    BY <1>3 DEF Announces, At, workerVars, appVars
  <2>2. /\ \A i \in DOMAIN events : ~IsLoss(events[i])
        /\ ~\E e \in told : IsLoss(e)
    BY <1>0, <2>1 DEF Closed
  <2>3. CASE lossCode # None /\ ~stopRequested
    <3>1. PICK c \in EventCodes : events' = Append(events, Disconnected(c))
      BY <1>3, <2>3 DEF Announces
    <3>2. Disconnected(c) \in Events /\ Announced(Disconnected(c))
      BY <2>3, AnnouncesLoss
    <3>3. /\ events'[Len(events')] = Disconnected(c) /\ Len(events') \in DOMAIN events'
          /\ \A i \in DOMAIN events' :
                i = Len(events') \/ (i \in DOMAIN events /\ events'[i] = events[i])
      BY <1>0, <3>1, <3>2
    <3>4. Queued(Disconnected(c))'
      BY <3>3 DEF Queued, Disconnected
    <3> QED
      BY <2>1, <2>2, <3>2, <3>3, <3>4 DEF Closed
  <2>4. CASE ~(lossCode # None /\ ~stopRequested)
    <3>1. events' = events
      BY <1>3, <2>4 DEF Announces
    <3>2. lossCode' = None \/ stopRequested'
      BY <1>0, <2>1, <2>4
    <3> QED
      BY <2>1, <2>2, <3>1, <3>2
  <2> QED
    BY <2>3, <2>4
<1>4. ASSUME ~Announces, at' \in Closed, lossCode' # None, ~stopRequested' PROVE Known
  BY <1>0, <1>4, LossMoves DEF LossInv, Dialing, Waiting, Closed
<1>5. CASE ~Announces /\ UNCHANGED <<events, told>>
  <2>1. Known => Known'
    BY <1>5 DEF Queued
  <2> QED
    BY <1>0, <1>1, <1>4, <1>5, <2>1
<1>6. CASE PushesPrompt
  <2>1. /\ at = "push" /\ Id \in Ids /\ events' = Append(events, Prompt(Id))
        /\ at' = "check" /\ UNCHANGED told
    BY <1>6, MaxPromptsAssumption DEF TypeOK, Id, Ids, PushesPrompt, At, appVars
  <2>2. Prompt(Id) \in Events /\ ~IsLoss(Prompt(Id))
    BY <2>1, EventFacts
  <2>3. /\ \A i \in DOMAIN events : ~IsLoss(events[i])
        /\ ~\E e \in told : IsLoss(e)
    BY <1>0, <2>1 DEF Closed
  <2>4. \A i \in DOMAIN events' :
           events'[i] = Prompt(Id) \/ (i \in DOMAIN events /\ events'[i] = events[i])
    BY <1>0, <2>1, <2>2
  <2> QED
    BY <2>1, <2>2, <2>3, <2>4 DEF Closed
<1>7. CASE Poll
  <2>1. /\ told' = told \cup {Head(events)} /\ UNCHANGED at
        /\ Head(events) = events[1] /\ 1 \in DOMAIN events
        /\ Len(events') = Len(events) - 1
        /\ \A i \in DOMAIN events' :
              i \in Nat /\ i + 1 \in DOMAIN events /\ events'[i] = events[i + 1]
        /\ \A f : Queued(f) => f = Head(events) \/ Queued(f)'
    BY <1>0, <1>7, PollTakesHead DEF Poll
  <2>2. IsLoss(Head(events)) => at \in Closed /\ Len(events) = 1
    BY <1>0, <2>1
  <2>3. Known => Known'
    BY <2>1
  <2>4. ~Announces
    BY <1>7 DEF Poll, Announces, At
  <2>5. ASSUME NEW i \in DOMAIN events', IsLoss(events'[i])
        PROVE  /\ at \in Closed /\ i = Len(events') /\ Announced(events'[i])
               /\ ~\E e \in told : IsLoss(e)
               /\ Len(events) # 1
    BY <1>0, <2>1, <2>5
  <2>6. Last'
    BY <2>1, <2>2, <2>5
  <2> QED
    BY <1>0, <1>4, <2>1, <2>2, <2>3, <2>4, <2>6
<1> QED
  BY <1>3, <1>5, <1>6, <1>7, QueueSteps

-----------------------------------------------------------------------------
(* The conjuncts of IInv, each preserved with the help of the ones before it.*)
LEMMA InvStep == IInv /\ [Next]_vars => IInv'
  BY TypeStep, CertificateStep, FlowStep, PromptStep, RejectStep, LossStep DEF IInv

(* So IInv holds in every state of a session.                                *)
LEMMA Invariance == Spec => []IInv
  BY InitInv, InvStep, PTL DEF Spec

(* Every field of a session, and every request and event the app and the     *)
(* worker exchange, stays one the code can hold (the members of RdpSession). *)
THEOREM SessionTyped == Spec => []TypeOK
  BY Invariance, PTL DEF IInv

(* The worker trusts a certificate only after the app accepted the request   *)
(* made for that very one: no answer to an earlier request, no timeout, no   *)
(* stop makes requestCertificateDecision return an acceptance.               *)
THEOREM TrustIsGiven == Spec => []TrustNeedsAcceptance
  BY Invariance, PTL DEF IInv

(* While requestCertificateDecision waits, the app was told the id it waits  *)
(* for, or a poll will yield it.                                             *)
THEOREM PromptIsDelivered == Spec => []PromptReachesApp
  BY Invariance, PTL DEF IInv

(* While connected is set there is an instance, no question waits, and the   *)
(* connect has not failed: the calls that only test connected rely on it.    *)
THEOREM ConnectedIsUsable == Spec => []ConnectedHasInstance
<1>1. IInv => ConnectedHasInstance
  BY DEF IInv, CertificateInv, InstanceInv, ConnectionInv, ReportInv, ConnectedHasInstance,
         Connected, Waiting
<1> QED
  BY <1>1, Invariance, PTL

(* A frame once there is not taken away while connected is set, so a copy    *)
(* that finds none was overtaken by cleanup().                               *)
THEOREM FrameIsKept == Spec => FrameStaysWhileConnected
<1>1. IInv /\ [Next]_vars => (connected /\ frame # "none" => frame' # "none")
  <2> SUFFICES ASSUME IInv, [Next]_vars, connected, frame # "none" PROVE frame' # "none"
    OBVIOUS
  <2>0. at # "clearFrame"
    BY DEF IInv, ConnectionInv, Connected
  <2>1. CASE UNCHANGED vars
    BY <2>1 DEF vars
  <2>2. CASE WorkerRuns
    BY <2>0, <2>2
    DEF WorkerRuns, NewInstance, NoInstance, Leaves, ContextReady, ContextFails, PushesPrompt,
        ChecksDecision, Decides, GoesToSleep, ReportsOk, LoopStops, Disconnects, Announces,
        GoesOffline, ClearsFrame, FreesInstance, Frees, At
  <2>3. CASE DialReturns \/ NetworkActs
    BY <2>3
    DEF DialReturns, PostConnects, DialSucceeds, RetriesRdpOnly, ConnectFails, NetworkActs,
        AsksForDecision, WaitTimesOut, Decides, Paints, LoopFails,
        applyDesktopSizeFromSettings, captureFrame
  <2>4. CASE ApiSteps \/ StopBegins \/ StopGoesOn \/ Destroyed
    BY <2>4
    DEF ApiSteps, Poll, InputBegins, ApiGoesOn, SubmitNotifies, InputChecks, InputEnds,
        Submit, StopBegins, StopGoesOn, StopRefuses, StopNotifies, StopChecksInstance,
        StopAborts, StopJoins, Destroyed, vars
  <2> QED
    BY <2>1, <2>2, <2>3, <2>4 DEF Next
<1>2. IInv /\ [Next]_vars => [connected /\ frame # "none" => frame' # "none"]_vars
  BY <1>1
<1> QED
  BY <1>2, Invariance, PTL DEF Spec, FrameStaysWhileConnected

(* When run() is over it has freed what it made, left nothing connected, and *)
(* given the result that nativeConnect waits for.                            *)
THEOREM RunCleansUp == Spec => []DoneIsClean
<1>1. IInv => DoneIsClean
  BY DEF IInv, CertificateInv, InstanceInv, ConnectionInv, ReportInv, DoneIsClean, Dialing,
         Waiting, Connected, Unmade, Frameless
<1> QED
  BY <1>1, Invariance, PTL

(* A connection that broke while nobody stopped the session is announced once*)
(* with the code of an error, as its last event, and stays to be polled.     *)
THEOREM LossIsTold == Spec => []LossIsAnnounced
  BY Invariance, PTL DEF IInv

(* A connect that fails after the app's last word was a refusal says so.     *)
THEOREM RejectIsTold == Spec => []RejectIsReported
  BY Invariance, PTL DEF IInv

(* setConnectResult takes effect once: the result a caller of nativeConnect  *)
(* has seen is not replaced by a later failure.                              *)
THEOREM ResultStays == Spec => ReportsOnce
<1>1. IInv /\ [Next]_vars => (report # None => report' = report)
  <2> SUFFICES ASSUME IInv, [Next]_vars, report # None PROVE report' = report
    OBVIOUS
  <2>0. at \notin Dialing \cup {"up"}
    BY DEF IInv, ReportInv
  <2>1. CASE UNCHANGED vars
    BY <2>1 DEF vars
  <2>2. CASE WorkerRuns
    BY <2>0, <2>2
    DEF Dialing, Waiting, WorkerRuns, NewInstance, NoInstance, Leaves, ContextReady,
        ContextFails, PushesPrompt, ChecksDecision, GoesToSleep, ReportsOk, LoopStops,
        Disconnects, Announces, GoesOffline, ClearsFrame, FreesInstance, Frees, At, Fails
  <2>3. CASE DialReturns \/ NetworkActs
    BY <2>0, <2>3
    DEF Dialing, Waiting, DialReturns, PostConnects, DialSucceeds, RetriesRdpOnly, Attempting,
        ConnectFails, NetworkActs, AsksForDecision, WaitTimesOut, Paints, LoopFails, At, Fails
  <2>4. CASE ApiSteps \/ StopBegins \/ StopGoesOn \/ Destroyed
    BY <2>4
    DEF ApiSteps, Poll, InputBegins, ApiGoesOn, SubmitNotifies, InputChecks, InputEnds,
        Submit, StopBegins, StopGoesOn, StopRefuses, StopNotifies, StopChecksInstance,
        StopAborts, StopJoins, Destroyed, vars
  <2> QED
    BY <2>1, <2>2, <2>3, <2>4 DEF Next
<1>2. IInv /\ [Next]_vars => [report # None => report' = report]_vars
  BY <1>1
<1> QED
  BY <1>2, Invariance, PTL DEF Spec, ReportsOnce

-----------------------------------------------------------------------------
(* Each step of run(), of a call or of stop() is a step of SessionContract or*)
(* leaves the worker's phase, the stop request, connected and report alone.  *)
LEMMA ContractStep == IInv /\ [Next]_vars => [Contract!Next]_(Contract!vars)
<1> SUFFICES ASSUME IInv, [Next]_vars PROVE [Contract!Next]_(Contract!vars)
  OBVIOUS
<1> DEFINE Shown == <<abstractWorker, stopRequested, connected, report>>
<1> USE DEF Contract!Next, Contract!WorkerSteps, Contract!vars
<1>1. CASE UNCHANGED Shown
  BY <1>1
<1>2. CASE \/ UNCHANGED vars \/ Destroyed
  BY <1>1, <1>2 DEF Destroyed, vars, abstractWorker, stopRequested, appVars
<1>3. CASE /\ abstractWorker = "dialing" /\ abstractWorker' = "closing"
           /\ report' \in ConnectFailureCodes /\ UNCHANGED <<connected, stopRequested>>
  BY <1>3 DEF Contract!ReportsFailure, Contract!Moves
<1>4. CASE NoInstance \/ ContextFails \/ ConnectFails
  <2>1. at \in {"boot", "context", "dial", "dialed"} /\ at' \in {"leave", "offline"}
    BY <1>4 DEF NoInstance, ContextFails, ConnectFails, Attempting, At, Fails
  <2>2. report' \in ConnectFailureCodes
    BY <1>4, CodeFacts DEF NoInstance, ContextFails, ConnectFails, Fails
  <2>3. UNCHANGED <<connected, stopper>>
    BY <1>4 DEF NoInstance, ContextFails, ConnectFails, appVars
  <2> QED
    BY <1>3, <2>1, <2>2, <2>3 DEF abstractWorker, stopRequested
<1>5. CASE \/ NewInstance \/ ContextReady \/ AsksForDecision \/ PushesPrompt
           \/ ChecksDecision \/ GoesToSleep \/ WaitTimesOut \/ PostConnects \/ RetriesRdpOnly
  <2>1. at \in Dialing /\ at' \in Dialing
    BY <1>5
    DEF Dialing, Waiting, NewInstance, ContextReady, AsksForDecision, PushesPrompt,
        ChecksDecision, GoesToSleep, WaitTimesOut, Decides, PostConnects, RetriesRdpOnly,
        Attempting, At
  <2>2. UNCHANGED <<connected, stopper, report>>
    BY <1>5
    DEF NewInstance, ContextReady, AsksForDecision, PushesPrompt, ChecksDecision, GoesToSleep,
        WaitTimesOut, Decides, PostConnects, RetriesRdpOnly, appVars
  <2> QED
    BY <1>1, <2>1, <2>2 DEF abstractWorker, stopRequested, Dialing, Waiting
<1>6. CASE DialSucceeds
  BY <1>6
  DEF DialSucceeds, At, abstractWorker, stopRequested, appVars, Contract!Connects,
      Contract!Moves
<1>7. CASE ReportsOk
  BY <1>7
  DEF ReportsOk, At, abstractWorker, stopRequested, appVars, RC_OK, Contract!ReportsOk,
      Contract!Moves, Contract!RC_OK
<1>8. CASE LoopStops \/ LoopFails
  <2>1. at = "loop" /\ at' = "disconnect" /\ UNCHANGED <<connected, report, stopper>>
    BY <1>8 DEF LoopStops, LoopFails, At, appVars
  <2> QED
    BY <2>1
    DEF abstractWorker, stopRequested, Contract!LosesConnection, Contract!Moves
<1>9. CASE Disconnects \/ Announces \/ Paints
  <2>1. UNCHANGED <<connected, report, stopper>>
    BY <1>9 DEF Disconnects, Announces, Paints, appVars
  <2>2. abstractWorker' = abstractWorker
    BY <1>9 DEF Disconnects, Announces, Paints, At, abstractWorker
  <2> QED
    BY <1>1, <2>1, <2>2 DEF stopRequested
<1>10. CASE GoesOffline
  <2>1. /\ at = "offline" /\ at' = "clearFrame" /\ connected' = FALSE
        /\ UNCHANGED <<report, stopper>>
    BY <1>10 DEF GoesOffline, At, appVars
  <2>2. connected \in BOOLEAN
    BY DEF IInv, TypeOK
  <2>3. CASE connected
    BY <2>1, <2>3
    DEF abstractWorker, stopRequested, Contract!GoesOffline, Contract!Moves
  <2>4. CASE connected = FALSE
    BY <1>1, <2>1, <2>4 DEF abstractWorker, stopRequested
  <2> QED
    BY <2>2, <2>3, <2>4
<1>11. CASE ClearsFrame \/ Leaves \/ FreesInstance
  <2>1. UNCHANGED <<connected, report, stopper>>
    BY <1>11 DEF ClearsFrame, Leaves, FreesInstance, Frees, appVars
  <2>2. \/ /\ at \in {"clearFrame", "freeContext", "freeInstance"}
           /\ at' \in {"freeContext", "freeInstance", "forget"}
        \/ at \in {"leave", "forget"} /\ at' = "done" /\ ~connected
    BY <1>11 DEF ClearsFrame, Leaves, FreesInstance, Frees, At, IInv, ConnectionInv, Connected
  <2> QED
    BY <1>1, <2>1, <2>2 DEF abstractWorker, stopRequested, Contract!Exits, Contract!Moves
<1>12. ASSUME Wakes, UNCHANGED <<connected, report, stopRequested>>
       PROVE  [Contract!Next]_(Contract!vars)
  <2>1. abstractWorker' = abstractWorker
    BY <1>12 DEF Wakes, abstractWorker
  <2> QED
    BY <1>1, <1>12, <2>1
<1>13. CASE ApiSteps
  <2>1. Wakes
    BY <1>13
    DEF Wakes, ApiSteps, Poll, InputBegins, ApiGoesOn, SubmitNotifies, NotifyAll,
        InputChecks, InputEnds, Submit
  <2>2. UNCHANGED <<connected, report, stopper>>
    BY <1>13
    DEF ApiSteps, Poll, InputBegins, ApiGoesOn, SubmitNotifies, InputChecks, InputEnds,
        Submit
  <2> QED
    BY <1>12, <2>1, <2>2 DEF stopRequested
<1>14. CASE StopBegins
  BY <1>14 DEF StopBegins, StopMoves, abstractWorker, stopRequested, workerVars, Contract!Stop
<1>15. CASE StopGoesOn
  <2>1. Wakes
    BY <1>15
    DEF Wakes, StopGoesOn, StopRefuses, StopNotifies, NotifyAll, StopChecksInstance,
        StopAborts, StopJoins
  <2>2. UNCHANGED <<connected, report>>
    BY <1>15
    DEF StopGoesOn, StopRefuses, StopNotifies, StopChecksInstance, StopAborts, StopJoins
  <2>3. stopper # "none" /\ stopper' # "none"
    BY <1>15
    DEF StopGoesOn, StopRefuses, StopNotifies, StopChecksInstance, StopAborts, StopJoins,
        StopMoves
  <2> QED
    BY <1>12, <2>1, <2>2, <2>3 DEF stopRequested
<1> QED
  BY <1>2, <1>4, <1>5, <1>6, <1>7, <1>8, <1>9, <1>10, <1>11, <1>13, <1>14, <1>15
  DEF Next, WorkerRuns, DialReturns, NetworkActs

(* The detailed session implements the contract its owners rely on, as far as*)
(* safety goes (that a stopped worker ends is left to TLC).                  *)
THEOREM SessionKeepsContract == Spec => Contract!Init /\ [][Contract!Next]_(Contract!vars)
<1>1. Init => Contract!Init
  BY DEF Init, Contract!Init, abstractWorker, stopRequested
<1> QED
  BY <1>1, Invariance, ContractStep, PTL DEF Spec

=============================================================================
