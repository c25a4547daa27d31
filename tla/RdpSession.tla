----------------------------- MODULE RdpSession -----------------------------
(***************************************************************************)
(* One RdpSession from the start of its worker to the end of its cleanup.  *)
(*                                                                         *)
(* Three threads meet in it. The worker runs run(): it makes the FreeRDP   *)
(* instance, connects (a second time with plain RDP security if the first  *)
(* attempt failed in a way that suggests it), asks for a decision on the   *)
(* server's certificate from inside freerdp_connect, serves the connection *)
(* and cleans up. The bridge's short calls (poll, submit, input) come one  *)
(* at a time and only while the session is in g_session; the owner's stop()*)
(* comes after the last of them (SessionLifecycle shows both).             *)
(*                                                                         *)
(* FreeRDP is external: an attempt may ask about certificates, succeed, or *)
(* fail with any error, but it does not succeed over a certificate that was*)
(* refused, and under plain RDP security there is none to ask about.       *)
(***************************************************************************)
EXTENDS RdpCodes, Sequences

CONSTANTS
    MaxPrompts,    \* bound: certificate questions in one session
    None

ASSUME MaxPromptsAssumption == MaxPrompts \in Nat
ASSUME NoneAssumption == None \notin Int

VARIABLES
    at,            \* where the worker is in run()
    rdpOnly,       \* which of the two connect attempts runs
    instance,      \* the FreeRDP instance
    trust,         \* the verdict this attempt's certificate got
    asked,         \* certificate questions so far
    certificate,   \* the five certificate fields
    events,        \* pendingEvents
    connected,
    report,        \* connectResult once connectFinished is set, None before
    frame,         \* what the frame buffer holds
    lossCode,      \* disconnectCode if unexpectedDisconnect, else None
    stopper,       \* where the owner's stop() is
    api,           \* what the call that holds g_stateMutex is doing
    told,          \* events the app has polled
    submitted      \* the last decision accepted for each request id

workerVars == <<rdpOnly, instance, trust, asked, lossCode>>
appVars    == <<stopper, api, told, submitted>>
vars == <<at, workerVars, certificate, events, connected, report, frame, appVars>>

-----------------------------------------------------------------------------
(* g_certificateRequestCounter is shared by all sessions: id 1 was given to a*)
(* session before this one, and the app may still hold it.                   *)
StaleId == 1
Ids     == 1 .. MaxPrompts + 1
Id      == asked + 1

NoRequest(rejected) == [waiting |-> FALSE, ready |-> FALSE, accepted |-> FALSE,
                        rejectedByUser |-> rejected, id |-> 0]

Prompt(i)       == [type |-> "CERTIFICATE_PROMPT", requestId |-> i]
Disconnected(c) == [type |-> "SESSION_DISCONNECTED", code |-> c]
Events == {Prompt(i) : i \in Ids} \cup {Disconnected(c) : c \in ConnectFailureCodes}

Queued(e) == \E i \in DOMAIN events : events[i] = e

(* stop() sets stopRequested first                                           *)
stopRequested == stopper # "none"

Ats == {"boot", "context", "dial", "push", "check", "unsatisfied", "asleep", "dialed",
        "up", "loop", "disconnect", "announce", "offline", "clearFrame", "freeContext",
        "freeInstance", "forget", "leave", "done"}

TypeOK ==
    /\ at \in Ats
    /\ rdpOnly \in BOOLEAN /\ connected \in BOOLEAN
    /\ instance \in {"null", "bare", "ready", "freed"}
    /\ trust \in {"unasked", "trusted", "refused"}
    /\ asked \in 0 .. MaxPrompts
    /\ certificate \in [waiting : BOOLEAN, ready : BOOLEAN, accepted : BOOLEAN,
                        rejectedByUser : BOOLEAN, id : {0} \cup Ids]
    /\ events \in Seq(Events)
    /\ report \in ConnectFailureCodes \cup {None}
    /\ frame \in {"none", "blank", "painted"}
    /\ lossCode \in ConnectFailureCodes \cup {None}
    /\ stopper \in {"none", "certificate", "notify", "abortCheck", "abort", "join", "joined"}
    /\ api \in {"free", "notify", "inputCheck", "input"}
    /\ told \subseteq Events
    /\ submitted \in [Ids -> {"none", "accept", "reject"}]

Init ==
    /\ at = "boot" /\ rdpOnly = FALSE /\ instance = "null"
    /\ trust = "unasked" /\ asked = 0
    /\ certificate = NoRequest(FALSE)
    /\ events = <<>> /\ connected = FALSE /\ report = None
    /\ frame = "none" /\ lossCode = None
    /\ stopper = "none" /\ api = "free"
    /\ told = {Prompt(StaleId)} /\ submitted = [i \in Ids |-> "none"]

-----------------------------------------------------------------------------
(* The worker: the FreeRDP instance and its context                          *)
At(from, to) == at = from /\ at' = to
Fails(from, code) == At(from, "offline") /\ report' = code

NewInstance ==
    /\ At("boot", "context") /\ instance' = "bare"
    /\ UNCHANGED <<rdpOnly, trust, asked, lossCode, certificate, events, connected,
                   report, frame, appVars>>

(* Mutant: the early return forgets the result.                              *)
NoInstanceSilent ==
    /\ At("boot", "leave")
    /\ UNCHANGED <<workerVars, certificate, events, connected, report, frame, appVars>>

(* run() returns without a cleanup.                                          *)
NoInstance ==
    /\ At("boot", "leave") /\ report' = RC_BACKEND_UNAVAILABLE
    /\ UNCHANGED <<workerVars, certificate, events, connected, frame, appVars>>

Leaves ==
    /\ At("leave", "done")
    /\ UNCHANGED <<workerVars, certificate, events, connected, report, frame, appVars>>

ContextReady ==
    /\ At("context", "dial") /\ instance' = "ready"
    /\ UNCHANGED <<rdpOnly, trust, asked, lossCode, certificate, events, connected,
                   report, frame, appVars>>

ContextFails ==
    /\ \/ Fails("context", RC_BACKEND_UNAVAILABLE) /\ UNCHANGED instance
       \/ Fails("context", RC_INVALID_ARGUMENT) /\ instance' = "ready"    \* settings
    /\ UNCHANGED <<rdpOnly, trust, asked, lossCode, certificate, events, connected,
                   frame, appVars>>

-----------------------------------------------------------------------------
(* The worker inside freerdp_connect: requestCertificateDecision, called by  *)
(* both certificate callbacks                                                *)
AsksForDecision ==
    /\ At("dial", "push")
    /\ ~rdpOnly /\ trust # "refused" /\ asked < MaxPrompts
    /\ asked' = asked + 1 /\ trust' = "unasked"
    /\ certificate' = [NoRequest(FALSE) EXCEPT !.waiting = TRUE, !.id = Id']
    /\ UNCHANGED <<rdpOnly, instance, lossCode, events, connected, report, frame, appVars>>

(* Mutant: the event is built with pendingCertificateRequestId's idle value. *)
PushesPromptZero ==
    /\ At("push", "check")
    /\ events' = Append(events, Prompt(0))
    /\ UNCHANGED <<workerVars, certificate, connected, report, frame, appVars>>

PushesPrompt ==
    /\ At("push", "check")
    /\ events' = Append(events, Prompt(Id))
    /\ UNCHANGED <<workerVars, certificate, connected, report, frame, appVars>>

(* Mutant: the reset at the end of the wait also forgets who refused.        *)
DecidesForgetting ==
    LET accepted == certificate.ready /\ certificate.accepted /\ ~stopRequested IN
    /\ at' = "dial"
    /\ trust' = IF accepted THEN "trusted" ELSE "refused"
    /\ certificate' = NoRequest(FALSE)
    /\ UNCHANGED <<rdpOnly, instance, asked, lossCode, events, connected, report, frame,
                   appVars>>

(* The wait is over: what was decided, by then, is the verdict, and anything *)
(* but an accepted certificate counts as rejected by the user.               *)
Decides ==
    LET accepted == certificate.ready /\ certificate.accepted /\ ~stopRequested IN
    /\ at' = "dial"
    /\ trust' = IF accepted THEN "trusted" ELSE "refused"
    /\ certificate' = NoRequest(certificate.rejectedByUser \/ ~accepted)
    /\ UNCHANGED <<rdpOnly, instance, asked, lossCode, events, connected, report, frame,
                   appVars>>

(* wait_for evaluates its predicate ...                                      *)
ChecksDecision ==
    /\ at = "check"
    /\ \/ (certificate.ready \/ stopRequested) /\ Decides
       \/ /\ ~(certificate.ready \/ stopRequested) /\ at' = "unsatisfied"
          /\ UNCHANGED <<workerVars, certificate, events, connected, report, frame, appVars>>

(* ... and, if it was false, goes to sleep, which releases certificateMutex. *)
GoesToSleep ==
    /\ At("unsatisfied", "asleep")
    /\ UNCHANGED <<workerVars, certificate, events, connected, report, frame, appVars>>

(* The other critical sections of certificateMutex are single steps.         *)
certificateMutexFree == at # "unsatisfied"

(* 90 seconds are over.                                                      *)
WaitTimesOut == at = "asleep" /\ Decides

(* notify_all wakes a sleeping worker, and nobody who is not asleep.         *)
NotifyAll == at' = IF at = "asleep" THEN "check" ELSE at

-----------------------------------------------------------------------------
(* The worker: what freerdp_connect returns                                  *)
(* Both leave the frame as it is when they get no size, or no bitmap.        *)
applyDesktopSizeFromSettings == frame' \in {frame, "blank"}
captureFrame                 == frame' \in {frame, "painted"}

(* postConnect, called back before freerdp_connect returns: the attempt may  *)
(* still fail after it.                                                      *)
PostConnects ==
    /\ At("dial", "dialed") /\ trust # "refused" /\ applyDesktopSizeFromSettings
    /\ UNCHANGED <<workerVars, certificate, events, connected, report, appVars>>

DialSucceeds ==
    /\ At("dialed", "up") /\ connected' = TRUE
    /\ UNCHANGED <<workerVars, certificate, events, report, frame, appVars>>

Attempting == at \in {"dial", "dialed"}

RetriesRdpOnly ==
    /\ Attempting /\ at' = "dial" /\ ~rdpOnly
    /\ \E e \in LastErrors : shouldRetryWithRdpOnly(e)
    /\ rdpOnly' = TRUE /\ trust' = "unasked"
    /\ UNCHANGED <<instance, asked, lossCode, certificate, events, connected, report,
                   frame, appVars>>

ConnectFails ==
    /\ Attempting
    /\ \/ /\ ~rdpOnly /\ \E e \in LastErrors : shouldRetryWithRdpOnly(e)
          /\ Fails(at, RC_INVALID_ARGUMENT)    \* settings of the retry
       \/ \E e \in LastErrors :
             /\ rdpOnly \/ ~shouldRetryWithRdpOnly(e)
             /\ Fails(at, IF certificate.rejectedByUser THEN RC_CERTIFICATE_REJECTED
                          ELSE mapFreeRdpError(e))
    /\ UNCHANGED <<workerVars, certificate, events, connected, frame, appVars>>

(* Mutant: the way out of the retry forgets setConnectResult.                *)
ReportsOkNever ==
    /\ At("up", "loop")
    /\ UNCHANGED <<workerVars, certificate, events, connected, report, frame, appVars>>

ReportsOk ==
    /\ At("up", "loop") /\ report' = RC_OK
    /\ UNCHANGED <<workerVars, certificate, events, connected, frame, appVars>>

-----------------------------------------------------------------------------
(* The worker's event loop                                                   *)
(* The callbacks endPaint and desktopResize                                  *)
Paints ==
    /\ at = "loop" /\ (captureFrame \/ applyDesktopSizeFromSettings)
    /\ UNCHANGED <<at, workerVars, certificate, events, connected, report, appVars>>

LoopStops ==
    /\ At("loop", "disconnect") /\ stopRequested
    /\ UNCHANGED <<workerVars, certificate, events, connected, report, frame, appVars>>

(* Mutant: a lost connection overwrites the result of the connect.           *)
LoopFailsReporting ==
    /\ At("loop", "disconnect")
    /\ \E e \in LastErrors : lossCode' \in {RC_NETWORK_FAILURE, mapFreeRdpError(e)}
    /\ report' = lossCode'
    /\ UNCHANGED <<rdpOnly, instance, trust, asked, certificate, events, connected, frame,
                   appVars>>

LoopFails ==
    /\ At("loop", "disconnect")
    /\ \E e \in LastErrors : lossCode' \in {RC_NETWORK_FAILURE, mapFreeRdpError(e)}
    /\ UNCHANGED <<rdpOnly, instance, trust, asked, certificate, events, connected,
                   report, frame, appVars>>

(* freerdp_disconnect; that it failed counts unless a stop was asked for.    *)
Disconnects ==
    /\ At("disconnect", "announce")
    /\ \/ UNCHANGED lossCode
       \/ ~stopRequested /\ \E e \in LastErrors : lossCode' = mapFreeRdpError(e)
    /\ UNCHANGED <<rdpOnly, instance, trust, asked, certificate, events, connected,
                   report, frame, appVars>>

(* Mutant: the code is sent as it is.                                        *)
EventCodesRaw == {lossCode}

(* The code of the event is never RC_OK.                                     *)
EventCodes ==
    IF lossCode # RC_OK THEN {lossCode}
    ELSE {RC_NOT_CONNECTED} \cup {mapFreeRdpError(e) : e \in LastErrors \ {"SUCCESS"}}

Announces ==
    /\ At("announce", "offline")
    /\ IF lossCode # None /\ ~stopRequested
       THEN \E c \in EventCodes : events' = Append(events, Disconnected(c))
       ELSE UNCHANGED events
    /\ UNCHANGED <<workerVars, certificate, connected, report, frame, appVars>>

-----------------------------------------------------------------------------
(* Mutant: the session stays connected while it is cleaned up.               *)
GoesOfflineLate ==
    /\ At("offline", "clearFrame")
    /\ UNCHANGED <<workerVars, certificate, events, connected, report, frame, appVars>>

(* Mutant: the frame is cleared before the session stops being connected.    *)
GoesOfflineFrameFirst ==
    /\ At("offline", "clearFrame") /\ frame' = "none"
    /\ UNCHANGED <<workerVars, certificate, events, connected, report, appVars>>

(* cleanup(), statement by statement: the instance is freed without ioMutex. *)
GoesOffline ==
    /\ At("offline", "clearFrame") /\ connected' = FALSE
    /\ UNCHANGED <<workerVars, certificate, events, report, frame, appVars>>

ClearsFrame ==
    /\ At("clearFrame", "freeContext") /\ frame' = "none"
    /\ UNCHANGED <<workerVars, certificate, events, connected, report, appVars>>

Frees(from, to, becomes) ==
    /\ At(from, to) /\ instance' = becomes
    /\ UNCHANGED <<rdpOnly, trust, asked, lossCode, certificate, events, connected,
                   report, frame, appVars>>

FreesInstance ==
    \/ Frees("freeContext", "freeInstance", "bare")
    \/ Frees("freeInstance", "forget", "freed")
    \/ Frees("forget", "done", "null")

-----------------------------------------------------------------------------
(* The short calls                                                           *)
ApiStarts == stopper = "none" /\ api = "free"

(* Mutant: an event that does not fit is taken from the queue and dropped.   *)
PollDropping ==
    /\ ApiStarts /\ events # <<>>
    /\ events' = Tail(events)
    /\ UNCHANGED <<at, workerVars, certificate, connected, report, frame, stopper, api, told,
                   submitted>>

Poll ==
    /\ ApiStarts /\ events # <<>>
    /\ told' = told \cup {Head(events)} /\ events' = Tail(events)
    /\ UNCHANGED <<at, workerVars, certificate, connected, report, frame, stopper, api,
                   submitted>>

(* Mutant: a decision is taken for whatever request waits.                   *)
SubmitAny(i, decision) ==
    /\ ApiStarts /\ Prompt(i) \in told /\ certificateMutexFree
    /\ certificate.waiting
    /\ certificate' = [certificate EXCEPT !.ready = TRUE, !.accepted = (decision = "accept"),
                           !.rejectedByUser = @ \/ decision = "reject"]
    /\ submitted' = [submitted EXCEPT ![i] = decision]
    /\ api' = "notify"
    /\ UNCHANGED <<at, workerVars, events, connected, report, frame, stopper, told>>

(* A decision on any request the app was told of. Only one on the request    *)
(* that waits is taken; another is answered with RC_INVALID_ARGUMENT.        *)
Submit(i, decision) ==
    /\ ApiStarts /\ Prompt(i) \in told /\ certificateMutexFree
    /\ certificate.waiting /\ certificate.id = i
    /\ certificate' = [certificate EXCEPT !.ready = TRUE, !.accepted = (decision = "accept"),
                           !.rejectedByUser = @ \/ decision = "reject"]
    /\ submitted' = [submitted EXCEPT ![i] = decision]
    /\ api' = "notify"
    /\ UNCHANGED <<at, workerVars, events, connected, report, frame, stopper, told>>

(* Mutant: nobody is notified.                                               *)
SubmitNotifiesNobody ==
    /\ api = "notify" /\ api' = "free"
    /\ UNCHANGED <<at, workerVars, certificate, events, connected, report, frame, stopper,
                   told, submitted>>

SubmitNotifies ==
    /\ api = "notify" /\ api' = "free" /\ NotifyAll
    /\ UNCHANGED <<workerVars, certificate, events, connected, report, frame, stopper, told,
                   submitted>>

(* sendText, sendPointerEvent: connected is tested before the instance, and  *)
(* the instance before it is used. To test a freed one may go either way.    *)
InputBegins ==
    /\ ApiStarts /\ connected
    /\ api' = "inputCheck"
    /\ UNCHANGED <<at, workerVars, certificate, events, connected, report, frame, stopper,
                   told, submitted>>

InputChecks ==
    /\ api = "inputCheck"
    /\ api' \in CASE instance = "ready" -> {"input"}
                  [] instance = "freed" -> {"input", "free"}
                  [] OTHER              -> {"free"}
    /\ UNCHANGED <<at, workerVars, certificate, events, connected, report, frame, stopper,
                   told, submitted>>

InputEnds ==
    /\ api = "input" /\ api' = "free"
    /\ UNCHANGED <<at, workerVars, certificate, events, connected, report, frame, stopper,
                   told, submitted>>

-----------------------------------------------------------------------------
(* stop(), statement by statement. Its owner has taken the session out of    *)
(* g_session under the mutex, so no short call is in progress.               *)
StopMoves(from, to) == stopper = from /\ stopper' = to

StopBegins ==
    /\ StopMoves("none", "certificate") /\ api = "free"
    /\ UNCHANGED <<at, workerVars, certificate, events, connected, report, frame, api, told,
                   submitted>>

(* Mutant: the decision is refused without certificateMutex.                 *)
StopRefusesUnlocked ==
    /\ StopMoves("certificate", "notify")
    /\ certificate' = IF certificate.waiting
                      THEN [certificate EXCEPT !.ready = TRUE, !.accepted = FALSE]
                      ELSE certificate
    /\ UNCHANGED <<at, workerVars, events, connected, report, frame, api, told, submitted>>

StopRefuses ==
    /\ StopMoves("certificate", "notify") /\ certificateMutexFree
    /\ certificate' = IF certificate.waiting
                      THEN [certificate EXCEPT !.ready = TRUE, !.accepted = FALSE]
                      ELSE certificate
    /\ UNCHANGED <<at, workerVars, events, connected, report, frame, api, told, submitted>>

StopNotifies ==
    /\ StopMoves("notify", "abortCheck") /\ NotifyAll
    /\ UNCHANGED <<workerVars, certificate, events, connected, report, frame, api, told,
                   submitted>>

StopChecksInstance ==
    /\ stopper = "abortCheck"
    /\ stopper' \in CASE instance = "ready" -> {"abort"}
                      [] instance = "freed" -> {"abort", "join"}
                      [] OTHER              -> {"join"}
    /\ UNCHANGED <<at, workerVars, certificate, events, connected, report, frame, api, told,
                   submitted>>

(* freerdp_abort_connect_context: see Fairness for what it is relied on for. *)
StopAborts ==
    /\ StopMoves("abort", "join")
    /\ UNCHANGED <<at, workerVars, certificate, events, connected, report, frame, api, told,
                   submitted>>

StopJoins ==
    /\ StopMoves("join", "joined") /\ at = "done"
    /\ UNCHANGED <<at, workerVars, certificate, events, connected, report, frame, api, told,
                   submitted>>

(* The session is destroyed after that.                                      *)
Destroyed == stopper = "joined" /\ UNCHANGED vars

-----------------------------------------------------------------------------
WorkerRuns ==
    \/ NewInstance \/ NoInstance \/ Leaves \/ ContextReady \/ ContextFails
    \/ PushesPrompt \/ ChecksDecision \/ GoesToSleep \/ ReportsOk \/ LoopStops
    \/ Disconnects \/ Announces \/ GoesOffline \/ ClearsFrame \/ FreesInstance

DialReturns == PostConnects \/ DialSucceeds \/ RetriesRdpOnly \/ ConnectFails

NetworkActs == AsksForDecision \/ WaitTimesOut \/ Paints \/ LoopFails

ApiGoesOn == SubmitNotifies \/ InputChecks \/ InputEnds

ApiSteps ==
    \/ Poll \/ InputBegins \/ ApiGoesOn
    \/ \E i \in Ids, d \in {"accept", "reject"} : Submit(i, d)

StopGoesOn ==
    StopRefuses \/ StopNotifies \/ StopChecksInstance \/ StopAborts \/ StopJoins

Next ==
    \/ WorkerRuns \/ DialReturns \/ NetworkActs
    \/ ApiSteps \/ StopBegins \/ StopGoesOn \/ Destroyed

Spec == Init /\ [][Next]_vars

(* Threads run. A connect attempt returns once a stop was asked for (it is   *)
(* aborted, or its own timeouts end it); left alone it need not return, the  *)
(* 90 seconds of a certificate question need not pass, the app need not poll *)
(* or answer, and no connection need break.                                  *)
Fairness ==
    /\ WF_vars(WorkerRuns)
    /\ WF_vars(stopRequested /\ DialReturns)
    /\ WF_vars(ApiGoesOn)
    /\ WF_vars(StopGoesOn)

FairSpec == Spec /\ Fairness

-----------------------------------------------------------------------------
(* A certificate counts as trusted only if the app accepted the request made *)
(* for it, and not an older one, and did not take that back.                 *)
TrustNeedsAcceptance == trust = "trusted" => submitted[Id] = "accept"

(* While the worker waits for a decision the app has been told of that very  *)
(* request or can still poll it.                                             *)
PromptReachesApp ==
    at \in {"check", "unsatisfied", "asleep"} =>
        /\ certificate.waiting /\ certificate.id = Id
        /\ Queued(Prompt(Id)) \/ Prompt(Id) \in told

(* The short calls that only test connected rely on what it promises: the    *)
(* connect is over, has not failed and asks nothing, and there is an instance*)
(* to send to. (There need not be a frame: getFrameInfo looks.)              *)
ConnectedHasInstance ==
    connected => /\ instance = "ready" /\ ~certificate.waiting
                 /\ report \in {None, RC_OK}

(* A frame that is there stays as long as the session is connected, so a copy*)
(* that finds none was overtaken by the end of the session: cleanup() clears *)
(* it only after connected, and no paint or resize takes it away.            *)
FrameStaysWhileConnected == [][connected /\ frame # "none" => frame' # "none"]_vars

(* When run() is over nothing of the connection is left, nobody waits for a  *)
(* decision, and whoever waits for the result of the connect has it.         *)
DoneIsClean ==
    at = "done" => /\ instance = "null" /\ ~connected /\ frame = "none"
                   /\ ~certificate.waiting /\ report # None

(* A connection that broke is announced, unless its owner stopped it, and    *)
(* nothing is announced after that.                                          *)
Closed == {"offline", "clearFrame", "freeContext", "freeInstance", "forget", "done"}
Announced(e) == e.type = "SESSION_DISCONNECTED" /\ e.code # RC_OK

LossIsAnnounced ==
    /\ at \in Closed /\ lossCode # None /\ ~stopRequested =>
           \E e \in Events : Announced(e) /\ (Queued(e) \/ e \in told)
    /\ \A i \in DOMAIN events : events[i].type = "SESSION_DISCONNECTED" =>
           /\ at \in Closed /\ i = Len(events) /\ Announced(events[i])
           /\ ~\E e \in told : e.type = "SESSION_DISCONNECTED"

(* A connect that fails after the app's last word on its last certificate was*)
(* to reject it reports just that, whatever error FreeRDP recorded and       *)
(* whichever of the two attempts failed. (A retry whose settings cannot be   *)
(* applied reports an invalid argument before it looks.)                     *)
RejectIsReported ==
    submitted[Id] = "reject" /\ report \notin {None, RC_OK} =>
        report \in {RC_CERTIFICATE_REJECTED, RC_INVALID_ARGUMENT}

(* The result of a connect is given once.                                    *)
ReportsOnce == [][report # None => report' = report]_vars

(* stop() ends the worker wherever it is, also asleep in a certificate wait, *)
(* without the wait's timeout.                                               *)
StopEndsWorker == stopRequested ~> stopper = "joined"

(* A decision the app submits ends the wait for it, without the timeout.     *)
AnswerIsHeard ==
    \A i \in Ids : submitted[i] # "none" ~> ~(certificate.waiting /\ certificate.id = i)

(* run() keeps the contract that the owners of sessions rely on.             *)
abstractWorker ==
    CASE at \in {"boot", "context", "dial", "push", "check", "unsatisfied", "asleep",
                 "dialed"} -> "dialing"
      [] at = "up"   -> "up"
      [] at = "loop" -> "online"
      [] at = "done" -> "exited"
      [] OTHER       -> "closing"

Contract == INSTANCE SessionContract WITH
    worker <- abstractWorker, Outcomes <- ConnectFailureCodes

KeepsContract == Contract!Spec

-----------------------------------------------------------------------------
(* FINAL_SPEC.md: a failed connect has a readable error. So the code that    *)
(* reports it is an error code.                                              *)
FailedConnectIsError == at = "offline" /\ ~connected => report < 0

(* README.md: Reject ends the connection. So there is none if the last       *)
(* decision on the last certificate was to reject it.                        *)
RefusalEndsConnect == connected => submitted[Id] # "reject"

(* docs/ARCHITECTURE.md: the RdpContext is protected by the global mutex. So *)
(* who uses it with that mutex held, or as its owner, uses a live one.       *)
UsesLiveContext == api = "input" \/ stopper = "abort" => instance = "ready"
=============================================================================
