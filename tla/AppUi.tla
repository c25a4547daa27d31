------------------------------- MODULE AppUi --------------------------------
(***************************************************************************)
(* AppRoot.kt over the JNI bridge: what the user clicks, the coroutines    *)
(* that make the JNI calls and set the status, and the loop that polls the *)
(* session's events.                                                       *)
(*                                                                         *)
(* All of AppRoot's own code runs on the main thread, one piece at a time; *)
(* the JNI calls in it run on Dispatchers.IO. A click on Connect or        *)
(* Disconnect starts a coroutine: it sets the status, makes its call       *)
(* and, when the call has returned, sets the status again, whatever has    *)
(* happened meanwhile. Here each coroutine is a caller of SessionLifecycle,*)
(* used once. The bridge's short calls are single steps (UseIsProtected in *)
(* SessionLifecycle is why they can be).                                   *)
(*                                                                         *)
(* The activity is recreated when it was closed or when a configuration    *)
(* changes it does not handle itself: AppRoot starts afresh and its        *)
(* coroutines are cancelled, but a JNI call runs on, and the bridge and its*)
(* session live in the process.                                            *)
(***************************************************************************)
EXTENDS SessionLifecycle, Sequences

CONSTANTS
    MaxRecreations,     \* bound: how often the activity is recreated
    MaxRequests         \* bound: certificate requests of all sessions

ASSUME BoundsAssumption  == MaxRecreations \in Nat /\ MaxRequests \in Nat
ASSUME CallersAreOrdered == Callers \subseteq Nat

VARIABLES
    (* one per session, beside SessionLifecycle's *)
    queue,       \* pendingEvents
    asking,      \* the certificate request its worker waits for, 0 for none
    loss,        \* "none", "lost": the connection broke, "announced"
    (* of the app *)
    requests,    \* g_certificateRequestCounter
    screen,      \* currentScreen
    status,      \* sessionState.status
    job,         \* where each coroutine is
    pollLoop,    \* where the poll loop is
    event,       \* what it has polled
    recreations, \* how often the activity was recreated
    strays,      \* calls of pollEvent that an earlier activity left behind
    overtaken    \* the status may lie: see StatusIsTrue

sessionExtras == <<queue, asking, loss>>
loopVars      == <<pollLoop, event>>
uiVars == <<screen, status, job, loopVars, recreations, strays, overtaken>>
allVars == <<vars, sessionExtras, requests, uiVars>>

-----------------------------------------------------------------------------
Prompt(id) == [type |-> "CERTIFICATE_PROMPT", id |-> id]
Loss       == [type |-> "SESSION_DISCONNECTED", id |-> 0]
NoEvent    == [type |-> "null", id |-> 0]

Screens  == {"CONNECTION", "SESSION"}
Statuses == {"IDLE", "CONNECTING", "CONNECTED", "DISCONNECTING", "DISCONNECTED", "ERROR"}

(* A coroutine that is to make its call, waits for it, or has made it; and,  *)
(* of one that is cancelled, the call it has begun and that runs on          *)
Jobs == {"none", "connect", "connectCalled", "disconnect", "disconnectCalled", "done",
         "strayConnect", "strayDisconnect"}

(* No coroutine is under way, and no call that a cancelled one left behind.  *)
Quiet == \A c \in Callers : job[c] \in {"none", "done"} /\ pc[c] = "idle"

(* What pollEvent can return when r requests were made                       *)
Events(r) == {Loss} \cup {Prompt(id) : id \in 1 .. r}

ExtrasTyped ==
    /\ queue \in [Sessions -> Seq(Events(requests))]
    /\ asking \in [Sessions -> 0 .. requests]
    /\ loss \in [Sessions -> {"none", "lost", "announced"}]
    /\ requests \in Nat

AppTyped ==
    /\ screen \in Screens /\ status \in Statuses
    /\ job \in [Callers -> Jobs]
    /\ pollLoop \in {"poll", "handle", "snackbar"}
    /\ event \in {NoEvent} \cup Events(requests)
    /\ recreations \in 0 .. MaxRecreations /\ strays \in 0 .. recreations
    /\ overtaken \in BOOLEAN

UiTypeOK == TypeOK /\ ExtrasTyped /\ AppTyped

UiInit ==
    /\ Init
    /\ queue = [s \in Sessions |-> <<>>]
    /\ asking = [s \in Sessions |-> 0]
    /\ loss = [s \in Sessions |-> "none"]
    /\ requests = 0
    /\ screen = "CONNECTION" /\ status = "IDLE"
    /\ job = [c \in Callers |-> "none"]
    /\ pollLoop = "poll" /\ event = NoEvent
    /\ recreations = 0 /\ strays = 0 /\ overtaken = FALSE

-----------------------------------------------------------------------------
(* What a step of the bridge does to the extras: they go with their session. *)
Survive ==
    /\ queue' = [s \in Sessions |-> IF Live(s)' THEN queue[s] ELSE <<>>]
    /\ asking' = [s \in Sessions |-> IF Live(s)' THEN asking[s] ELSE 0]
    /\ loss' = [s \in Sessions |-> IF Live(s)' THEN loss[s] ELSE "none"]
    /\ UNCHANGED requests

Becomes(c, phase) == job' = [job EXCEPT ![c] = phase]

-----------------------------------------------------------------------------
(* The user                                                                  *)
(* Which coroutine the next click starts                                     *)
NextJob(c) == job[c] = "none" /\ \A d \in Callers : d < c => job[d] # "none"

(* From here on the status may be wrong, if a call is in flight whose result *)
(* is still to come, or an event has been polled and not yet been handled, or*)
(* will be polled for nobody; it is trusted again if none is the case.       *)
Click == overtaken' = (~Quiet \/ pollLoop = "handle" \/ strays # 0)

(* A valid configuration: the screen changes and the coroutine starts. (That *)
(* the connection is saved too, and that an invalid one changes nothing, is  *)
(* in RecentConnections.)                                                    *)
ClickConnect(c) ==
    /\ screen = "CONNECTION" /\ NextJob(c)
    /\ screen' = "SESSION" /\ status' = "CONNECTING"
    /\ Becomes(c, "connect") /\ Click
    /\ UNCHANGED <<vars, sessionExtras, requests, loopVars, recreations, strays>>

(* onDisconnect and onBack                                                   *)
ClickDisconnect(c) ==
    /\ screen = "SESSION" /\ status # "DISCONNECTING" /\ NextJob(c)
    /\ screen' = "CONNECTION" /\ status' = "DISCONNECTING"
    /\ Becomes(c, "disconnect") /\ Click
    /\ UNCHANGED <<vars, sessionExtras, requests, loopVars, recreations, strays>>

(* Where cancellation leaves a coroutine: a block that withContext has begun  *)
(* on Dispatchers.IO is not interrupted, and makes its calls.                *)
Cancelled(phase, begun) ==
    CASE phase = "connect" /\ begun                     -> "strayConnect"
      [] phase = "disconnect" /\ begun                  -> "strayDisconnect"
      [] phase \in {"none", "strayConnect", "strayDisconnect"} -> phase
      [] OTHER                                          -> "done"

(* Everything remembered in the composition is gone, an event that was polled*)
(* and not handled with it. The calls that have begun run on, and their      *)
(* results reach nobody: the poll loop's call too, which may take an event   *)
(* with it (StrayPolls) or, in the hands of the prompt, still answer it (as  *)
(* StopsAsking does, whose answer the model does not tell apart).            *)
ActivityRecreated ==
    /\ recreations < MaxRecreations /\ recreations' = recreations + 1
    /\ screen' = "CONNECTION" /\ status' = "IDLE"
    /\ \E begun \in SUBSET Callers :
          job' = [c \in Callers |-> Cancelled(job[c], c \in begun)]
    /\ \/ UNCHANGED strays
       \/ pollLoop = "poll" /\ strays' = strays + 1
    /\ pollLoop' = "poll" /\ event' = NoEvent
    /\ overtaken' = TRUE
    /\ UNCHANGED <<vars, sessionExtras, requests>>

-----------------------------------------------------------------------------
(* The coroutines                                                            *)
Ending(s) == worker[s] \in {"closing", "exited"}

(* RdpNativeBridge.connect: ensureInitialized, then nativeConnect. A config  *)
(* that passed the validator is never an invalid argument.                   *)
Initializes(c) ==
    /\ job[c] \in {"connect", "strayConnect"} /\ ~initialized
    /\ NativeInit(c) /\ Survive
    /\ UNCHANGED uiVars

(* A coroutine that was cancelled does not wait for its call.                *)
ConnectCalls(c) ==
    /\ initialized
    /\ \/ job[c] = "connect" /\ Becomes(c, "connectCalled")
       \/ job[c] = "strayConnect" /\ Becomes(c, "done")
    /\ \E t \in Targets :
          ConnectBegins(c, t) \/ (ConnectRefused(c, t) /\ result'[c] # RC_INVALID_ARGUMENT)
    /\ Survive
    /\ overtaken' = (overtaken \/ (result'[c] = RC_ALREADY_CONNECTED /\ Ending(ptr[G])))
    /\ UNCHANGED <<screen, status, loopVars, recreations, strays>>

DisconnectCalls(c) ==
    /\ \/ job[c] = "disconnect" /\ Becomes(c, "disconnectCalled")
       \/ job[c] = "strayDisconnect" /\ Becomes(c, "done")
    /\ DisconnectTakes(c) \/ DisconnectRefused(c)
    /\ Survive
    /\ UNCHANGED <<screen, status, loopVars, recreations, strays, overtaken>>

CallGoesOn(c) == CallSteps(c) /\ Survive /\ UNCHANGED uiVars

(* Mutant: a connect that failed leaves the status as it was.                *)
ConnectResultSilent(c) ==
    /\ job[c] = "connectCalled" /\ pc[c] = "idle" /\ Becomes(c, "done")
    /\ status' = IF result[c] >= 0 THEN "CONNECTED" ELSE status
    /\ UNCHANGED <<vars, sessionExtras, requests, screen, loopVars, recreations, strays,
                   overtaken>>

(* The call has returned: the rest of the coroutine. A loss that was polled  *)
(* before is still to be handled, after this.                                *)
ConnectResult(c) ==
    /\ job[c] = "connectCalled" /\ pc[c] = "idle" /\ Becomes(c, "done")
    /\ status' = IF result[c] >= 0 THEN "CONNECTED" ELSE "ERROR"
    /\ overtaken' = (overtaken \/ event = Loss)
    /\ UNCHANGED <<vars, sessionExtras, requests, screen, loopVars, recreations, strays>>

DisconnectResult(c) ==
    /\ job[c] = "disconnectCalled" /\ pc[c] = "idle" /\ Becomes(c, "done")
    /\ status' = IF result[c] >= 0 THEN "DISCONNECTED" ELSE "ERROR"
    /\ UNCHANGED <<vars, sessionExtras, requests, screen, loopVars, recreations, strays,
                   overtaken>>

-----------------------------------------------------------------------------
(* The poll loop                                                             *)
(* Mutant: the loop runs while the app is connecting only.                   *)
PollsConnecting ==
    /\ status = "CONNECTING"
    /\ pollLoop = "poll" /\ stateMutex = None /\ initialized
    /\ ptr[G] # None /\ queue[ptr[G]] # <<>>
    /\ pollLoop' = "handle" /\ event' = Head(queue[ptr[G]])
    /\ queue' = [queue EXCEPT ![ptr[G]] = Tail(@)]
    /\ UNCHANGED <<vars, asking, loss, requests, screen, status, job, recreations,
                   strays, overtaken>>

Polls ==
    /\ pollLoop = "poll" /\ stateMutex = None /\ initialized
    /\ ptr[G] # None /\ queue[ptr[G]] # <<>>
    /\ pollLoop' = "handle" /\ event' = Head(queue[ptr[G]])
    /\ queue' = [queue EXCEPT ![ptr[G]] = Tail(@)]
    /\ UNCHANGED <<vars, asking, loss, requests, screen, status, job, recreations,
                   strays, overtaken>>

(* The call of a loop that is gone takes an event, if there is one, with it. *)
StrayPolls ==
    /\ strays > 0 /\ strays' = strays - 1 /\ stateMutex = None
    /\ queue' = [s \in Sessions |->
                    IF s = ptr[G] /\ queue[s] # <<>> THEN Tail(queue[s]) ELSE queue[s]]
    /\ UNCHANGED <<vars, asking, loss, requests, screen, status, job, loopVars,
                   recreations, overtaken>>

(* Mutant: the prompt is taken off the queue and not decided.                *)
HandlesPromptRejecting ==
    /\ pollLoop = "handle" /\ event.type = "CERTIFICATE_PROMPT" /\ stateMutex = None
    /\ pollLoop' = "poll" /\ event' = NoEvent
    /\ UNCHANGED <<vars, sessionExtras, requests, screen, status, job, recreations,
                   strays, overtaken>>

(* Every certificate is accepted. The session that is in g_session by now    *)
(* takes the decision if it waits for that very request.                     *)
HandlesPrompt ==
    /\ pollLoop = "handle" /\ event.type = "CERTIFICATE_PROMPT" /\ stateMutex = None
    /\ pollLoop' = "poll" /\ event' = NoEvent
    /\ asking' = [s \in Sessions |->
                     IF s = ptr[G] /\ asking[s] = event.id THEN 0 ELSE asking[s]]
    /\ UNCHANGED <<vars, queue, loss, requests, screen, status, job, recreations,
                   strays, overtaken>>

(* Mutant: the user is told, and the status stays as it was.                 *)
HandlesLossKeepingStatus ==
    /\ pollLoop = "handle" /\ event = Loss /\ event' = NoEvent
    /\ pollLoop' = "snackbar"
    /\ UNCHANGED <<vars, sessionExtras, requests, screen, status, job, recreations,
                   strays, overtaken>>

(* An event that finds the app disconnecting is ignored. Else the status says*)
(* that the session is gone, with an error or without, and the loop waits    *)
(* until its snackbar was shown. A result that is still to come will say     *)
(* otherwise.                                                                *)
HandlesLoss ==
    /\ pollLoop = "handle" /\ event = Loss /\ event' = NoEvent
    /\ \/ /\ status = "DISCONNECTING"
          /\ pollLoop' = "poll" /\ UNCHANGED <<status, overtaken>>
       \/ /\ status # "DISCONNECTING"
          /\ status' \in {"ERROR", "DISCONNECTED"}
          /\ pollLoop' = "snackbar"
          /\ overtaken' = (overtaken \/ ~Quiet)
    /\ UNCHANGED <<vars, sessionExtras, requests, screen, job, recreations, strays>>

(* showSnackbar returns. Only SnackbarHost ends a snackbar, and it is part of*)
(* one screen only; the other coroutines' snackbars before this one, which   *)
(* are not modelled, end there too.                                          *)
SnackbarEnds ==
    /\ screen = "CONNECTION" /\ pollLoop = "snackbar" /\ pollLoop' = "poll"
    /\ UNCHANGED <<vars, sessionExtras, requests, screen, status, job, event, recreations,
                   strays, overtaken>>

-----------------------------------------------------------------------------
(* The workers                                                               *)
(* Mutant: the counter of requests stays behind.                             *)
AsksUncounted(s) ==
    /\ worker[s] = "dialing" /\ asking[s] = 0 /\ requests < MaxRequests
    /\ asking' = [asking EXCEPT ![s] = requests + 1]
    /\ queue' = [queue EXCEPT ![s] = Append(@, Prompt(requests + 1))]
    /\ UNCHANGED <<vars, loss, requests, uiVars>>

(* requestCertificateDecision: registers, pushes its event, waits            *)
Asks(s) ==
    /\ worker[s] = "dialing" /\ asking[s] = 0
    /\ requests < MaxRequests /\ requests' = requests + 1
    /\ asking' = [asking EXCEPT ![s] = requests + 1]
    /\ queue' = [queue EXCEPT ![s] = Append(@, Prompt(requests + 1))]
    /\ UNCHANGED <<vars, loss, uiVars>>

(* Refused: by the timeout or by stop()                                      *)
StopsAsking(s) ==
    /\ asking[s] # 0 /\ asking' = [asking EXCEPT ![s] = 0]
    /\ UNCHANGED <<vars, queue, loss, requests, uiVars>>

WorkerLoses(s) ==
    /\ WorkerLosesConnection(s)
    /\ loss' = [loss EXCEPT ![s] = "lost"]
    /\ UNCHANGED <<queue, asking, requests, uiVars>>

Announces(s) ==
    /\ worker[s] = "closing" /\ loss[s] = "lost" /\ ~stopRequested[s]
    /\ loss' = [loss EXCEPT ![s] = "announced"]
    /\ queue' = [queue EXCEPT ![s] = Append(@, Loss)]
    /\ UNCHANGED <<vars, asking, requests, uiVars>>

(* A connect fails that nobody has stopped, and reports 0 or 2: the caller   *)
(* will take that for success.                                               *)
FailsUnseen(s) ==
    /\ worker[s] = "dialing" /\ worker'[s] = "closing"
    /\ report'[s] >= 0 /\ ~stopRequested[s]

WorkerGoesOn(s) ==
    /\ asking[s] = 0
    /\ WorkerSteps(s)
    /\ worker[s] = "closing" => stopRequested[s] \/ loss[s] # "lost"
    /\ overtaken' = (overtaken \/ FailsUnseen(s))
    /\ UNCHANGED <<sessionExtras, requests, screen, status, job, loopVars, recreations,
                   strays>>

-----------------------------------------------------------------------------
User == ActivityRecreated \/ \E c \in Callers : ClickConnect(c) \/ ClickDisconnect(c)

JobSteps(c) ==
    \/ Initializes(c) \/ ConnectCalls(c) \/ DisconnectCalls(c) \/ CallGoesOn(c)
    \/ ConnectResult(c) \/ DisconnectResult(c)

PollLoopSteps == Polls \/ HandlesPrompt \/ HandlesLoss

UiNext ==
    \/ User \/ PollLoopSteps \/ SnackbarEnds \/ StrayPolls
    \/ \E c \in Callers : JobSteps(c)
    \/ \E s \in Sessions :
          Asks(s) \/ StopsAsking(s) \/ WorkerLoses(s) \/ Announces(s) \/ WorkerGoesOn(s)

UiSpec == UiInit /\ [][UiNext]_allVars

(* The app does not rest while one of its steps is possible. That is less     *)
(* than a fair share for every thread, and enough: nothing here goes round in*)
(* circles, as the clicks of a run are bounded, so in the end each thread has*)
(* had its turn or waits. A snackbar that SnackbarHost shows ends. Nothing is*)
(* assumed of the user; a worker need not finish its dial, nor a certificate *)
(* question time out, unless it is stopped.                                  *)
Progress ==
    \/ PollLoopSteps \/ SnackbarEnds
    \/ \E c \in Callers : JobSteps(c)
    \/ \E s \in Sessions :
          \/ stopRequested[s] /\ (StopsAsking(s) \/ WorkerGoesOn(s))
          \/ Announces(s)

UiFairSpec == UiSpec /\ WF_allVars(Progress)

-----------------------------------------------------------------------------
LossPending(s) ==
    \/ loss[s] = "lost"
    \/ \E i \in DOMAIN queue[s] : queue[s][i] = Loss
    \/ event = Loss

(* When things are quiet the status tells the truth: CONNECTED means that the*)
(* bridge's session reported success, and has not ended since unless the     *)
(* event that says so is on its way; any other status means that no session  *)
(* is online. It may lie only if a result or an event was overtaken: if a    *)
(* click came before the result of an earlier one, a loss during a call, if  *)
(* a session that was ending was found to be connected already, if a connect *)
(* that nobody stopped failed with a code that is not negative, or if the    *)
(* activity was recreated.                                                   *)
StatusIsTrue ==
    Quiet /\ ~overtaken =>
        IF status = "CONNECTED"
        THEN /\ ptr[G] # None /\ report[ptr[G]] = RC_OK
             /\ worker[ptr[G]] = "online" \/ LossPending(ptr[G])
        ELSE /\ status \notin {"CONNECTING", "DISCONNECTING"}
             /\ ptr[G] # None => worker[ptr[G]] # "online"

(* The status does not stay CONNECTING or DISCONNECTING, however the calls   *)
(* overlap: the button of the session screen works again.                    *)
StatusSettles ==
    status \in {"CONNECTING", "DISCONNECTING"} ~>
        status \notin {"CONNECTING", "DISCONNECTING"}

(* No question is dropped between the worker and the user: while the bridge's*)
(* session asks, its prompt is queued, or the poll loop has it in hand and   *)
(* will answer. Only a recreated activity may have dropped it; the question  *)
(* then ends with its timeout.                                               *)
PromptIsOnItsWay ==
    LET s == ptr[G] IN
    s # None /\ asking[s] # 0 /\ recreations = 0 =>
        Prompt(asking[s]) \in {event} \cup {queue[s][i] : i \in DOMAIN queue[s]}

(* A loss of the bridge's session does not stay pending behind a status that *)
(* says CONNECTED (which StatusIsTrue allows): it is announced, polled and   *)
(* shown, whatever the loop was busy with, unless the activity is recreated  *)
(* or a snackbar hidden by the session screen holds up the loop. A session   *)
(* put in its place does not hide it: that takes a click, which changes the  *)
(* status.                                                                   *)
LossIsShown ==
    ptr[G] # None /\ loss[ptr[G]] = "lost" ~>
        \/ status # "CONNECTED" \/ recreations > 0
        \/ pollLoop = "snackbar" /\ screen = "SESSION"

(* README.md: when a session is lost the UI receives the event. So an event  *)
(* in the queue of the bridge's session does not stay there.                 *)
LossIsReceived ==
    \A s \in Sessions :
        ptr[G] = s /\ Loss \in {queue[s][i] : i \in DOMAIN queue[s]} ~>
            ptr[G] # s \/ Loss \notin {queue[s][i] : i \in DOMAIN queue[s]}
=============================================================================
