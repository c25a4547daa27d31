# phone_rdp: a TLA+ model of the session, from the screen to the worker thread

phone_rdp is an Android RDP client: a Compose app in Kotlin, a JNI bridge in
C++ (`app/src/main/cpp/native_bridge.cpp`) and FreeRDP underneath. All that is
hard in it happens in the bridge: JNI calls arrive on any thread of the app's IO
dispatcher, every session has a worker thread of its own, and a decision about a
server's certificate has to travel from the middle of a FreeRDP call up to the
app and back. Above it, the app's coroutines, loops and gestures race with all of
that. This directory holds TLA+ modules of both, the TLC configurations that check
them and TLAPS proofs about them.

Line numbers below are those of `native_bridge.cpp` unless another file is named.

## The system

| component | state | operations |
|---|---|---|
| JNI bridge | `g_initialized`, `g_session` (one `unique_ptr`), both under `g_stateMutex` | `nativeInit`, `nativeConnect`, `nativeDisconnect`, and the short calls: text, pointer, frame info, frame copy, poll, certificate decision |
| `RdpSession` | the connect's result, `stopRequested`, `connected`, the FreeRDP instance, the worker | `start`, `waitForConnectResult`, `stop`, `isTarget`; on the worker `run` and `cleanup` |
| certificate protocol | five fields under `certificateMutex`, a condition variable | `requestCertificateDecision` (worker), `submitCertificateDecision` (app), `stop` |
| event queue | `pendingEvents` under `eventMutex` | `pushEvent` (worker), `popEvent` (app) |
| frame buffer | pixels, size, stride and sequence number under `frameMutex` | `captureFrame`, `applyDesktopSizeFromSettings` (worker), `getFrameInfo`, `copyFrameToBitmap` (app) |
| input | none of its own; the FreeRDP instance under `ioMutex` | `sendText`, `sendPointerEvent` |
| `RdpNativeBridge.kt` | `initialized`, two path overrides | one function per JNI call; decodes events from JSON |
| `AppRoot.kt` | screen, active connection, session state, recent connections | connect and disconnect coroutines, poll loop (120 ms) |
| `SessionScreen.kt` | bitmap, last sequence number, zoom, scroll accumulator | frame loop (33 ms), gestures to pointer events |
| recent connections | encrypted preferences | `saveConnection`, `getRecentConnections`, the two use cases |
| validators, error texts, theme | none | stateless |
| FreeRDP, WinPR, OpenSSL | vendored headers and binaries | `freerdp_connect` and friends |

How they interact:

    AppRoot / SessionScreen  --Dispatchers.IO-->  RdpNativeBridge  --JNI-->  bridge
    bridge   --unique_ptr g_session-->  RdpSession  --std::thread-->  run()
    run()    --freerdp_connect-->  FreeRDP  --callback-->  requestCertificateDecision
    worker   --pendingEvents-->  nativePollEvent  -->  AppRoot's poll loop
    AppRoot  --nativeSubmitCertificateDecision-->  certificateCv  -->  worker
    stop()   --flag, event, condition variable, abort-->  worker, then join

What is hard:

- **Ownership across threads.** `nativeConnect` has three critical sections and
  two long waits between them; it moves the old session out, publishes a new one,
  then waits on a raw pointer to it. Other calls run in every gap. Publishing
  may destroy a session that another call published meanwhile, with the mutex held.
- **Ending a thread.** `stop()` joins without a timeout, so some step of it must
  reach the worker wherever it is: in `freerdp_connect`, asleep in the certificate
  wait, about to fall asleep, in the event loop.
- **A wait with three ways out**: an answer, 90 seconds, a stop, in any order,
  while answers to older questions may still arrive.
- **Two connect attempts** that share one set of certificate flags and one result.
- **Losing a connection**: four ways out of the loop, a disconnect that can fail
  too, a code that may still be zero by then, and one event that must say so.
- **The freed instance**: `cleanup()` frees what others test under `ioMutex`.
- **Results that arrive late.** A click starts a coroutine that sets the status
  before and after its call; clicks overlap, events are handled in between, the
  activity is recreated under a call that goes on.
- **One loop for prompts and losses**, which a snackbar on another screen holds up.
- **Two calls per frame**, with paints, resizes and the end of the session between.
- **A coroutine per pointer event**, in any order, and gestures that are restarted.
- **Three copies of one list**: on the screen, in memory, on the disk.

What makes each part correct:

- *bridge*: each session has one owner; it is freed after its thread ended; calls
  that use `g_session` use a live session nobody is stopping; nothing outlives
  the calls but the session in `g_session`; every call returns.
- *certificate protocol*: a certificate is trusted only after the app accepted
  that very request; the app can always learn of the request that waits; an
  answer is heard; a stop is heard.
- *worker*: one result; no result is forgotten; `connected` means there is
  something to use, and a frame, once there, stays as long; a loss is announced
  once, with an error; nothing is left.
- *frame buffer*: what the screen keeps is one frame, whole and in its size; the
  last frame is shown in the end.
- *app*: when things are quiet the status says what the bridge has; it does not
  stay between two states; no prompt is dropped; a loss is received and shown.
- *pointer input*: a click is not parted, a scroll is not lost, an event goes to the
  pixel under the finger.
- *recent connections*: five at most, each once, newest first, also after a
  restart; what a card offers can be connected.

## Modules

| module | what it is |
|---|---|
| `RdpCodes` | result codes, `mapFreeRdpError`, `shouldRetryWithRdpOnly` |
| `SessionLifecycle` | the bridge: JNI calls of several threads over `g_session`; workers as far as the calls can see them |
| `MCSessionLifecycle` | its instances for TLC |
| `SessionLifecycleProofs` | its theorems |
| `SessionContract` | abstract: what one worker promises to its owner |
| `RdpSession` | one session in detail: worker, short calls, `stop()`; shown to implement `SessionContract` |
| `RdpSessionProofs` | its theorems |
| `FrameChannel` | one session's frames, from FreeRDP's buffer to the bitmap on the screen |
| `MCFrameChannel`, `FrameChannelProofs` | its instance for TLC; its theorems |
| `AppUi` | `AppRoot.kt` over the bridge: extends `SessionLifecycle` by queues, coroutines, poll loop and screens |
| `MCAppUi`, `AppUiProofs` | its instances for TLC; its theorems |
| `PointerInput` | from the finger on `SessionScreen.kt` to the mouse events on the wire |
| `MCPointerInput`, `PointerInputProofs` | its instance for TLC; its theorems |
| `RecentConnections` | connection form, use cases and the repository behind the list of cards |
| `MCRecentConnections`, `RecentConnectionsProofs` | its instance for TLC; its theorems |

`SessionLifecycle` and `RdpSession` meet in `SessionContract`. The worker actions of
`SessionLifecycle` are the contract's actions, per session (the two modules state
them with the same guards and effects), and `RdpSession` is checked against the
contract, fairness included, so what `SessionLifecycle` takes for granted of a
worker is what the detailed one delivers. In the other direction `RdpSession`
assumes that the short calls come one at a time and that `stop()` runs when
none is in progress; `SessionLifecycle` shows it (`UseIsProtected`,
`PublishedIsNotStopping`).

### SessionLifecycle

A session is the heap address it lives at, so an address can be used again: the
comparison of raw pointers at line 1345 and the wait through a raw pointer at line
1340 are modelled with everything that implies. `ptr` maps every `unique_ptr` (the
global one, and per call `oldSession`, `newSession` and the one a session is taken
into to be ended) to an address.

| action | code |
|---|---|
| `NativeInit` | `nativeInit`, 1277-1279 |
| `ConnectRefused`, `ConnectBegins` | argument check and first critical section, 1302-1320 |
| `StopOld`, `JoinOld` | `oldSession->stop()`, 1323: its first statement; its join |
| `CreateAndStart`, `StartFails` | 1326-1334 |
| `Publish`, `StopDisplaced`, `JoinDisplaced` | 1335-1338; the destructor the assignment runs |
| `Waits` | `waitForConnectResult`, 1340 |
| `Reap`, `StopTaken`, `JoinTaken` | 1342-1352, and the same two in `nativeDisconnect` |
| `Returns` | the destructor of `oldSession` |
| `DisconnectRefused`, `DisconnectTakes` | 1364-1374 |
| `UseBegins`, `UseEnds` | the six short calls, which hold the mutex from beginning to end |
| `Worker...` | `run()` as the contract has it |

A critical section without a wait in it is one step. Where a thread holds
`g_stateMutex` across steps (a short call, a publish that displaces a session)
the variable `stateMutex` says so, and every step that locks it requires it
free. `stop()` is two steps: the flag is set; the worker is joined.
`waitForConnectResult` reads memory that may be freed: the outcome is then any code.
That the process may die there is not modelled: the invariants and `CallsReturn`
speak of the runs in which it survives, and `WaitsOnOwnSession` shows that the wait
on freed memory is reachable at all.

The vendored `freerdp_connect` may fail with any code; `Outcomes` is a constant and
the proofs hold for every subset of the codes.

### RdpSession

`at` is the worker's position in `run()`, `stopper` the owner's in `stop()`, `api`
that of the one short call in progress. Everything else is a field of
`RdpSession`, plus what is needed to state properties: `trust` (the verdict the
current attempt's certificate got), `told` (events the app has polled) and
`submitted` (the last decision accepted per request).

| action | code |
|---|---|
| `NewInstance`, `NoInstance`, `Leaves`, `ContextReady`, `ContextFails` | 1056-1086 |
| `AsksForDecision`, `PushesPrompt`, `ChecksDecision`, `GoesToSleep`, `WaitTimesOut` | `requestCertificateDecision`: register, push, test the predicate, fall asleep, time out |
| `PostConnects` | the callback inside `freerdp_connect`: a frame, if the settings have a size |
| `DialSucceeds`, `RetriesRdpOnly`, `ConnectFails`, `ReportsOk` | 1088-1133 |
| `Paints`, `LoopStops`, `LoopFails` | 1141-1189 and the paint callbacks |
| `Disconnects`, `Announces` | 1191-1219 |
| `GoesOffline`, `ClearsFrame`, `FreesInstance` | `cleanup()`: the flag, then the frame, then context, instance, pointer |
| `Poll`, `Submit`, `SubmitNotifies`, `InputBegins`, `InputChecks`, `InputEnds` | the short calls |
| `StopBegins` ... `StopJoins` | `stop()` statement by statement |

The wait at line 580 is modelled as a condition variable is: the predicate is tested
(`ChecksDecision`), and if it is false the worker goes to sleep (`GoesToSleep`), a
second step; `notify_all` puts a sleeping worker back to the test and does nothing
to one that is not asleep. Between the two steps the worker holds
`certificateMutex`, and only that keeps `stop()` and an answer from changing the
predicate there (`certificateMutexFree`): without the lock at line 491 the wake-up is
lost, the worker sleeps on, and `StopEndsWorker` fails (its mutant is that).
`applyDesktopSizeFromSettings` may find no session or no size and then leaves the
frame as it is (620-631), so a session can be connected without a frame.

Of FreeRDP it is assumed that a connect does not succeed over a certificate that
was refused, that plain RDP security asks about none, and that after a refusal the
attempt asks no further question. Which error a failed attempt records is open.
Request ids count from 2, because the id 1 stands for one an earlier session used
and the app may still answer. A decision that is not for the waiting request changes
nothing (`RC_INVALID_ARGUMENT`) and has no step.

### AppUi

`AppUi` composes the app with the bridge: it EXTENDS `SessionLifecycle` and its
actions are conjunctions of that module's actions with what happens to the app's
variables and to three more fields per session (`queue`, `asking`, `loss`). Every
coroutine a click starts is one caller of `SessionLifecycle`, used once, so its JNI
call interleaves there step by step; `Survive` drops the queue of a session that is
destroyed. Line numbers are those of `AppRoot.kt`.

| action | code |
|---|---|
| `ClickConnect`, `ClickDisconnect` | the buttons and the start of their coroutines, up to the JNI call |
| `Initializes`, `ConnectCalls`, `DisconnectCalls`, `CallGoesOn` | `ensureInitialized` and the calls on the IO dispatcher |
| `ConnectResult`, `DisconnectResult` | what the coroutine does with the code that came back |
| `Polls`, `HandlesPrompt`, `HandlesLoss` | one round of the poll loop, 170-215 |
| `StrayPolls` | a `pollEvent` that runs on after its loop was cancelled, and takes an event with it |
| `SnackbarEnds` | the suspended `showSnackbar` returns, on the screen that has a `SnackbarHost` |
| `ActivityRecreated` | composition starts afresh; coroutines are cancelled; blocks begun on the IO dispatcher go on |
| `Asks`, `StopsAsking`, `WorkerLoses`, `Announces`, `WorkerGoesOn` | the session, as the app can see it |

`withContext(Dispatchers.IO)` does not interrupt a block it has begun. When the
activity is recreated, a coroutine whose block has begun but has not come to its
native call yet (it is in `ensureInitialized`, or waits for `g_stateMutex`) therefore
still makes that call, and its result reaches nobody: its job is then
`strayConnect` or `strayDisconnect`. Which blocks have begun is open.

`overtaken` is a history variable for `StatusIsTrue`: some ways to a wrong status
exist in the code, were met while modelling, and are excepted by name: clicks that
overlap; a loss handled while a call is in progress; a connect answered
`ALREADY_CONNECTED` by a session that is ending; an event polled before a connect's
result and handled after it; a connect that fails, with nobody stopping it, and
reports 2 or 0 (finding 2); a recreated activity. The property says that there are no
others, and so it does not catch those: the hazards at these lines that `PROJECT.json`
lists are exceptions, not results. A click and the start of its coroutine are one
step, as both run on the main thread and nothing of the app can tell them apart.
Snackbars that other coroutines show do not hold up the loop and are left out. A
library that does not load, and the codes `runCatching` makes of a Kotlin exception,
are not modelled.

### FrameChannel

`frame` is the buffer under `frameMutex` with its sequence number, `gdi` the size of
FreeRDP's own buffer, which `desktopResize` does not change. `getFrameMeta` and
`Copied` are the two calls of a round of the frame loop (`SessionScreen.kt:102-127`).
`PostConnects` and `desktopResize` may leave the frame as it is, and a connect may
fail after its callback made one. The content of a frame is the number of the write
that made it, so a bitmap that mixes two frames can be told from one that shows a
whole one. When the status changes the loop is cancelled but a copy it has asked for
runs on in its IO thread and is finished beside the next loop (`StrayCopy`).

### PointerInput

| action | code |
|---|---|
| `FingerDown`, `FingersUp`, `LongPress` | `detectTapGestures` and its callbacks, `SessionScreen.kt:160-169` |
| `Transform` | the callback of `detectTransformGestures`, 170-182, with its loop over the accumulator |
| `FrameShown`, `Recompose` | a new `frameMeta`; the restart of detectors whose keys changed |
| `Leave` | the screen is left, its scope cancelled |
| `nativeSendPointerEvent`, `ButtonDown`, `ButtonUp`, `Wheel`, `SendFails` | one coroutine's call under `g_stateMutex` and `ioMutex` (`native_bridge.cpp:783`, `1399`) |
| `FindsNoInstance`, `GoesOffline` | the instance is gone when `ioMutex` is got (789-791); the session goes offline |

`wire` is what the server gets, with the call each message is of. Any one send may
fail, whatever the others do: also only the release of a click, which then is the
one way a button can stay pressed. `panned` counts what the fingers panned, for
`ScrollIsConserved`. Both axes are mapped alike, so one is modelled. The
detectors of Compose are external: they hear a touch from its first finger on, and
a restarted one waits for the next. The app sends no `MOVE` events.

### RecentConnections

The list is kept three times: on the screen (`recent`), in the process's copy of the
preferences (`memory`) and on the disk, where `apply()` brings it later (`Applied`).
`ClickConnect` is the whole click: validation, `SaveRecentConnectionUseCase` with its
upsert, limit, encoding and write, and the list read back. `ActivityRecreated` and
`ProcessDies` start again from memory and from disk. The encrypted preferences may
fail to open, once per repository; a repository without them keeps nothing. Texts are
model values, and the one distinction the code makes between them, blank or not, is
`NoText`; an absent domain, `Null`, is none of them. `Kept` is what Kotlin's filters
leave of a list, written as a recursive function over positions because nothing can be
proved of `SelectSeq`, whose definition is recursive; an assumption of
`MCRecentConnections` has TLC compare the two. The in-memory repository of the tests
is the same upsert without a disk; the reset after a text that cannot be decoded needs
a text this code never wrote.

## Runs

| run | question | bounds | result |
|---|---|---|---|
| `lifecycle` | safety of ownership | 2 calling threads, 4 addresses, 2 targets, 2 failure codes, symmetry | holds, about 0.9 million states |
| `lifecycle_live` | do calls return and stopped sessions end | 2 threads, 2 addresses, 1 target, 1 failure code | holds |
| `lifecycle_wait` | does a call wait on its own session | 2 threads, 2 addresses | violated |
| `session` | certificate protocol, loss, clean end, contract | 2 certificate questions | holds, about 41 000 states |
| `session_success` | a failed connect reports an error | 1 question | violated |
| `session_reject` | a rejected certificate ends the connect | 1 question | violated |
| `session_input` | is the context used alive | 1 question | violated |
| `frames` | what the screen shows | 3 sizes, 4 writes | holds, about 80 000 states |
| `ui` | is the status true, does it settle, are prompts dropped, is a loss shown | 2 clicks, 2 addresses, 1 request, 1 recreation, 2 failure codes | holds, about 590 000 states |
| `ui_loss` | is a loss received | 3 clicks, 1 address | violated |
| `pointer` | clicks, scrolls, aim | 2 events, 1 frame, 2 zooms, 2 desktop widths | holds, about 286 000 states |
| `recents` | the list | lists of 2, 4 saves, 3 identities and forms that are invalid | holds, about 67 000 states |

*Bounds.* Two calling threads are enough for every pair of steps to interleave, and
three do not add a new kind of step: a call meets other calls through `g_session`
and the mutex. A call holds at most two sessions, so with two threads four
addresses never run out (`AddressesSuffice` in `MCSessionLifecycle` is the invariant
to check when these numbers are changed), while the reuse
of an address happens because a freed one is as good as a fresh one. With two
targets a call can find its own target or another one. `lifecycle_live` uses two
addresses and so reuses them; a call that finds none free can only take
`StartFails`, which is always possible. It has no symmetry, which would be unsound for
liveness. Two certificate questions let an
answer to the first meet the wait for the second, and let a question follow
the stale id; the queue never holds more than the prompts and one disconnect event.

`frames` has two sizes of which neither contains the other and one that
both contain: a copy can clip in either direction. Four writes let
the frame change twice between the two calls of a round and once more after it.
`ui` has two clicks, so that any two coroutines overlap, and a session can be
replaced while the loop holds an event of it. Its failed connects report a code that
callers take for a failure or one that they take for success (`TwoOutcomes`: a negative
one and 2; 0, which is taken as 2 is, and every other set of codes are left to the
theorem `StatusTellsTheTruth`). It has one request, so two sessions never ask in turn; an
answer in the hands of the loop while another session has taken the bridge and asks is
covered by the theorem `PromptsStayOnTheirWay`, for any number of requests. `ui_loss`
needs three clicks: a loss, seen on the session screen, has to be followed by another
connect. In `pointer` two
events are what it takes to part a click; pans lie below and above the threshold, one
of them two notches long, in both directions, so that what is left over is carried
across a change of direction; `AimIsNear` looks at every place in the box for each
frame and zoom that is reached. `recents` fills a list of two
twice over, which is what the limit of five and more than five saves would do.
The theorems remove the bounds for the properties they state.

*Deadlock* is checked in `session` (a session whose owner joined it stutters), in
`lifecycle`, `lifecycle_live`, `frames` and `recents`. In `ui`, `ui_loss` and `pointer`
the user's clicks and events are bounded, so a quiet app with nothing left to do is no
error.

What the properties say:

- `UniqueOwner`: no dangling `unique_ptr`, no two for one session, none lost.
- `NoThreadOnFreedSession`: a freed session has no running worker.
- `PublishedIsNotStopping`: nobody is inside `stop()` of the session in `g_session`.
- `UseIsProtected`: while a short call runs, the session it uses stays.
- `QuiescentSingle`: between calls, the only worker is that of `g_session`.
- `CallsReturn`, `StoppedSessionsEnd`: no `join` waits for ever.
- `TrustNeedsAcceptance`: trusted means the app accepted this very request, last.
- `PromptReachesApp`: the request that waits is in the queue or polled.
- `ConnectedHasInstance`: `connected` implies a usable instance, no question that
  waits and no failure reported.
- `FrameStaysWhileConnected`: a frame does not go away before `connected` does.
- `DoneIsClean`: nothing is left and the result was given, on all six ways out.
- `LossIsAnnounced`: a loss nobody asked for is announced, once, last, not as OK.
- `RejectIsReported`: a connect that fails after a refusal says that it was refused.
- `ReportsOnce`: a result, once given, does not change.
- `StopEndsWorker`, `AnswerIsHeard`: the worker hears a stop and an answer, both
  without help of the 90 second timeout.
- `KeepsContract`: `RdpSession` refines `SessionContract`.
- `SkipIsSafe`: a round that copies nothing leaves the current frame, whole, on the
  screen. `LastFrameShown`: a screen that stays gets the frame that stays.
- `StatusIsTrue`: see `AppUi`. `StatusSettles`: no CONNECTING for ever.
- `PromptIsOnItsWay`: no question of the bridge's session is dropped by the app.
  It says nothing once the activity was recreated.
- `LossIsShown`: CONNECTED does not outlive a lost connection, except behind a snackbar
  that the session screen hides (finding 5).
- `ClicksArePaired`: press and release reach the server together, whatever races,
  unless that very release could not be sent.
- `ScrollIsConserved`: the notches that were launched, sent or not, and what is left
  of the pan make up the whole pan.
- `AimIsNear`: off by what the padding covers, and one pixel, at most.
- `SendsEnd`: no event stays in the bridge, also when sending fails.
- `StoresMostRecent`, `ShowsStored`, `CardsConnect`: the list, its copies, its use.

*Fairness.* Weak fairness of a thread's next step: threads are scheduled. Strong
fairness of the two steps that take `g_stateMutex` in the middle of `nativeConnect`:
other calls may take it again and again, and a mutex that is released
infinitely often is eventually got. `Waits` is always enabled, because
`waitForConnectResult` has a timeout. No fairness for: making a call, the
app polling or answering, the 90 second timeout, a connect attempt nobody stopped,
a connection breaking. A connect attempt returns *once a stop was asked for*: the
abort or FreeRDP's own timeouts see to it. The abort alone would not do (line 501
skips it if the worker has not made the context yet).
In `FrameChannel` the frame loop polls (weak), and a copy that is tried again and
again is not refused by Android for ever (strong fairness of the copy that succeeds);
a stray copy, the worker and the status are free. In `AppUi`
one weak fairness of all the steps of the app together is enough (`Progress`): the
clicks of a run are bounded and nothing goes round in circles, so an app that does not
rest gives each coroutine, the poll loop, a visible snackbar, a session that was
stopped and a loss to be announced their turn; the user, the network and the activity
are free. In
`PointerInput` the coroutines run; nobody need touch the screen.

## Findings

The violated runs state what the repository's documents say and TLC shows a
behaviour of the code that differs:

1. `WaitsOnOwnSession`: `nativeConnect` waits on a session that a disconnect during
   the connect destroys. The app's button allows that.
2. `FailedConnectIsError`: a failed connect whose FreeRDP error maps to
   `RC_NOT_CONNECTED` (2) or `RC_OK` is reported as a non-negative code, and the app
   shows it as connected.
3. `RefusalEndsConnect`: a rejected certificate can be followed by a plain RDP
   attempt that succeeds, if FreeRDP records the refusal as a failed TLS connect.
4. `UsesLiveContext`: `cleanup()` frees the context without the mutex the users of
   the context hold.
5. `LossIsReceived`: a loss on the session screen suspends the poll loop in
   `showSnackbar`, and that screen has no `SnackbarHost`; connect again soon enough and
   no event of the new session is polled.

Met while modelling, and not a matter of a run because the model is written the
way the code is:

6. The documents describe a certificate dialog with `Trust Once` and `Reject`;
   the poll loop accepts every request itself (`AppRoot.kt:178`, `HandlesPrompt`).
7. Both gesture detectors are keyed with `frameMeta`, whose equality includes the
   sequence number, and with `zoom`. Each new frame and the first step of each pinch
   restarts them, and the rest of the touch is lost (`SessionScreen.kt:160`,
   `Recompose`), where `README.md:115` of the repository asks that taps, long presses
   and scrolls take effect.
8. `README.md:116` asks for text from the soft keyboard; nothing calls `sendTextInput`.
9. No document says it, but a reader of `PointerInput` should know: the wheel's
   rotation is a nine-bit two's complement and the code sends sign and magnitude, so
   a notch down arrives as -136 and a notch up as 120 (`Rotation`); and every
   place is off by the padding of 2 dp, which the detectors' box includes and
   `surfaceSize` does not (`AimIsNear`).

## What is proved

With TLAPS, for every value of the constants: every invariant the passing runs check
is a theorem. The assumptions are the named ones of
the modules: `None` is no code, caller, address, target or number; `Outcomes` are codes
the bridge has; sizes are positive; bounds are natural numbers, the limit of the list is
not 0; a blank text is a text, an absent domain is not. No theorem has a hypothesis
of its own.

**`SessionLifecycleProofs`**: the type invariant, `UniqueOwner`,
`NoThreadOnFreedSession`, `PublishedIsNotStopping`, `QuiescentSingle` and
`UseIsProtected`, for any sets of callers, addresses, targets and failure codes.
No one of these invariants is inductive by itself. `UniqueOwner` alone does not say that
a move goes into an empty pointer, for which one has to know where each call is and
which of its pointers are null there; `NoThreadOnFreedSession` needs that what is
destroyed was joined, hence that a joined worker stays joined, also while
`oldSession` waits for the end of the call. So the invariant is

    IInv == TypeOK /\ UniqueOwner /\ PcInv /\ JoinedInv /\ NoThreadOnFreedSession /\ StopInv

where `PcInv` says for each position of a call which of its pointers hold a session
and whether it holds the mutex, `JoinedInv` that past a join the worker has ended,
and `StopInv` that only sessions taken out of `g_session` are being stopped. Each
conjunct is shown to be kept by every action in a lemma of its own (`TypeStep`,
`OwnerStep`, `PcStep`, `StopStep`, `ThreadStep`), and the three things a step can do
to ownership, moving, destroying and creating, have a lemma each
(`MoveKeepsOwners`, `DestroyKeepsOwners`, `CreateKeepsOwners`, with
`DisplaceKeepsOwners` for the assignment that does two at once).

**`RdpSessionProofs`**: the type invariant and all the other safety properties of the
run `session` (`TrustNeedsAcceptance`, `PromptReachesApp`, `ConnectedHasInstance`,
`FrameStaysWhileConnected`, `DoneIsClean`, `LossIsAnnounced`, `RejectIsReported`,
`ReportsOnce`), and that every step is a step of `SessionContract` or a stutter, for
any number of certificate questions. The properties speak of a few places in `run()`
each; the invariant adds what the way there has set up:

    IInv == TypeOK /\ CertificateInv /\ InstanceInv /\ ConnectionInv /\ ReportInv /\ LossInv
            /\ TrustNeedsAcceptance /\ PromptReachesApp /\ RejectIsReported /\ LossIsAnnounced

`CertificateInv` is the heart of it: while the worker waits, the five fields belong to
its own request, an acceptance in them was submitted for it, a refusal has left
its mark in `rejectedByUser` (which the reset at the end of a wait must keep, for the
result is made of it later), and no decision exists for a request that was
not made yet. `InstanceInv`, `ConnectionInv` and `ReportInv` say where in `run()`
there is an instance, a connection, a result, and no frame; `LossInv` that no loss is recorded
before the loop and none told before it is announced. The step lemmas rest on
four that sort the steps by what they do to one part of the state (`OtherSteps`,
`QueueSteps`, `LossMoves`, `ResultIsSet`), so that each invariant is argued for the two
or three kinds of step that can disturb it, and on two about the queue
(`AppendQueues`, `PollTakesHead`).

**`FrameChannelProofs`**: the type invariant, which has it that a copy writes inside
the bitmap, and `SkipIsSafe`. While a copy is under way what will be remembered is
known already, so the invariant has to say that a `meta` which is still current has
the bitmap's size (`CopyInv`), that no number the app has seen is newer than the
frame's (`SeqInv`), and that none was seen before the session was connected (`DialInv`).

**`PointerInputProofs`**: `ClicksArePaired`, for any surface, zooms, pans, frames and
number of events. The property has a part for one message, `PressIsReleased`: the release
follows, or has failed, or is yet to be sent. It lets a press end the wire while its call is at
"pressed", and that is too weak to keep itself: nothing in it says that the next
message comes from that call. So

    IInv == TypeInv /\ OneCall /\ PressedInv /\ ClicksArePaired

has one call under way at a time (`OneCall`, what `g_stateMutex` gives), and the wire
ending in the press of the call that is at "pressed" (`PressedInv`), which makes
the message of `ButtonUp` its release. Steps that touch neither the wire nor a call
under way, whatever fingers, frames and screens do, are sorted out by `QuietKeeps`;
`SilentKeeps` covers entering a call and failing in it; the three sending steps have a
lemma each.

The type invariant, `ScrollIsConserved` and `AimIsNear` are kept by a second
invariant, `ScreenInv == TypeInv /\ TypeOK /\ FrameInv /\ ScrollIsConserved`, where
`FrameInv` says that a frame shown has one of the sizes, and that no event is sent
before there is one. `AimIsNear` follows from it: `PointIsNear` is the arithmetic, a
bound on a product of the place, the zoom and the frame's size that is rounded down,
argued by inequalities between products (`Distributes`, `ProductsKeepOrder`) as the
prover does not multiply variables. For `ScrollIsConserved` the launched turns are
counted as sets of positions, so that a launch adds its positions to one set
(`AddsTurns`) and everything else leaves both as they are (`FieldsStayTurns`);
`RestIsWhatIsLeft` is the loop over the accumulator.

**`AppUiProofs`**: first `AppUsesBridge`, that `AppUi` implements `SessionLifecycle`, so
all that is proved of the bridge holds as the app drives it; then the type invariant,
`PromptIsOnItsWay` and `StatusIsTrue`. The invariant builds on the bridge's:

    AppInv == IInv /\ WorkerInv /\ UiTypeOK /\ ExtrasInv /\ EventInv /\ PromptInv /\ JobInv

`WorkerInv` says what a worker has reported at each of its steps; `ExtrasInv` that a
freed session has no queue, question or loss and that only a worker on its way out
has lost its connection; `EventInv` that the poll loop holds an event only while it handles
it; `JobInv` ties a coroutine to the position of its call in the bridge. `PromptInv` is
`PromptIsOnItsWay` for a session which is not published yet as well, whose prompt nobody
can have polled: a session can be published after it asked. `StatusIsTrue` needs two
more: `AnswerInv`, that the published session has reported or the call that waits for
its report is still under way and will take it back, and `TrustInv`, which says for each
position of a single coroutine what the status will be told, and that no call of an
earlier activity is about.

`StatusTellsTheTruth` holds whatever codes failed connects report. The app takes a
code of 0 or more for a success, and a connect that failed may report one (finding
2). In `TrustInv` such a report exists only once the status counts as overtaken
(`FailsUnseen`) or its session was taken out of `g_session`: a session in there, or on
its way there, whose report is not negative has reported `RC_OK` and is online, or its
loss is told (`SoundSessions`). `SoundStep` shows that a step keeps this.

**`RecentConnectionsProofs`**: the type invariant, `StoresMostRecent`, `ShowsStored` and
`CardsConnect`, for any limit and any number of saves:

    RecentInv == TypeOK /\ OnlyValid /\ MemoryFollows /\ DiskFollows /\ ShowsStored

`OnlyValid` says that only what Connect accepts is stored or shown. Without it an entry
could be lost in the JSON text, and a list that was most recent would be read
back as another one; with it, what is written is what is read (`DecodeEncode`).
`MemoryFollows` and `DiskFollows` are the two halves of `StoresMostRecent`. Everything
else is one lemma, `UpsertIsMostRecent`: no identity has two last uses, so
an upsert takes at most one item out of the list (`KeptButOne`), the items in front of it
go down by one and those behind it stay; and that is what a new save does to
their ranks in the history (`NewRank`), also when the item that would leave was already
cut by the limit.

That lemma needs induction over the list. The library's induction theorems
take an operator and cannot be used; well-founded induction says the same of a
set (`Induction`: a set of numbers that has 0 and every successor is all of them),
and the recursive function in `Kept` is shown to exist by naming it
(`WithoutKeeps`) and to be that one by this induction (`KeepsIsWithout`).

Only model-checked: liveness (`CallsReturn`, `StoppedSessionsEnd`, `StopEndsWorker`,
`AnswerIsHeard`, `LastFrameShown`, `StatusSettles`, `LossIsShown`, `SendsEnd`) and
the fairness part of `KeepsContract`, as fairness and ENABLED are out of the prover's
reach; and the violated statements.

## What is not modelled

- The text of events: JSON encoding and decoding. An event is the record it stands
  for. (`jsonEscape`, line 274, does not pad the digits of a control character, so
  the event of a certificate that has one in its names is read wrongly, or refused by
  the parser and dropped; the models have no such certificate.)
- The characters of `sendText`, which the app never calls; when it may touch the
  instance is in `RdpSession`.
- A second session under one session screen, and a pointer event that is still on
  its way into the bridge when the next session begins.
- Error texts, theme, build: stateless, or no behaviour at all.
- `nativeInit`'s directories and environment variables.
- FreeRDP, WinPR, OpenSSL and Compose, except as what the code above can observe
  of them. Their headers, vendored under `jniLibs`, are the bulk of the
  repository's lines; its own code is about 2 700.
- How long anything takes; the 100 ms poll of the event loop only bounds a delay.

## Plan

Done in this order: `RdpCodes`, `SessionLifecycle` with its proofs,
`SessionContract`, `RdpSession`; then `FrameChannel` with its proofs, `AppUi`,
`RecentConnections`, `RdpSessionProofs`, `PointerInput` with its proof; then the other
invariants of `PointerInput`, `AppUiProofs` and `RecentConnectionsProofs`. What would come
next:

1. The safety half of the liveness arguments, as theorems: that a step which must be
   taken stays enabled until it is (`AnswerIsHeard`, `StopEndsWorker`), leaving
   only the fairness itself to TLC.
2. `SessionLifecycle`'s worker shown to be `SessionContract`'s, session by session, so that
   the composition stated in "Modules" is a theorem on both sides.
3. `AppUi` with `RdpSession` in place of the contract's worker for a single session, so
   that the prompt's way from the callback to the poll loop is in one module.
