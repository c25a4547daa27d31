---------------------------- MODULE PointerInput -----------------------------
(***************************************************************************)
(* From the finger on the session screen to the mouse events on the wire.  *)
(*                                                                         *)
(* The screen's gesture detectors call sendPointer, which maps the place to*)
(* the remote desktop and launches a coroutine per event; the coroutines   *)
(* call the bridge in any order, one at a time under g_stateMutex. The     *)
(* detectors are restarted whenever the frame or the zoom they were started*)
(* with changes, and a restarted detector waits for the next first finger. *)
(*                                                                         *)
(* One axis of the screen stands for both: the mapping treats them alike.  *)
(* Compose's detectors and FreeRDP's input queue are external. Lengths are *)
(* whole pixels and zooms whole factors, where the code has floats.        *)
(***************************************************************************)
EXTENDS Integers, Sequences, FiniteSets

CONSTANTS
    Width,         \* of the surface, inside its padding
    Padding,       \* on each side of it, inside the detectors' box
    Places,        \* where fingers come down in that box
    Zooms,         \* the zooms in 1 .. 3 that a pinch reaches
    Pans,          \* how far two fingers move between two touch events
    Sizes,         \* widths of the remote desktop
    MaxFrames,     \* bound: frames shown
    MaxSends       \* bound: events sent

ASSUME WidthAssumption == Width \in Nat \ {0} /\ Padding \in Nat
ASSUME PlacesAssumption == Places \subseteq 0 .. Width + 2 * Padding
ASSUME ZoomsAssumption == Zooms \subseteq 1 .. 3 /\ 1 \in Zooms
ASSUME PansAssumption == Pans \subseteq Int
ASSUME SizesAssumption == Sizes \subseteq Nat \ {0}
ASSUME BoundsAssumption == MaxFrames \in Nat /\ MaxSends \in Nat

VARIABLES
    frameMeta,     \* of the frame shown; no width before the first
    zoom,
    keys,          \* what the gesture detectors were started with
    touch,         \* the fingers on the screen, if any
    scrollAccumulator,
    panned,        \* all pans heard since there is a frame
    sends,         \* the coroutines, in the order of their launch
    shown,         \* the session screen is there
    connected,     \* of the session, as in RdpSession
    wire           \* the mouse events that reached the server

screenVars  == <<frameMeta, zoom, keys, touch, scrollAccumulator, panned, shown>>
vars == <<screenVars, sends, connected, wire>>

-----------------------------------------------------------------------------
NoFrame == [width |-> 0, sequence |-> 0]
NoTouch == [down |-> FALSE, heard |-> FALSE, tap |-> FALSE, at |-> 0]

Keys == [frame |-> frameMeta, zoom |-> zoom]

Deltas  == {-120, 0, 120}
Buttons == {"LEFT_CLICK", "RIGHT_CLICK"}
States  == {"launched", "calling", "pressed", "sent", "failed", "unreleased", "lost"}

ScreenTyped ==
    /\ frameMeta \in [width : {0} \cup Sizes, sequence : 0 .. MaxFrames]
    /\ zoom \in Zooms /\ keys \in [frame : [width : {0} \cup Sizes, sequence : 0 .. MaxFrames],
                                   zoom : Zooms]
    /\ touch \in [down : BOOLEAN, heard : BOOLEAN, tap : BOOLEAN, at : {0} \cup Places]
    /\ scrollAccumulator \in -23 .. 23 /\ panned \in Int
    /\ shown \in BOOLEAN /\ connected \in BOOLEAN

SendsTyped ==
    /\ Len(sends) <= MaxSends
    /\ \A i \in DOMAIN sends :
          /\ sends[i].action \in Buttons \cup {"SCROLL"} /\ sends[i].state \in States
          /\ sends[i].delta \in Deltas
          /\ \E w \in Sizes : sends[i].x \in 0 .. w - 1

Uint16       == 0 .. 65535
PointerFlags == 0 .. 1023

WireTyped == \A k \in DOMAIN wire : wire[k].x \in Uint16 /\ wire[k].flags \in PointerFlags

TypeOK == ScreenTyped /\ SendsTyped /\ WireTyped

Init ==
    /\ frameMeta = NoFrame /\ zoom = 1 /\ keys = Keys /\ touch = NoTouch
    /\ scrollAccumulator = 0 /\ panned = 0 /\ sends = <<>>
    /\ shown = TRUE /\ connected = TRUE /\ wire = <<>>

-----------------------------------------------------------------------------
(* toRemotePoint and sendPointer                                             *)
AtMost(n, bound) == IF n > bound THEN bound ELSE n

(* roundToInt of a / b: halves go up.                                        *)
Rounded(a, b) == (2 * a + b) \div (2 * b)

(* Mutant: the place is not divided by the zoom.                             *)
toRemotePointUnzoomed(at, z) ==
    AtMost(Rounded(AtMost(at, Width) * frameMeta.width, Width), frameMeta.width - 1)

toRemotePoint(at, z) ==
    AtMost(Rounded(AtMost(at, Width * z) * frameMeta.width, Width * z),
           frameMeta.width - 1)

(* n events of one kind, each in a coroutine of its own; none without a frame*)
sendPointer(action, at, z, delta, n) ==
    LET event == [action |-> action, x |-> toRemotePoint(at, z), delta |-> delta,
                  state |-> "launched"]
    IN  IF frameMeta = NoFrame THEN UNCHANGED sends
        ELSE /\ Len(sends) + n <= MaxSends
             /\ sends' = sends \o [k \in 1 .. n |-> event]

-----------------------------------------------------------------------------
(* The fingers                                                               *)
FingerDown(p) ==
    /\ shown /\ ~touch.down
    /\ touch' = [down |-> TRUE, heard |-> TRUE, tap |-> TRUE, at |-> p]
    /\ UNCHANGED <<frameMeta, zoom, keys, scrollAccumulator, panned, shown, sends,
                   connected, wire>>

(* onTap, if this was a tap and the detector heard all of it                 *)
FingersUp ==
    /\ touch.down /\ touch' = NoTouch
    /\ IF touch.heard /\ touch.tap THEN sendPointer("LEFT_CLICK", touch.at, zoom, 0, 1)
       ELSE UNCHANGED sends
    /\ UNCHANGED <<frameMeta, zoom, keys, scrollAccumulator, panned, shown, connected, wire>>

(* onLongPress                                                               *)
LongPress ==
    /\ touch.down /\ touch.heard /\ touch.tap
    /\ touch' = [touch EXCEPT !.tap = FALSE]
    /\ sendPointer("RIGHT_CLICK", touch.at, zoom, 0, 1)
    /\ UNCHANGED <<frameMeta, zoom, keys, scrollAccumulator, panned, shown, connected, wire>>

threshold == 24

(* Mutant: the loop does not take off what it sends.                         *)
RestAll(s) == s

(* The rounds of the loop for a scroll of s pixels, and what it leaves of it *)
Rounds(s) == (IF s < 0 THEN -s ELSE s) \div threshold

(* Mutant: what is left over is thrown away.                                 *)
RestNone(s) == IF Rounds(s) > 0 THEN 0 ELSE s

Rest(s) == IF s < 0 THEN -(-s % threshold) ELSE s % threshold

(* The callback of detectTransformGestures: a movement is a zoom and a pan.  *)
Transform(z, dy) ==
    LET scrolled == scrollAccumulator + dy IN
    /\ touch.down /\ touch.heard
    /\ touch' = [touch EXCEPT !.tap = FALSE]
    /\ zoom' = z
    /\ scrollAccumulator' = Rest(scrolled)
    /\ sendPointer("SCROLL", touch.at, z, IF scrolled > 0 THEN -120 ELSE 120,
                   Rounds(scrolled))
    /\ panned' = IF frameMeta = NoFrame THEN Rest(scrolled) ELSE panned + dy
    /\ UNCHANGED <<frameMeta, keys, shown, connected, wire>>

-----------------------------------------------------------------------------
(* The screen                                                                *)
(* The frame loop (FrameChannel) has copied another frame.                   *)
FrameShown ==
    /\ shown /\ frameMeta.sequence < MaxFrames
    /\ \E w \in Sizes : frameMeta' = [width |-> w, sequence |-> frameMeta.sequence + 1]
    /\ UNCHANGED <<zoom, keys, touch, scrollAccumulator, panned, shown, sends, connected,
                   wire>>

(* Recomposition restarts the detectors; they miss the rest of this touch.   *)
Recompose ==
    /\ shown /\ keys # Keys
    /\ keys' = Keys /\ touch' = [touch EXCEPT !.heard = FALSE]
    /\ UNCHANGED <<frameMeta, zoom, scrollAccumulator, panned, shown, sends, connected, wire>>

(* The screen's scope is cancelled: what has not begun never will.           *)
Leave ==
    /\ shown /\ shown' = FALSE /\ touch' = NoTouch
    /\ sends' = [i \in DOMAIN sends |->
                    IF sends[i].state = "launched" THEN [sends[i] EXCEPT !.state = "lost"]
                    ELSE sends[i]]
    /\ UNCHANGED <<frameMeta, zoom, keys, scrollAccumulator, panned, connected, wire>>

-----------------------------------------------------------------------------
(* The coroutines: nativeSendPointerEvent with g_stateMutex and ioMutex held *)
(* Mutant: a call that fails keeps the mutex.                                *)
CallUnderwayFailed(i) == sends[i].state \in {"calling", "pressed", "failed", "unreleased"}

CallUnderway(i) == sends[i].state \in {"calling", "pressed"}

Becomes(i, from, to) ==
    /\ i \in DOMAIN sends /\ sends[i].state = from
    /\ sends' = [sends EXCEPT ![i].state = to]

(* Mutant: a call does not take the mutex.                                   *)
nativeSendUnlocked(i) ==
    /\ IF connected THEN Becomes(i, "launched", "calling") ELSE Becomes(i, "launched", "lost")
    /\ UNCHANGED <<screenVars, connected, wire>>

nativeSendPointerEvent(i) ==
    /\ \A j \in DOMAIN sends : ~CallUnderway(j)
    /\ IF connected THEN Becomes(i, "launched", "calling") ELSE Becomes(i, "launched", "lost")
    /\ UNCHANGED <<screenVars, connected, wire>>

(* cleanup() has freed the instance since connected was tested.              *)
FindsNoInstance(i) ==
    /\ ~connected /\ Becomes(i, "calling", "lost")
    /\ UNCHANGED <<screenVars, connected, wire>>

PTR_FLAGS_WHEEL          == 512
PTR_FLAGS_WHEEL_NEGATIVE == 256

WheelFlags(delta) ==
    PTR_FLAGS_WHEEL + AtMost(IF delta < 0 THEN -delta ELSE delta, 255)
        + (IF delta < 0 THEN PTR_FLAGS_WHEEL_NEGATIVE ELSE 0)

(* freerdp_input_send_mouse_event for coroutine i; flags are the wheel's only*)
Sends(i, kind, flags) ==
    wire' = Append(wire, [kind |-> kind, action |-> sends[i].action, flags |-> flags,
                          x |-> sends[i].x % 65536, by |-> i])

ButtonDown(i) ==
    /\ Becomes(i, "calling", "pressed")
    /\ sends[i].action \in Buttons /\ Sends(i, "down", 0)
    /\ UNCHANGED <<screenVars, connected>>

ButtonUp(i) ==
    /\ Becomes(i, "pressed", "sent")
    /\ Sends(i, "up", 0)
    /\ UNCHANGED <<screenVars, connected>>

Wheel(i) ==
    /\ Becomes(i, "calling", "sent")
    /\ sends[i].action = "SCROLL" /\ Sends(i, "wheel", WheelFlags(sends[i].delta))
    /\ UNCHANGED <<screenVars, connected>>

(* RC_INPUT_FAILURE: any one message may fail to be sent, also the release of*)
(* what was pressed, and the next may be sent.                               *)
SendFails(i) ==
    /\ Becomes(i, "calling", "failed") \/ Becomes(i, "pressed", "unreleased")
    /\ UNCHANGED <<screenVars, connected, wire>>

GoesOffline ==
    /\ connected /\ connected' = FALSE
    /\ UNCHANGED <<screenVars, sends, wire>>

-----------------------------------------------------------------------------
Call(i) ==
    \/ nativeSendPointerEvent(i) \/ FindsNoInstance(i)
    \/ ButtonDown(i) \/ ButtonUp(i) \/ Wheel(i) \/ SendFails(i)

Fingers ==
    \/ \E p \in Places : FingerDown(p)
    \/ FingersUp \/ LongPress
    \/ \E z \in Zooms, dy \in Pans : Transform(z, dy)

Next ==
    \/ Fingers \/ FrameShown \/ Recompose \/ Leave
    \/ \E i \in 1 .. MaxSends : Call(i)
    \/ GoesOffline

(* Coroutines of the IO dispatcher run. Nobody need touch the screen.        *)
Spec == Init /\ [][Next]_vars /\ \A i \in 1 .. MaxSends : WF_vars(Call(i))

-----------------------------------------------------------------------------
(* What becomes of a press, the k-th message: its release follows at once, or*)
(* has failed to be sent, or is yet to be sent.                              *)
PressIsReleased(k) ==
    \/ k < Len(wire) /\ wire[k + 1] = [wire[k] EXCEPT !.kind = "up"]
    \/ sends[wire[k].by].state = "unreleased"
    \/ k = Len(wire) /\ sends[wire[k].by].state = "pressed"

(* The server never holds a button that the app has let go: a press is       *)
(* followed at once by its release in the same place, whatever else is sent  *)
(* at the same time, unless the sending of that very release failed; and     *)
(* nothing is released that was not just pressed.                            *)
ClicksArePaired ==
    \A k \in DOMAIN wire :
        /\ wire[k].kind = "down" => PressIsReleased(k)
        /\ wire[k].kind = "up" => k > 1 /\ wire[k - 1] = [wire[k] EXCEPT !.kind = "down"]

(* A server sign-extends the nine bits of the rotation.                      *)
Rotation(flags) == LET r == flags % 512 IN IF r >= 256 THEN r - 512 ELSE r

Turns(Dir(_)) ==
    Cardinality({i \in DOMAIN sends :
        sends[i].action = "SCROLL" /\ Dir(Rotation(WheelFlags(sends[i].delta)))})

(* No pan is lost or counted twice over gestures, turns and cut gestures: the*)
(* notches launched, each in its direction, and what is kept for the next    *)
(* make up all that the fingers panned. (A notch counts also if it is then   *)
(* refused, or fails to be sent, or the screen is left before its call.)     *)
ScrollIsConserved ==
    panned = scrollAccumulator
             + threshold * (Turns(LAMBDA r : r < 0) - Turns(LAMBDA r : r > 0))

(* Wherever the finger is, and whatever frame and zoom the screen has come to*)
(* show, an event goes to the remote pixel under the finger, shifted by no   *)
(* more than what the padding covers at that zoom and by one pixel.          *)
AimIsNear ==
    frameMeta # NoFrame =>
        \A at \in 0 .. Width + 2 * Padding :
            LET scale == Width * zoom
                error == toRemotePoint(at, zoom) * scale - (at - Padding) * frameMeta.width
                bound == Padding * frameMeta.width + scale
            IN  -bound <= error /\ error <= bound

(* Every event sent ends: it is on the wire, refused or failed, and the mutex*)
(* is free for the next.                                                     *)
SendsEnd ==
    \A i \in 1 .. MaxSends :
        LET Underway == i \in DOMAIN sends
                        /\ sends[i].state \in {"launched", "calling", "pressed"}
        IN  Underway ~> ~Underway
=============================================================================
