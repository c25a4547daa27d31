------------------------- MODULE PointerInputProofs --------------------------
(***************************************************************************)
(* Clicks reach the server whole, for any surface, any places and zooms and*)
(* any number of events.                                                   *)
(*                                                                         *)
(* That the last message may be a press only while its call is at "pressed"*)
(* is not enough to keep it: the message that comes next must be of that   *)
(* very call (OneCall), and it must be the release of what was pressed     *)
(* (PressedInv).                                                           *)
(*                                                                         *)
(* A place on the screen is a pixel of the frame, and what the fingers     *)
(* panned is sent or still in the accumulator: both are facts about whole  *)
(* numbers, of the rounding (PointIsNear) and of the scroll loop           *)
(* (RestIsWhatIsLeft), kept by ScreenInv.                                  *)
(***************************************************************************)
EXTENDS PointerInput, FiniteSetTheorems, TLAPS

Event   == [action : Buttons \cup {"SCROLL"}, x : Int, delta : Int, state : States]
Message == [kind : {"down", "up", "wheel"}, action : Buttons \cup {"SCROLL"}, flags : Int,
            x : Int, by : Int]

TypeInv ==
    /\ sends \in Seq(Event) /\ wire \in Seq(Message)
    /\ \A k \in DOMAIN wire : wire[k].by \in DOMAIN sends
    /\ zoom \in Zooms /\ scrollAccumulator \in Int
    /\ frameMeta.width \in {0} \cup Sizes
    /\ touch.at \in Int

OneCall ==
    \A i, j \in DOMAIN sends : CallUnderway(i) /\ CallUnderway(j) => i = j

Press(i) == [kind |-> "down", action |-> sends[i].action, flags |-> 0,
             x |-> sends[i].x % 65536, by |-> i]

PressedInv ==
    \A i \in DOMAIN sends : sends[i].state = "pressed" =>
        Len(wire) > 0 /\ wire[Len(wire)] = Press(i)

IInv == TypeInv /\ OneCall /\ PressedInv /\ ClicksArePaired

-----------------------------------------------------------------------------
(* The scroll loop makes whole rounds and leaves a whole rest.               *)
LEMMA LoopEnds == \A s \in Int : Rounds(s) \in Nat /\ Rest(s) \in Int
  BY DEF Rounds, Rest, threshold

(* A place is mapped to a whole pixel.                                       *)
LEMMA PointIsWhole ==
    ASSUME NEW at \in Int, NEW z \in Zooms, TypeInv
    PROVE  toRemotePoint(at, z) \in Int
<1> DEFINE a == AtMost(at, Width * z) * frameMeta.width
           b == Width * z
<1>a. z \in Nat /\ z > 0
  BY ZoomsAssumption
<1>b. Width \in Nat /\ Width > 0
  BY WidthAssumption
<1>c. frameMeta.width \in Int
  <2>1. frameMeta.width \in {0} \cup Sizes
    BY DEF TypeInv
  <2>2. \A w \in Sizes : w \in Int
    BY SizesAssumption
  <2> QED
    BY <2>1, <2>2
<1>1. frameMeta.width \in Int /\ z \in Nat /\ z > 0 /\ Width \in Nat /\ Width > 0
  BY <1>a, <1>b, <1>c
<1>2. b \in Int /\ b > 0
  BY <1>1
<1>3. AtMost(at, Width * z) \in Int
  BY <1>2 DEF AtMost
<1>4. a \in Int
  BY <1>1, <1>3
<1> HIDE DEF a, b
<1>5. Rounded(a, b) \in Int
  BY <1>2, <1>4 DEF Rounded
<1> QED
  BY <1>1, <1>5 DEF toRemotePoint, AtMost, a, b

Launches ==
    /\ sends' \in Seq(Event) /\ Len(sends) <= Len(sends')
    /\ \A i \in DOMAIN sends : i \in DOMAIN sends' /\ sends'[i] = sends[i]
    /\ \A i \in DOMAIN sends' : i \in DOMAIN sends \/ sends'[i].state = "launched"

(* sendPointer only adds launched events.                                    *)
LEMMA SendLaunches ==
    ASSUME TypeInv, NEW action \in Buttons \cup {"SCROLL"}, NEW at \in Int, NEW z \in Zooms,
           NEW delta \in Int, NEW n \in Nat, sendPointer(action, at, z, delta, n)
    PROVE  Launches
<1> DEFINE event == [action |-> action, x |-> toRemotePoint(at, z), delta |-> delta,
                     state |-> "launched"]
           added == [k \in 1 .. n |-> event]
<1>1. CASE UNCHANGED sends
  BY <1>1 DEF TypeInv, Launches
<1>2. CASE sends' = sends \o added
  <2>1. event \in Event
    BY PointIsWhole DEF Event, States
  <2>2. added \in Seq(Event) /\ Len(added) = n /\ \A k \in 1 .. n : added[k] = event
    BY <2>1
  <2>3. event.state = "launched" /\ sends \in Seq(Event)
    BY DEF TypeInv
  <2> HIDE DEF event, added
  <2> QED
    BY <1>2, <2>2, <2>3 DEF Launches
<1> QED
  BY <1>1, <1>2 DEF sendPointer

-----------------------------------------------------------------------------
(* A new screen satisfies IInv.                                              *)
LEMMA InitInv == Init => IInv
  BY ZoomsAssumption
  DEF Init, IInv, TypeInv, OneCall, PressedInv, ClicksArePaired, NoFrame, NoTouch

-----------------------------------------------------------------------------
Release(m) == [m EXCEPT !.kind = "up"]

(* ClicksArePaired, with the release of a press as an operator.              *)
Paired ==
    \A k \in DOMAIN wire :
        /\ wire[k].kind = "down" =>
              \/ k < Len(wire) /\ wire[k + 1] = Release(wire[k])
              \/ sends[wire[k].by].state = "unreleased"
              \/ k = Len(wire) /\ sends[wire[k].by].state = "pressed"
        /\ wire[k].kind = "up" => k > 1 /\ wire[k - 1] = [wire[k] EXCEPT !.kind = "down"]

(* The two say the same, in a state and in the next.                         *)
LEMMA PairedIs == (ClicksArePaired <=> Paired) /\ (ClicksArePaired' <=> Paired')
  BY DEF ClicksArePaired, PressIsReleased, Paired, Release

(* The steps that leave the wire alone: an event that is added, or given up, *)
(* before its call has begun.                                                *)
Quiet ==
    /\ sends' \in Seq(Event) /\ DOMAIN sends \subseteq DOMAIN sends' /\ UNCHANGED wire
    /\ \A i \in DOMAIN sends' :
          sends'[i].state \in {"calling", "pressed"} => i \in DOMAIN sends /\ sends'[i] = sends[i]
    /\ \A i \in DOMAIN sends :
          sends[i].state \in {"pressed", "unreleased"} => sends'[i] = sends[i]

(* A quiet step keeps the three parts about sends and wire.                  *)
LEMMA QuietKeeps == IInv /\ Quiet => OneCall' /\ PressedInv' /\ ClicksArePaired'
<1> SUFFICES ASSUME IInv, Quiet PROVE OneCall' /\ PressedInv' /\ ClicksArePaired'
  OBVIOUS
<1>1. OneCall'
  BY DEF IInv, Quiet, OneCall, CallUnderway
<1>2. PressedInv'
  BY DEF IInv, Quiet, PressedInv, Press
<1>3. Paired'
  <2>1. /\ Paired /\ wire' = wire
        /\ \A k \in DOMAIN wire : wire[k].by \in DOMAIN sends
        /\ \A i \in DOMAIN sends :
              sends[i].state \in {"pressed", "unreleased"} => sends'[i] = sends[i]
    BY PairedIs DEF IInv, TypeInv, Quiet
  <2>2. ASSUME NEW k \in DOMAIN wire,
               sends[wire[k].by].state \in {"pressed", "unreleased"}
        PROVE  sends'[wire[k].by].state = sends[wire[k].by].state
    BY <2>1, <2>2
  <2> QED
    BY <2>1, <2>2 DEF Paired
<1> QED
  BY <1>1, <1>2, <1>3, PairedIs

(* What sendPointer adds is quiet.                                           *)
LEMMA LaunchesQuiet == Launches /\ UNCHANGED wire => Quiet
  BY DEF Launches, Quiet

(* The fingers only launch.                                                  *)
LEMMA FingersKeep == IInv /\ Fingers => IInv'
<1> SUFFICES ASSUME IInv, Fingers PROVE IInv'
  OBVIOUS
<1> USE DEF IInv
<1>1. touch.at \in Int /\ zoom \in Zooms /\ scrollAccumulator \in Int /\ sends \in Seq(Event)
  BY DEF TypeInv
<1>2. ASSUME NEW p \in Places, FingerDown(p) PROVE IInv'
  <2>1. Quiet
    BY <1>2, <1>1 DEF FingerDown, Quiet
  <2>2. p \in Int
    BY PlacesAssumption, WidthAssumption
  <2>3. TypeInv'
    BY <1>2, <2>2 DEF FingerDown, TypeInv
  <2> QED
    BY <2>1, <2>3, QuietKeeps
<1>3. CASE FingersUp
  <2>1. UNCHANGED sends \/ sendPointer("LEFT_CLICK", touch.at, zoom, 0, 1)
    BY <1>3 DEF FingersUp
  <2>2. Launches
    <3>1. CASE UNCHANGED sends
      BY <3>1, <1>1 DEF Launches
    <3>2. CASE sendPointer("LEFT_CLICK", touch.at, zoom, 0, 1)
      BY <3>2, <1>1, SendLaunches DEF Buttons
    <3> QED
      BY <2>1, <3>1, <3>2
  <2>3. Quiet
    BY <1>3, <2>2, LaunchesQuiet DEF FingersUp
  <2>4. TypeInv'
    BY <1>3, <2>2 DEF FingersUp, TypeInv, Launches, NoTouch
  <2> QED
    BY <2>3, <2>4, QuietKeeps
<1>4. CASE LongPress
  <2>a. sendPointer("RIGHT_CLICK", touch.at, zoom, 0, 1)
    BY <1>4 DEF LongPress
  <2>1. Launches
    BY <2>a, <1>1, SendLaunches DEF Buttons
  <2>2. Quiet
    BY <1>4, <2>1, LaunchesQuiet DEF LongPress
  <2>3. touch'.at \in Int
    BY <1>4, <1>1 DEF LongPress
  <2>4. TypeInv'
    BY <1>4, <2>1, <2>3 DEF LongPress, TypeInv, Launches
  <2> QED
    BY <2>2, <2>4, QuietKeeps
<1>5. ASSUME NEW z \in Zooms, NEW dy \in Pans, Transform(z, dy) PROVE IInv'
  <2>1. scrollAccumulator + dy \in Int
    BY <1>1, PansAssumption
  <2> DEFINE s == scrollAccumulator + dy
             d == IF s > 0 THEN -120 ELSE 120
  <2>2. d \in Int /\ Rounds(s) \in Nat /\ Rest(s) \in Int
    BY <2>1, LoopEnds
  <2>3. sendPointer("SCROLL", touch.at, z, d, Rounds(s))
    BY <1>5 DEF Transform
  <2>4. zoom' = z /\ scrollAccumulator' = Rest(s) /\ UNCHANGED <<frameMeta, wire>>
    BY <1>5 DEF Transform
  <2>5. touch'.at \in Int
    BY <1>5, <1>1 DEF Transform
  <2> HIDE DEF d, s
  <2>6. Launches
    BY <1>1, <2>2, <2>3, SendLaunches
  <2>7. Quiet
    BY <2>4, <2>6, LaunchesQuiet
  <2>8. TypeInv'
    BY <2>2, <2>4, <2>5, <2>6 DEF TypeInv, Launches
  <2> QED
    BY <2>7, <2>8, QuietKeeps
<1> QED
  BY <1>2, <1>3, <1>4, <1>5 DEF Fingers

(* So do the screen and the session.                                         *)
LEMMA ScreenKeeps ==
    IInv /\ (FrameShown \/ Recompose \/ Leave \/ GoesOffline \/ UNCHANGED vars) => IInv'
<1> SUFFICES ASSUME IInv,
                    FrameShown \/ Recompose \/ Leave \/ GoesOffline \/ UNCHANGED vars
             PROVE IInv'
  OBVIOUS
<1> USE DEF IInv
<1>1. CASE FrameShown
  <2>1. Quiet
    BY <1>1 DEF FrameShown, Quiet, TypeInv
  <2>2. frameMeta'.width \in {0} \cup Sizes
    BY <1>1 DEF FrameShown
  <2>3. TypeInv'
    BY <1>1, <2>2 DEF FrameShown, TypeInv
  <2> QED
    BY <2>1, <2>3, QuietKeeps
<1>2. CASE Recompose
  <2>1. Quiet
    BY <1>2 DEF Recompose, Quiet, TypeInv
  <2>2. touch'.at \in Int
    BY <1>2 DEF Recompose, TypeInv
  <2>3. TypeInv'
    BY <1>2, <2>2 DEF Recompose, TypeInv
  <2> QED
    BY <2>1, <2>3, QuietKeeps
<1>3. CASE Leave
  <2> DEFINE left(i) == IF sends[i].state = "launched" THEN [sends[i] EXCEPT !.state = "lost"]
                        ELSE sends[i]
  <2>1. sends \in Seq(Event) /\ sends' = [i \in DOMAIN sends |-> left(i)]
    BY <1>3 DEF Leave, TypeInv
  <2>a. \A i \in DOMAIN sends : sends[i] \in Event
    BY <2>1
  <2>2. \A i \in DOMAIN sends : left(i) \in Event
    BY <2>a DEF Event, States
  <2>3. \A i \in DOMAIN sends : left(i).state # "launched"
                               /\ (left(i).state # "lost" => left(i) = sends[i])
                               /\ (sends[i].state \in {"pressed", "unreleased"}
                                     => left(i) = sends[i])
    BY <2>1 DEF Event
  <2> HIDE DEF left
  <2>4. sends' \in Seq(Event) /\ DOMAIN sends' = DOMAIN sends
        /\ \A i \in DOMAIN sends : sends'[i] = left(i)
    BY <2>1, <2>2
  <2>5. Quiet
    BY <1>3, <2>3, <2>4 DEF Leave, Quiet
  <2>6. TypeInv'
    BY <1>3, <2>4 DEF Leave, TypeInv, NoTouch
  <2> QED
    BY <2>5, <2>6, QuietKeeps
<1>4. CASE GoesOffline
  <2>1. TypeInv' /\ Quiet
    BY <1>4 DEF GoesOffline, screenVars, TypeInv, Quiet
  <2> QED
    BY <2>1, QuietKeeps
<1>5. CASE UNCHANGED vars
  <2>1. TypeInv' /\ Quiet
    BY <1>5 DEF vars, screenVars, TypeInv, Quiet
  <2> QED
    BY <2>1, QuietKeeps
<1> QED
  BY <1>1, <1>2, <1>3, <1>4, <1>5

-----------------------------------------------------------------------------
(* What a step of coroutine i does to the coroutines.                        *)
LEMMA BecomesIs ==
    ASSUME TypeInv, NEW i, NEW from, NEW to \in States, Becomes(i, from, to)
    PROVE  /\ sends' \in Seq(Event) /\ DOMAIN sends' = DOMAIN sends
           /\ i \in DOMAIN sends /\ sends[i].state = from /\ sends'[i].state = to
           /\ sends'[i].action = sends[i].action /\ sends'[i].x = sends[i].x
           /\ \A j \in DOMAIN sends : j # i => sends'[j] = sends[j]
<1>1. sends \in Seq(Event) /\ i \in DOMAIN sends /\ sends[i].state = from
      /\ sends' = [sends EXCEPT ![i].state = to]
  BY DEF TypeInv, Becomes
<1>2. sends[i] \in Event
  BY <1>1
<1> DEFINE e == [sends[i] EXCEPT !.state = to]
<1>3. e \in Event /\ e.state = to /\ e.action = sends[i].action /\ e.x = sends[i].x
  BY <1>2 DEF Event
<1>4. sends' = [sends EXCEPT ![i] = e]
  BY <1>1
<1> HIDE DEF e
<1> QED
  BY <1>1, <1>3, <1>4

(* A step of coroutine i that sends nothing: if it had pressed a button, its *)
(* release has failed.                                                       *)
LEMMA SilentKeeps ==
    ASSUME IInv, NEW i, NEW from \in States, NEW to \in States \ {"pressed"},
           Becomes(i, from, to), UNCHANGED <<screenVars, wire>>,
           from # "unreleased", from = "pressed" => to = "unreleased",
           to = "calling" => \A j \in DOMAIN sends : ~CallUnderway(j)
    PROVE  IInv'
<1> USE DEF IInv
<1>1. /\ sends' \in Seq(Event) /\ DOMAIN sends' = DOMAIN sends
      /\ i \in DOMAIN sends /\ sends[i].state = from /\ sends'[i].state = to
      /\ \A j \in DOMAIN sends : j # i => sends'[j] = sends[j]
  BY BecomesIs
<1>2. TypeInv'
  BY <1>1 DEF TypeInv, screenVars
<1>3. OneCall'
  BY <1>1 DEF OneCall, CallUnderway
<1>4. PressedInv'
  BY <1>1 DEF PressedInv, Press
<1>5. Paired'
  BY <1>1, PairedIs DEF TypeInv, Paired
<1> QED
  BY <1>2, <1>3, <1>4, <1>5, PairedIs

(* A call begins when none is underway; an offline session refuses it, then  *)
(* or when it looks for the instance.                                        *)
LEMMA EntryKeeps ==
    ASSUME IInv, NEW i, nativeSendPointerEvent(i) \/ FindsNoInstance(i) PROVE IInv'
<1>1. CASE nativeSendPointerEvent(i) /\ connected
  BY <1>1, SilentKeeps DEF nativeSendPointerEvent, States
<1>2. CASE nativeSendPointerEvent(i) /\ ~connected
  BY <1>2, SilentKeeps DEF nativeSendPointerEvent, States
<1>3. CASE FindsNoInstance(i)
  BY <1>3, SilentKeeps DEF FindsNoInstance, States
<1> QED
  BY <1>1, <1>2, <1>3

(* A call that fails gives the mutex back; a press stays alone when its own  *)
(* release failed.                                                           *)
LEMMA FailKeeps == ASSUME IInv, NEW i, SendFails(i) PROVE IInv'
<1>1. CASE Becomes(i, "calling", "failed")
  BY <1>1, SilentKeeps DEF SendFails, States
<1>2. CASE Becomes(i, "pressed", "unreleased")
  BY <1>2, SilentKeeps DEF SendFails, States
<1> QED
  BY <1>1, <1>2 DEF SendFails

(* What is sent for coroutine i goes to the end of the wire.                 *)
LEMMA SendsIs ==
    ASSUME TypeInv, NEW i \in DOMAIN sends, NEW kind \in {"down", "up", "wheel"},
           NEW flags \in Int, Sends(i, kind, flags)
    PROVE  /\ wire' \in Seq(Message) /\ Len(wire') = Len(wire) + 1
           /\ \A k \in DOMAIN wire : wire'[k] = wire[k]
           /\ wire'[Len(wire) + 1] = [kind |-> kind, action |-> sends[i].action,
                                      flags |-> flags, x |-> sends[i].x % 65536, by |-> i]
<1> DEFINE m == [kind |-> kind, action |-> sends[i].action, flags |-> flags,
                 x |-> sends[i].x % 65536, by |-> i]
<1>1. sends \in Seq(Event) /\ wire \in Seq(Message) /\ wire' = Append(wire, m)
  BY DEF TypeInv, Sends
<1>2. sends[i] \in Event
  BY <1>1
<1>3. m \in Message
  BY <1>1, <1>2 DEF Event, Message
<1> HIDE DEF m
<1>4. wire' \in Seq(Message) /\ Len(wire') = Len(wire) + 1
      /\ (\A k \in DOMAIN wire : wire'[k] = wire[k]) /\ wire'[Len(wire) + 1] = m
  BY <1>1, <1>3
<1> QED
  BY <1>4 DEF m

(* When a call is about to send its first message, no other has pressed, so  *)
(* if the wire ends with a press, its release has failed.                    *)
LEMMA EndsWhole ==
    ASSUME IInv, NEW i \in DOMAIN sends, sends[i].state = "calling"
    PROVE  /\ Len(wire) > 0 /\ wire[Len(wire)].kind = "down" =>
                 sends[wire[Len(wire)].by].state = "unreleased"
           /\ \A j \in DOMAIN sends : sends[j].state # "pressed"
<1>1. \A j \in DOMAIN sends : sends[j].state # "pressed"
  BY DEF IInv, OneCall, CallUnderway
<1>2. /\ Paired /\ wire \in Seq(Message)
      /\ \A k \in DOMAIN wire : wire[k].by \in DOMAIN sends
  BY PairedIs DEF IInv, TypeInv
<1>3. ASSUME Len(wire) > 0, wire[Len(wire)].kind = "down"
      PROVE  sends[wire[Len(wire)].by].state = "unreleased"
  <2>1. Len(wire) \in DOMAIN wire /\ ~(Len(wire) < Len(wire))
    BY <1>2, <1>3
  <2> QED
    BY <1>1, <1>2, <1>3, <2>1 DEF Paired
<1> QED
  BY <1>1, <1>3

-----------------------------------------------------------------------------
(* A press: nothing else is underway, and the last message is no press.      *)
LEMMA DownKeeps == ASSUME IInv, NEW i, ButtonDown(i) PROVE IInv'
<1> USE DEF IInv
<1>1. Becomes(i, "calling", "pressed") /\ Sends(i, "down", 0)
      /\ UNCHANGED screenVars
  BY DEF ButtonDown
<1>2. /\ sends' \in Seq(Event) /\ DOMAIN sends' = DOMAIN sends
      /\ i \in DOMAIN sends /\ sends[i].state = "calling" /\ sends'[i].state = "pressed"
      /\ sends'[i].action = sends[i].action /\ sends'[i].x = sends[i].x
      /\ \A j \in DOMAIN sends : j # i => sends'[j] = sends[j]
  BY <1>1, BecomesIs DEF States
<1>3. /\ wire' \in Seq(Message) /\ Len(wire') = Len(wire) + 1
      /\ \A k \in DOMAIN wire : wire'[k] = wire[k]
      /\ wire'[Len(wire) + 1] = [kind |-> "down", action |-> sends[i].action,
                                 flags |-> 0, x |-> sends[i].x % 65536, by |-> i]
  BY <1>1, <1>2, SendsIs
<1>4. /\ Len(wire) > 0 /\ wire[Len(wire)].kind = "down" =>
            sends[wire[Len(wire)].by].state = "unreleased"
      /\ \A j \in DOMAIN sends : sends[j].state # "pressed"
  BY <1>2, EndsWhole
<1>5. TypeInv'
  <2>1. ASSUME NEW k \in DOMAIN wire' PROVE wire'[k].by \in DOMAIN sends'
    <3>1. CASE k \in DOMAIN wire
      BY <1>2, <1>3, <3>1 DEF TypeInv
    <3>2. CASE k = Len(wire) + 1
      BY <1>2, <1>3, <3>2
    <3> QED
      BY <1>3, <3>1, <3>2 DEF TypeInv
  <2> QED
    BY <1>1, <1>2, <1>3, <2>1 DEF TypeInv, screenVars
<1>6. OneCall'
  BY <1>2 DEF OneCall, CallUnderway
<1>7. PressedInv'
  <2>1. ASSUME NEW j \in DOMAIN sends', sends'[j].state = "pressed" PROVE j = i
    BY <2>1, <1>2, <1>4
  <2>2. Press(i)' = [kind |-> "down", action |-> sends[i].action,
                     flags |-> 0, x |-> sends[i].x % 65536, by |-> i]
    BY <1>2 DEF Press
  <2>3. Len(wire') > 0 /\ wire'[Len(wire')] = Press(i)'
    BY <1>3, <2>2 DEF TypeInv
  <2> QED
    BY <2>1, <2>3 DEF PressedInv
<1>8. Paired'
  <2>1. /\ Paired /\ wire \in Seq(Message)
        /\ \A k \in DOMAIN wire : wire[k].by \in DOMAIN sends
    BY PairedIs DEF TypeInv
  <2>2. wire'[Len(wire) + 1].kind = "down" /\ wire'[Len(wire) + 1].by = i
    BY <1>3
  <2> SUFFICES ASSUME NEW k \in DOMAIN wire'
               PROVE /\ wire'[k].kind = "down" =>
                           \/ k < Len(wire') /\ wire'[k + 1] = Release(wire'[k])
                           \/ sends'[wire'[k].by].state = "unreleased"
                           \/ k = Len(wire') /\ sends'[wire'[k].by].state = "pressed"
                     /\ wire'[k].kind = "up" =>
                           k > 1 /\ wire'[k - 1] = [wire'[k] EXCEPT !.kind = "down"]
    BY DEF Paired
  <2>3. CASE k = Len(wire) + 1
    BY <2>1, <2>2, <2>3, <1>2, <1>3
  <2>4. CASE k \in DOMAIN wire
    <3>1. wire'[k] = wire[k] /\ k \in 1 .. Len(wire) /\ Len(wire) \in Nat
      BY <2>1, <2>4, <1>3
    <3>2. wire[k].kind = "down" =>
             \/ k < Len(wire) /\ wire'[k + 1] = Release(wire[k])
             \/ sends[wire[k].by].state = "unreleased"
      <4>1. CASE k = Len(wire)
        BY <1>4, <4>1
      <4>2. CASE k < Len(wire)
        <5>1. k + 1 \in DOMAIN wire /\ wire'[k + 1] = wire[k + 1]
          BY <3>1, <4>2, <1>3
        <5> QED
          BY <2>1, <2>4, <4>2, <5>1, <1>4 DEF Paired
      <4> QED
        BY <3>1, <4>1, <4>2
    <3>3. sends[wire[k].by].state = "unreleased" => sends'[wire[k].by].state = "unreleased"
      BY <2>1, <2>4, <1>2
    <3>4. wire[k].kind = "up" => k > 1 /\ wire'[k - 1] = [wire[k] EXCEPT !.kind = "down"]
      BY <2>1, <3>1, <1>3 DEF Paired
    <3> QED
      BY <3>1, <3>2, <3>3, <3>4, <1>3
  <2> QED
    BY <2>1, <2>3, <2>4, <1>3
<1> QED
  BY <1>5, <1>6, <1>7, <1>8, PairedIs

(* A release: the last message is the press of this call.                    *)
LEMMA UpKeeps == ASSUME IInv, NEW i, ButtonUp(i) PROVE IInv'
<1> USE DEF IInv
<1>1. Becomes(i, "pressed", "sent") /\ Sends(i, "up", 0)
      /\ UNCHANGED screenVars
  BY DEF ButtonUp
<1>2. /\ sends' \in Seq(Event) /\ DOMAIN sends' = DOMAIN sends
      /\ i \in DOMAIN sends /\ sends[i].state = "pressed" /\ sends'[i].state = "sent"
      /\ \A j \in DOMAIN sends : j # i => sends'[j] = sends[j]
  BY <1>1, BecomesIs DEF States
<1>3. /\ wire' \in Seq(Message) /\ Len(wire') = Len(wire) + 1
      /\ \A k \in DOMAIN wire : wire'[k] = wire[k]
      /\ wire'[Len(wire) + 1] = [kind |-> "up", action |-> sends[i].action,
                                 flags |-> 0, x |-> sends[i].x % 65536, by |-> i]
  BY <1>1, <1>2, SendsIs
<1>4. Len(wire) > 0 /\ wire[Len(wire)] = Press(i)
  BY <1>2 DEF PressedInv
<1>5. TypeInv'
  <2>1. ASSUME NEW k \in DOMAIN wire' PROVE wire'[k].by \in DOMAIN sends'
    <3>1. CASE k \in DOMAIN wire
      BY <1>2, <1>3, <3>1 DEF TypeInv
    <3>2. CASE k = Len(wire) + 1
      BY <1>2, <1>3, <3>2
    <3> QED
      BY <1>3, <3>1, <3>2 DEF TypeInv
  <2> QED
    BY <1>1, <1>2, <1>3, <2>1 DEF TypeInv, screenVars
<1>6. OneCall'
  BY <1>2 DEF OneCall, CallUnderway
<1>7. PressedInv'
  <2>1. \A j \in DOMAIN sends' : sends'[j].state # "pressed"
    BY <1>2 DEF OneCall, CallUnderway
  <2> QED
    BY <2>1 DEF PressedInv
<1>8. Paired'
  <2>1. /\ Paired /\ wire \in Seq(Message)
        /\ \A k \in DOMAIN wire : wire[k].by \in DOMAIN sends
    BY PairedIs DEF TypeInv
  <2>2. /\ wire'[Len(wire) + 1] = Release(wire[Len(wire)])
        /\ wire[Len(wire)] = [wire'[Len(wire) + 1] EXCEPT !.kind = "down"]
    BY <1>3, <1>4 DEF Press, Release
  <2>3. wire'[Len(wire) + 1].kind = "up"
    BY <1>3
  <2> SUFFICES ASSUME NEW k \in DOMAIN wire'
               PROVE /\ wire'[k].kind = "down" =>
                           \/ k < Len(wire') /\ wire'[k + 1] = Release(wire'[k])
                           \/ sends'[wire'[k].by].state = "unreleased"
                     /\ wire'[k].kind = "up" =>
                           k > 1 /\ wire'[k - 1] = [wire'[k] EXCEPT !.kind = "down"]
    BY DEF Paired
  <2>4. CASE k = Len(wire) + 1
    <3>1. k - 1 \in DOMAIN wire /\ k - 1 = Len(wire) /\ k > 1
      BY <2>1, <2>4, <1>4
    <3>2. wire'[k - 1] = wire[Len(wire)]
      BY <3>1, <1>3
    <3> QED
      BY <2>2, <2>3, <2>4, <3>1, <3>2
  <2>5. CASE k \in DOMAIN wire
    <3>1. wire'[k] = wire[k] /\ k \in 1 .. Len(wire) /\ Len(wire) \in Nat
      BY <2>1, <2>5, <1>3
    <3>2. wire[k].kind = "down" =>
             \/ wire'[k + 1] = Release(wire[k])
             \/ sends[wire[k].by].state = "unreleased"
      <4>1. CASE k = Len(wire)
        BY <4>1, <2>2
      <4>2. CASE k < Len(wire)
        <5>1. k + 1 \in DOMAIN wire /\ wire'[k + 1] = wire[k + 1] /\ k # Len(wire)
          BY <3>1, <4>2, <1>3
        <5> QED
          BY <2>1, <2>5, <5>1 DEF Paired
      <4> QED
        BY <3>1, <4>1, <4>2
    <3>3. sends[wire[k].by].state = "unreleased" => sends'[wire[k].by].state = "unreleased"
      BY <2>1, <2>5, <1>2
    <3>4. wire[k].kind = "up" => k > 1 /\ wire'[k - 1] = [wire[k] EXCEPT !.kind = "down"]
      BY <2>1, <3>1, <1>3 DEF Paired
    <3> QED
      BY <3>1, <3>2, <3>3, <3>4, <1>3
  <2> QED
    BY <2>1, <2>4, <2>5, <1>3
<1> QED
  BY <1>5, <1>6, <1>7, <1>8, PairedIs

(* A turn of the wheel comes between no press and its release.               *)
LEMMA WheelKeeps == ASSUME IInv, NEW i, Wheel(i) PROVE IInv'
<1> USE DEF IInv
<1> DEFINE f == WheelFlags(sends[i].delta)
<1>1. Becomes(i, "calling", "sent") /\ Sends(i, "wheel", f)
      /\ UNCHANGED screenVars
  BY DEF Wheel
<1>2. /\ sends' \in Seq(Event) /\ DOMAIN sends' = DOMAIN sends
      /\ i \in DOMAIN sends /\ sends[i].state = "calling" /\ sends'[i].state = "sent"
      /\ \A j \in DOMAIN sends : j # i => sends'[j] = sends[j]
  BY <1>1, BecomesIs DEF States
<1>3. f \in Int
  <2>1. sends[i] \in Event
    BY <1>2 DEF TypeInv
  <2> QED
    BY <2>1 DEF Event, WheelFlags, AtMost, PTR_FLAGS_WHEEL, PTR_FLAGS_WHEEL_NEGATIVE
<1> HIDE DEF f
<1>4. /\ wire' \in Seq(Message) /\ Len(wire') = Len(wire) + 1
      /\ \A k \in DOMAIN wire : wire'[k] = wire[k]
      /\ wire'[Len(wire) + 1] = [kind |-> "wheel", action |-> sends[i].action,
                                 flags |-> f, x |-> sends[i].x % 65536, by |-> i]
  BY <1>1, <1>2, <1>3, SendsIs
<1>5. /\ Len(wire) > 0 /\ wire[Len(wire)].kind = "down" =>
            sends[wire[Len(wire)].by].state = "unreleased"
      /\ \A j \in DOMAIN sends : sends[j].state # "pressed"
  BY <1>2, EndsWhole
<1>6. TypeInv'
  <2>1. ASSUME NEW k \in DOMAIN wire' PROVE wire'[k].by \in DOMAIN sends'
    <3>1. CASE k \in DOMAIN wire
      BY <1>2, <1>4, <3>1 DEF TypeInv
    <3>2. CASE k = Len(wire) + 1
      BY <1>2, <1>4, <3>2
    <3> QED
      BY <1>4, <3>1, <3>2 DEF TypeInv
  <2> QED
    BY <1>1, <1>2, <1>4, <2>1 DEF TypeInv, screenVars
<1>7. OneCall' /\ PressedInv'
  BY <1>2, <1>5 DEF OneCall, CallUnderway, PressedInv
<1>8. Paired'
  <2>1. /\ Paired /\ wire \in Seq(Message)
        /\ \A k \in DOMAIN wire : wire[k].by \in DOMAIN sends
    BY PairedIs DEF TypeInv
  <2>2. wire'[Len(wire) + 1].kind = "wheel" /\ wire'[Len(wire) + 1].by = i
    BY <1>4
  <2> SUFFICES ASSUME NEW k \in DOMAIN wire'
               PROVE /\ wire'[k].kind = "down" =>
                           \/ k < Len(wire') /\ wire'[k + 1] = Release(wire'[k])
                           \/ sends'[wire'[k].by].state = "unreleased"
                           \/ k = Len(wire') /\ sends'[wire'[k].by].state = "pressed"
                     /\ wire'[k].kind = "up" =>
                           k > 1 /\ wire'[k - 1] = [wire'[k] EXCEPT !.kind = "down"]
    BY DEF Paired
  <2>3. CASE k = Len(wire) + 1
    BY <2>1, <2>2, <2>3, <1>2, <1>4
  <2>4. CASE k \in DOMAIN wire
    <3>1. wire'[k] = wire[k] /\ k \in 1 .. Len(wire) /\ Len(wire) \in Nat
      BY <2>1, <2>4, <1>4
    <3>2. wire[k].kind = "down" =>
             \/ k < Len(wire) /\ wire'[k + 1] = Release(wire[k])
             \/ sends[wire[k].by].state = "unreleased"
      <4>1. CASE k = Len(wire)
        BY <1>5, <4>1
      <4>2. CASE k < Len(wire)
        <5>1. k + 1 \in DOMAIN wire /\ wire'[k + 1] = wire[k + 1]
          BY <3>1, <4>2, <1>4
        <5> QED
          BY <2>1, <2>4, <4>2, <5>1, <1>5 DEF Paired
      <4> QED
        BY <3>1, <4>1, <4>2
    <3>3. sends[wire[k].by].state = "unreleased" => sends'[wire[k].by].state = "unreleased"
      BY <2>1, <2>4, <1>2
    <3>4. wire[k].kind = "up" => k > 1 /\ wire'[k - 1] = [wire[k] EXCEPT !.kind = "down"]
      BY <2>1, <3>1, <1>4 DEF Paired
    <3> QED
      BY <3>1, <3>2, <3>3, <3>4, <1>4
  <2> QED
    BY <2>1, <2>3, <2>4, <1>4
<1> QED
  BY <1>6, <1>7, <1>8, PairedIs

-----------------------------------------------------------------------------
(* Every step preserves IInv.                                                *)
LEMMA StepInv == IInv /\ [Next]_vars => IInv'
<1> SUFFICES ASSUME IInv, [Next]_vars PROVE IInv'
  OBVIOUS
<1>1. CASE Fingers
  BY <1>1, FingersKeep
<1>2. CASE FrameShown \/ Recompose \/ Leave \/ GoesOffline \/ UNCHANGED vars
  BY <1>2, ScreenKeeps
<1>3. ASSUME NEW i \in 1 .. MaxSends, Call(i) PROVE IInv'
  BY <1>3, EntryKeeps, DownKeeps, UpKeeps, WheelKeeps, FailKeeps DEF Call
<1> QED
  BY <1>1, <1>2, <1>3 DEF Next

(* IInv holds in every state of the screen and the session.                  *)
THEOREM Invariance == Spec => []IInv
  BY InitInv, StepInv, PTL DEF Spec

(* Nothing that is sent at the same time comes between the press and the     *)
(* release of a click in nativeSendPointerEvent, and a press stays alone only*)
(* when its own release failed to be sent.                                   *)
THEOREM ClicksStayWhole == Spec => []ClicksArePaired
<1>1. IInv => ClicksArePaired
  BY DEF IInv
<1> QED
  BY <1>1, Invariance, PTL

-----------------------------------------------------------------------------
(* Without a frame nothing is sent, and a frame has a width.                 *)
FrameInv ==
    /\ frameMeta = NoFrame => sends = <<>>
    /\ frameMeta # NoFrame => frameMeta.width \in Sizes

ScreenInv == TypeInv /\ TypeOK /\ FrameInv /\ ScrollIsConserved

(* Rounding to the nearest: half a divisor at most is lost or added.         *)
LEMMA RoundedIsNear ==
    ASSUME NEW a \in Nat, NEW b \in Nat \ {0}
    PROVE  /\ Rounded(a, b) \in Nat
           /\ 2 * (Rounded(a, b) * b) <= 2 * a + b
           /\ 2 * a < 2 * (Rounded(a, b) * b) + b
<1> DEFINE n == 2 * a + b
           m == 2 * b
           q == n \div m
<1>1. n \in Nat /\ m \in Nat /\ m > 0
  OBVIOUS
<1> HIDE DEF n, m
<1>2. q \in Nat /\ q * m <= n /\ n < q * m + m
  BY <1>1
<1> HIDE DEF q
<1>3. q * m = 2 * (q * b)
  BY <1>2 DEF m
<1>4. Rounded(a, b) = q
  BY DEF Rounded, q, n, m
<1> QED
  BY <1>2, <1>3, <1>4 DEF n, m

(* The remote desktop has a width.                                           *)
LEMMA SizesAreWhole == \A w \in Sizes : w \in Nat /\ w > 0
  BY SizesAssumption

(* A factor goes to each side of a difference.                             *)
LEMMA Distributes == \A i, j, k \in Int : (i - j) * k = i * k - j * k
  OBVIOUS

(* Products of naturals keep the order of a factor.                          *)
LEMMA ProductsKeepOrder ==
    \A i, j, k \in Nat : i * k \in Nat /\ (i <= j => i * k <= j * k)
  OBVIOUS

(* A place on the surface is mapped into the frame, and near to where it is. *)
LEMMA PointIsNear ==
    ASSUME NEW at \in Nat, NEW z \in Zooms, TypeInv, frameMeta.width \in Sizes
    PROVE  /\ toRemotePoint(at, z) \in 0 .. frameMeta.width - 1
           /\ LET error == toRemotePoint(at, z) * (Width * z)
                             - AtMost(at, Width * z) * frameMeta.width
              IN  -(Width * z) <= error /\ error <= Width * z
<1> DEFINE w == frameMeta.width
           b == Width * z
           p == AtMost(at, b)
           r == Rounded(p * w, b)
           x == toRemotePoint(at, z)
<1>1. w \in Nat /\ w > 0
  BY SizesAreWhole
<1>2. z \in Nat /\ z > 0 /\ Width \in Nat /\ Width > 0
  <2>1. z \in Nat /\ z > 0
    BY ZoomsAssumption
  <2> QED
    BY <2>1, WidthAssumption
<1>3. b \in Nat /\ b > 0
  BY <1>2
<1> HIDE DEF b
<1>4. p \in Nat /\ p <= b
  BY <1>3 DEF AtMost
<1> HIDE DEF p
<1>5. p * w \in Nat /\ p * w <= b * w
  BY <1>1, <1>3, <1>4, ProductsKeepOrder
<1>6. r \in Nat /\ 2 * (r * b) <= 2 * (p * w) + b /\ 2 * (p * w) < 2 * (r * b) + b
  <2> DEFINE a == p * w
  <2>1. a \in Nat /\ b \in Nat \ {0}
    BY <1>3, <1>5
  <2> HIDE DEF a
  <2>2. /\ Rounded(a, b) \in Nat
        /\ 2 * (Rounded(a, b) * b) <= 2 * a + b
        /\ 2 * a < 2 * (Rounded(a, b) * b) + b
    BY <2>1, RoundedIsNear
  <2> QED
    BY <2>2 DEF a
<1>7. x = AtMost(r, w - 1)
  BY DEF toRemotePoint, r, p, b
<1> HIDE DEF r, x
<1> SUFFICES x \in 0 .. w - 1 /\ -b <= x * b - p * w /\ x * b - p * w <= b
  BY DEF x, b, p, w
<1> HIDE DEF w
<1>8. CASE r <= w - 1
  <2>1. x = r
    BY <1>1, <1>6, <1>7, <1>8 DEF AtMost
  <2>2. r * b \in Nat
    BY <1>3, <1>6
  <2> QED
    BY <1>1, <1>3, <1>5, <1>6, <1>8, <2>1, <2>2
<1>9. CASE r > w - 1
  <2>1. x = w - 1 /\ w - 1 \in Nat
    BY <1>1, <1>6, <1>7, <1>9 DEF AtMost
  <2>2. w * b <= r * b /\ w * b \in Nat /\ r * b \in Nat
    BY <1>1, <1>3, <1>6, <1>9, ProductsKeepOrder
  <2>3. x * b = w * b - b /\ b * w = w * b
    BY <1>1, <1>3, <2>1
  <2> QED
    BY <1>1, <1>3, <1>5, <1>6, <2>1, <2>2, <2>3
<1> QED
  BY <1>1, <1>6, <1>8, <1>9

(* Aim is a matter of the mapping alone.                                     *)
LEMMA AimFollows == TypeInv /\ FrameInv => AimIsNear
<1> SUFFICES ASSUME TypeInv, FrameInv, frameMeta # NoFrame, NEW at \in 0 .. Width + 2 * Padding
             PROVE  LET scale == Width * zoom
                        error == toRemotePoint(at, zoom) * scale - (at - Padding) * frameMeta.width
                        bound == Padding * frameMeta.width + scale
                    IN  -bound <= error /\ error <= bound
  BY DEF AimIsNear
<1> DEFINE w == frameMeta.width
           b == Width * zoom
           p == AtMost(at, b)
           x == toRemotePoint(at, zoom)
<1>1. w \in Sizes /\ w \in Nat /\ zoom \in Zooms /\ at \in Nat /\ Width \in Nat
      /\ Padding \in Nat
  <2>1. Width \in Nat /\ Padding \in Nat
    BY WidthAssumption
  <2> QED
    BY <2>1, SizesAreWhole DEF TypeInv, FrameInv
<1>2. x \in Int /\ -b <= x * b - p * w /\ x * b - p * w <= b
  BY <1>1, PointIsNear
<1>3. b \in Nat /\ Width <= b
  BY <1>1, ZoomsAssumption
<1>4. p \in Nat /\ (p = at \/ (p = b /\ b < at))
  BY <1>1, <1>3 DEF AtMost
<1> HIDE DEF x, b, p
<1>5. p - (at - Padding) \in -Padding .. Padding
  BY <1>1, <1>3, <1>4
<1> DEFINE off == p - (at - Padding)
<1>6. -(Padding * w) <= off * w /\ off * w <= Padding * w
  BY <1>1, <1>5
<1>7. x * b - (at - Padding) * w = (x * b - p * w) + off * w
  <2>1. off * w = p * w - (at - Padding) * w
    <3> DEFINE j == at - Padding
    <3>1. p \in Int /\ j \in Int /\ w \in Int
      BY <1>1, <1>4
    <3> HIDE DEF j
    <3>2. (p - j) * w = p * w - j * w
      BY <3>1, Distributes
    <3> QED
      BY <3>2 DEF j
  <2>2. x * b \in Int /\ p * w \in Int /\ (at - Padding) * w \in Int
    BY <1>1, <1>2, <1>3, <1>4
  <2> QED
    BY <2>1, <2>2
<1> SUFFICES LET error == x * b - (at - Padding) * w
                 bound == Padding * w + b
             IN  -bound <= error /\ error <= bound
  BY DEF x, b
<1>8. x * b \in Int /\ p * w \in Int /\ Padding * w \in Nat /\ off * w \in Int
  BY <1>1, <1>2, <1>3, <1>4, <1>5
<1> HIDE DEF off
<1> QED
  BY <1>1, <1>2, <1>3, <1>6, <1>7, <1>8

-----------------------------------------------------------------------------
(* What a step may do to the coroutines: add n of one kind, or leave what    *)
(* they send as it is.                                                       *)
SameFields(i) ==
    sends'[i].action = sends[i].action /\ sends'[i].x = sends[i].x
    /\ sends'[i].delta = sends[i].delta

FieldsStay == DOMAIN sends' = DOMAIN sends /\ \A i \in DOMAIN sends : SameFields(i)

Adds(n, action, delta) ==
    /\ Len(sends') = Len(sends) + n /\ Len(sends') <= MaxSends
    /\ \A i \in DOMAIN sends : SameFields(i)
    /\ \A i \in Len(sends) + 1 .. Len(sends) + n :
          /\ sends'[i].action = action /\ sends'[i].delta = delta
          /\ \E w \in Sizes : sends'[i].x \in 0 .. w - 1

(* sendPointer adds n events that aim into the frame, or none without a      *)
(* frame.                                                                    *)
LEMMA SendAdds ==
    ASSUME TypeInv, TypeInv', FrameInv, NEW action, NEW at \in Nat, NEW z \in Zooms,
           NEW delta, NEW n \in Nat, sendPointer(action, at, z, delta, n)
    PROVE  IF frameMeta = NoFrame THEN UNCHANGED sends ELSE Adds(n, action, delta)
<1> DEFINE event == [action |-> action, x |-> toRemotePoint(at, z), delta |-> delta,
                     state |-> "launched"]
           added == [k \in 1 .. n |-> event]
<1>1. CASE frameMeta = NoFrame
  BY <1>1 DEF sendPointer
<1>2. CASE frameMeta # NoFrame
  <2>1. event.x \in 0 .. frameMeta.width - 1 /\ frameMeta.width \in Sizes
    BY <1>2, PointIsNear DEF FrameInv
  <2>2. event.action = action /\ event.delta = delta
    OBVIOUS
  <2>3. sends' = sends \o added /\ Len(sends) + n <= MaxSends
    BY <1>2 DEF sendPointer
  <2> HIDE DEF event
  <2> DEFINE any == Event \cup {event}
  <2>4. added \in Seq(any) /\ Len(added) = n /\ \A k \in 1 .. n : added[k] = event
    OBVIOUS
  <2>5. sends \in Seq(any)
    BY DEF TypeInv
  <2> HIDE DEF any
  <2> HIDE DEF added
  <2>6. Len(sends') = Len(sends) + n
    <3>1. Len(sends \o added) = Len(sends) + Len(added)
      BY <2>4, <2>5
    <3> QED
      BY <2>3, <2>4, <3>1
  <2>7. \A i \in DOMAIN sends : sends'[i] = sends[i]
    BY <2>3, <2>4, <2>5
  <2>8. \A i \in Len(sends) + 1 .. Len(sends) + n : sends'[i] = event
    BY <2>3, <2>4, <2>5
  <2> QED
    BY <1>2, <2>1, <2>2, <2>3, <2>6, <2>7, <2>8 DEF Adds, SameFields
<1> QED
  BY <1>1, <1>2

(* The steps of coroutine i change its state only.                           *)
LEMMA BecomesKeepsFields ==
    ASSUME TypeInv, NEW i, NEW from, NEW to, Becomes(i, from, to)
    PROVE  FieldsStay
<1>1. sends \in Seq(Event) /\ i \in DOMAIN sends
      /\ sends' = [sends EXCEPT ![i].state = to]
  BY DEF TypeInv, Becomes
<1>2. sends[i] \in Event
  BY <1>1
<1> DEFINE e == [sends[i] EXCEPT !.state = to]
<1>3. e.action = sends[i].action /\ e.x = sends[i].x /\ e.delta = sends[i].delta
  BY <1>2 DEF Event
<1>4. sends' = [sends EXCEPT ![i] = e]
  BY <1>1
<1> HIDE DEF e
<1> QED
  BY <1>1, <1>3, <1>4 DEF FieldsStay, SameFields

-----------------------------------------------------------------------------
(* The events that turn the wheel in one direction                           *)
Down == {i \in DOMAIN sends :
            sends[i].action = "SCROLL" /\ Rotation(WheelFlags(sends[i].delta)) < 0}
Up   == {i \in DOMAIN sends :
            sends[i].action = "SCROLL" /\ Rotation(WheelFlags(sends[i].delta)) > 0}

(* Disjoint sets are counted one after the other.                            *)
LEMMA CountsAddUp ==
    ASSUME NEW S, NEW T, IsFiniteSet(S), IsFiniteSet(T), S \cap T = {}
    PROVE  Cardinality(S \cup T) = Cardinality(S) + Cardinality(T)
<1>1. Cardinality(S) \in Nat /\ Cardinality(T) \in Nat
  BY FS_CardinalityType
<1>2. Cardinality(S \cap T) = 0
  BY FS_EmptySet
<1>3. Cardinality(S \cup T) = Cardinality(S) + Cardinality(T) - Cardinality(S \cap T)
  BY FS_Union
<1> QED
  BY <1>1, <1>2, <1>3

(* ScrollIsConserved, by the sets it counts.                                 *)
LEMMA ConservedIs ==
    /\ ScrollIsConserved <=>
          panned = scrollAccumulator + threshold * (Cardinality(Down) - Cardinality(Up))
    /\ ScrollIsConserved' <=>
          panned' = scrollAccumulator' + threshold * (Cardinality(Down') - Cardinality(Up'))
  BY DEF ScrollIsConserved, Turns, Down, Up

(* The events that turn the wheel can be counted.                          *)
LEMMA TurnsAreFinite ==
    ASSUME TypeInv
    PROVE  /\ IsFiniteSet(Down) /\ Cardinality(Down) \in Nat
           /\ IsFiniteSet(Up) /\ Cardinality(Up) \in Nat
<1>1. DOMAIN sends = 1 .. Len(sends) /\ Len(sends) \in Nat
  BY DEF TypeInv
<1>2. IsFiniteSet(DOMAIN sends)
  BY <1>1, FS_Interval
<1>3. Down \subseteq DOMAIN sends /\ Up \subseteq DOMAIN sends
  BY DEF Down, Up
<1> QED
  BY <1>2, <1>3, FS_Subset, FS_CardinalityType

(* What is sent stays, so what turns the wheel stays.                      *)
LEMMA FieldsStayTurns == FieldsStay => Down' = Down /\ Up' = Up
  BY DEF FieldsStay, SameFields, Down, Up

(* n notches in one direction count n there and nothing in the other.        *)
LEMMA AddsTurns ==
    ASSUME TypeInv, TypeInv', NEW n \in Nat, NEW action, NEW delta, Adds(n, action, delta)
    PROVE  /\ action # "SCROLL" => Down' = Down /\ Up' = Up
           /\ action = "SCROLL" /\ delta = -120 =>
                Up' = Up /\ Cardinality(Down') = Cardinality(Down) + n
           /\ action = "SCROLL" /\ delta = 120 =>
                Down' = Down /\ Cardinality(Up') = Cardinality(Up) + n
<1> DEFINE new == Len(sends) + 1 .. Len(sends) + n
<1>1. DOMAIN sends = 1 .. Len(sends) /\ Len(sends) \in Nat
      /\ DOMAIN sends' = 1 .. Len(sends')
  BY DEF TypeInv
<1>2. DOMAIN sends' = DOMAIN sends \cup new /\ DOMAIN sends \cap new = {}
  BY <1>1 DEF Adds
<1>3. \A i \in DOMAIN sends : SameFields(i)
  BY DEF Adds
<1>4. \A i \in new : sends'[i].action = action /\ sends'[i].delta = delta
  BY DEF Adds
<1>5. IsFiniteSet(new) /\ Cardinality(new) = n
  <2> DEFINE a == Len(sends) + 1
             b == Len(sends) + n
  <2>1. a \in Int /\ b \in Int /\ b - a + 1 = n /\ (a > b => n = 0)
    BY <1>1
  <2> HIDE DEF a, b
  <2>2. IsFiniteSet(a .. b) /\ Cardinality(a .. b) = n
    BY <2>1, FS_Interval
  <2> QED
    BY <2>2 DEF a, b
<1> HIDE DEF new
<1>6. CASE action # "SCROLL"
  BY <1>2, <1>3, <1>4, <1>6 DEF SameFields, Down, Up
<1>7. CASE action = "SCROLL" /\ delta = -120
  <2>0. ~(Rotation(WheelFlags(-120)) > 0) /\ Rotation(WheelFlags(-120)) < 0
    BY DEF Rotation, WheelFlags, AtMost, PTR_FLAGS_WHEEL, PTR_FLAGS_WHEEL_NEGATIVE
  <2>1. Up' = Up
    BY <1>2, <1>3, <1>4, <1>7, <2>0 DEF SameFields, Up
  <2>2. Down' = Down \cup new /\ Down \cap new = {}
    BY <1>2, <1>3, <1>4, <1>7, <2>0 DEF SameFields, Down
  <2>3. Cardinality(Down') = Cardinality(Down) + n
    BY <1>5, <2>2, CountsAddUp, TurnsAreFinite
  <2> QED
    BY <1>7, <2>1, <2>3
<1>8. CASE action = "SCROLL" /\ delta = 120
  <2>0. ~(Rotation(WheelFlags(120)) < 0) /\ Rotation(WheelFlags(120)) > 0
    BY DEF Rotation, WheelFlags, AtMost, PTR_FLAGS_WHEEL, PTR_FLAGS_WHEEL_NEGATIVE
  <2>1. Down' = Down
    BY <1>2, <1>3, <1>4, <1>8, <2>0 DEF SameFields, Down
  <2>2. Up' = Up \cup new /\ Up \cap new = {}
    BY <1>2, <1>3, <1>4, <1>8, <2>0 DEF SameFields, Up
  <2>3. Cardinality(Up') = Cardinality(Up) + n
    BY <1>5, <2>2, CountsAddUp, TurnsAreFinite
  <2> QED
    BY <1>8, <2>1, <2>3
<1> QED
  BY <1>6, <1>7, <1>8

-----------------------------------------------------------------------------
(* A new screen is in order.                                                 *)
LEMMA ScreenInit == Init => ScreenInv
<1> SUFFICES ASSUME Init PROVE ScreenInv
  OBVIOUS
<1>1. TypeInv
  BY InitInv DEF IInv
<1>2. TypeOK
  <2>1. frameMeta \in [width : {0} \cup Sizes, sequence : 0 .. MaxFrames]
    BY BoundsAssumption DEF Init, NoFrame
  <2>2. zoom \in Zooms
    BY ZoomsAssumption DEF Init
  <2>3. keys \in [frame : [width : {0} \cup Sizes, sequence : 0 .. MaxFrames], zoom : Zooms]
    BY <2>1, <2>2 DEF Init, Keys
  <2>a. touch \in [down : BOOLEAN, heard : BOOLEAN, tap : BOOLEAN, at : {0} \cup Places]
    BY DEF Init, NoTouch
  <2>b. scrollAccumulator \in -23 .. 23 /\ panned \in Int
    BY DEF Init
  <2>c. shown \in BOOLEAN /\ connected \in BOOLEAN
    BY DEF Init
  <2>d. ScreenTyped
    BY <2>1, <2>2, <2>3, <2>a, <2>b, <2>c DEF ScreenTyped
  <2>4. SendsTyped /\ WireTyped
    BY BoundsAssumption DEF Init, SendsTyped, WireTyped
  <2> QED
    BY <2>d, <2>4 DEF TypeOK
<1>3. FrameInv
  BY DEF Init, FrameInv
<1>4. Down = {} /\ Up = {}
  BY DEF Init, Down, Up
<1>5. ScrollIsConserved
  BY <1>4, ConservedIs, FS_EmptySet DEF Init, threshold
<1> QED
  BY <1>1, <1>2, <1>3, <1>5 DEF ScreenInv

(* The states of the coroutines stay among States.                           *)
LEMMA StatesTyped ==
    ASSUME TypeInv'
    PROVE  \A i \in DOMAIN sends' : sends'[i].state \in States
                                  /\ sends'[i].action \in Buttons \cup {"SCROLL"}
<1>1. \A i \in DOMAIN sends' : sends'[i] \in Event
  BY DEF TypeInv
<1> QED
  BY <1>1 DEF Event

(* Types of the coroutines, for a step that changes their states only.     *)
LEMMA FieldsStayTyped ==
    ASSUME TypeInv, TypeInv', SendsTyped, FieldsStay
    PROVE  SendsTyped'
<1>1. Len(sends') = Len(sends)
  BY DEF TypeInv, FieldsStay
<1> QED
  BY <1>1, StatesTyped DEF SendsTyped, FieldsStay, SameFields

(* Types of the coroutines, for a step that adds some.                     *)
LEMMA AddsTyped ==
    ASSUME TypeInv, TypeInv', SendsTyped, NEW n \in Nat, NEW action, NEW delta \in Deltas,
           Adds(n, action, delta)
    PROVE  SendsTyped'
<1>1. DOMAIN sends = 1 .. Len(sends) /\ Len(sends) \in Nat
      /\ DOMAIN sends' = 1 .. Len(sends')
  BY DEF TypeInv
<1>2. \A i \in DOMAIN sends' : i \in DOMAIN sends \/ i \in Len(sends) + 1 .. Len(sends) + n
  BY <1>1 DEF Adds
<1>3. \A i \in DOMAIN sends' :
        /\ sends'[i].delta \in Deltas
        /\ \E w \in Sizes : sends'[i].x \in 0 .. w - 1
  BY <1>2 DEF SendsTyped, Adds, SameFields
<1> QED
  BY <1>3, StatesTyped DEF SendsTyped, Adds

(* Every kept gesture ends with a rest smaller than the threshold, and its   *)
(* rounds make up the difference.                                            *)
LEMMA RestIsWhatIsLeft ==
    ASSUME NEW s \in Int
    PROVE  /\ Rest(s) \in -23 .. 23
           /\ s > 0 => s = Rest(s) + 24 * Rounds(s)
           /\ s <= 0 => s = Rest(s) - 24 * Rounds(s)
  BY DEF Rest, Rounds, threshold

(* A step that leaves alone what was sent and what was panned keeps ScreenInv*)
LEMMA StillKeeps ==
    ASSUME ScreenInv, TypeInv', FieldsStay, ScreenTyped', WireTyped',
           UNCHANGED <<frameMeta, scrollAccumulator, panned>>
    PROVE  ScreenInv'
<1>1. TypeOK'
  BY FieldsStayTyped DEF ScreenInv, TypeOK
<1>2. FrameInv'
  <2>1. sends = <<>> => sends' = <<>>
    BY DEF FieldsStay, TypeInv
  <2> QED
    BY <2>1 DEF ScreenInv, FrameInv
<1>3. ScrollIsConserved'
  BY FieldsStayTurns, ConservedIs DEF ScreenInv
<1> QED
  BY <1>1, <1>2, <1>3 DEF ScreenInv

(* A step that sends nothing keeps what is on the wire of its type.        *)
LEMMA WireStays == WireTyped /\ UNCHANGED wire => WireTyped'
  BY DEF WireTyped

(* A finger is at a whole place.                                             *)
LEMMA PlaceIsWhole == ScreenTyped => touch.at \in Nat /\ zoom \in Zooms
<1>1. \A p \in Places : p \in Nat
  BY PlacesAssumption, WidthAssumption
<1>2. ASSUME ScreenTyped PROVE touch.at \in {0} \cup Places /\ zoom \in Zooms
  BY <1>2 DEF ScreenTyped
<1> QED
  BY <1>1, <1>2

(* A step that leaves the coroutines alone leaves alone what they send.    *)
LEMMA SameIsStill == UNCHANGED sends => FieldsStay
  BY DEF FieldsStay, SameFields

(* A click adds an event that does not turn the wheel.                       *)
LEMMA ClickKeeps ==
    ASSUME ScreenInv, TypeInv', NEW action \in Buttons, sendPointer(action, touch.at, zoom, 0, 1),
           ScreenTyped', UNCHANGED <<wire, frameMeta, scrollAccumulator, panned>>
    PROVE  ScreenInv'
<1>1. touch.at \in Nat /\ zoom \in Zooms
  BY PlaceIsWhole DEF ScreenInv, TypeOK
<1>2. IF frameMeta = NoFrame THEN UNCHANGED sends ELSE Adds(1, action, 0)
  BY <1>1, SendAdds DEF ScreenInv
<1>3. WireTyped'
  BY WireStays DEF ScreenInv, TypeOK
<1>4. CASE UNCHANGED sends
  BY <1>3, <1>4, SameIsStill, StillKeeps
<1>5. CASE frameMeta # NoFrame /\ Adds(1, action, 0)
  <2>1. TypeOK'
    BY <1>3, <1>5, AddsTyped DEF ScreenInv, TypeOK, Deltas
  <2>2. FrameInv'
    BY <1>5 DEF ScreenInv, FrameInv
  <2>3. Down' = Down /\ Up' = Up
    BY <1>5, AddsTurns DEF ScreenInv, Buttons
  <2>4. ScrollIsConserved'
    BY <2>3, ConservedIs DEF ScreenInv
  <2> QED
    BY <2>1, <2>2, <2>4 DEF ScreenInv
<1> QED
  BY <1>2, <1>4, <1>5

(* A movement: its pan is the notches it sends and the change of the rest.   *)
LEMMA TransformKeeps ==
    ASSUME ScreenInv, TypeInv', NEW z \in Zooms, NEW dy \in Pans, Transform(z, dy)
    PROVE  ScreenInv'
<1> DEFINE s == scrollAccumulator + dy
           delta == IF s > 0 THEN -120 ELSE 120
           n == Rounds(s)
<1>1. touch.at \in Nat /\ scrollAccumulator \in Int /\ panned \in Int /\ dy \in Int
  <2>1. ScreenTyped /\ dy \in Int
    BY PansAssumption DEF ScreenInv, TypeOK
  <2>2. scrollAccumulator \in Int /\ panned \in Int
    BY <2>1 DEF ScreenTyped
  <2> QED
    BY <2>1, <2>2, PlaceIsWhole
<1>2. s \in Int /\ n \in Nat /\ delta \in Deltas /\ (s > 0 => delta = -120) /\ (s <= 0 => delta = 120)
  BY <1>1, LoopEnds DEF Deltas
<1>3. /\ sendPointer("SCROLL", touch.at, z, delta, n)
      /\ scrollAccumulator' = Rest(s) /\ zoom' = z
      /\ panned' = IF frameMeta = NoFrame THEN Rest(s) ELSE panned + dy
      /\ touch' = [touch EXCEPT !.tap = FALSE]
      /\ UNCHANGED <<frameMeta, keys, shown, connected, wire>>
  BY DEF Transform
<1>4. /\ Rest(s) \in -23 .. 23
      /\ s > 0 => s = Rest(s) + 24 * n
      /\ s <= 0 => s = Rest(s) - 24 * n
  BY <1>2, RestIsWhatIsLeft
<1> HIDE DEF delta, n
<1>5. IF frameMeta = NoFrame THEN UNCHANGED sends ELSE Adds(n, "SCROLL", delta)
  BY <1>1, <1>2, <1>3, SendAdds DEF ScreenInv
<1>6. ScreenTyped'
  <2>1. touch' \in [down : BOOLEAN, heard : BOOLEAN, tap : BOOLEAN, at : {0} \cup Places]
    BY <1>3 DEF ScreenInv, TypeOK, ScreenTyped
  <2>2. panned' \in Int
    BY <1>1, <1>3, <1>4
  <2> QED
    BY <1>3, <1>4, <2>1, <2>2 DEF ScreenInv, TypeOK, ScreenTyped
<1>7. WireTyped'
  BY <1>3, WireStays DEF ScreenInv, TypeOK
<1>8. CASE frameMeta = NoFrame
  <2>1. UNCHANGED sends /\ sends = <<>>
    BY <1>5, <1>8 DEF ScreenInv, FrameInv
  <2>2. TypeOK'
    BY <1>6, <1>7, <2>1, FieldsStayTyped, SameIsStill DEF ScreenInv, TypeOK
  <2>3. FrameInv'
    BY <1>3, <1>8, <2>1 DEF ScreenInv, FrameInv
  <2>4. Down' = {} /\ Up' = {}
    BY <2>1 DEF Down, Up
  <2>5. ScrollIsConserved'
    BY <1>3, <1>4, <1>8, <2>4, ConservedIs, FS_EmptySet DEF threshold
  <2> QED
    BY <2>2, <2>3, <2>5 DEF ScreenInv
<1>9. CASE frameMeta # NoFrame
  <2>1. Adds(n, "SCROLL", delta)
    BY <1>5, <1>9
  <2>2. TypeOK'
    BY <1>2, <1>6, <1>7, <2>1, AddsTyped DEF ScreenInv, TypeOK
  <2>3. FrameInv'
    BY <1>3, <1>9 DEF ScreenInv, FrameInv
  <2>4. /\ s > 0 => Up' = Up /\ Cardinality(Down') = Cardinality(Down) + n
        /\ s <= 0 => Down' = Down /\ Cardinality(Up') = Cardinality(Up) + n
    BY <1>2, <2>1, AddsTurns DEF ScreenInv
  <2>5. panned = scrollAccumulator + 24 * (Cardinality(Down) - Cardinality(Up))
        /\ Cardinality(Down) \in Nat /\ Cardinality(Up) \in Nat
    BY ConservedIs, TurnsAreFinite DEF ScreenInv, threshold
  <2>6. panned' = panned + dy /\ scrollAccumulator' = Rest(s)
    BY <1>3, <1>9
  <2>7. panned' = scrollAccumulator' + 24 * (Cardinality(Down') - Cardinality(Up'))
    <3>1. CASE s > 0
      BY <1>1, <1>2, <1>4, <2>4, <2>5, <2>6, <3>1
    <3>2. CASE s <= 0
      BY <1>1, <1>2, <1>4, <2>4, <2>5, <2>6, <3>2
    <3> QED
      BY <1>2, <3>1, <3>2
  <2>8. ScrollIsConserved'
    BY <2>7, ConservedIs DEF threshold
  <2> QED
    BY <2>2, <2>3, <2>8 DEF ScreenInv
<1> QED
  BY <1>8, <1>9

(* A coordinate is cut to 16 bits.                                           *)
LEMMA Truncated == \A n \in Int : n % 65536 \in Uint16
  BY SMT DEF Uint16

(* What is sent is of its type: 16 bits of place, 10 of flags.               *)
LEMMA SendsTypesWire ==
    ASSUME TypeInv, TypeInv', WireTyped, NEW i \in DOMAIN sends, NEW kind \in {"down", "up", "wheel"},
           NEW flags \in PointerFlags, Sends(i, kind, flags)
    PROVE  WireTyped'
<1> DEFINE x == sends[i].x % 65536
<1>1. /\ wire' \in Seq(Message) /\ Len(wire') = Len(wire) + 1
      /\ \A k \in DOMAIN wire : wire'[k] = wire[k]
      /\ wire'[Len(wire) + 1] = [kind |-> kind, action |-> sends[i].action,
                                 flags |-> flags, x |-> x, by |-> i]
  BY SendsIs DEF PointerFlags
<1>2. x \in Uint16
  <2>1. sends[i] \in Event
    BY DEF TypeInv
  <2>2. sends[i].x \in Int
    BY <2>1 DEF Event
  <2> QED
    BY <2>2, Truncated
<1> HIDE DEF x
<1>3. wire'[Len(wire) + 1].x = x /\ wire'[Len(wire) + 1].flags = flags
  BY <1>1
<1>4. DOMAIN wire' = DOMAIN wire \cup {Len(wire) + 1}
  BY <1>1 DEF TypeInv
<1> QED
  BY <1>1, <1>2, <1>3, <1>4 DEF WireTyped

(* The rotation and its sign and the wheel flag fit into ten bits.         *)
LEMMA FlagsAreTenBits == \A delta \in Deltas : WheelFlags(delta) \in PointerFlags
  BY DEF PointerFlags, Deltas, WheelFlags, AtMost, PTR_FLAGS_WHEEL, PTR_FLAGS_WHEEL_NEGATIVE

-----------------------------------------------------------------------------
(* A coroutine's step.                                                       *)
LEMMA CallKeeps ==
    ASSUME ScreenInv, TypeInv', NEW i, Call(i) PROVE ScreenInv'
<1> USE DEF ScreenInv, TypeOK
<1>1. FieldsStay
  BY BecomesKeepsFields
  DEF Call, nativeSendPointerEvent, FindsNoInstance, ButtonDown, ButtonUp, Wheel, SendFails
<1>2. UNCHANGED <<screenVars, connected>>
  BY DEF Call, nativeSendPointerEvent, FindsNoInstance, ButtonDown, ButtonUp, Wheel, SendFails
<1>3. WireTyped'
  <2>1. CASE nativeSendPointerEvent(i) \/ FindsNoInstance(i) \/ SendFails(i)
    BY <2>1, WireStays DEF nativeSendPointerEvent, FindsNoInstance, SendFails
  <2>2. CASE ButtonDown(i) \/ ButtonUp(i)
    BY <2>2, SendsTypesWire DEF ButtonDown, ButtonUp, Becomes, PointerFlags
  <2>3. CASE Wheel(i)
    <3>1. i \in DOMAIN sends /\ Sends(i, "wheel", WheelFlags(sends[i].delta))
      BY <2>3 DEF Wheel, Becomes
    <3>2. WheelFlags(sends[i].delta) \in PointerFlags
      BY <3>1, FlagsAreTenBits DEF SendsTyped
    <3> QED
      BY <3>1, <3>2, SendsTypesWire
  <2> QED
    BY <2>1, <2>2, <2>3 DEF Call
<1>4. ScreenTyped'
  BY <1>2 DEF ScreenTyped, screenVars
<1> QED
  BY <1>1, <1>2, <1>3, <1>4, StillKeeps DEF screenVars

(* A step of the fingers.                                                    *)
LEMMA FingersKeepScreen ==
    ASSUME ScreenInv, TypeInv', Fingers PROVE ScreenInv'
<1>1. ScreenTyped /\ WireTyped /\ NoTouch \in [down : BOOLEAN, heard : BOOLEAN, tap : BOOLEAN,
                                             at : {0} \cup Places]
  BY DEF ScreenInv, TypeOK, NoTouch
<1>2. ASSUME NEW p \in Places, FingerDown(p) PROVE ScreenInv'
  <2>1. ScreenTyped'
    BY <1>1, <1>2 DEF FingerDown, ScreenTyped
  <2>2. WireTyped' /\ FieldsStay
    BY <1>1, <1>2, WireStays, SameIsStill DEF FingerDown
  <2> QED
    BY <1>2, <2>1, <2>2, StillKeeps DEF FingerDown
<1>3. CASE FingersUp
  <2>1. ScreenTyped'
    BY <1>1, <1>3 DEF FingersUp, ScreenTyped
  <2>2. WireTyped'
    BY <1>1, <1>3, WireStays DEF FingersUp
  <2>3. CASE UNCHANGED sends
    BY <1>3, <2>1, <2>2, <2>3, SameIsStill, StillKeeps DEF FingersUp
  <2>4. CASE sendPointer("LEFT_CLICK", touch.at, zoom, 0, 1)
    BY <1>3, <2>1, <2>4, ClickKeeps DEF FingersUp, Buttons
  <2> QED
    BY <1>3, <2>3, <2>4 DEF FingersUp
<1>4. CASE LongPress
  <2>1. touch' \in [down : BOOLEAN, heard : BOOLEAN, tap : BOOLEAN, at : {0} \cup Places]
    BY <1>1, <1>4 DEF LongPress, ScreenTyped
  <2>2. ScreenTyped'
    BY <1>1, <1>4, <2>1 DEF LongPress, ScreenTyped
  <2> QED
    BY <1>4, <2>2, ClickKeeps DEF LongPress, Buttons
<1>5. ASSUME NEW z \in Zooms, NEW dy \in Pans, Transform(z, dy) PROVE ScreenInv'
  BY <1>5, TransformKeeps
<1> QED
  BY <1>2, <1>3, <1>4, <1>5 DEF Fingers

(* A step of the screen or of the session.                                   *)
LEMMA ScreenKeepsScreen ==
    ASSUME ScreenInv, TypeInv',
           FrameShown \/ Recompose \/ Leave \/ GoesOffline \/ UNCHANGED vars
    PROVE  ScreenInv'
<1>1. ScreenTyped /\ WireTyped /\ SendsTyped
  BY DEF ScreenInv, TypeOK
<1>2. WireTyped'
  BY <1>1, WireStays DEF FrameShown, Recompose, Leave, GoesOffline, vars
<1>3. CASE FrameShown
  <2>1. frameMeta' \in [width : {0} \cup Sizes, sequence : 0 .. MaxFrames]
        /\ frameMeta'.width \in Sizes
    BY <1>1, <1>3, BoundsAssumption DEF FrameShown, ScreenTyped
  <2>2. ScreenTyped'
    BY <1>1, <1>3, <2>1 DEF FrameShown, ScreenTyped
  <2>3. FrameInv'
    <3>1. NoFrame.width = 0 /\ 0 \notin Sizes
      BY SizesAreWhole DEF NoFrame
    <3> QED
      BY <2>1, <3>1 DEF FrameInv
  <2>4. FieldsStay /\ UNCHANGED <<sends, scrollAccumulator, panned>>
    BY <1>3, SameIsStill DEF FrameShown
  <2>5. SendsTyped'
    BY <1>1, <2>4, FieldsStayTyped DEF ScreenInv
  <2>6. ScrollIsConserved'
    BY <2>4, FieldsStayTurns, ConservedIs DEF ScreenInv
  <2> QED
    BY <1>2, <2>2, <2>3, <2>5, <2>6 DEF ScreenInv, TypeOK
<1>4. CASE Recompose
  <2>1. Keys \in [frame : [width : {0} \cup Sizes, sequence : 0 .. MaxFrames], zoom : Zooms]
    BY <1>1 DEF ScreenTyped, Keys
  <2>2. touch' \in [down : BOOLEAN, heard : BOOLEAN, tap : BOOLEAN, at : {0} \cup Places]
    BY <1>1, <1>4 DEF Recompose, ScreenTyped
  <2>3. ScreenTyped'
    BY <1>1, <1>4, <2>1, <2>2 DEF Recompose, ScreenTyped
  <2> QED
    BY <1>2, <1>4, <2>3, SameIsStill, StillKeeps DEF Recompose
<1>5. CASE Leave
  <2>1. NoTouch \in [down : BOOLEAN, heard : BOOLEAN, tap : BOOLEAN, at : {0} \cup Places]
    BY DEF NoTouch
  <2>2. ScreenTyped'
    BY <1>1, <1>5, <2>1 DEF Leave, ScreenTyped
  <2>3. sends \in Seq(Event)
    BY DEF ScreenInv, TypeInv
  <2>4. \A i \in DOMAIN sends : sends[i] \in Event
    BY <2>3
  <2>5. FieldsStay
    BY <1>5, <2>3, <2>4 DEF Leave, FieldsStay, SameFields, Event
  <2> QED
    BY <1>2, <1>5, <2>2, <2>5, StillKeeps DEF Leave
<1>6. CASE GoesOffline \/ UNCHANGED vars
  <2>1. UNCHANGED <<screenVars, sends>>
    BY <1>6 DEF GoesOffline, vars
  <2>2. connected' \in BOOLEAN
    BY <1>1, <1>6 DEF GoesOffline, vars, ScreenTyped
  <2>3. ScreenTyped'
    BY <1>1, <2>1, <2>2 DEF ScreenTyped, screenVars
  <2> QED
    BY <1>2, <2>1, <2>3, SameIsStill, StillKeeps DEF screenVars
<1> QED
  BY <1>3, <1>4, <1>5, <1>6

-----------------------------------------------------------------------------
(* ScreenInv holds in every state.                                           *)
THEOREM ScreenInvariance == Spec => []ScreenInv
<1>1. ScreenInv /\ TypeInv' /\ [Next]_vars => ScreenInv'
  BY CallKeeps, FingersKeepScreen, ScreenKeepsScreen DEF Next
<1>2. IInv => TypeInv
  BY DEF IInv
<1> QED
  BY <1>1, <1>2, ScreenInit, Invariance, PTL DEF Spec

(* Every event aims into a frame the app was shown, in 16 bits, and its flags*)
(* fit those of a mouse event.                                               *)
THEOREM ScreenTypeCorrect == Spec => []TypeOK
<1>1. ScreenInv => TypeOK
  BY DEF ScreenInv
<1> QED
  BY <1>1, ScreenInvariance, PTL

(* No gesture, turn or cut of a gesture loses a pan or counts one twice in   *)
(* the callback of detectTransformGestures.                                  *)
THEOREM PansAreConserved == Spec => []ScrollIsConserved
<1>1. ScreenInv => ScrollIsConserved
  BY DEF ScreenInv
<1> QED
  BY <1>1, ScreenInvariance, PTL

(* toRemotePoint is off by no more than the padding and a pixel, for any     *)
(* surface, zoom, frame and place.                                           *)
THEOREM AimStaysNear == Spec => []AimIsNear
<1>1. ScreenInv => AimIsNear
  BY AimFollows DEF ScreenInv
<1> QED
  BY <1>1, ScreenInvariance, PTL

=============================================================================
