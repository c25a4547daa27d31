------------------------- MODULE FrameChannelProofs -------------------------
(***************************************************************************)
(* Theorems about FrameChannel for every set of sizes and every bound on   *)
(* the number of writes.                                                   *)
(*                                                                         *)
(* SkipIsSafe is not inductive by itself. While a copy is under way its    *)
(* answer is known already: the loop will remember the number of meta. So  *)
(* one has to know that a meta which is still the current frame has the    *)
(* size of the bitmap (CopyInv), that no number seen by the app is newer   *)
(* than the frame's, so that a write makes all of them old (SeqInv), and   *)
(* that it has seen none before the session was connected (DialInv).       *)
(***************************************************************************)
EXTENDS FrameChannel, TLAPS

SeqInv ==
    /\ meta.sequence <= frame.sequence
    /\ frameMeta.sequence <= frame.sequence
    /\ worker # "closed" => frame.sequence <= MaxSequence
    /\ worker = "closed" => frame.size = NoSize

CopyInv ==
    loop = "copy" /\ meta.sequence = frame.sequence =>
        meta.size = frame.size /\ bitmap = frame.size

DialInv ==
    worker \in {"dialing", "failed"} => frameMeta.sequence = NoSequence /\ loop # "copy"

IInv == TypeOK /\ SeqInv /\ CopyInv /\ DialInv /\ SkipIsSafe

CodeDefs == /\ RC_OK = 0 /\ RC_NOT_CONNECTED = 2
            /\ RC_FRAME_UNAVAILABLE = -1601 /\ RC_INTERNAL_ERROR = -1999

(* The codes the loop tells apart.                                           *)
LEMMA Codes == CodeDefs
BY DEF CodeDefs, RC_OK, RC_NOT_CONNECTED, RC_FRAME_UNAVAILABLE, RC_INTERNAL_ERROR

(* What a copy, complete or not, does to the pixels.                         *)
LEMMA CopyKeeps ==
    ASSUME IInv, NEW code \in CopyCodes, copyFrameToBitmap(code),
           UNCHANGED <<workerVars, meta, bitmap>>
    PROVE  /\ pixels' \in [Area(bitmap) -> 0 .. MaxSequence]
           /\ Shows(frame) => Shows(frame)'
           /\ code >= 0 /\ connected /\ bitmap = frame.size => Shows(frame)'
<1>1. CASE UNCHANGED pixels /\ ~(frame.size # NoSize /\ CopyPixels)
  <2>1. code >= 0 => ~connected
    BY <1>1, Codes, SMT DEF CopyCodes, CodeDefs, copyFrameToBitmap
  <2> QED
    BY <1>1, <2>1 DEF IInv, TypeOK, Shows, workerVars
<1>2. CASE frame.size # NoSize /\ CopyPixels
  <2>1. frame.sequence \in 0 .. MaxSequence
    BY <1>2, MaxSequenceAssumption DEF IInv, TypeOK, SeqInv, Frames
  <2>2. pixels' \in [Area(bitmap) -> 0 .. MaxSequence]
    BY <1>2, <2>1 DEF CopyPixels, IInv, TypeOK
  <2>3. bitmap = frame.size => Shows(frame)'
    BY <1>2 DEF CopyPixels, Shows, workerVars
  <2> QED
    BY <2>2, <2>3 DEF Shows
<1> QED
  BY <1>1, <1>2 DEF copyFrameToBitmap

-----------------------------------------------------------------------------
(* Nothing is shown and nothing is seen at first.                            *)
LEMMA InitInv == Init => IInv
<1> SUFFICES ASSUME Init PROVE IInv
  OBVIOUS
<1>1. TypeOK
  <2>1. frame \in Frames /\ meta \in Frames
    BY MaxSequenceAssumption DEF Init, Frames
  <2>2. pixels \in [Area(bitmap) -> 0 .. MaxSequence]
    BY MaxSequenceAssumption DEF Init
  <2> QED
    BY <2>1, <2>2 DEF Init, TypeOK
<1>2. SeqInv /\ CopyInv /\ DialInv /\ SkipIsSafe
  BY MaxSequenceAssumption DEF Init, SeqInv, CopyInv, DialInv, SkipIsSafe, NoSequence,
     connected
<1> QED
  BY <1>1, <1>2 DEF IInv

(* A write makes every number the app has seen an old one.                   *)
LEMMA WriteStep ==
    ASSUME IInv, NEW size \in Sizes \cup {NoSize}, Writes(size),
           UNCHANGED appVars, worker # "closed",
           worker' = worker \/ worker' = "closed", gdi' \in Sizes \cup {NoSize},
           worker' = "closed" \/ frame.sequence < MaxSequence,
           worker' = "closed" => size = NoSize
    PROVE  IInv'
<1> USE DEF IInv
<1>1. /\ frame.sequence \in Nat /\ frame.sequence <= MaxSequence
      /\ frame'.size = size /\ frame'.sequence = frame.sequence + 1
  BY MaxSequenceAssumption DEF Writes, TypeOK, Frames, SeqInv
<1>2. frame' \in Frames
  BY <1>1, MaxSequenceAssumption DEF Writes, Frames
<1>3. TypeOK'
  BY <1>2 DEF TypeOK, appVars
<1>4. meta'.sequence < frame'.sequence /\ frameMeta'.sequence < frame'.sequence
  <2>1. meta.sequence \in Int /\ frameMeta.sequence \in Int
    BY MaxSequenceAssumption DEF TypeOK, Frames, NoSequence
  <2> QED
    BY <1>1, <2>1 DEF SeqInv, appVars
<1>5. SeqInv'
  <2>1. meta'.sequence \in Int /\ frameMeta'.sequence \in Int /\ frame'.sequence \in Int
    BY <1>3, MaxSequenceAssumption DEF TypeOK, Frames, NoSequence
  <2> QED
    BY <1>1, <1>4, <2>1, MaxSequenceAssumption DEF SeqInv
<1>6. meta'.sequence # frame'.sequence /\ frameMeta'.sequence # frame'.sequence
  <2>1. meta'.sequence \in Int /\ frameMeta'.sequence \in Int /\ frame'.sequence \in Int
    BY <1>3, MaxSequenceAssumption DEF TypeOK, Frames, NoSequence
  <2> QED
    BY <1>4, <2>1
<1>7. DialInv'
  BY DEF DialInv, appVars
<1> QED
  BY <1>3, <1>5, <1>6, <1>7 DEF CopyInv, SkipIsSafe

(* A step that moves the worker without a write shows nothing new, unless it *)
(* is the one that connects it.                                              *)
LEMMA MoveStep ==
    ASSUME IInv, UNCHANGED <<frame, appVars>>, gdi' \in Sizes \cup {NoSize},
           worker' \in {"dialing", "failed", "loop", "closing", "offline"}, worker # "closed",
           worker' \in {"dialing", "failed"} => worker = "dialing",
           connected' => connected \/ worker = "dialing"
    PROVE  IInv'
<1> USE DEF IInv
<1>1. TypeOK'
  BY DEF TypeOK, appVars
<1>2. SeqInv' /\ CopyInv' /\ DialInv'
  BY DEF SeqInv, CopyInv, DialInv, appVars
<1>3. SkipIsSafe'
  <2>1. CASE connected
    BY <2>1 DEF SkipIsSafe, Shows, appVars
  <2>2. CASE worker = "dialing"
    <3>1. frameMeta'.sequence # frame'.sequence
      BY <2>2, MaxSequenceAssumption DEF DialInv, TypeOK, Frames, NoSequence, appVars
    <3> QED
      BY <3>1 DEF SkipIsSafe
  <2>3. CASE ~connected'
    BY <2>3 DEF SkipIsSafe
  <2> QED
    BY <2>1, <2>2, <2>3
<1> QED
  BY <1>1, <1>2, <1>3

(* The worker's steps either write the frame or leave it.                    *)
LEMMA WorkerStep ==
    ASSUME IInv, WorkerSteps
    PROVE  IInv'
<1>a. /\ gdi \in Sizes \cup {NoSize}
      /\ NoSize \in Sizes \cup {NoSize} /\ Sizes \subseteq Sizes \cup {NoSize}
  BY DEF IInv, TypeOK
<1>1. CASE PostConnects \/ desktopResize
  <2>1. /\ UNCHANGED <<worker, appVars>> /\ worker \in {"dialing", "loop"}
        /\ gdi' \in Sizes \cup {NoSize} /\ applyDesktopSizeFromSettings
    BY <1>1, <1>a DEF PostConnects, desktopResize
  <2>2. CASE UNCHANGED frame
    BY <2>1, <2>2, MoveStep DEF connected
  <2>3. CASE frame.sequence < MaxSequence /\ \E size \in Sizes : Writes(size)
    BY <2>1, <2>3, WriteStep
  <2> QED
    BY <2>1, <2>2, <2>3 DEF applyDesktopSizeFromSettings
<1>2. CASE captureFrame
  BY <1>2, <1>a, WriteStep DEF captureFrame
<1>3. CASE ClearsFrame
  BY <1>3, <1>a, WriteStep DEF ClearsFrame, WorkerMoves
<1>4. CASE Connects \/ ConnectFails \/ LoopEnds \/ GoesOffline
  BY <1>4, <1>a, MoveStep
  DEF Connects, ConnectFails, LoopEnds, GoesOffline, WorkerMoves, connected
<1> QED
  BY <1>1, <1>2, <1>3, <1>4 DEF WorkerSteps

-----------------------------------------------------------------------------
(* The status turns the loop on and off.                                     *)
LEMMA StatusStep ==
    ASSUME IInv, StatusBecomesConnected \/ StatusChanges
    PROVE  IInv'
<1>1. /\ loop' \in {"poll", "off"} /\ stray' \in BOOLEAN
      /\ UNCHANGED <<workerVars, meta, frameMeta, bitmap, pixels>>
  BY DEF StatusBecomesConnected, StatusChanges, IInv, TypeOK
<1> QED
  BY <1>1 DEF IInv, TypeOK, SeqInv, CopyInv, DialInv, SkipIsSafe, Shows, connected,
              workerVars

(* What getFrameMeta tells is the frame of now, and the bitmap gets its size.*)
LEMMA GetFrameMetaStep ==
    ASSUME IInv, getFrameMeta
    PROVE  IInv'
<1> USE DEF IInv
<1>1. frame.size \in Sizes /\ frame.sequence \in 0 .. MaxSequence
  BY MaxSequenceAssumption DEF getFrameMeta, TypeOK, Frames, SeqInv
<1>2. /\ bitmap' = frame.size /\ meta' = frame /\ UNCHANGED <<workerVars, frameMeta>>
      /\ loop' \in {"copy", "poll"} /\ stray' \in BOOLEAN
  BY DEF getFrameMeta, NeedsBitmap, TypeOK
<1>3. pixels' \in [Area(bitmap') -> 0 .. MaxSequence]
  <2>1. CASE NeedsBitmap(frame.size)
    BY <2>1, <1>2, MaxSequenceAssumption DEF getFrameMeta
  <2>2. CASE ~NeedsBitmap(frame.size)
    BY <2>2, <1>2 DEF getFrameMeta, TypeOK
  <2> QED
    BY <2>1, <2>2
<1>4. TypeOK'
  BY <1>1, <1>2, <1>3 DEF TypeOK, workerVars
<1>5. SeqInv' /\ CopyInv' /\ DialInv'
  BY <1>1, <1>2 DEF SeqInv, CopyInv, DialInv, getFrameMeta, workerVars
<1>6. SkipIsSafe'
  <2> SUFFICES ASSUME connected, frameMeta.sequence = frame.sequence
               PROVE  Shows(frame)' /\ frameMeta.size = frame.size
    BY <1>2 DEF SkipIsSafe, connected, workerVars
  <2>1. Shows(frame) /\ frameMeta.size = frame.size
    BY DEF SkipIsSafe
  <2>2. UNCHANGED <<bitmap, pixels>>
    BY <2>1 DEF Shows, getFrameMeta, NeedsBitmap
  <2> QED
    BY <1>2, <2>1, <2>2 DEF Shows, workerVars
<1> QED
  BY <1>4, <1>5, <1>6

(* A copy is remembered under the number of meta, shown or not.              *)
LEMMA CopiedStep ==
    ASSUME IInv, NEW code \in CopyCodes, Copied(code)
    PROVE  IInv'
<1> USE DEF IInv
<1>1. /\ loop = "copy" /\ loop' = "poll" /\ copyFrameToBitmap(code)
      /\ UNCHANGED <<workerVars, meta, bitmap, stray>>
      /\ frameMeta' = IF code >= 0 THEN meta ELSE frameMeta
  BY DEF Copied, Remembers
<1>2. /\ pixels' \in [Area(bitmap) -> 0 .. MaxSequence]
      /\ Shows(frame) => Shows(frame)'
      /\ code >= 0 /\ connected /\ bitmap = frame.size => Shows(frame)'
  BY <1>1, CopyKeeps
<1>3. TypeOK'
  BY <1>1, <1>2 DEF TypeOK, workerVars
<1>4. SeqInv' /\ CopyInv' /\ DialInv'
  BY <1>1 DEF SeqInv, CopyInv, DialInv, workerVars
<1>5. SkipIsSafe'
  <2> SUFFICES ASSUME connected, frameMeta'.sequence = frame.sequence
               PROVE  Shows(frame)' /\ frameMeta'.size = frame.size
    BY <1>1 DEF SkipIsSafe, connected, workerVars
  <2>1. CASE code >= 0
    BY <1>1, <1>2, <2>1 DEF CopyInv
  <2>2. CASE ~(code >= 0)
    BY <1>1, <1>2, <2>2 DEF SkipIsSafe
  <2> QED
    BY <2>1, <2>2
<1> QED
  BY <1>3, <1>4, <1>5

(* A stray copy draws into the bitmap, and nothing is remembered.            *)
LEMMA StrayStep ==
    ASSUME IInv, StrayCopy
    PROVE  IInv'
<1> USE DEF IInv
<1>1. PICK code \in CopyCodes : copyFrameToBitmap(code)
  BY DEF StrayCopy
<1>2. stray' = FALSE /\ UNCHANGED <<workerVars, loop, meta, frameMeta, bitmap>>
  BY DEF StrayCopy
<1>3. /\ pixels' \in [Area(bitmap) -> 0 .. MaxSequence]
      /\ Shows(frame) => Shows(frame)'
  BY <1>1, <1>2, CopyKeeps
<1>4. TypeOK'
  BY <1>2, <1>3 DEF TypeOK, workerVars
<1>5. SeqInv' /\ CopyInv' /\ DialInv'
  BY <1>2 DEF SeqInv, CopyInv, DialInv, workerVars
<1>6. SkipIsSafe'
  BY <1>2, <1>3 DEF SkipIsSafe, connected, workerVars
<1> QED
  BY <1>4, <1>5, <1>6

(* Every step preserves IInv.                                                *)
LEMMA NextInv == IInv /\ [Next]_vars => IInv'
<1> SUFFICES ASSUME IInv, [Next]_vars PROVE IInv'
  OBVIOUS
<1>1. CASE WorkerSteps
  BY <1>1, WorkerStep
<1>2. CASE AppSteps
  BY <1>2, StatusStep, GetFrameMetaStep, CopiedStep, StrayStep DEF AppSteps
<1>3. CASE UNCHANGED vars
  BY <1>3 DEF vars, workerVars, appVars, IInv, TypeOK, SeqInv, CopyInv, DialInv,
              SkipIsSafe, Shows, connected
<1> QED
  BY <1>1, <1>2, <1>3 DEF Next

-----------------------------------------------------------------------------
(* Every bitmap the frame loop draws into has the pixels of its own size and *)
(* no others: a copy never writes outside it.                                *)
THEOREM Typed == Spec => []TypeOK
<1>1. IInv => TypeOK
  BY DEF IInv
<1> QED
  BY <1>1, InitInv, NextInv, PTL DEF Spec

(* When the frame loop copies nothing, because the sequence number is the    *)
(* one it remembers, it already shows the current frame.                     *)
THEOREM SkippingIsSafe == Spec => []SkipIsSafe
<1>1. IInv => SkipIsSafe
  BY DEF IInv
<1> QED
  BY <1>1, InitInv, NextInv, PTL DEF Spec
=============================================================================
