---------------------------- MODULE FrameChannel ----------------------------
(***************************************************************************)
(* How the picture of one session gets from FreeRDP to the screen.         *)
(*                                                                         *)
(* The worker writes a frame buffer under frameMutex and counts its writes.*)
(* The frame loop of SessionScreen.kt asks for size and sequence number in *)
(* one JNI call and, if the number is not the one it has remembered, has   *)
(* the pixels copied into its bitmap by a second one; the worker may paint,*)
(* resize or clean up between the two. The loop lives while the status is  *)
(* CONNECTED. It is cancelled when that changes, but a copy it has asked   *)
(* for is finished by its IO thread, perhaps beside the next loop.         *)
(*                                                                         *)
(* The content of a frame is the number of the write that produced it.     *)
(***************************************************************************)
EXTENDS RdpCodes

CONSTANTS
    Sizes,          \* the sizes a desktop can have
    MaxSequence     \* bound: paints and resizes of one session

Size == [w : Nat \ {0}, h : Nat \ {0}]

ASSUME SizesAssumption == Sizes \subseteq Size

ASSUME MaxSequenceAssumption == MaxSequence \in Nat

VARIABLES
    worker,     \* where run() is
    gdi,        \* the size of FreeRDP's own buffer
    frame,      \* frameWidth, frameHeight, frameSequence
    loop,       \* where the frame loop is; "off" while the status is another
    meta,       \* what getFrameMeta returned to it
    frameMeta,  \* frameMeta and frameSequence, which are set together
    bitmap,     \* the size of frameBitmap
    pixels,     \* what is in it
    stray       \* a cancelled loop left a copy into this bitmap to be finished

workerVars == <<worker, gdi, frame>>
appVars    == <<loop, meta, frameMeta, bitmap, pixels, stray>>
vars == <<workerVars, appVars>>

-----------------------------------------------------------------------------
NoSize     == [w |-> 0, h |-> 0]
Area(size) == (1 .. size.w) \X (1 .. size.h)

(* The loop starts with Int.MIN_VALUE, which stands for no frame: as a jint  *)
(* the frame's number is not negative before its 2^31st write.               *)
NoSequence == -1

Frames == [size : Sizes \cup {NoSize}, sequence : 0 .. MaxSequence + 1]

TypeOK ==
    /\ worker \in {"dialing", "failed", "loop", "closing", "offline", "closed"}
    /\ gdi \in Sizes \cup {NoSize}
    /\ frame \in Frames
    /\ loop \in {"off", "poll", "copy"}
    /\ meta \in Frames
    /\ frameMeta \in Frames \cup {[size |-> NoSize, sequence |-> NoSequence]}
    /\ bitmap \in Sizes \cup {NoSize}
    /\ pixels \in [Area(bitmap) -> 0 .. MaxSequence]
    /\ stray \in BOOLEAN

Init ==
    /\ worker = "dialing" /\ gdi = NoSize
    /\ frame = [size |-> NoSize, sequence |-> 0]
    /\ loop = "off" /\ stray = FALSE
    /\ meta = [size |-> NoSize, sequence |-> 0]
    /\ frameMeta = [size |-> NoSize, sequence |-> NoSequence]
    /\ bitmap = NoSize /\ pixels = [p \in Area(NoSize) |-> 0]

connected == worker \in {"loop", "closing"}

-----------------------------------------------------------------------------
(* The worker. Every write of the frame is one critical section.             *)
WorkerMoves(from, to) == worker = from /\ worker' = to

Writes(size) == frame' = [size |-> size, sequence |-> frame.sequence + 1]

(* Without a size to apply the frame stays as it is.                         *)
applyDesktopSizeFromSettings ==
    \/ frame.sequence < MaxSequence /\ \E size \in Sizes : Writes(size)
    \/ UNCHANGED frame

(* postConnect, once in each attempt that gets that far: gdi_init, then the  *)
(* frame                                                                     *)
PostConnects ==
    /\ worker = "dialing" /\ gdi' \in Sizes
    /\ applyDesktopSizeFromSettings
    /\ UNCHANGED <<worker, appVars>>

Connects ==
    /\ WorkerMoves("dialing", "loop") /\ gdi # NoSize
    /\ UNCHANGED <<gdi, frame, appVars>>

ConnectFails == WorkerMoves("dialing", "failed") /\ UNCHANGED <<gdi, frame, appVars>>

(* endPaint                                                                  *)
captureFrame ==
    /\ worker = "loop" /\ frame.sequence < MaxSequence
    /\ Writes(gdi)
    /\ UNCHANGED <<worker, gdi, appVars>>

(* The frame takes the new size and is blank; gdi keeps the one it has.      *)
desktopResize ==
    /\ worker = "loop"
    /\ applyDesktopSizeFromSettings
    /\ UNCHANGED <<worker, gdi, appVars>>

LoopEnds == WorkerMoves("loop", "closing") /\ UNCHANGED <<gdi, frame, appVars>>

(* cleanup(): the flag first, then the frame                                 *)
GoesOffline == WorkerMoves("closing", "offline") /\ UNCHANGED <<gdi, frame, appVars>>

ClearsFrame ==
    /\ WorkerMoves("offline", "closed") \/ WorkerMoves("failed", "closed")
    /\ Writes(NoSize)
    /\ UNCHANGED <<gdi, appVars>>

-----------------------------------------------------------------------------
(* The app                                                                   *)
StatusBecomesConnected ==
    /\ loop = "off" /\ loop' = "poll"
    /\ UNCHANGED <<workerVars, meta, frameMeta, bitmap, pixels, stray>>

StatusChanges ==
    /\ loop # "off" /\ loop' = "off"
    /\ stray' = (stray \/ loop = "copy")
    /\ UNCHANGED <<workerVars, meta, frameMeta, bitmap, pixels>>

(* Mutant: a bitmap is made once.                                            *)
NeedsBitmapOnce(size) == bitmap = NoSize /\ size # NoSize

NeedsBitmap(size) == bitmap # size

(* getFrameMeta, and what the loop does with the answer. connected is tested *)
(* before frameMutex is taken: a call that began before cleanup() may go on  *)
(* after it. Without a frame the answer is null.                             *)
getFrameMeta ==
    /\ loop = "poll"
    /\ worker \notin {"dialing", "failed"} /\ frame.size # NoSize
    /\ meta' = frame
    /\ IF NeedsBitmap(frame.size)
       THEN /\ bitmap' = frame.size
            /\ pixels' = [p \in Area(frame.size) |-> 0]
            /\ stray' = FALSE       \* the old bitmap is out of sight
       ELSE UNCHANGED <<bitmap, pixels, stray>>
    /\ loop' = IF frame.sequence # frameMeta.sequence THEN "copy" ELSE "poll"
    /\ UNCHANGED <<workerVars, frameMeta>>

(* Mutant: the rows and columns to copy are the frame's.                     *)
CopyPixelsUnclipped ==
    pixels' = [p \in Area(bitmap) \cup Area(frame.size) |->
                  IF p \in Area(frame.size) THEN frame.sequence ELSE pixels[p]]

(* The rows and columns that bitmap and frame have in common                 *)
CopyPixels ==
    pixels' = [p \in Area(bitmap) |->
                  IF p \in Area(frame.size) THEN frame.sequence ELSE pixels[p]]

(* copyFrameToBitmap, with the code it returns. The session was connected    *)
(* when the loop asked for the copy. Android may refuse to lock the bitmap,  *)
(* or to unlock it.                                                          *)
copyFrameToBitmap(code) ==
    \/ ~connected /\ code = RC_NOT_CONNECTED /\ UNCHANGED pixels
    \/ frame.size = NoSize /\ code = RC_FRAME_UNAVAILABLE /\ UNCHANGED pixels
    \/ frame.size # NoSize /\ code \in {RC_OK, RC_INTERNAL_ERROR} /\ CopyPixels
    \/ code = RC_INTERNAL_ERROR /\ UNCHANGED pixels

CopyCodes == {RC_OK, RC_NOT_CONNECTED, RC_FRAME_UNAVAILABLE, RC_INTERNAL_ERROR}

(* Mutant: what is remembered is the sequence number of now.                 *)
RemembersNow == frameMeta' = [size |-> meta.size, sequence |-> frame.sequence]

Remembers == frameMeta' = meta

(* The copy and what the loop does with its code, which may be non-negative  *)
(* although nothing was copied. If the loop is cancelled between the two,    *)
(* that is a stray copy.                                                     *)
Copied(code) ==
    /\ loop = "copy" /\ loop' = "poll"
    /\ copyFrameToBitmap(code)
    /\ IF code >= 0 THEN Remembers ELSE UNCHANGED frameMeta
    /\ UNCHANGED <<workerVars, meta, bitmap, stray>>

StrayCopy ==
    /\ stray /\ stray' = FALSE
    /\ \E code \in CopyCodes : copyFrameToBitmap(code)
    /\ UNCHANGED <<workerVars, loop, meta, frameMeta, bitmap>>

-----------------------------------------------------------------------------
WorkerSteps ==
    \/ PostConnects \/ Connects \/ ConnectFails \/ captureFrame \/ desktopResize
    \/ LoopEnds \/ GoesOffline \/ ClearsFrame

AppSteps ==
    \/ StatusBecomesConnected \/ StatusChanges \/ getFrameMeta
    \/ (\E code \in CopyCodes : Copied(code)) \/ StrayCopy

Next == WorkerSteps \/ AppSteps

Spec == Init /\ [][Next]_vars

(* The loop runs every 33 ms, and a copy that is tried again and again does  *)
(* not always fail in Android. Nothing is assumed of the worker or the status*)
Fairness == WF_vars(getFrameMeta) /\ SF_vars(Copied(RC_OK))

FairSpec == Spec /\ Fairness

-----------------------------------------------------------------------------
Shows(f) == bitmap = f.size /\ \A p \in Area(bitmap) : pixels[p] = f.sequence

(* The loop copies nothing when the sequence number is the one it remembers. *)
(* Then it shows that very frame, whole and in its size, and pointer events  *)
(* are scaled to it, whatever happened between the two calls of any round:   *)
(* a picture mixed of two frames, or of the wrong size, is never kept.       *)
SkipIsSafe ==
    connected /\ frameMeta.sequence = frame.sequence =>
        Shows(frame) /\ frameMeta.size = frame.size

(* If the session stays connected and the status says so, the last frame is  *)
(* what the screen shows in the end.                                         *)
LastFrameShown == <>[](connected /\ loop # "off") => <>[]Shows(frame)
=============================================================================
