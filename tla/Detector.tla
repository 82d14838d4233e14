------------------------------ MODULE Detector ------------------------------
(***************************************************************************)
(* A marker, object or depth detector (include/computing/DetectorBase.hpp):*)
(* the main loop hands it camera images and polls its candidates, a worker *)
(* thread of its own runs detect() on the newest image. Both share plain   *)
(* flags and buffers without a lock, so every access is a step.            *)
(*                                                                         *)
(* An image is the number of the frame it shows. CameraDevice::update()    *)
(* copies each frame into one buffer that the detector's m_currentImage    *)
(* refers to, hence a running detection can see the next frame arrive.     *)
(***************************************************************************)
EXTENDS Naturals

CONSTANTS
    MaxFrame,   \* bound on the frames the camera delivers (the code has none)
    Torn        \* what is copied while the other thread assigns

ASSUME DetectorAssumption ==
    /\ MaxFrame \in Nat
    /\ Torn \notin Nat

VARIABLES
    object,         \* which part of the object exists
    listed,         \* the camera's image port lists the detector's input port
    frame,          \* the frame in the camera's buffer, 0 before the first
    hasNewImage,    \* m_hasNewImage
    detecting,      \* m_detecting
    initialized,    \* m_isInitialized
    candidates,     \* m_currentCandidates: the frame they were found in
    areNew,         \* m_areNewCandidatesAvailable
    main,           \* where the main thread is
    worker,         \* where the worker is
    looked,         \* history: the frame the last detection looked at
    taken           \* history: the candidates the manager processed last

vars == <<object, listed, frame, hasNewImage, detecting, initialized,
          candidates, areNew, main, worker, looked, taken>>

Frame == 0..MaxFrame

(* The camera may have sent an image to others before.                     *)
Init ==
    /\ object = "none"
    /\ listed = FALSE
    /\ frame \in 0..1 \cap Frame
    /\ hasNewImage = FALSE
    /\ detecting = FALSE
    /\ initialized = FALSE
    /\ candidates = 0
    /\ areNew = FALSE
    /\ main = "loop"
    /\ worker = "none"
    /\ looked = 0
    /\ taken = 0

-----------------------------------------------------------------------------
(* The main thread.                                                        *)

(* checkCameras() creates the detector. The base constructor connects to   *)
(* the camera, which hands over the image it has cached, and starts the    *)
(* worker; the derived constructor has yet to run.                         *)
Create ==
    /\ main = "loop" /\ object = "none"
    /\ object' = "base"
    /\ listed' = TRUE
    /\ hasNewImage' = (frame > 0)
    /\ detecting' = TRUE
    /\ worker' = "look"
    /\ main' = "construct"
    /\ UNCHANGED <<frame, initialized, candidates, areNew, looked, taken>>

(* The end of the derived constructor: network and parameters are loaded.  *)
Initialize ==
    /\ main = "construct"
    /\ object' = "whole"
    /\ initialized' = TRUE
    /\ main' = "loop"
    /\ UNCHANGED <<listed, frame, hasNewImage, detecting, candidates, areNew,
                   worker, looked, taken>>

(* CameraRoomNode::update(): while the port has a listener, the next frame *)
(* is copied into the buffer; a detection at work sees it, or does not.    *)
Capture ==
    /\ main = "loop" /\ listed /\ frame < MaxFrame
    /\ frame' = frame + 1
    /\ \/ UNCHANGED looked
       \/ worker = "detecting" /\ looked' = frame'
    /\ main' = "deliver"
    /\ UNCHANGED <<object, listed, hasNewImage, detecting, initialized,
                   candidates, areNew, worker, taken>>

(* ... and sent: the receive callback. It holds a raw pointer to the       *)
(* detector; nothing disconnects the port when the detector is destroyed.  *)
Deliver ==
    /\ main = "deliver"
    /\ IF object = "dead"
         THEN main' = "corrupt" /\ UNCHANGED hasNewImage
         ELSE main' = "loop" /\ hasNewImage' = TRUE
    /\ UNCHANGED <<object, listed, frame, detecting, initialized, candidates,
                   areNew, worker, looked, taken>>

(* processMarkers(), processObjects(): hasNewCandidates(), then            *)
(* getCandidates(), which clears the flag before it copies.                *)
Poll ==
    /\ main = "loop" /\ object = "whole" /\ areNew
    /\ areNew' = FALSE
    /\ main' = "copy"
    /\ UNCHANGED <<object, listed, frame, hasNewImage, detecting, initialized,
                   candidates, worker, looked, taken>>

ClearedAfterCopy ==
    \/ /\ main = "copy"
       /\ taken' = candidates
       /\ main' = "copied"
       /\ UNCHANGED areNew
    \/ /\ main = "copied"
       /\ areNew' = FALSE
       /\ main' = "loop"
       /\ UNCHANGED taken
TakeCandidatesLate ==
    /\ ClearedAfterCopy
    /\ UNCHANGED <<object, listed, frame, hasNewImage, detecting, initialized,
                   candidates, worker, looked>>
TakeCandidates ==
    /\ main = "copy"
    /\ taken' = candidates
    /\ main' = "loop"
    /\ UNCHANGED <<object, listed, frame, hasNewImage, detecting, initialized,
                   candidates, areNew, worker, looked>>

(* checkCameras() erases the detector: first the derived part goes, then   *)
(* ~DetectorBase() runs doDetecting(false) and joins the worker.           *)
Erase ==
    /\ main = "loop" /\ object = "whole"
    /\ object' = "base"
    /\ main' = "destruct"
    /\ UNCHANGED <<listed, frame, hasNewImage, detecting, initialized,
                   candidates, areNew, worker, looked, taken>>

StopDetecting ==
    /\ main = "destruct"
    /\ detecting' = FALSE
    /\ main' = "join"
    /\ UNCHANGED <<object, listed, frame, hasNewImage, initialized, candidates,
                   areNew, worker, looked, taken>>

(* m_thread.join(): returns once the thread function has.                  *)
Detached == main = "join"
Joined == main = "join" /\ worker = "ended"

Join ==
    /\ Joined
    /\ object' = "dead"
    /\ main' = "loop"
    /\ UNCHANGED <<listed, frame, hasNewImage, detecting, initialized,
                   candidates, areNew, worker, looked, taken>>

-----------------------------------------------------------------------------
(* The worker: while (m_detecting) { ... }                                 *)

Restart ==
    /\ worker = "look"
    /\ worker' = "check"
    /\ UNCHANGED <<object, listed, frame, hasNewImage, detecting, initialized,
                   candidates, areNew, main, looked, taken>>
ReadDetecting ==
    /\ worker = "look"
    /\ worker' = IF detecting THEN "check" ELSE "ended"
    /\ UNCHANGED <<object, listed, frame, hasNewImage, detecting, initialized,
                   candidates, areNew, main, looked, taken>>

(* Nothing to do, or the object is not built: "continue".                  *)
EagerReady == hasNewImage
Ready == hasNewImage /\ initialized

CheckImage ==
    /\ worker = "check"
    /\ worker' = IF Ready THEN "clear" ELSE "look"
    /\ UNCHANGED <<object, listed, frame, hasNewImage, detecting, initialized,
                   candidates, areNew, main, looked, taken>>

(* The idle loop writes nothing and the flags are neither atomic nor       *)
(* volatile: an optimiser may read them once and spin.                     *)
Hoist ==
    /\ worker = "check" /\ ~Ready
    /\ worker' = "hoisted"
    /\ UNCHANGED <<object, listed, frame, hasNewImage, detecting, initialized,
                   candidates, areNew, main, looked, taken>>

ClearImage ==
    /\ worker = "clear"
    /\ hasNewImage' = FALSE
    /\ worker' = "detect"
    /\ UNCHANGED <<object, listed, frame, detecting, initialized, candidates,
                   areNew, main, looked, taken>>

Detect ==
    /\ worker = "detect"
    /\ looked' = frame
    /\ worker' = "detecting"
    /\ UNCHANGED <<object, listed, frame, hasNewImage, detecting, initialized,
                   candidates, areNew, main, taken>>

(* Nothing was found: detect() returns early and the old candidates stay.  *)
ClearedAfterDetect ==
    /\ worker = "detecting"
    /\ hasNewImage' = FALSE
    /\ worker' = "look"
    /\ UNCHANGED <<object, listed, frame, detecting, initialized, candidates,
                   areNew, main, looked, taken>>
FindNothing ==
    /\ worker = "detecting"
    /\ worker' = "look"
    /\ UNCHANGED <<object, listed, frame, hasNewImage, detecting, initialized,
                   candidates, areNew, main, looked, taken>>

(* The end of detect(): the vector is assigned, then the flag is set.      *)
Assign ==
    /\ worker = "detecting"
    /\ candidates' = Torn
    /\ worker' = "assigning"
    /\ UNCHANGED <<object, listed, frame, hasNewImage, detecting, initialized,
                   areNew, main, looked, taken>>

Assigned ==
    /\ worker = "assigning"
    /\ candidates' = looked
    /\ worker' = "announce"
    /\ UNCHANGED <<object, listed, frame, hasNewImage, detecting, initialized,
                   areNew, main, looked, taken>>

Announce ==
    /\ worker = "announce"
    /\ areNew' = TRUE
    /\ worker' = "look"
    /\ UNCHANGED <<object, listed, frame, hasNewImage, detecting, initialized,
                   candidates, main, looked, taken>>

-----------------------------------------------------------------------------
MainContinues ==
    Initialize \/ Deliver \/ TakeCandidates \/ StopDetecting \/ Join

Worker ==
    \/ ReadDetecting \/ CheckImage \/ Hoist \/ ClearImage \/ Detect
    \/ FindNothing \/ Assign \/ Assigned \/ Announce

Next ==
    \/ Create \/ Capture \/ Poll \/ Erase
    \/ MainContinues
    \/ Worker

Spec == Init /\ [][Next]_vars

(* The main loop goes on and polls in every round, the worker is scheduled *)
(* and a detection ends. Nothing says that frames come, that a marker is   *)
(* found or that the detector is ever switched off.                        *)
FairSpec ==
    /\ Spec
    /\ WF_vars(MainContinues)
    /\ WF_vars(Poll)
    /\ WF_vars(Worker)

-----------------------------------------------------------------------------
Idle == {"none", "look", "check", "hoisted", "ended"}
Looking == {"clear", "detect"}
Detecting == {"detecting", "assigning", "announce"}

TypeOK ==
    /\ object \in {"none", "base", "whole", "dead"}
    /\ object = "dead" => worker = "ended"
    /\ listed \in BOOLEAN
    /\ frame \in Frame
    /\ hasNewImage \in BOOLEAN
    /\ detecting \in BOOLEAN
    /\ initialized \in BOOLEAN
    /\ candidates \in Frame \cup {Torn}
    /\ areNew \in BOOLEAN
    /\ main \in {"loop", "construct", "deliver", "copy", "destruct", "join", "corrupt"}
    /\ worker \in Idle \cup Looking \cup Detecting
    /\ looked \in Frame
    /\ taken \in Frame \cup {Torn}

(* m_hasNewImage is cleared by the worker and set by the main thread with  *)
(* no lock between them; still no image falls between the two: while the   *)
(* detector lives, either the last detection looked at the newest frame,   *)
(* or the flag says there is one, or it is on its way.                     *)
NewestImageNotLost ==
    object \in {"base", "whole"} =>
        \/ looked = frame
        \/ hasNewImage
        \/ worker \in Looking
        \/ main = "deliver"

(* detect() is virtual: no detection begins before the derived constructor *)
(* is through, although the worker is started by the base's, and none is   *)
(* left when the destructor has returned. (While it runs, one can be at    *)
(* work on the destroyed derived part: the code does not prevent that.)    *)
DetectOnWholeObject ==
    worker \in Looking \cup Detecting =>
        \/ object = "whole"
        \/ main \in {"destruct", "join"}

(* The candidates the manager has not processed are announced, about to be *)
(* announced, or being taken: polling and publishing, each a flag and a    *)
(* copy, never leave a result behind unseen.                               *)
ResultsNotLost ==
    candidates # taken =>
        \/ areNew
        \/ main = "copy"
        \/ worker \in {"assigning", "announce"}
        \/ main \in {"destruct", "join"}
        \/ object = "dead"

(* ~DetectorBase() waits for the thread without a timeout, and comes back: *)
(* a detection at work finishes and its loop then sees m_detecting, unless *)
(* the build took the flags out of the loop.                               *)
StopReturns ==
    main = "destruct" ~> object = "dead" \/ worker = "hoisted"

(* An image that is delivered is looked at, or a newer one is, unless the  *)
(* detector is erased first (or its loop was optimised away).              *)
ImageDetected ==
    \A k \in 1..MaxFrame :
        hasNewImage /\ frame = k ~>
            looked >= k \/ object # "whole" \/ worker = "hoisted"
=============================================================================
