------------------------ MODULE ProjectorCalibration ------------------------
(***************************************************************************)
(* The calibration of a projector (src/room/projector/ProjectorRoomNode    *)
(* .cpp). The projector shows one point after the other, each where a ray  *)
(* leaves it; the user, who sees it, puts a hand into the ray and sends    *)
(* the hand's position; each pair of the two is a correspondence, and from *)
(* the sixth on every new one solves the projector's parameters anew.      *)
(*                                                                         *)
(* Two threads: the server's handles the user's messages (fromParams(),    *)
(* addCorrespondence()), the main thread serves the operator's GUI         *)
(* (drawSpecificSettings()) and draws the window (drawProjection()). They  *)
(* share plain members; every access that another thread may tell apart is *)
(* a step. An image point is the number of its ray; an object point is the *)
(* number of the ray the user had the hand in, which the code cannot know. *)
(* What the solving computes is left out: `solved' is how many pairs the   *)
(* parameters come from. Parameters set by hand are left out too.          *)
(***************************************************************************)
EXTENDS Integers, Sequences, FiniteSets

CONSTANTS
    MinRays,    \* 4, the fewest rays the GUI lets the operator choose
    MaxRays,    \* 10, the most: the length of m_calibrationRayCoords
    Needed,     \* 6, the fewest correspondences that can be solved
    MaxPoints,  \* bound on m_totalPoints (the code has none)
    MaxInbox,   \* bound on the messages under way
    Apart       \* do the operator's edits and the server's handling not overlap?

ASSUME CalibrationAssumption ==
    /\ MinRays \in Nat \ {0}
    /\ MaxRays \in Nat /\ MinRays <= MaxRays
    /\ Needed \in Nat /\ MinRays <= Needed
    /\ MaxPoints \in Nat /\ Needed <= MaxPoints
    /\ MaxInbox \in Nat \ {0}
    /\ Apart \in BOOLEAN

(* One more than there are: a number of rays that is too great works until *)
(* it is corrected.                                                        *)
Ray == 0..MaxRays
Nowhere == -1
TestPairs == MaxPoints + 1

(* A message's params; the keys are read in this order.                    *)
Switch == {"on", "off", "keep"}
Message == [isCalibrating : Switch, reset : BOOLEAN, objectPoint : Ray \cup {Nowhere}]

Request(switch, reset) ==
    [isCalibrating |-> switch, reset |-> reset, objectPoint |-> Nowhere]
Mark(r) == [isCalibrating |-> "keep", reset |-> FALSE, objectPoint |-> r]
NoMessage == Request("keep", FALSE)

VARIABLES
    isCalibrating,  \* m_isCalibrating
    imagePoints,    \* m_imagePoints
    objectPoints,   \* m_objectPoints
    next,           \* m_nextCorrespondence
    totalPoints,    \* m_totalPoints
    totalRays,      \* m_totalCalibrationRays
    solved,         \* how many pairs the parameters were solved from; or 0
    window,         \* is m_window open?
    shown,          \* the ray of the point in the window, or Nowhere
    inbox,          \* messages on their way from the user
    server,         \* where the server's thread is
    msg,            \* the message it handles, or NoMessage
    currentRay,     \* its local variable, as long as it has one
    main            \* where the main thread is

points == <<imagePoints, objectPoints, next>>
settings == <<totalPoints, totalRays>>
display == <<window, shown>>
serverVars == <<server, msg, currentRay>>
vars == <<isCalibrating, points, settings, solved, display, inbox, serverVars, main>>

(* getCurrentRay(): prefer next ray.                                       *)
CurrentRay == next % totalRays

Init ==
    /\ isCalibrating = FALSE
    /\ imagePoints = <<>> /\ objectPoints = <<>> /\ next = 0
    /\ totalPoints = Needed /\ totalRays = MinRays
    /\ solved = 0
    /\ window = FALSE /\ shown = Nowhere
    /\ inbox = <<>>
    /\ server = "idle" /\ msg = NoMessage /\ currentRay = 0
    /\ main = "free"

(* Nothing in the code keeps the two threads apart. Apart is what the runs *)
(* and theorems may assume of them: that no edit of the operator overlaps  *)
(* the handling of a message. Nobody waits for anybody: messages may be on *)
(* their way during an edit, and a user may mark the same point twice.     *)
Editing == main \notin {"free", "point", "end"}
OperatorMayEdit == main = "free" /\ (Apart => server = "idle")
ServerMayTake == Apart => ~Editing

-----------------------------------------------------------------------------
(* The user.                                                               *)

Send(m) ==
    /\ Len(inbox) < MaxInbox
    /\ inbox' = Append(inbox, m)
    /\ UNCHANGED <<isCalibrating, points, settings, solved, display, serverVars, main>>

MarkPoint == shown # Nowhere /\ Send(Mark(shown))

SwitchOrReset ==
    \E m \in {Request("on", TRUE), Request("on", FALSE), Request("off", FALSE),
              Request("keep", TRUE)} : Send(m)

-----------------------------------------------------------------------------
(* The server's thread: fromParams().                                      *)

(* It goes on to pc; when it is idle again, its locals are gone.           *)
GoTo(pc) ==
    /\ server' = pc
    /\ msg' = IF pc = "idle" THEN NoMessage ELSE msg
    /\ currentRay' = IF pc = "idle" THEN 0 ELSE currentRay

Take ==
    /\ server = "idle" /\ inbox # <<>> /\ ServerMayTake
    /\ msg' = Head(inbox)
    /\ inbox' = Tail(inbox)
    /\ server' = "switch"
    /\ UNCHANGED <<isCalibrating, points, settings, solved, display, currentRay, main>>

AfterReset(m) == IF m.objectPoint = Nowhere THEN "idle" ELSE "test"

SetIsCalibrating ==
    /\ server = "switch"
    /\ isCalibrating' =
         (msg.isCalibrating = "on" \/ (msg.isCalibrating = "keep" /\ isCalibrating))
    /\ GoTo(IF msg.reset THEN "clearImage" ELSE AfterReset(msg))
    /\ UNCHANGED <<points, settings, solved, display, inbox, main>>

(* resetCorrespondences(), from either thread (pc: where it is now).       *)
ClearPointsToMinusOne(pc) ==
    /\ imagePoints' = IF pc = "clearImage" THEN <<>> ELSE imagePoints
    /\ objectPoints' = IF pc = "clearObject" THEN <<>> ELSE objectPoints
    /\ next' = IF pc = "clearCount" THEN -1 ELSE next
ClearPoints(pc) ==
    /\ imagePoints' = IF pc = "clearImage" THEN <<>> ELSE imagePoints
    /\ objectPoints' = IF pc = "clearObject" THEN <<>> ELSE objectPoints
    /\ next' = IF pc = "clearCount" THEN 0 ELSE next

AfterClear(pc, done) ==
    IF pc = "clearImage" THEN "clearObject"
    ELSE IF pc = "clearObject" THEN "clearCount"
    ELSE done

Clearing == {"clearImage", "clearObject", "clearCount"}

ServerReset ==
    /\ server \in Clearing
    /\ ClearPoints(server)
    /\ GoTo(AfterClear(server, AfterReset(msg)))
    /\ UNCHANGED <<isCalibrating, settings, solved, display, inbox, main>>

(* addCorrespondence(): nothing, when not calibrating or when there are    *)
(* enough.                                                                 *)
Accept ==
    /\ server = "test"
    /\ GoTo(IF ~isCalibrating \/ next >= totalPoints THEN "idle" ELSE "ray")
    /\ UNCHANGED <<isCalibrating, points, settings, solved, display, inbox, main>>

GetCurrentRay ==
    /\ server = "ray"
    /\ currentRay' = CurrentRay
    /\ server' = "pushImage"
    /\ UNCHANGED <<isCalibrating, points, settings, solved, display, inbox, msg, main>>

PushImagePoint ==
    /\ server = "pushImage"
    /\ imagePoints' = Append(imagePoints, currentRay)
    /\ server' = "pushObject"
    /\ UNCHANGED <<isCalibrating, objectPoints, next, settings, solved, display, inbox,
                   msg, currentRay, main>>

PushObjectPoint ==
    /\ server = "pushObject"
    /\ objectPoints' = Append(objectPoints, msg.objectPoint)
    /\ server' = "count"
    /\ UNCHANGED <<isCalibrating, imagePoints, next, settings, solved, display, inbox,
                   msg, currentRay, main>>

Count ==
    /\ server = "count"
    /\ next' = next + 1
    /\ server' = "enough"
    /\ UNCHANGED <<isCalibrating, imagePoints, objectPoints, settings, solved, display,
                   inbox, msg, currentRay, main>>

OneTooFew == next + 1 >= Needed
OneTooMany == next > Needed
EnoughPairs == next >= Needed

SolveIfPossible ==
    /\ server = "enough"
    /\ GoTo(IF EnoughPairs THEN "solve" ELSE "idle")
    /\ UNCHANGED <<isCalibrating, points, settings, solved, display, inbox, main>>

(* calibrateDLT()                                                          *)
CalibrateDLT ==
    /\ server = "solve"
    /\ solved' = Len(objectPoints)
    /\ GoTo("idle")
    /\ UNCHANGED <<isCalibrating, points, settings, display, inbox, main>>

-----------------------------------------------------------------------------
(* The main thread: the operator's GUI ...                                 *)

ToggleCalibrating ==
    /\ main = "free"
    /\ isCalibrating' = ~isCalibrating
    /\ UNCHANGED <<points, settings, solved, display, inbox, serverVars, main>>

PressReset ==
    /\ OperatorMayEdit
    /\ main' = "clearImage"
    /\ UNCHANGED <<isCalibrating, points, settings, solved, display, inbox, serverVars>>

MainReset ==
    /\ main \in Clearing
    /\ ClearPoints(main)
    /\ main' = AfterClear(main, "free")
    /\ UNCHANGED <<isCalibrating, settings, solved, display, inbox, serverVars>>

(* A number that was typed in is in the member before it is corrected (any *)
(* number; 0 rays, by which getCurrentRay() would divide, are left out).   *)
LeastButOne(n, low) == IF n < low - 1 THEN low ELSE n
AtLeast(n, low) == IF n < low THEN low ELSE n
AtMost(n, high) == IF n > high THEN high ELSE n

TypePoints ==
    /\ OperatorMayEdit
    /\ totalPoints' \in (Needed - 1)..MaxPoints
    /\ main' = "clampPoints"
    /\ UNCHANGED <<isCalibrating, points, totalRays, solved, display, inbox, serverVars>>

ClampPoints ==
    /\ main = "clampPoints"
    /\ totalPoints' = AtLeast(totalPoints, Needed)
    /\ main' = "free"
    /\ UNCHANGED <<isCalibrating, points, totalRays, solved, display, inbox, serverVars>>

TypeRays ==
    /\ OperatorMayEdit
    /\ totalRays' \in 1..(MaxRays + 1)
    /\ main' = "clampRays"
    /\ UNCHANGED <<isCalibrating, points, totalPoints, solved, display, inbox, serverVars>>

ClampRays ==
    /\ main = "clampRays"
    /\ totalRays' = AtMost(AtLeast(totalRays, MinRays), MaxRays)
    /\ main' = "free"
    /\ UNCHANGED <<isCalibrating, points, totalPoints, solved, display, inbox, serverVars>>

CalibrateWithTestPairs ==
    /\ OperatorMayEdit
    /\ solved' = TestPairs
    /\ UNCHANGED <<isCalibrating, points, settings, display, inbox, serverVars, main>>

(* createWindowOnDisplay() closes a window there is and makes another.     *)
OpenWindow ==
    /\ main = "free"
    /\ window' = TRUE /\ shown' = Nowhere
    /\ UNCHANGED <<isCalibrating, points, settings, solved, inbox, serverVars, main>>

CloseWindow ==
    /\ main = "free" /\ window
    /\ window' = FALSE /\ shown' = Nowhere
    /\ UNCHANGED <<isCalibrating, points, settings, solved, inbox, serverVars, main>>

(* ... and drawProjection(): the point that is due, or the end.            *)
PointDueAtTotal == next <= totalPoints
PointDue == next < totalPoints

StartDrawing ==
    /\ main = "free" /\ window
    /\ IF isCalibrating
         THEN /\ main' = IF PointDue THEN "point" ELSE "end"
              /\ UNCHANGED shown
         ELSE /\ shown' = Nowhere
              /\ UNCHANGED main
    /\ UNCHANGED <<isCalibrating, points, settings, solved, window, inbox, serverVars>>

DrawCalibrationPoint ==
    /\ main = "point"
    /\ shown' = CurrentRay
    /\ main' = "free"
    /\ UNCHANGED <<isCalibrating, points, settings, solved, window, inbox, serverVars>>

EndCalibration ==
    /\ main = "end"
    /\ isCalibrating' = FALSE
    /\ shown' = Nowhere
    /\ main' = "free"
    /\ UNCHANGED <<points, settings, solved, window, inbox, serverVars>>

-----------------------------------------------------------------------------
User == MarkPoint \/ SwitchOrReset

AddCorrespondence ==
    \/ Accept \/ GetCurrentRay \/ PushImagePoint \/ PushObjectPoint \/ Count
    \/ SolveIfPossible \/ CalibrateDLT
Server == Take \/ SetIsCalibrating \/ ServerReset \/ AddCorrespondence

Operator ==
    \/ ToggleCalibrating \/ PressReset \/ TypePoints \/ TypeRays
    \/ CalibrateWithTestPairs \/ OpenWindow \/ CloseWindow
MainContinues ==
    MainReset \/ ClampPoints \/ ClampRays \/ DrawCalibrationPoint \/ EndCalibration

Next == User \/ Server \/ Operator \/ MainContinues \/ StartDrawing

Spec == Init /\ [][Next]_vars

(* The main loop finishes what it begins and gives every window a frame    *)
(* after each frame of the GUI, whatever the operator does.                *)
FairSpec == Spec /\ WF_vars(MainContinues) /\ SF_vars(StartDrawing)

-----------------------------------------------------------------------------
TypeOK ==
    /\ isCalibrating \in BOOLEAN
    /\ imagePoints \in Seq(Ray)
    /\ objectPoints \in Seq(Ray)
    /\ next \in Nat
    /\ totalPoints \in (Needed - 1)..MaxPoints
    /\ totalRays \in 1..(MaxRays + 1)
    /\ solved \in Nat
    /\ window \in BOOLEAN
    /\ shown \in Ray \cup {Nowhere}
    /\ inbox \in Seq(Message)
    /\ server \in Clearing \cup {"idle", "switch", "test", "ray", "pushImage",
                                 "pushObject", "count", "enough", "solve"}
    /\ msg \in Message
    /\ currentRay \in Ray
    /\ main \in Clearing \cup {"free", "clampPoints", "clampRays", "point", "end"}

(* The assertion of calibrateDLT(): the solving begins with as many object *)
(* points as image points, and no fewer than it needs.                     *)
EnoughToSolve ==
    server = "solve" =>
        /\ Len(objectPoints) = Len(imagePoints)
        /\ Len(imagePoints) >= Needed

(* However the operator changes the number of rays on the way, what is     *)
(* solved has as many different image points as there are rays at least:   *)
(* pairs along fewer would not determine the parameters.                   *)
DistinctRays ==
    server = "solve" =>
        Cardinality({imagePoints[k] : k \in 1..Len(imagePoints)}) >= MinRays

(* Once there are enough correspondences the parameters come from all of   *)
(* them, the last included, unless the operator asked for the test pairs.  *)
SolvedFromAll ==
    server = "idle" /\ main \notin Clearing /\ Len(objectPoints) >= Needed =>
        solved \in {Len(objectPoints), TestPairs}

(* With all its points a calibration comes to its end by itself, as long   *)
(* as the projector has a window.                                          *)
CalibrationEnds ==
    isCalibrating /\ next >= totalPoints /\ window
        ~> ~isCalibrating \/ next < totalPoints \/ ~window
=============================================================================
