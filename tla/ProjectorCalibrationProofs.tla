--------------------- MODULE ProjectorCalibrationProofs ---------------------
(***************************************************************************)
(* The calibration with any number of rays, points and messages under way. *)
(* The variables are well typed whatever operator and user do, at whatever *)
(* time. If no edit of the operator overlaps the handling of a message     *)
(* (Apart; ProjectorCalibrationOverlap.cfg shows that this is needed), the *)
(* two lists and the counter stay in step however fast the user gestures   *)
(* and whatever is edited between two messages: the assertion of           *)
(* calibrateDLT() holds, and the solution comes from all pairs, of which   *)
(* there are enough different ones.                                        *)
(*                                                                         *)
(* The inductive invariant follows the two threads: while the main thread  *)
(* edits, the server's rests (Alone), so that at most one of them is in    *)
(* the lists, and Place tells how far it has come.                         *)
(***************************************************************************)
EXTENDS ProjectorCalibration, FiniteSetTheorems, TLAPS

(* A correspondence is only added for a message that has one.              *)
Adding == {"test", "ray", "pushImage", "pushObject"}
HasPoint == server \in Adding => msg.objectPoint # Nowhere

Place == IF main \in Clearing THEN main ELSE server

Alone == Editing => server = "idle"

Bounded == main # "clampRays" => totalRays \in MinRays..MaxRays

Lengths ==
    /\ Len(imagePoints) = IF Place \in {"clearObject", "clearCount"} THEN 0
                           ELSE IF Place \in {"pushObject", "count"} THEN next + 1
                           ELSE next
    /\ Len(objectPoints) = IF Place = "clearCount" THEN 0
                            ELSE IF Place = "count" THEN next + 1
                            ELSE next

(* The first image points are those of the first rays, one each.           *)
Rays ==
    /\ \A k \in 1..Len(imagePoints) : k <= MinRays => imagePoints[k] = k - 1
    /\ server = "pushImage" => currentRay = CurrentRay

Solutions ==
    /\ server = "solve" => next >= Needed
    /\ server \notin {"count", "enough", "solve"} /\ Len(objectPoints) >= Needed =>
          solved \in {Len(objectPoints), TestPairs}

Inv == TypeOK /\ HasPoint /\ Alone /\ Bounded /\ Lengths /\ Rays /\ Solutions

-----------------------------------------------------------------------------
LEMMA Modulo == ASSUME NEW n \in Nat, NEW r \in Nat \ {0}
                PROVE  n % r \in 0..(r - 1) /\ (n < r => n % r = n)
  BY SMTT(30)

LEMMA CurrentRayIsRay ==
    ASSUME TypeOK
    PROVE  /\ CurrentRay \in Ray
           /\ CurrentRay # Nowhere
           /\ totalRays \in MinRays..MaxRays =>
                 CurrentRay < MaxRays /\ (next < MinRays => CurrentRay = next)
<1>1. next \in Nat /\ totalRays \in Nat \ {0} /\ totalRays <= MaxRays + 1
  BY CalibrationAssumption DEF TypeOK
<1>2. /\ CurrentRay \in 0..(totalRays - 1)
      /\ next < totalRays => CurrentRay = next
  BY <1>1, Modulo, Zenon DEF CurrentRay
<1> QED
  BY <1>1, <1>2, CalibrationAssumption DEF Ray, Nowhere

LEMMA MessageTypes ==
    /\ \A switch \in Switch, reset \in BOOLEAN : Request(switch, reset) \in Message
    /\ \A r \in Ray : Mark(r) \in Message
    /\ NoMessage \in Message
  BY DEF Request, Mark, NoMessage, Message, Switch

LEMMA InitInv == Init => Inv
<1> SUFFICES ASSUME Init
             PROVE  Inv
  OBVIOUS
<1> USE CalibrationAssumption
<1>1. /\ imagePoints \in Seq(Ray) /\ Len(imagePoints) = 0
      /\ objectPoints \in Seq(Ray) /\ Len(objectPoints) = 0
      /\ inbox \in Seq(Message) /\ Len(inbox) = 0
  BY DEF Init
<1>2. TypeOK
  <2>1. 0 \in Ray
    BY DEF Ray
  <2>2. msg \in Message
    BY MessageTypes DEF Init
  <2>3. totalPoints \in (Needed - 1)..MaxPoints /\ totalRays \in 1..(MaxRays + 1)
    BY DEF Init
  <2>4. isCalibrating \in BOOLEAN /\ window \in BOOLEAN
    BY DEF Init
  <2>5. next \in Nat /\ solved \in Nat /\ shown \in Ray \cup {Nowhere} /\ currentRay \in Ray
    BY <2>1 DEF Init
  <2>6. /\ server \in Clearing \cup {"idle", "switch", "test", "ray", "pushImage",
                                    "pushObject", "count", "enough", "solve"}
        /\ main \in Clearing \cup {"free", "clampPoints", "clampRays", "point", "end"}
    BY DEF Init
  <2> QED
    BY <1>1, <2>2, <2>3, <2>4, <2>5, <2>6 DEF TypeOK
<1>3. HasPoint /\ Alone /\ Bounded
  BY DEF Init, HasPoint, Adding, Alone, Editing, Bounded
<1>4. Lengths /\ Rays /\ Solutions
  BY <1>1 DEF Init, Lengths, Place, Clearing, Rays, Solutions
<1> QED
  BY <1>2, <1>3, <1>4 DEF Inv

(* The server's thread and the message it handles belong together.         *)
LEMMA HasPointStep == HasPoint /\ [Next]_vars => HasPoint'
<1> SUFFICES ASSUME HasPoint, [Next]_vars
             PROVE  HasPoint'
  OBVIOUS
<1> USE DEF HasPoint, Adding
<1>1. CASE User
  BY <1>1 DEF User, MarkPoint, SwitchOrReset, Send, serverVars
<1>2. CASE Take \/ SetIsCalibrating \/ ServerReset
  BY <1>2 DEF GoTo, Take, SetIsCalibrating, ServerReset, AfterReset, AfterClear, Clearing
<1>3. CASE AddCorrespondence
  BY <1>3 DEF GoTo, AddCorrespondence, Accept, GetCurrentRay, PushImagePoint, PushObjectPoint,
              Count, SolveIfPossible, CalibrateDLT
<1>4. CASE Operator
  BY <1>4 DEF Operator, ToggleCalibrating, PressReset, TypePoints, TypeRays,
              CalibrateWithTestPairs, OpenWindow, CloseWindow, serverVars
<1>5. CASE MainContinues \/ StartDrawing
  BY <1>5 DEF MainContinues, MainReset, ClampPoints, ClampRays, DrawCalibrationPoint,
              EndCalibration, StartDrawing, serverVars
<1>6. CASE UNCHANGED vars
  BY <1>6 DEF vars, serverVars
<1> QED
  BY <1>1, <1>2, <1>3, <1>4, <1>5, <1>6 DEF Next, Server

LEMMA TypeStep == TypeOK /\ HasPoint /\ [Next]_vars => TypeOK'
<1> SUFFICES ASSUME TypeOK, HasPoint, [Next]_vars
             PROVE  TypeOK'
  OBVIOUS
<1> USE CalibrationAssumption
<1>0. CurrentRay \in Ray /\ 0 \in Ray /\ NoMessage \in Message
  BY CurrentRayIsRay, MessageTypes DEF Ray
<1>1. CASE User
  <2>1. ASSUME NEW m \in Message, Send(m)
        PROVE  TypeOK'
    <3>1. inbox' \in Seq(Message)
      BY <2>1 DEF Send, TypeOK
    <3> QED
      BY <2>1, <3>1 DEF Send, TypeOK, points, settings, display, serverVars
  <2>2. CASE MarkPoint
    <3>1. shown \in Ray
      BY <2>2 DEF MarkPoint, TypeOK
    <3> QED
      BY <2>1, <2>2, <3>1, MessageTypes DEF MarkPoint, Switch
  <2>3. CASE SwitchOrReset
    BY <2>1, <2>3, MessageTypes DEF SwitchOrReset, Switch
  <2> QED
    BY <1>1, <2>2, <2>3 DEF User
<1>2. CASE Take
  <2>1. inbox \in Seq(Message) /\ inbox # <<>>
    BY <1>2 DEF Take, TypeOK
  <2>2. Head(inbox) \in Message /\ Tail(inbox) \in Seq(Message)
    BY <2>1
  <2> QED
    BY <1>2, <2>2 DEF Take, TypeOK, points, settings, display
<1>3. CASE SetIsCalibrating
  BY <1>0, <1>3 DEF GoTo, SetIsCalibrating, AfterReset, TypeOK, Clearing, points, settings,
                    display
<1>4. CASE ServerReset
  BY <1>0, <1>4 DEF GoTo, ServerReset, ClearPoints, AfterClear, AfterReset, TypeOK,
                    Clearing, settings, display
<1>5. CASE AddCorrespondence
  <2>1. CASE Accept \/ SolveIfPossible
    BY <1>0, <2>1 DEF GoTo, Accept, SolveIfPossible, TypeOK, points, settings, display
  <2>2. CASE GetCurrentRay
    BY <1>0, <2>2 DEF GetCurrentRay, TypeOK, points, settings, display
  <2>3. CASE PushImagePoint
    BY <2>3 DEF PushImagePoint, TypeOK, settings, display
  <2>4. CASE PushObjectPoint
    <3>1. msg.objectPoint \in Ray
      BY <2>4 DEF PushObjectPoint, HasPoint, Adding, TypeOK, Message
    <3> QED
      BY <2>4, <3>1 DEF PushObjectPoint, TypeOK, settings, display
  <2>5. CASE Count
    BY <2>5 DEF Count, TypeOK, settings, display
  <2>6. CASE CalibrateDLT
    BY <1>0, <2>6 DEF GoTo, CalibrateDLT, TypeOK, points, settings, display
  <2> QED
    BY <1>5, <2>1, <2>2, <2>3, <2>4, <2>5, <2>6 DEF AddCorrespondence
<1>6. CASE Operator
  <2>1. CASE ToggleCalibrating \/ PressReset
    BY <2>1 DEF ToggleCalibrating, PressReset, TypeOK, Clearing, points, settings,
                display, serverVars
  <2>2. CASE TypePoints \/ TypeRays
    BY <2>2 DEF TypePoints, TypeRays, TypeOK, points, display, serverVars
  <2>3. CASE CalibrateWithTestPairs
    BY <2>3 DEF CalibrateWithTestPairs, TestPairs, TypeOK, points, settings, display,
                serverVars
  <2>4. CASE OpenWindow \/ CloseWindow
    BY <2>4 DEF OpenWindow, CloseWindow, TypeOK, points, settings, serverVars
  <2> QED
    BY <1>6, <2>1, <2>2, <2>3, <2>4 DEF Operator
<1>7. CASE MainContinues
  <2>1. CASE MainReset
    BY <2>1 DEF MainReset, ClearPoints, AfterClear, TypeOK, Clearing, settings,
                display, serverVars
  <2>2. CASE ClampPoints \/ ClampRays
    <3>1. CASE ClampPoints
      BY <3>1 DEF ClampPoints, AtLeast, AtMost, TypeOK, points, display, serverVars
    <3>2. CASE ClampRays
      BY <3>2 DEF ClampRays, AtLeast, AtMost, TypeOK, points, display, serverVars
    <3> QED
      BY <2>2, <3>1, <3>2
  <2>3. CASE DrawCalibrationPoint \/ EndCalibration
    BY <1>0, <2>3 DEF DrawCalibrationPoint, EndCalibration, TypeOK, points, settings,
                      serverVars
  <2> QED
    BY <1>7, <2>1, <2>2, <2>3 DEF MainContinues
<1>8. CASE StartDrawing
  BY <1>8 DEF StartDrawing, TypeOK, points, settings, serverVars
<1>9. CASE UNCHANGED vars
  BY <1>9 DEF vars, points, settings, display, serverVars, TypeOK
<1> QED
  BY <1>1, <1>2, <1>3, <1>4, <1>5, <1>6, <1>7, <1>8, <1>9 DEF Next, Server

(* TypeOK holds whatever operator and user do.                             *)
THEOREM CalibrationTypeCorrect == Spec => []TypeOK
<1>1. Init => TypeOK /\ HasPoint
  BY InitInv DEF Inv
<1> QED
  BY <1>1, TypeStep, HasPointStep, PTL DEF Spec

-----------------------------------------------------------------------------
(* From here on the two threads are kept apart.                            *)

LEMMA AloneStep ==
    ASSUME Apart, Alone, [Next]_vars
    PROVE  Alone'
<1> USE DEF Alone, Editing
<1>1. CASE User
  BY <1>1 DEF User, MarkPoint, SwitchOrReset, Send, serverVars
<1>2. CASE Take
  BY <1>2 DEF Take, ServerMayTake
<1>3. CASE SetIsCalibrating \/ ServerReset
  BY <1>3 DEF GoTo, SetIsCalibrating, ServerReset, Clearing
<1>4. CASE AddCorrespondence
  BY <1>4 DEF GoTo, AddCorrespondence, Accept, GetCurrentRay, PushImagePoint, PushObjectPoint,
              Count, SolveIfPossible, CalibrateDLT
<1>5. CASE Operator
  BY <1>5 DEF Operator, ToggleCalibrating, PressReset, TypePoints, TypeRays,
              CalibrateWithTestPairs, OpenWindow, CloseWindow, OperatorMayEdit,
              serverVars
<1>6. CASE MainContinues \/ StartDrawing
  BY <1>6 DEF MainContinues, MainReset, AfterClear, Clearing, ClampPoints, ClampRays,
              DrawCalibrationPoint, EndCalibration, StartDrawing, serverVars
<1>7. CASE UNCHANGED vars
  BY <1>7 DEF vars, serverVars
<1> QED
  BY <1>1, <1>2, <1>3, <1>4, <1>5, <1>6, <1>7 DEF Next, Server

LEMMA BoundedStep ==
    ASSUME TypeOK, Bounded, [Next]_vars
    PROVE  Bounded'
<1> USE CalibrationAssumption DEF Bounded, settings
<1>1. CASE User
  BY <1>1 DEF User, MarkPoint, SwitchOrReset, Send
<1>2. CASE Server
  BY <1>2 DEF GoTo, Server, Take, SetIsCalibrating, ServerReset, AddCorrespondence, Accept,
              GetCurrentRay, PushImagePoint, PushObjectPoint, Count, SolveIfPossible,
              CalibrateDLT
<1>3. CASE Operator
  BY <1>3 DEF Operator, ToggleCalibrating, PressReset, TypePoints, TypeRays,
              CalibrateWithTestPairs, OpenWindow, CloseWindow, OperatorMayEdit
<1>4. CASE MainContinues \/ StartDrawing
  BY <1>4 DEF MainContinues, MainReset, AfterClear, Clearing, ClampPoints, ClampRays,
              AtLeast, AtMost, TypeOK, DrawCalibrationPoint, EndCalibration, StartDrawing
<1>5. CASE UNCHANGED vars
  BY <1>5 DEF vars
<1> QED
  BY <1>1, <1>2, <1>3, <1>4, <1>5 DEF Next

(* What the appending of a point does to the lists.                        *)
LEMMA Appended ==
    ASSUME NEW s \in Seq(Ray), NEW r \in Ray
    PROVE  /\ Append(s, r) \in Seq(Ray)
           /\ Len(Append(s, r)) = Len(s) + 1
           /\ \A k \in 1..Len(s) : Append(s, r)[k] = s[k]
           /\ Append(s, r)[Len(s) + 1] = r
  OBVIOUS

(* Steps that touch neither the lists nor the counter, nor where a thread  *)
(* is in them.                                                             *)
LEMMA Untouched ==
    ASSUME [Next]_vars,
           ~ServerReset, ~MainReset, ~PushImagePoint, ~PushObjectPoint, ~Count
    PROVE  UNCHANGED points
<1>1. CASE User
  BY <1>1 DEF User, MarkPoint, SwitchOrReset, Send
<1>2. CASE Take \/ SetIsCalibrating
  BY <1>2 DEF GoTo, Take, SetIsCalibrating
<1>3. CASE Accept \/ GetCurrentRay \/ SolveIfPossible \/ CalibrateDLT
  BY <1>3 DEF GoTo, Accept, GetCurrentRay, SolveIfPossible, CalibrateDLT
<1>4. CASE Operator
  BY <1>4 DEF Operator, ToggleCalibrating, PressReset, TypePoints, TypeRays,
              CalibrateWithTestPairs, OpenWindow, CloseWindow
<1>5. CASE ClampPoints \/ ClampRays \/ DrawCalibrationPoint \/ EndCalibration \/ StartDrawing
  BY <1>5 DEF ClampPoints, ClampRays, DrawCalibrationPoint, EndCalibration, StartDrawing
<1>6. CASE UNCHANGED vars
  BY <1>6 DEF vars
<1> QED
  BY <1>1, <1>2, <1>3, <1>4, <1>5, <1>6 DEF Next, Server, AddCorrespondence, MainContinues

LEMMA PlaceKept ==
    ASSUME Apart, Alone, [Next]_vars,
           ~ServerReset, ~MainReset, ~PushImagePoint, ~PushObjectPoint, ~Count
    PROVE  LET whole == {"idle", "switch", "clearImage", "test", "ray", "pushImage",
                         "enough", "solve"}
           IN  Place' = Place \/ (Place \in whole /\ Place' \in whole)
<1> USE DEF Place, Clearing
<1>1. CASE User
  BY <1>1 DEF User, MarkPoint, SwitchOrReset, Send, serverVars
<1>2. CASE Take \/ SetIsCalibrating
  BY <1>2 DEF GoTo, Take, SetIsCalibrating, AfterReset
<1>3. CASE Accept \/ GetCurrentRay \/ SolveIfPossible \/ CalibrateDLT
  BY <1>3 DEF GoTo, Accept, GetCurrentRay, SolveIfPossible, CalibrateDLT
<1>4. CASE Operator
  BY <1>4 DEF Operator, ToggleCalibrating, PressReset, TypePoints, TypeRays,
              CalibrateWithTestPairs, OpenWindow, CloseWindow, OperatorMayEdit,
              serverVars
<1>5. CASE ClampPoints \/ ClampRays \/ DrawCalibrationPoint \/ EndCalibration \/ StartDrawing
  BY <1>5 DEF ClampPoints, ClampRays, DrawCalibrationPoint, EndCalibration, StartDrawing,
              serverVars
<1>6. CASE UNCHANGED vars
  BY <1>6 DEF vars, serverVars
<1> QED
  BY <1>1, <1>2, <1>3, <1>4, <1>5, <1>6 DEF Next, Server, AddCorrespondence, MainContinues

LEMMA LengthsStep ==
    ASSUME Apart, TypeOK, HasPoint, Alone, Lengths, [Next]_vars
    PROVE  Lengths'
<1>1. CASE PushImagePoint
  <2>1. Len(imagePoints') = Len(imagePoints) + 1
    BY <1>1, Appended DEF PushImagePoint, TypeOK
  <2> QED
    BY <1>1, <2>1 DEF PushImagePoint, Alone, Editing, Lengths, Place, Clearing
<1>2. CASE PushObjectPoint
  <2>1. msg.objectPoint \in Ray
    BY <1>2 DEF PushObjectPoint, HasPoint, Adding, TypeOK, Message
  <2>2. Len(objectPoints') = Len(objectPoints) + 1
    BY <1>2, <2>1, Appended DEF PushObjectPoint, TypeOK
  <2> QED
    BY <1>2, <2>2 DEF PushObjectPoint, Alone, Editing, Lengths, Place, Clearing
<1>3. CASE Count
  BY <1>3 DEF Count, Alone, Editing, Lengths, Place, Clearing
<1>4. CASE ServerReset
  BY <1>4 DEF GoTo, ServerReset, ClearPoints, AfterClear, AfterReset, Alone, Editing, Lengths,
              Place, Clearing
<1>5. CASE MainReset
  BY <1>5 DEF MainReset, ClearPoints, AfterClear, serverVars, Alone, Editing, Lengths,
              Place, Clearing
<1>6. CASE ~ServerReset /\ ~MainReset /\ ~PushImagePoint /\ ~PushObjectPoint /\ ~Count
  <2>1. UNCHANGED <<imagePoints, objectPoints, next>>
    BY <1>6, Untouched DEF points
  <2> QED
    BY <1>6, <2>1, PlaceKept DEF Lengths
<1> QED
  BY <1>1, <1>2, <1>3, <1>4, <1>5, <1>6

(* Between the steps of one addition nothing changes whose turn it is.     *)
LEMMA TurnKept ==
    ASSUME Alone, [Next]_vars,
           server \in Adding,
           Apart
    PROVE  CurrentRay' = CurrentRay
<1> USE DEF CurrentRay
<1>1. CASE UNCHANGED <<next, totalRays>>
  BY <1>1
<1>2. CASE Count \/ ServerReset
  BY <1>2 DEF GoTo, Count, ServerReset, Clearing, Adding
<1>3. CASE MainReset \/ ClampRays
  BY <1>3 DEF MainReset, ClampRays, Alone, Editing, Clearing, Adding
<1>4. CASE TypeRays
  BY <1>4 DEF TypeRays, OperatorMayEdit, Adding
<1>5. CASE ~Count /\ ~ServerReset /\ ~MainReset /\ ~ClampRays /\ ~TypeRays
  <2>1. CASE User
    BY <2>1, <1>1 DEF User, MarkPoint, SwitchOrReset, Send, points, settings
  <2>2. CASE Take \/ SetIsCalibrating
    BY <2>2, <1>1 DEF GoTo, Take, SetIsCalibrating, points, settings
  <2>3. CASE AddCorrespondence
    BY <2>3, <1>1, <1>5 DEF GoTo, AddCorrespondence, Accept, GetCurrentRay, PushImagePoint,
       PushObjectPoint, SolveIfPossible, CalibrateDLT, points, settings
  <2>4. CASE Operator
    BY <2>4, <1>1, <1>5 DEF Operator, ToggleCalibrating, PressReset, TypePoints,
       CalibrateWithTestPairs, OpenWindow, CloseWindow, points, settings
  <2>5. CASE MainContinues \/ StartDrawing
    BY <2>5, <1>1, <1>5 DEF MainContinues, ClampPoints, DrawCalibrationPoint,
       EndCalibration, StartDrawing, points, settings
  <2>6. CASE UNCHANGED vars
    BY <2>6, <1>1 DEF vars, points, settings
  <2> QED
    BY <1>5, <2>1, <2>2, <2>3, <2>4, <2>5, <2>6 DEF Next, Server
<1> QED
  BY <1>2, <1>3, <1>4, <1>5

LEMMA RaysStep ==
    ASSUME Apart, Inv, [Next]_vars
    PROVE  Rays'
<1> USE DEF Inv
<1>1. ASSUME UNCHANGED imagePoints
      PROVE  \A k \in 1..Len(imagePoints') : k <= MinRays => imagePoints'[k] = k - 1
  BY <1>1 DEF Rays
<1>2. \A k \in 1..Len(imagePoints') : k <= MinRays => imagePoints'[k] = k - 1
  <2>1. CASE PushImagePoint
    <3>1. Len(imagePoints) = next /\ currentRay = CurrentRay /\ totalRays \in MinRays..MaxRays
      BY <2>1 DEF PushImagePoint, Lengths, Place, Clearing, Alone, Editing, Rays, Bounded
    <3>2. next < MinRays => currentRay = next
      BY <3>1, CurrentRayIsRay
    <3>3. imagePoints \in Seq(Ray) /\ currentRay \in Ray
      BY DEF TypeOK
    <3>4. /\ Len(imagePoints') = next + 1
          /\ \A k \in 1..next : imagePoints'[k] = imagePoints[k]
          /\ imagePoints'[next + 1] = currentRay
      BY <2>1, <3>1, <3>3, Appended DEF PushImagePoint
    <3>5. next \in Nat /\ MinRays \in Nat
      BY CalibrationAssumption DEF TypeOK
    <3>6. \A k \in 1..next : k <= MinRays => imagePoints'[k] = k - 1
      BY <3>1, <3>4 DEF Rays
    <3>7. next + 1 <= MinRays => imagePoints'[next + 1] = next
      BY <3>2, <3>4, <3>5
    <3> QED
      BY <3>4, <3>5, <3>6, <3>7
  <2>2. CASE ServerReset \/ MainReset
    <3>1. CASE imagePoints' = <<>>
      BY <3>1
    <3> QED
      BY <1>1, <2>2, <3>1 DEF GoTo, ServerReset, MainReset, ClearPoints
  <2>3. CASE PushObjectPoint \/ Count
    BY <1>1, <2>3 DEF PushObjectPoint, Count
  <2>4. CASE ~ServerReset /\ ~MainReset /\ ~PushImagePoint /\ ~PushObjectPoint /\ ~Count
    BY <1>1, <2>4, Untouched DEF points
  <2> QED
    BY <2>1, <2>2, <2>3, <2>4
<1>3. server' = "pushImage" => currentRay' = CurrentRay'
  <2>1. CASE GetCurrentRay
    BY <2>1, TurnKept DEF GetCurrentRay, Adding
  <2>2. CASE server = "pushImage" /\ UNCHANGED currentRay
    BY <2>2, TurnKept DEF Rays, Adding
  <2>3. server' = "pushImage" => GetCurrentRay \/ (server = "pushImage" /\ UNCHANGED currentRay)
    BY DEF GoTo, Next, User, MarkPoint, SwitchOrReset, Send, Server, Take, SetIsCalibrating,
           AfterReset, ServerReset, AfterClear, AddCorrespondence, Accept,
           PushImagePoint, PushObjectPoint, Count, SolveIfPossible, CalibrateDLT,
           Operator, ToggleCalibrating, PressReset, TypePoints, TypeRays,
           CalibrateWithTestPairs, OpenWindow, CloseWindow, MainContinues, MainReset,
           ClampPoints, ClampRays, DrawCalibrationPoint, EndCalibration, StartDrawing,
           serverVars, vars
  <2> QED
    BY <2>1, <2>2, <2>3
<1> QED
  BY <1>2, <1>3 DEF Rays

LEMMA SolutionsStep ==
    ASSUME Apart, Inv, [Next]_vars
    PROVE  Solutions'
<1> USE CalibrationAssumption DEF Inv, Solutions
<1>1. CASE User
  BY <1>1 DEF User, MarkPoint, SwitchOrReset, Send, serverVars, points
<1>2. CASE Take \/ SetIsCalibrating
  BY <1>2 DEF GoTo, Take, SetIsCalibrating, AfterReset, points
<1>3. CASE ServerReset
  <2>1. UNCHANGED solved /\ server \in Clearing /\ server' \notin {"count", "enough", "solve"}
    BY <1>3 DEF GoTo, ServerReset, AfterClear, AfterReset, Clearing
  <2>2. UNCHANGED objectPoints \/ objectPoints' = <<>>
    BY <1>3 DEF GoTo, ServerReset, ClearPoints
  <2>3. ASSUME objectPoints' = <<>>
        PROVE  Len(objectPoints') < Needed
    BY <2>3
  <2> QED
    BY <2>1, <2>2, <2>3 DEF Clearing
<1>4. CASE AddCorrespondence
  <2>1. CASE Accept \/ GetCurrentRay \/ PushImagePoint
    BY <2>1 DEF GoTo, Accept, GetCurrentRay, PushImagePoint, points
  <2>2. CASE PushObjectPoint \/ Count \/ CalibrateDLT
    BY <2>2 DEF GoTo, PushObjectPoint, Count, CalibrateDLT, points
  <2>3. CASE SolveIfPossible
    <3>1. Len(objectPoints) = next
      BY <2>3 DEF GoTo, SolveIfPossible, Lengths, Place, Clearing, Alone, Editing
    <3> QED
      BY <2>3, <3>1 DEF GoTo, SolveIfPossible, EnoughPairs, TypeOK, points
  <2> QED
    BY <1>4, <2>1, <2>2, <2>3 DEF AddCorrespondence
<1>5. CASE Operator
  <2>1. CASE CalibrateWithTestPairs
    BY <2>1 DEF CalibrateWithTestPairs, serverVars, points
  <2>2. CASE \/ ToggleCalibrating \/ PressReset \/ TypePoints \/ TypeRays
             \/ OpenWindow \/ CloseWindow
    BY <2>2 DEF ToggleCalibrating, PressReset, TypePoints, TypeRays, OpenWindow,
                CloseWindow, serverVars, points
  <2> QED
    BY <1>5, <2>1, <2>2 DEF Operator
<1>6. CASE MainReset
  <2>1. UNCHANGED <<solved, server>> /\ server = "idle"
    BY <1>6 DEF MainReset, Alone, Editing, Clearing, serverVars
  <2>2. UNCHANGED objectPoints \/ objectPoints' = <<>>
    BY <1>6 DEF MainReset, ClearPoints
  <2>3. ASSUME objectPoints' = <<>>
        PROVE  Len(objectPoints') < Needed
    BY <2>3
  <2> QED
    BY <2>1, <2>2, <2>3
<1>7. CASE \/ ClampPoints \/ ClampRays \/ DrawCalibrationPoint \/ EndCalibration
           \/ StartDrawing \/ UNCHANGED vars
  BY <1>7 DEF ClampPoints, ClampRays, DrawCalibrationPoint, EndCalibration, StartDrawing,
              serverVars, points, vars
<1> QED
  BY <1>1, <1>2, <1>3, <1>4, <1>5, <1>6, <1>7 DEF Next, Server, MainContinues

LEMMA InvStep == Apart /\ Inv /\ [Next]_vars => Inv'
<1> SUFFICES ASSUME Apart, Inv, [Next]_vars
             PROVE  Inv'
  OBVIOUS
<1>1. TypeOK' /\ HasPoint'
  BY TypeStep, HasPointStep DEF Inv
<1>2. Alone' /\ Bounded' /\ Lengths'
  BY AloneStep, BoundedStep, LengthsStep DEF Inv
<1>3. Rays' /\ Solutions'
  BY RaysStep, SolutionsStep
<1> QED
  BY <1>1, <1>2, <1>3 DEF Inv

LEMMA Invariance == ASSUME Apart PROVE Spec => []Inv
<1>1. Inv /\ [Next]_vars => Inv'
  BY InvStep
<1> QED
  BY <1>1, InitInv, PTL DEF Spec

-----------------------------------------------------------------------------
(* EnoughToSolve: what calibrateDLT() asserts holds each time it is called.*)
THEOREM AssertionHolds == ASSUME Apart PROVE Spec => []EnoughToSolve
<1>1. Inv => EnoughToSolve
  BY DEF Inv, Solutions, Lengths, Place, Clearing, Alone, Editing, EnoughToSolve
<1> QED
  BY <1>1, Invariance, PTL

(* SolvedFromAll: with enough pairs the parameters come from all of them.  *)
THEOREM NothingLeftOut == ASSUME Apart PROVE Spec => []SolvedFromAll
<1>1. Inv => SolvedFromAll
  BY DEF Inv, Solutions, SolvedFromAll
<1> QED
  BY <1>1, Invariance, PTL

(* DistinctRays: each of the first MinRays image points is of another ray, *)
(* so that no change of their number leaves fewer different ones.          *)
THEOREM EnoughRays == ASSUME Apart PROVE Spec => []DistinctRays
<1>1. ASSUME Inv, server = "solve"
      PROVE  Cardinality({imagePoints[k] : k \in 1..Len(imagePoints)}) >= MinRays
  <2> DEFINE images == {imagePoints[k] : k \in 1..Len(imagePoints)}
  <2>1. Len(imagePoints) \in Nat /\ Len(imagePoints) >= MinRays
    BY <1>1, CalibrationAssumption DEF Inv, TypeOK, Solutions, Lengths, Place, Clearing,
                                       Alone, Editing
  <2>2. \A k \in 1..MinRays : k \in 1..Len(imagePoints) /\ imagePoints[k] = k - 1
    BY <1>1, <2>1, CalibrationAssumption DEF Inv, Rays
  <2>3. 0..(MinRays - 1) \subseteq images
    <3>1. ASSUME NEW r \in 0..(MinRays - 1)
          PROVE  r \in images
      <4>1. r + 1 \in 1..MinRays /\ (r + 1) - 1 = r
        BY CalibrationAssumption
      <4> QED
        BY <2>2, <4>1
    <3> QED
      BY <3>1
  <2>4. images \subseteq Ray
    BY <1>1 DEF Inv, TypeOK
  <2>5. IsFiniteSet(images)
    <3>1. IsFiniteSet(Ray)
      BY FS_Interval, CalibrationAssumption DEF Ray
    <3> QED
      BY <2>4, <3>1, FS_Subset
  <2>6. Cardinality(0..(MinRays - 1)) = MinRays
    BY FS_Interval, CalibrationAssumption
  <2>7. Cardinality(0..(MinRays - 1)) <= Cardinality(images)
    BY <2>3, <2>5, FS_Subset
  <2> QED
    BY <2>5, <2>6, <2>7, FS_CardinalityType, CalibrationAssumption
<1>2. Inv => DistinctRays
  BY <1>1 DEF DistinctRays
<1> QED
  BY <1>2, Invariance, PTL
=============================================================================
