--------------------------- MODULE DetectorProofs ---------------------------
(***************************************************************************)
(* The safety of the detector's two threads, for every number of frames    *)
(* and whether or not the build keeps the flags in registers. The three    *)
(* invariants need one that ties the thread positions to the life of the   *)
(* object (Phases): the worker only gets past the test of m_isInitialized  *)
(* in the time between Initialize and Join.                                *)
(***************************************************************************)
EXTENDS Detector, TLAPS

Phases ==
    /\ worker \in Looking \cup Detecting => initialized
    /\ initialized => object = "whole" \/ object = "dead" \/ main \in {"destruct", "join"}
    /\ object = "none" => main = "loop" /\ worker = "none" /\ ~listed /\ looked = 0
                          /\ candidates = taken
    /\ object = "base" => main \in {"construct", "destruct", "join"}
    /\ main = "construct" => object = "base" /\ ~initialized
    /\ main \in {"destruct", "join"} => object = "base"
    /\ main = "copy" => object = "whole"
    /\ main = "deliver" => object \in {"whole", "dead"}

IInv == TypeOK /\ Phases /\ NewestImageNotLost /\ ResultsNotLost

LEMMA InitIInv == Init => IInv
<1> SUFFICES ASSUME Init
             PROVE  IInv
  OBVIOUS
<1>1. frame \in 0..1 /\ frame \in Frame /\ 0 \in Frame
  BY DetectorAssumption DEF Init, Frame
<1>2. TypeOK
  BY <1>1 DEF Init, TypeOK, Idle, Looking, Detecting
<1>3. Phases
  BY DEF Init, Phases, Idle, Looking, Detecting
<1>4. NewestImageNotLost /\ ResultsNotLost
  BY DEF Init, NewestImageNotLost, ResultsNotLost
<1> QED
  BY <1>2, <1>3, <1>4 DEF IInv

(* The variables of the detector keep their types, the positions of the    *)
(* two threads included: no step of either leaves the modelled code.       *)
LEMMA TypeStep == TypeOK /\ [Next]_vars => TypeOK'
<1> SUFFICES ASSUME TypeOK, [Next]_vars
             PROVE  TypeOK'
  OBVIOUS
<1> USE DetectorAssumption DEF TypeOK, Frame, Idle, Looking, Detecting
<1>1. CASE Create
  BY <1>1 DEF Create
<1>2. CASE Capture
  BY <1>2 DEF Capture
<1>3. CASE Poll \/ Erase
  BY <1>3 DEF Poll, Erase
<1>4. CASE MainContinues
  <2>1. CASE Initialize \/ Deliver
    <3>1. CASE Initialize
      BY <3>1 DEF Initialize
    <3>2. CASE Deliver
      <4>1. /\ UNCHANGED <<object, listed, frame, detecting, initialized, candidates,
                           areNew, worker, looked, taken>>
            /\ main' \in {"corrupt", "loop"}
        BY <3>2 DEF Deliver
      <4>2. hasNewImage' \in BOOLEAN
        BY <3>2 DEF Deliver
      <4> QED
        BY <4>1, <4>2
    <3> QED
      BY <2>1, <3>1, <3>2
  <2>2. CASE TakeCandidates
    BY <2>2 DEF TakeCandidates
  <2>3. CASE StopDetecting \/ Join
    BY <2>3 DEF StopDetecting, Join, Joined
  <2> QED
    BY <1>4, <2>1, <2>2, <2>3 DEF MainContinues
<1>5. CASE Worker
  <2>1. CASE ReadDetecting \/ CheckImage
    BY <2>1 DEF ReadDetecting, CheckImage
  <2>2. CASE Hoist \/ FindNothing
    BY <2>2 DEF Hoist, FindNothing
  <2>3. CASE ClearImage
    BY <2>3 DEF ClearImage
  <2>4. CASE Detect
    BY <2>4 DEF Detect
  <2>5. CASE Assign \/ Assigned
    BY <2>5 DEF Assign, Assigned
  <2>6. CASE Announce
    BY <2>6 DEF Announce
  <2> QED
    BY <1>5, <2>1, <2>2, <2>3, <2>4, <2>5, <2>6 DEF Worker
<1>6. CASE UNCHANGED vars
  BY <1>6 DEF vars
<1> QED
  BY <1>1, <1>2, <1>3, <1>4, <1>5, <1>6 DEF Next

LEMMA PhasesStep == TypeOK /\ Phases /\ [Next]_vars => Phases'
<1> SUFFICES ASSUME TypeOK, Phases, [Next]_vars
             PROVE  Phases'
  OBVIOUS
<1> USE DEF TypeOK, Phases, Idle, Looking, Detecting
<1>1. CASE Create
  BY <1>1 DEF Create
<1>2. CASE Capture
  BY <1>2 DEF Capture
<1>3. CASE Poll \/ Erase
  BY <1>3 DEF Poll, Erase
<1>4. CASE MainContinues
  <2>1. CASE Initialize
    BY <2>1 DEF Initialize
  <2>2. CASE Deliver
    BY <2>2 DEF Deliver
  <2>3. CASE TakeCandidates
    BY <2>3 DEF TakeCandidates
  <2>4. CASE StopDetecting
    BY <2>4 DEF StopDetecting
  <2>5. CASE Join
    BY <2>5 DEF Join, Joined
  <2> QED
    BY <1>4, <2>1, <2>2, <2>3, <2>4, <2>5 DEF MainContinues
<1>5. CASE Worker
  <2>1. CASE ReadDetecting \/ Hoist \/ FindNothing
    BY <2>1 DEF ReadDetecting, Hoist, FindNothing
  <2>2. CASE CheckImage
    BY <2>2 DEF CheckImage, Ready
  <2>3. CASE ClearImage \/ Detect
    BY <2>3 DEF ClearImage, Detect
  <2>4. CASE Assign \/ Assigned \/ Announce
    BY <2>4 DEF Assign, Assigned, Announce
  <2> QED
    BY <1>5, <2>1, <2>2, <2>3, <2>4 DEF Worker
<1>6. CASE UNCHANGED vars
  BY <1>6 DEF vars
<1> QED
  BY <1>1, <1>2, <1>3, <1>4, <1>5, <1>6 DEF Next

(* The flag is cleared before the image is read and set after it was       *)
(* written, so every step that makes a frame newer than the last one       *)
(* looked at leaves one of the other disjuncts true.                       *)
LEMMA NewestStep ==
    TypeOK /\ Phases /\ NewestImageNotLost /\ [Next]_vars => NewestImageNotLost'
<1> SUFFICES ASSUME TypeOK, Phases, NewestImageNotLost, [Next]_vars
             PROVE  NewestImageNotLost'
  OBVIOUS
<1> USE DEF TypeOK, Phases, NewestImageNotLost, Idle, Looking, Detecting
<1>1. CASE Create
  <2>1. looked' = 0 /\ frame' = frame /\ hasNewImage' = (frame > 0)
    BY <1>1 DEF Create
  <2>2. frame = 0 \/ frame > 0
    BY DetectorAssumption DEF Frame
  <2>3. CASE frame = 0
    BY <2>1, <2>3
  <2>4. CASE frame > 0
    BY <2>1, <2>4
  <2> QED
    BY <2>2, <2>3, <2>4
<1>2. CASE Capture
  BY <1>2 DEF Capture
<1>3. CASE Poll \/ Erase
  BY <1>3 DEF Poll, Erase
<1>4. CASE MainContinues
  <2>1. CASE Deliver
    BY <2>1 DEF Deliver
  <2>2. CASE Initialize \/ TakeCandidates \/ StopDetecting \/ Join
    BY <2>2 DEF Initialize, TakeCandidates, StopDetecting, Join
  <2> QED
    BY <1>4, <2>1, <2>2 DEF MainContinues
<1>5. CASE Worker
  <2>1. CASE ReadDetecting \/ CheckImage \/ Hoist
    BY <2>1 DEF ReadDetecting, CheckImage, Hoist
  <2>2. CASE ClearImage
    BY <2>2 DEF ClearImage
  <2>3. CASE Detect
    BY <2>3 DEF Detect
  <2>4. CASE FindNothing \/ Assign \/ Assigned \/ Announce
    BY <2>4 DEF FindNothing, Assign, Assigned, Announce
  <2> QED
    BY <1>5, <2>1, <2>2, <2>3, <2>4 DEF Worker
<1>6. CASE UNCHANGED vars
  BY <1>6 DEF vars
<1> QED
  BY <1>1, <1>2, <1>3, <1>4, <1>5, <1>6 DEF Next

LEMMA ResultsStep ==
    TypeOK /\ Phases /\ ResultsNotLost /\ [Next]_vars => ResultsNotLost'
<1> SUFFICES ASSUME TypeOK, Phases, ResultsNotLost, [Next]_vars
             PROVE  ResultsNotLost'
  OBVIOUS
<1> USE DEF TypeOK, Phases, ResultsNotLost, Idle, Looking, Detecting
<1>1. CASE Create
  BY <1>1 DEF Create
<1>2. CASE Capture
  BY <1>2 DEF Capture
<1>3. CASE Poll \/ Erase
  BY <1>3 DEF Poll, Erase
<1>4. CASE MainContinues
  BY <1>4 DEF MainContinues, Initialize, Deliver, TakeCandidates, StopDetecting, Join
<1>5. CASE Worker
  <2>1. CASE ReadDetecting \/ CheckImage \/ Hoist \/ ClearImage \/ Detect \/ FindNothing
    BY <2>1 DEF ReadDetecting, CheckImage, Hoist, ClearImage, Detect, FindNothing
  <2>2. CASE Assign \/ Assigned \/ Announce
    BY <2>2 DEF Assign, Assigned, Announce
  <2> QED
    BY <1>5, <2>1, <2>2 DEF Worker
<1>6. CASE UNCHANGED vars
  BY <1>6 DEF vars
<1> QED
  BY <1>1, <1>2, <1>3, <1>4, <1>5, <1>6 DEF Next

LEMMA Inductive == Spec => []IInv
<1>1. IInv /\ [Next]_vars => IInv'
  BY TypeStep, PhasesStep, NewestStep, ResultsStep DEF IInv
<1> QED
  BY InitIInv, <1>1, PTL DEF Spec

(* Whatever the frames and the schedule, the variables are well typed.     *)
THEOREM DetectorTypeCorrect == Spec => []TypeOK
<1>1. IInv => TypeOK
  BY DEF IInv
<1> QED
  BY Inductive, <1>1, PTL

(* No interleaving of the receive callback with the worker's "clear, then  *)
(* detect" loses the newest image.                                         *)
THEOREM ImagesNotLost == Spec => []NewestImageNotLost
<1>1. IInv => NewestImageNotLost
  BY DEF IInv
<1> QED
  BY Inductive, <1>1, PTL

(* No interleaving of getCandidates() with the end of detect() leaves a    *)
(* result unannounced.                                                     *)
THEOREM CandidatesNotLost == Spec => []ResultsNotLost
<1>1. IInv => ResultsNotLost
  BY DEF IInv
<1> QED
  BY Inductive, <1>1, PTL

(* detect() is only ever at work on an object that is built and not yet    *)
(* completely destroyed.                                                   *)
THEOREM DetectionsInLifetime == Spec => []DetectOnWholeObject
<1>1. IInv => DetectOnWholeObject
  BY DEF IInv, TypeOK, Phases, DetectOnWholeObject, Idle, Looking, Detecting
<1> QED
  BY Inductive, <1>1, PTL
=============================================================================
