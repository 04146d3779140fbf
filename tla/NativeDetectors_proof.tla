------------------------ MODULE NativeDetectors_proof ------------------------
(***************************************************************************)
(* Proofs about NativeDetectors for any number of resumes, model files and *)
(* faces.  What two chains do to the globals is only safe to the extent    *)
(* that one of them is paused: ActiveInv.  A half of a detector has a      *)
(* loader that is not ahead of it: LoadInv.  A predictor that is not for   *)
(* 68 landmarks has a chain that loads it or was rejected, and that chain  *)
(* is paused when a frame meets the predictor: RejectInv.                  *)
(***************************************************************************)
EXTENDS NativeDetectors, TLAPS

(* Of two chains that were resumed one is paused.                          *)
ActiveInv ==
    /\ \A c \in paused : at[c] # "unused"
    /\ \A c, d \in Chains :
          at[c] # "unused" /\ at[d] # "unused" /\ c # d =>
              c \in paused \/ d \in paused

(* A frame thread belongs to an open camera of a chain that is not paused. *)
FrameInv ==
    \A c \in Chains : frame[c] # "off" => at[c] = "opened" /\ c \notin paused

(* Some loader of a half detector writes what is missing next, or before.  *)
LoadInv ==
    \A g \in Detectors :
        IsReady(g) =>
            \/ Whole(g)
            \/ \E c \in Chains : Loading(c, g) /\ stage[c] <= progress[g] + 1

(* How far a chain is with the two detectors.                              *)
Faced(c) ==
    \/ at[c] \in {"isLandmarksReady", "landmarks", "check", "rejected"}
    \/ at[c] \in {"open", "opened"} /\ c \notin denied

Landmarked(c) ==
    \/ at[c] \in {"check", "rejected"}
    \/ at[c] \in {"open", "opened"} /\ c \notin denied

ReadyInv ==
    \A c \in Chains :
        /\ Faced(c) => IsReady("faces")
        /\ Landmarked(c) => IsReady("landmarks")

(* The chain that loads the predictor, and never opens a camera with one   *)
(* that is not for 68 landmarks.                                           *)
Owner(c) == at[c] \in {"landmarks", "check", "rejected"}

OwnerInv ==
    IsReady("landmarks") /\ file # 68 => \E c \in Chains : Owner(c)

(* A face has no landmarks, or those of the file.                          *)
CountInv ==
    /\ \A c \in Chains : found[c] \subseteq {0, file}
    /\ \A a \in Activities : overlay[a] \subseteq {0, file}

SomeFound ==
    (\E c \in Chains : file \in found[c]) \/ (\E a \in Activities : file \in overlay[a])

RejectInv ==
    /\ SomeFound /\ file # 68 => \E c \in paused : Owner(c)
    /\ failure = "draw" => SomeFound /\ ~Drawable(file)

IInv == TypeOK /\ ActiveInv /\ FrameInv /\ LoadInv /\ ReadyInv /\ OwnerInv
        /\ CountInv /\ RejectInv

-----------------------------------------------------------------------------
(* The initial state satisfies the invariant.                              *)
LEMMA InitInv == Init => IInv
<1> SUFFICES ASSUME Init PROVE IInv
  OBVIOUS
<1> USE DEF Init
<1>1. TypeOK
  <2>1. 0 \in 0..MaxFaces /\ 0 \in 0..4 /\ 1 \in 1..4
    BY FacesAssumption
  <2>2. Detectors = {"faces", "landmarks"} /\ \A g \in Detectors : Stages[g] \in {2, 4}
    BY DEF Detectors, Stages
  <2> QED
    BY <2>1, <2>2 DEF TypeOK, AtStates, FrameStates, Counts, Activities,
       Detectors
<1>2. ActiveInv /\ FrameInv
  BY DEF ActiveInv, FrameInv
<1>3. \A g \in Detectors : ~IsReady(g)
  BY DEF IsReady
<1>4. LoadInv /\ OwnerInv
  BY <1>3 DEF LoadInv, OwnerInv, Detectors
<1>5. ReadyInv
  BY DEF ReadyInv, Faced, Landmarked
<1>6. CountInv /\ RejectInv
  BY DEF CountInv, RejectInv, SomeFound
<1> QED  BY <1>1, <1>2, <1>4, <1>5, <1>6 DEF IInv

(* A step of a load, for one detector and the other.                       *)
LEMMA LoadType ==
    ASSUME TypeOK, NEW c \in Chains, NEW g \in Detectors, NEW next \in AtStates \ Detectors,
           Load(c, g, next)
    PROVE  TypeOK'
<1>1. stage[c] \in 1..4 /\ stage[c] <= Stages[g] /\ progress[g] \in 0..4
      /\ Stages[g] \in 0..4 /\ progress[g] <= Stages[g] /\ at[c] = g
  BY DEF TypeOK, Load, Loading, Detectors, Stages
<1>2. progress' \in [Detectors -> 0..4] /\ \A h \in Detectors : progress'[h] <= Stages[h]
  BY <1>1 DEF TypeOK, Load
<1>3. at' \in [Chains -> AtStates] /\ stage' \in [Chains -> 1..4]
  BY <1>1 DEF TypeOK, Load
<1>4. \A d \in Chains : at'[d] \in Detectors => stage'[d] <= Stages[at'[d]]
  <2>1. CASE stage[c] = Stages[g]
    BY <1>1, <2>1 DEF TypeOK, Load
  <2>2. CASE stage[c] # Stages[g]
    BY <1>1, <2>2 DEF TypeOK, Load
  <2> QED  BY <2>1, <2>2
<1> QED
  BY <1>2, <1>3, <1>4 DEF TypeOK, Load, detection

(* A test of a detector keeps the types.                                   *)
LEMMA TestType ==
    ASSUME TypeOK, NEW c \in Chains, NEW test, NEW g \in Detectors,
           NEW next \in AtStates \ Detectors, Test(c, test, g, next)
    PROVE  TypeOK'
<1>1. 1 \in 1..4 /\ Stages[g] \in {2, 4} /\ g \in AtStates
  BY DEF Detectors, Stages, AtStates
<1>2. at' \in [Chains -> AtStates] /\ stage' \in [Chains -> 1..4]
  BY <1>1 DEF TypeOK, Test
<1>3. \A d \in Chains : at'[d] \in Detectors => stage'[d] <= Stages[at'[d]]
  BY <1>1 DEF TypeOK, Test
<1> QED
  BY <1>2, <1>3 DEF TypeOK, Test, detection, global

(* Every step keeps the types.                                             *)
LEMMA TypeInvariant == TypeOK /\ [Next]_vars => TypeOK'
<1> SUFFICES ASSUME TypeOK, [Next]_vars PROVE TypeOK'
  OBVIOUS
<1> USE DEF chain, global, detection
<1>1. CASE UNCHANGED vars
  BY <1>1 DEF vars, TypeOK
<1>2. ASSUME NEW c \in Chains, Resume(c) PROVE TypeOK'
  BY <1>2 DEF TypeOK, Resume, AtStates, FrameStates, Detectors, Stages
<1>3. ASSUME NEW c \in Chains, Grant(c) PROVE TypeOK'
  BY <1>3 DEF TypeOK, Grant, AtStates, FrameStates, Detectors, Stages
<1>4. ASSUME NEW c \in Chains, Deny(c) PROVE TypeOK'
  BY <1>4 DEF TypeOK, Deny, AtStates, FrameStates, Detectors, Stages
<1>5. ASSUME NEW c \in Chains, ModelArrives(c) PROVE TypeOK'
  BY <1>5 DEF TypeOK, ModelArrives, AtStates, FrameStates, Detectors, Stages
<1>6. ASSUME NEW c \in Chains, TestFaces(c) PROVE TypeOK'
  BY <1>6, TestType DEF TestFaces, AtStates, Detectors
<1>7. ASSUME NEW c \in Chains, AssignFaceDetector(c) PROVE TypeOK'
  BY <1>7, LoadType DEF AssignFaceDetector, AtStates, Detectors
<1>8. ASSUME NEW c \in Chains, TestLandmarks(c) PROVE TypeOK'
  BY <1>8, TestType DEF TestLandmarks, AtStates, Detectors
<1>9. ASSUME NEW c \in Chains, DeserializePredictor(c) PROVE TypeOK'
  BY <1>9, LoadType DEF DeserializePredictor, AtStates, Detectors
<1>10. ASSUME NEW c \in Chains, CheckParts(c) PROVE TypeOK'
  BY <1>10 DEF TypeOK, CheckParts, AtStates, FrameStates, Detectors, Stages
<1>11. ASSUME NEW c \in Chains, OpenCamera(c) PROVE TypeOK'
  BY <1>11 DEF TypeOK, OpenCamera, AtStates, FrameStates, Detectors, Stages
<1>12. ASSUME NEW c \in Chains, Pause(c) PROVE TypeOK'
  BY <1>12 DEF TypeOK, Pause, AtStates, FrameStates, Detectors, Stages
<1>13. ASSUME NEW c \in Chains, Guards(c) PROVE TypeOK'
  BY <1>13 DEF TypeOK, Guards, AtStates, FrameStates, Detectors, Stages
<1>14. ASSUME NEW c \in Chains, DetectFaces(c) PROVE TypeOK'
  BY <1>14 DEF TypeOK, DetectFaces, Used, FrameStates, Counts
<1>15. ASSUME NEW c \in Chains, VisionFaces(c) PROVE TypeOK'
  BY <1>15 DEF TypeOK, VisionFaces, FrameStates, Counts
<1>16. ASSUME NEW c \in Chains, Predict(c) PROVE TypeOK'
  <2>1. NumParts \in Counts
    BY DEF NumParts, Counts, TypeOK
  <2>2. left[c] - 1 \in 0..MaxFaces
    BY <1>16, FacesAssumption DEF Predict, TypeOK
  <2> QED  BY <1>16, <2>1, <2>2 DEF TypeOK, Predict, Used
<1>17. ASSUME NEW c \in Chains, Deliver(c) PROVE TypeOK'
  <2>1. found[c] \in SUBSET Counts
    BY DEF TypeOK
  <2> QED  BY <1>17, <2>1 DEF TypeOK, Deliver, FrameStates, Activities
<1>18. ASSUME NEW a \in Activities, DrawThrows(a) PROVE TypeOK'
  BY <1>18 DEF TypeOK, DrawThrows
<1> QED
  BY <1>1, <1>2, <1>3, <1>4, <1>5, <1>6, <1>7, <1>8, <1>9, <1>10, <1>11, <1>12,
     <1>13, <1>14, <1>15, <1>16, <1>17, <1>18 DEF Next, PrepareStep, FrameStep,
     Killed

-----------------------------------------------------------------------------
(* The steps that touch the chains or the globals.                         *)
ChainStep(c) ==
    \/ Resume(c) \/ Grant(c) \/ Deny(c) \/ ModelArrives(c)
    \/ PrepareStep(c) \/ OpenCamera(c) \/ Pause(c)

LEMMA StepCases ==
    ASSUME [Next]_vars
    PROVE  (\E c \in Chains : ChainStep(c)) \/ UNCHANGED <<chain, global>>
<1> USE DEF chain, global
<1>1. CASE UNCHANGED vars
  BY <1>1 DEF vars
<1>2. ASSUME NEW c \in Chains, FrameStep(c) PROVE UNCHANGED <<chain, global>>
  BY <1>2 DEF FrameStep, Guards, DetectFaces, VisionFaces, Predict, Deliver
<1>3. ASSUME NEW a \in Activities, DrawThrows(a)
      PROVE  UNCHANGED <<chain, global>>
  BY <1>3 DEF DrawThrows
<1> QED  BY <1>1, <1>2, <1>3 DEF Next, ChainStep, Killed

(* A chain is resumed when all the others are paused.                      *)
LEMMA ActiveStep == TypeOK /\ ActiveInv /\ [Next]_vars => ActiveInv'
<1> SUFFICES ASSUME TypeOK, ActiveInv, [Next]_vars PROVE ActiveInv'
  OBVIOUS
<1> USE DEF Detectors
<1>1. CASE UNCHANGED <<chain, global>>
  BY <1>1 DEF ActiveInv, chain
<1>2. ASSUME NEW c \in Chains, Resume(c) PROVE ActiveInv'
  BY <1>2 DEF Resume, ActiveInv, TypeOK
<1>3. ASSUME NEW c \in Chains, Grant(c) PROVE ActiveInv'
  BY <1>3 DEF Grant, ActiveInv, TypeOK
<1>4. ASSUME NEW c \in Chains, Deny(c) PROVE ActiveInv'
  BY <1>4 DEF Deny, ActiveInv, TypeOK
<1>5. ASSUME NEW c \in Chains, ModelArrives(c) PROVE ActiveInv'
  BY <1>5 DEF ModelArrives, ActiveInv, TypeOK
<1>6. ASSUME NEW c \in Chains, TestFaces(c) PROVE ActiveInv'
  BY <1>6 DEF TestFaces, Test, ActiveInv, TypeOK
<1>7. ASSUME NEW c \in Chains, AssignFaceDetector(c) PROVE ActiveInv'
  BY <1>7 DEF AssignFaceDetector, Load, Loading, ActiveInv, TypeOK
<1>8. ASSUME NEW c \in Chains, TestLandmarks(c) PROVE ActiveInv'
  BY <1>8 DEF TestLandmarks, Test, ActiveInv, TypeOK
<1>9. ASSUME NEW c \in Chains, DeserializePredictor(c) PROVE ActiveInv'
  BY <1>9 DEF DeserializePredictor, Load, Loading, ActiveInv, TypeOK
<1>10. ASSUME NEW c \in Chains, CheckParts(c) PROVE ActiveInv'
  BY <1>10 DEF CheckParts, ActiveInv, TypeOK
<1>11. ASSUME NEW c \in Chains, OpenCamera(c) PROVE ActiveInv'
  BY <1>11 DEF OpenCamera, ActiveInv, TypeOK
<1>12. ASSUME NEW c \in Chains, Pause(c) PROVE ActiveInv'
  BY <1>12 DEF Pause, ActiveInv, TypeOK
<1> QED
  BY StepCases, <1>1, <1>2, <1>3, <1>4, <1>5, <1>6, <1>7, <1>8, <1>9, <1>10,
     <1>11, <1>12 DEF ChainStep, PrepareStep

(* A loader that ends has made the detector whole, one that goes on is     *)
(* still at most one step ahead.                                           *)
LEMMA LoadStep == TypeOK /\ LoadInv /\ [Next]_vars => LoadInv'
<1> SUFFICES ASSUME TypeOK, LoadInv, [Next]_vars PROVE LoadInv'
  OBVIOUS
<1>1. CASE UNCHANGED <<chain, global>>
  BY <1>1 DEF LoadInv, IsReady, Whole, Loading, chain, global
<1>2. ASSUME NEW c \in Chains, Resume(c) PROVE LoadInv'
  <2>1. /\ progress' = progress /\ stage' = stage
        /\ \A d \in Chains : at[d] \in Detectors => at'[d] = at[d]
    BY <1>2 DEF Resume, TypeOK, global, Detectors
  <2> QED  BY <2>1 DEF LoadInv, IsReady, Whole, Loading
<1>3. ASSUME NEW c \in Chains, Grant(c) PROVE LoadInv'
  <2>1. /\ progress' = progress /\ stage' = stage
        /\ \A d \in Chains : at[d] \in Detectors => at'[d] = at[d]
    BY <1>3 DEF Grant, TypeOK, global, Detectors
  <2> QED  BY <2>1 DEF LoadInv, IsReady, Whole, Loading
<1>4. ASSUME NEW c \in Chains, Deny(c) PROVE LoadInv'
  <2>1. /\ progress' = progress /\ stage' = stage
        /\ \A d \in Chains : at[d] \in Detectors => at'[d] = at[d]
    BY <1>4 DEF Deny, TypeOK, global, Detectors
  <2> QED  BY <2>1 DEF LoadInv, IsReady, Whole, Loading
<1>5. ASSUME NEW c \in Chains, ModelArrives(c) PROVE LoadInv'
  <2>1. /\ progress' = progress /\ stage' = stage
        /\ \A d \in Chains : at[d] \in Detectors => at'[d] = at[d]
    BY <1>5 DEF ModelArrives, TypeOK, global, Detectors
  <2> QED  BY <2>1 DEF LoadInv, IsReady, Whole, Loading
<1>6. ASSUME NEW c \in Chains, TestFaces(c) PROVE LoadInv'
  <2>1. /\ progress' = progress /\ at[c] \notin Detectors
        /\ \A d \in Chains \ {c} : at'[d] = at[d] /\ stage'[d] = stage[d]
    BY <1>6 DEF TestFaces, Test, TypeOK, global, Detectors
  <2> QED  BY <2>1 DEF LoadInv, IsReady, Whole, Loading
<1>7. ASSUME NEW c \in Chains, AssignFaceDetector(c) PROVE LoadInv'
  <2> DEFINE g == "faces"
  <2>1. g \in Detectors /\ stage[c] \in 1..4 /\ stage[c] <= Stages[g]
        /\ progress[g] \in 0..4 /\ progress[g] <= Stages[g] /\ Stages[g] \in 0..4
    BY <1>7 DEF AssignFaceDetector, Load, Loading, TypeOK, Detectors, Stages
  <2>2. \A h \in Detectors \ {g} :
            /\ progress'[h] = progress[h]
            /\ \A d \in Chains : Loading(d, h) => Loading(d, h)' /\ stage'[d] = stage[d]
    BY <1>7 DEF AssignFaceDetector, Load, Loading, TypeOK, Detectors
  <2>3. \A h \in Detectors \ {g} :
            IsReady(h)' => \/ Whole(h)'
                           \/ \E d \in Chains : Loading(d, h)' /\ stage'[d] <= progress'[h] + 1
    BY <2>2 DEF LoadInv, IsReady, Whole
  <2>4. CASE stage[c] = Stages[g]
    <3>1. Whole(g)'
      BY <1>7, <2>1, <2>4 DEF AssignFaceDetector, Load, Whole, TypeOK
    <3> QED  BY <2>3, <3>1 DEF LoadInv
  <2>5. CASE stage[c] # Stages[g]
    <3>1. /\ Loading(c, g)' /\ stage'[c] = stage[c] + 1
          /\ progress'[g] = IF progress[g] < stage[c] THEN stage[c] ELSE progress[g]
      BY <1>7, <2>1, <2>5 DEF AssignFaceDetector, Load, Loading, TypeOK
    <3>2. stage'[c] <= progress'[g] + 1
      BY <2>1, <3>1
    <3> QED  BY <2>3, <3>1, <3>2 DEF LoadInv
  <2> QED  BY <2>4, <2>5
<1>8. ASSUME NEW c \in Chains, TestLandmarks(c) PROVE LoadInv'
  <2>1. /\ progress' = progress /\ at[c] \notin Detectors
        /\ \A d \in Chains \ {c} : at'[d] = at[d] /\ stage'[d] = stage[d]
    BY <1>8 DEF TestLandmarks, Test, TypeOK, global, Detectors
  <2> QED  BY <2>1 DEF LoadInv, IsReady, Whole, Loading
<1>9. ASSUME NEW c \in Chains, DeserializePredictor(c) PROVE LoadInv'
  <2> DEFINE g == "landmarks"
  <2>1. g \in Detectors /\ stage[c] \in 1..4 /\ stage[c] <= Stages[g]
        /\ progress[g] \in 0..4 /\ progress[g] <= Stages[g] /\ Stages[g] \in 0..4
    BY <1>9 DEF DeserializePredictor, Load, Loading, TypeOK, Detectors, Stages
  <2>2. \A h \in Detectors \ {g} :
            /\ progress'[h] = progress[h]
            /\ \A d \in Chains : Loading(d, h) => Loading(d, h)' /\ stage'[d] = stage[d]
    BY <1>9 DEF DeserializePredictor, Load, Loading, TypeOK, Detectors
  <2>3. \A h \in Detectors \ {g} :
            IsReady(h)' => \/ Whole(h)'
                           \/ \E d \in Chains : Loading(d, h)' /\ stage'[d] <= progress'[h] + 1
    BY <2>2 DEF LoadInv, IsReady, Whole
  <2>4. CASE stage[c] = Stages[g]
    <3>1. Whole(g)'
      BY <1>9, <2>1, <2>4 DEF DeserializePredictor, Load, Whole, TypeOK
    <3> QED  BY <2>3, <3>1 DEF LoadInv
  <2>5. CASE stage[c] # Stages[g]
    <3>1. /\ Loading(c, g)' /\ stage'[c] = stage[c] + 1
          /\ progress'[g] = IF progress[g] < stage[c] THEN stage[c] ELSE progress[g]
      BY <1>9, <2>1, <2>5 DEF DeserializePredictor, Load, Loading, TypeOK
    <3>2. stage'[c] <= progress'[g] + 1
      BY <2>1, <3>1
    <3> QED  BY <2>3, <3>1, <3>2 DEF LoadInv
  <2> QED  BY <2>4, <2>5
<1>10. ASSUME NEW c \in Chains, CheckParts(c) PROVE LoadInv'
  <2>1. /\ progress' = progress /\ stage' = stage
        /\ \A d \in Chains : at[d] \in Detectors => at'[d] = at[d]
    BY <1>10 DEF CheckParts, TypeOK, global, Detectors
  <2> QED  BY <2>1 DEF LoadInv, IsReady, Whole, Loading
<1>11. ASSUME NEW c \in Chains, OpenCamera(c) PROVE LoadInv'
  <2>1. /\ progress' = progress /\ stage' = stage
        /\ \A d \in Chains : at[d] \in Detectors => at'[d] = at[d]
    BY <1>11 DEF OpenCamera, TypeOK, global, Detectors
  <2> QED  BY <2>1 DEF LoadInv, IsReady, Whole, Loading
<1>12. ASSUME NEW c \in Chains, Pause(c) PROVE LoadInv'
  <2>1. /\ progress' = progress /\ stage' = stage
        /\ \A d \in Chains : at[d] \in Detectors => at'[d] = at[d]
    BY <1>12 DEF Pause, TypeOK, global, Detectors
  <2> QED  BY <2>1 DEF LoadInv, IsReady, Whole, Loading
<1> QED
  BY StepCases, <1>1, <1>2, <1>3, <1>4, <1>5, <1>6, <1>7, <1>8, <1>9, <1>10,
     <1>11, <1>12 DEF ChainStep, PrepareStep

(* What a chain has prepared stays ready.                                  *)
LEMMA ReadyStep == TypeOK /\ ReadyInv /\ [Next]_vars => ReadyInv'
<1> SUFFICES ASSUME TypeOK, ReadyInv, [Next]_vars PROVE ReadyInv'
  OBVIOUS
<1>1. CASE UNCHANGED <<chain, global>>
  BY <1>1 DEF ReadyInv, Faced, Landmarked, IsReady, chain, global
<1>2. ASSUME NEW c \in Chains, Resume(c) PROVE ReadyInv'
  BY <1>2 DEF Resume, ReadyInv, Faced, Landmarked, IsReady, TypeOK, global
<1>3. ASSUME NEW c \in Chains, Grant(c) PROVE ReadyInv'
  BY <1>3 DEF Grant, ReadyInv, Faced, Landmarked, IsReady, TypeOK, global
<1>4. ASSUME NEW c \in Chains, Deny(c) PROVE ReadyInv'
  BY <1>4 DEF Deny, ReadyInv, Faced, Landmarked, IsReady, TypeOK, global
<1>5. ASSUME NEW c \in Chains, ModelArrives(c) PROVE ReadyInv'
  BY <1>5 DEF ModelArrives, ReadyInv, Faced, Landmarked, IsReady, TypeOK, global
<1>6. ASSUME NEW c \in Chains, TestFaces(c) PROVE ReadyInv'
  BY <1>6 DEF TestFaces, Test, ReadyInv, Faced, Landmarked, IsReady, TypeOK,
     global
<1>7. ASSUME NEW c \in Chains, AssignFaceDetector(c) PROVE ReadyInv'
  <2>1. \A g \in Detectors : IsReady(g) => IsReady(g)'
    BY <1>7 DEF AssignFaceDetector, Load, IsReady, TypeOK, Detectors
  <2>2. IsReady("faces")'
    BY <1>7 DEF AssignFaceDetector, Load, IsReady, TypeOK, Detectors
  <2> QED  BY <1>7, <2>1, <2>2 DEF ReadyInv, Faced, Landmarked, AssignFaceDetector, Load, Loading, TypeOK, Detectors
<1>8. ASSUME NEW c \in Chains, TestLandmarks(c) PROVE ReadyInv'
  BY <1>8 DEF TestLandmarks, Test, ReadyInv, Faced, Landmarked, IsReady, TypeOK,
     global
<1>9. ASSUME NEW c \in Chains, DeserializePredictor(c) PROVE ReadyInv'
  <2>1. \A g \in Detectors : IsReady(g) => IsReady(g)'
    BY <1>9 DEF DeserializePredictor, Load, IsReady, TypeOK, Detectors
  <2>2. IsReady("landmarks")'
    BY <1>9 DEF DeserializePredictor, Load, IsReady, TypeOK, Detectors
  <2> QED  BY <1>9, <2>1, <2>2 DEF ReadyInv, Faced, Landmarked, DeserializePredictor, Load, Loading, TypeOK, Detectors
<1>10. ASSUME NEW c \in Chains, CheckParts(c) PROVE ReadyInv'
  BY <1>10 DEF CheckParts, ReadyInv, Faced, Landmarked, IsReady, TypeOK, global
<1>11. ASSUME NEW c \in Chains, OpenCamera(c) PROVE ReadyInv'
  BY <1>11 DEF OpenCamera, ReadyInv, Faced, Landmarked, IsReady, TypeOK, global
<1>12. ASSUME NEW c \in Chains, Pause(c) PROVE ReadyInv'
  BY <1>12 DEF Pause, ReadyInv, Faced, Landmarked, IsReady, TypeOK, global
<1> QED
  BY StepCases, <1>1, <1>2, <1>3, <1>4, <1>5, <1>6, <1>7, <1>8, <1>9, <1>10,
     <1>11, <1>12 DEF ChainStep, PrepareStep

(* The owner of a predictor that is not for 68 landmarks ends rejected.    *)
LEMMA OwnerStep == TypeOK /\ ReadyInv /\ OwnerInv /\ [Next]_vars => OwnerInv'
<1> SUFFICES ASSUME TypeOK, ReadyInv, OwnerInv, [Next]_vars PROVE OwnerInv'
  OBVIOUS
<1>1. CASE UNCHANGED <<chain, global>>
  BY <1>1 DEF OwnerInv, Owner, IsReady, chain, global
<1>2. ASSUME NEW c \in Chains, Resume(c) PROVE OwnerInv'
  <2>1. /\ progress'["landmarks"] = progress["landmarks"] /\ UNCHANGED file
        /\ \A d \in Chains : Owner(d) => Owner(d)'
    BY <1>2 DEF Resume, Owner, TypeOK, global, Detectors
  <2> QED  BY <2>1 DEF OwnerInv, IsReady
<1>3. ASSUME NEW c \in Chains, Grant(c) PROVE OwnerInv'
  <2>1. /\ progress'["landmarks"] = progress["landmarks"] /\ UNCHANGED file
        /\ \A d \in Chains : Owner(d) => Owner(d)'
    BY <1>3 DEF Grant, Owner, TypeOK, global, Detectors
  <2> QED  BY <2>1 DEF OwnerInv, IsReady
<1>4. ASSUME NEW c \in Chains, Deny(c) PROVE OwnerInv'
  <2>1. /\ progress'["landmarks"] = progress["landmarks"] /\ UNCHANGED file
        /\ \A d \in Chains : Owner(d) => Owner(d)'
    BY <1>4 DEF Deny, Owner, TypeOK, global, Detectors
  <2> QED  BY <2>1 DEF OwnerInv, IsReady
<1>5. ASSUME NEW c \in Chains, ModelArrives(c) PROVE OwnerInv'
  <2>1. /\ progress'["landmarks"] = progress["landmarks"] /\ UNCHANGED file
        /\ \A d \in Chains : Owner(d) => Owner(d)'
    BY <1>5 DEF ModelArrives, Owner, TypeOK, global, Detectors
  <2> QED  BY <2>1 DEF OwnerInv, IsReady
<1>6. ASSUME NEW c \in Chains, TestFaces(c) PROVE OwnerInv'
  <2>1. /\ progress'["landmarks"] = progress["landmarks"] /\ UNCHANGED file
        /\ \A d \in Chains : Owner(d) => Owner(d)'
    BY <1>6 DEF TestFaces, Test, Owner, TypeOK, global, Detectors
  <2> QED  BY <2>1 DEF OwnerInv, IsReady
<1>7. ASSUME NEW c \in Chains, AssignFaceDetector(c) PROVE OwnerInv'
  <2>1. /\ progress'["landmarks"] = progress["landmarks"] /\ UNCHANGED file
        /\ \A d \in Chains : Owner(d) => Owner(d)'
    BY <1>7 DEF AssignFaceDetector, Load, Loading, Owner, TypeOK, global,
       Detectors
  <2> QED  BY <2>1 DEF OwnerInv, IsReady
<1>8. ASSUME NEW c \in Chains, TestLandmarks(c) PROVE OwnerInv'
  <2>1. /\ progress'["landmarks"] = progress["landmarks"] /\ UNCHANGED file
        /\ \A d \in Chains : Owner(d) => Owner(d)'
    BY <1>8 DEF TestLandmarks, Test, Owner, TypeOK, global, Detectors
  <2> QED  BY <2>1 DEF OwnerInv, IsReady
<1>9. ASSUME NEW c \in Chains, DeserializePredictor(c) PROVE OwnerInv'
  <2>1. Owner(c)'
    BY <1>9 DEF Owner, DeserializePredictor, Load, Loading, TypeOK, Detectors
  <2> QED  BY <2>1 DEF OwnerInv
<1>10. ASSUME NEW c \in Chains, CheckParts(c) PROVE OwnerInv'
  <2>1. IsReady("landmarks") /\ UNCHANGED global
    BY <1>10 DEF CheckParts, ReadyInv, Landmarked
  <2>2. file # 68 => Owner(c)'
    BY <1>10, <2>1 DEF CheckParts, NumParts, Owner, TypeOK
  <2> QED  BY <2>1, <2>2 DEF OwnerInv, global
<1>11. ASSUME NEW c \in Chains, OpenCamera(c) PROVE OwnerInv'
  <2>1. /\ progress'["landmarks"] = progress["landmarks"] /\ UNCHANGED file
        /\ \A d \in Chains : Owner(d) => Owner(d)'
    BY <1>11 DEF OpenCamera, Owner, TypeOK, global, Detectors
  <2> QED  BY <2>1 DEF OwnerInv, IsReady
<1>12. ASSUME NEW c \in Chains, Pause(c) PROVE OwnerInv'
  <2>1. /\ progress'["landmarks"] = progress["landmarks"] /\ UNCHANGED file
        /\ \A d \in Chains : Owner(d) => Owner(d)'
    BY <1>12 DEF Pause, Owner, TypeOK, global, Detectors
  <2> QED  BY <2>1 DEF OwnerInv, IsReady
<1> QED
  BY StepCases, <1>1, <1>2, <1>3, <1>4, <1>5, <1>6, <1>7, <1>8, <1>9, <1>10,
     <1>11, <1>12 DEF ChainStep, PrepareStep

(* onPause stops the frame thread that opening the camera started.         *)
LEMMA FrameStepInv == TypeOK /\ FrameInv /\ [Next]_vars => FrameInv'
<1> SUFFICES ASSUME TypeOK, FrameInv, [Next]_vars PROVE FrameInv'
  OBVIOUS
<1>1. CASE UNCHANGED vars
  BY <1>1 DEF FrameInv, vars, chain, detection
<1>2. ASSUME NEW c \in Chains, Resume(c) PROVE FrameInv'
  <2>1. frame' = frame /\ paused' = paused /\ \A d \in Chains : at[d] = "opened" => at'[d] = "opened"
    BY <1>2 DEF Resume, TypeOK, detection, Detectors
  <2> QED  BY <2>1 DEF FrameInv
<1>3. ASSUME NEW c \in Chains, Grant(c) PROVE FrameInv'
  <2>1. frame' = frame /\ paused' = paused /\ \A d \in Chains : at[d] = "opened" => at'[d] = "opened"
    BY <1>3 DEF Grant, TypeOK, detection, Detectors
  <2> QED  BY <2>1 DEF FrameInv
<1>4. ASSUME NEW c \in Chains, Deny(c) PROVE FrameInv'
  <2>1. frame' = frame /\ paused' = paused /\ \A d \in Chains : at[d] = "opened" => at'[d] = "opened"
    BY <1>4 DEF Deny, TypeOK, detection, Detectors
  <2> QED  BY <2>1 DEF FrameInv
<1>5. ASSUME NEW c \in Chains, ModelArrives(c) PROVE FrameInv'
  <2>1. frame' = frame /\ paused' = paused /\ \A d \in Chains : at[d] = "opened" => at'[d] = "opened"
    BY <1>5 DEF ModelArrives, TypeOK, detection, Detectors
  <2> QED  BY <2>1 DEF FrameInv
<1>6. ASSUME NEW c \in Chains, TestFaces(c) PROVE FrameInv'
  <2>1. frame' = frame /\ paused' = paused /\ \A d \in Chains : at[d] = "opened" => at'[d] = "opened"
    BY <1>6 DEF TestFaces, Test, TypeOK, detection, Detectors
  <2> QED  BY <2>1 DEF FrameInv
<1>7. ASSUME NEW c \in Chains, AssignFaceDetector(c) PROVE FrameInv'
  <2>1. frame' = frame /\ paused' = paused /\ \A d \in Chains : at[d] = "opened" => at'[d] = "opened"
    BY <1>7 DEF AssignFaceDetector, Load, Loading, TypeOK, detection, Detectors
  <2> QED  BY <2>1 DEF FrameInv
<1>8. ASSUME NEW c \in Chains, TestLandmarks(c) PROVE FrameInv'
  <2>1. frame' = frame /\ paused' = paused /\ \A d \in Chains : at[d] = "opened" => at'[d] = "opened"
    BY <1>8 DEF TestLandmarks, Test, TypeOK, detection, Detectors
  <2> QED  BY <2>1 DEF FrameInv
<1>9. ASSUME NEW c \in Chains, DeserializePredictor(c) PROVE FrameInv'
  <2>1. frame' = frame /\ paused' = paused /\ \A d \in Chains : at[d] = "opened" => at'[d] = "opened"
    BY <1>9 DEF DeserializePredictor, Load, Loading, TypeOK, detection,
       Detectors
  <2> QED  BY <2>1 DEF FrameInv
<1>10. ASSUME NEW c \in Chains, CheckParts(c) PROVE FrameInv'
  <2>1. frame' = frame /\ paused' = paused /\ \A d \in Chains : at[d] = "opened" => at'[d] = "opened"
    BY <1>10 DEF CheckParts, TypeOK, detection, Detectors
  <2> QED  BY <2>1 DEF FrameInv
<1>11. ASSUME NEW c \in Chains, OpenCamera(c) PROVE FrameInv'
  BY <1>11 DEF OpenCamera, FrameInv, TypeOK, chain, detection
<1>12. ASSUME NEW c \in Chains, Pause(c) PROVE FrameInv'
  BY <1>12 DEF Pause, FrameInv, TypeOK, chain, detection
<1>13. ASSUME NEW c \in Chains, Guards(c) PROVE FrameInv'
  BY <1>13 DEF Guards, FrameInv, TypeOK, chain, detection
<1>14. ASSUME NEW c \in Chains, DetectFaces(c) PROVE FrameInv'
  BY <1>14 DEF DetectFaces, FrameInv, TypeOK, chain, detection
<1>15. ASSUME NEW c \in Chains, VisionFaces(c) PROVE FrameInv'
  BY <1>15 DEF VisionFaces, FrameInv, TypeOK, chain, detection
<1>16. ASSUME NEW c \in Chains, Predict(c) PROVE FrameInv'
  BY <1>16 DEF Predict, FrameInv, TypeOK, chain, detection
<1>17. ASSUME NEW c \in Chains, Deliver(c) PROVE FrameInv'
  BY <1>17 DEF Deliver, FrameInv, TypeOK, chain, detection
<1>18. ASSUME NEW a \in Activities, DrawThrows(a) PROVE FrameInv'
  BY <1>18 DEF DrawThrows, FrameInv, chain, detection
<1> QED
  BY <1>1, <1>2, <1>3, <1>4, <1>5, <1>6, <1>7, <1>8, <1>9, <1>10, <1>11, <1>12,
     <1>13, <1>14, <1>15, <1>16, <1>17, <1>18 DEF Next, PrepareStep, FrameStep,
     Killed

-----------------------------------------------------------------------------
(* The steps that touch what was found.                                    *)
LEMMA FoundCases ==
    ASSUME [Next]_vars
    PROVE  \/ UNCHANGED <<file, found, overlay>>
           \/ \E c \in Chains : DetectFaces(c) \/ VisionFaces(c) \/ Predict(c) \/ Deliver(c)
<1> USE DEF global, detection
<1>1. CASE UNCHANGED vars
  BY <1>1 DEF vars
<1>2. ASSUME NEW c \in Chains, ChainStep(c)
      PROVE  UNCHANGED <<file, found, overlay>>
  BY <1>2 DEF ChainStep, PrepareStep, Resume, Grant, Deny, ModelArrives,
     TestFaces,
              AssignFaceDetector, TestLandmarks, DeserializePredictor, CheckParts,
              OpenCamera, Pause, Test, Load
<1>3. ASSUME NEW c \in Chains, Guards(c)
      PROVE  UNCHANGED <<file, found, overlay>>
  BY <1>3 DEF Guards
<1>4. ASSUME NEW a \in Activities, DrawThrows(a)
      PROVE  UNCHANGED <<file, found, overlay>>
  BY <1>4 DEF DrawThrows
<1> QED
  BY <1>1, <1>2, <1>3, <1>4 DEF Next, ChainStep, FrameStep, Killed

(* The numbers of landmarks.                                               *)
LEMMA CountStep == TypeOK /\ CountInv /\ [Next]_vars => CountInv'
<1> SUFFICES ASSUME TypeOK, CountInv, [Next]_vars PROVE CountInv'
  OBVIOUS
<1>1. CASE UNCHANGED <<file, found, overlay>>
  BY <1>1 DEF CountInv
<1>2. ASSUME NEW c \in Chains, DetectFaces(c) \/ VisionFaces(c) PROVE CountInv'
  BY <1>2 DEF DetectFaces, VisionFaces, CountInv, TypeOK, global
<1>3. ASSUME NEW c \in Chains, Predict(c) PROVE CountInv'
  <2>1. NumParts \in {0, file}
    BY DEF NumParts
  <2> QED  BY <1>3, <2>1 DEF Predict, CountInv, TypeOK, global
<1>4. ASSUME NEW c \in Chains, Deliver(c) PROVE CountInv'
  BY <1>4 DEF Deliver, CountInv, TypeOK, global
<1> QED  BY FoundCases, <1>1, <1>2, <1>3, <1>4

(* A paused owner of a predictor that is not for 68 landmarks stays one.   *)
LEMMA OwnerPersists ==
    ASSUME TypeOK, ReadyInv, [Next]_vars, file # 68,
           NEW d \in paused, Owner(d)
    PROVE  d \in paused' /\ Owner(d)' /\ file' = file
<1>1. d \in Chains
  BY DEF TypeOK
<1> USE DEF Owner
<1>2. CASE UNCHANGED <<chain, global>>
  BY <1>2 DEF chain, global
<1>3. ASSUME NEW c \in Chains, CheckParts(c)
      PROVE  d \in paused' /\ Owner(d)' /\ file' = file
  <2>1. IsReady("landmarks")
    BY <1>3 DEF CheckParts, ReadyInv, Landmarked
  <2> QED  BY <1>1, <1>3, <2>1 DEF CheckParts, NumParts, TypeOK, global
<1>4. ASSUME NEW c \in Chains, AssignFaceDetector(c) \/ DeserializePredictor(c)
      PROVE  d \in paused' /\ Owner(d)' /\ file' = file
  BY <1>1, <1>4 DEF AssignFaceDetector, DeserializePredictor, Load, Loading,
     TypeOK, Detectors
<1>5. ASSUME NEW c \in Chains, TestFaces(c) \/ TestLandmarks(c)
      PROVE  d \in paused' /\ Owner(d)' /\ file' = file
  BY <1>1, <1>5 DEF TestFaces, TestLandmarks, Test, TypeOK, global
<1>6. ASSUME NEW c \in Chains, Resume(c) \/ Grant(c) \/ Deny(c) \/ ModelArrives(c)
      PROVE  d \in paused' /\ Owner(d)' /\ file' = file
  BY <1>1, <1>6 DEF Resume, Grant, Deny, ModelArrives, TypeOK, global
<1>7. ASSUME NEW c \in Chains, OpenCamera(c) \/ Pause(c)
      PROVE  d \in paused' /\ Owner(d)' /\ file' = file
  BY <1>1, <1>7 DEF OpenCamera, Pause, TypeOK, global
<1> QED
  BY StepCases, <1>2, <1>3, <1>4, <1>5, <1>6, <1>7 DEF ChainStep, PrepareStep

(* A landmark of the file was found by a frame of a chain that is not      *)
(* paused and that does not own the predictor: its owner is paused.        *)
LEMMA FoundByOther ==
    ASSUME IInv, NEW c \in Chains, Predict(c), file \in found'[c], file \notin found[c],
           file # 68
    PROVE  \E d \in paused : Owner(d)
<1>1. NumParts = file /\ file # 0
  BY PartsAssumption DEF IInv, TypeOK, Predict
<1>2. IsReady("landmarks")
  BY <1>1 DEF NumParts
<1>3. PICK d \in Chains : Owner(d)
  BY <1>2 DEF IInv, OwnerInv
<1>4. at[c] = "opened" /\ c \notin paused
  BY DEF IInv, FrameInv, Predict
<1> QED
  BY <1>3, <1>4 DEF IInv, ActiveInv, Owner

(* RejectInv is kept: the found landmarks have a paused owner.             *)
LEMMA RejectStep == IInv /\ [Next]_vars => RejectInv'
<1> SUFFICES ASSUME IInv, [Next]_vars PROVE RejectInv'
  OBVIOUS
<1>1. SomeFound' /\ file' # 68 => \E d \in paused' : Owner(d)'
  <2> SUFFICES ASSUME SomeFound', file # 68, ~SomeFound
               PROVE  \E d \in paused : Owner(d)
    <3>1. file' = file
      <4>1. CASE UNCHANGED <<chain, global>>
        BY <4>1 DEF global
      <4>2. ASSUME NEW c \in Chains, ChainStep(c) PROVE file' = file
        BY <4>2 DEF ChainStep, PrepareStep, Resume, Grant, Deny, ModelArrives,
           TestFaces,
                    AssignFaceDetector, TestLandmarks, DeserializePredictor, CheckParts,
                    OpenCamera, Pause, Test, Load, global
      <4> QED  BY StepCases, <4>1, <4>2
    <3>2. SomeFound /\ file # 68 => \E d \in paused : Owner(d)
      BY DEF IInv, RejectInv
    <3> QED  BY <3>1, <3>2, OwnerPersists DEF IInv
  <2> USE DEF SomeFound
  <2>1. CASE UNCHANGED <<file, found, overlay>>
    BY <2>1
  <2>2. ASSUME NEW c \in Chains, DetectFaces(c) \/ VisionFaces(c) PROVE FALSE
    BY <2>2 DEF DetectFaces, VisionFaces, IInv, TypeOK, global
  <2>3. ASSUME NEW c \in Chains, Predict(c) PROVE \E d \in paused : Owner(d)
    <3>1. /\ file' = file /\ overlay' = overlay
          /\ \A d \in Chains \ {c} : found'[d] = found[d]
      BY <2>3 DEF Predict, IInv, TypeOK, global
    <3>2. file \in found'[c] /\ file \notin found[c]
      BY <3>1
    <3> QED  BY <2>3, <3>2, FoundByOther
  <2>4. ASSUME NEW c \in Chains, Deliver(c) PROVE FALSE
    BY <2>4 DEF Deliver, IInv, TypeOK, global
  <2>5. \/ UNCHANGED <<file, found, overlay>>
        \/ \E c \in Chains : DetectFaces(c) \/ VisionFaces(c) \/ Predict(c) \/ Deliver(c)
    BY FoundCases
  <2> QED  BY <2>1, <2>2, <2>3, <2>4, <2>5
<1>2. failure' = "draw" => SomeFound' /\ ~Drawable(file)'
  <2> SUFFICES ASSUME failure' = "draw" PROVE SomeFound' /\ ~Drawable(file)'
    OBVIOUS
  <2>1. CASE UNCHANGED vars
    BY <2>1 DEF IInv, RejectInv, SomeFound, vars, global, detection
  <2>2. ASSUME NEW a \in Activities, DrawThrows(a) PROVE SomeFound' /\ ~Drawable(file)'
    <3>1. PICK n \in overlay[a] : ~Drawable(n)
      BY <2>2 DEF DrawThrows
    <3>2. n = file
      BY <3>1 DEF IInv, CountInv, Drawable
    <3> QED  BY <2>2, <3>1, <3>2 DEF DrawThrows, SomeFound, global, detection
  <2>3. ASSUME NEW c \in Chains, failure = "no", ChainStep(c) PROVE FALSE
    BY <2>3 DEF ChainStep, PrepareStep, Resume, Grant, Deny, ModelArrives,
       TestFaces,
                AssignFaceDetector, TestLandmarks, DeserializePredictor, CheckParts,
                OpenCamera, Pause, Test, Load
  <2>4. ASSUME NEW c \in Chains, failure = "no", FrameStep(c) PROVE FALSE
    BY <2>4 DEF FrameStep, Guards, DetectFaces, VisionFaces, Predict, Deliver,
       Used
  <2> QED
    BY <2>1, <2>2, <2>3, <2>4 DEF Next, ChainStep, Killed
<1> QED  BY <1>1, <1>2 DEF RejectInv

-----------------------------------------------------------------------------
(* The invariant of NativeDetectors, for every value of its constants.     *)
THEOREM DetectorsInvariance == Spec => []IInv
<1>1. IInv /\ [Next]_vars => IInv'
  BY TypeInvariant, ActiveStep, FrameStepInv, LoadStep, ReadyStep, OwnerStep,
     CountStep,
     RejectStep DEF IInv
<1> QED  BY InitInv, <1>1, PTL DEF Spec

(* Type correctness of the detectors and their users.                      *)
THEOREM DetectorsTypeCorrect == Spec => []TypeOK
<1>1. IInv => TypeOK
  BY DEF IInv
<1> QED  BY <1>1, DetectorsInvariance, PTL

(* A use of a detector races only with the load of a paused chain: an      *)
(* unpaused loader would be the user itself, whose camera is open.         *)
THEOREM RacesAreAbandonedLoads == Spec => []RaceNeedsAbandonedLoad
<1>1. IInv => RaceNeedsAbandonedLoad
  <2> SUFFICES ASSUME IInv, NEW c \in Chains, NEW d \in Chains, NEW g \in Detectors,
                      Uses(c, g), Loading(d, g)
               PROVE  d \in paused
    BY DEF RaceNeedsAbandonedLoad
  <2>1. at[c] = "opened" /\ c \notin paused
    BY DEF IInv, FrameInv, Uses, Detectors
  <2>2. at[d] \notin {"unused", "opened"}
    BY DEF Loading, Detectors
  <2> QED  BY <2>1, <2>2 DEF IInv, ActiveInv
<1> QED  BY <1>1, DetectorsInvariance, PTL

(* Half a detector always has a thread that loads the rest.                *)
THEOREM HalvesAreLoading == Spec => []HalfHasLoader
<1>1. IInv => HalfHasLoader
  BY DEF IInv, LoadInv, HalfHasLoader
<1> QED  BY <1>1, DetectorsInvariance, PTL

(* A camera that is opened with the permissions has both detectors.        *)
THEOREM CamerasArePrepared == Spec => []PreparedBeforeCamera
<1>1. IInv => PreparedBeforeCamera
  BY DEF IInv, ReadyInv, Faced, Landmarked, PreparedBeforeCamera, Detectors
<1> QED  BY <1>1, DetectorsInvariance, PTL

(* Only a rejected model kills the process while it is drawn.              *)
THEOREM DrawDeaths == Spec => []DrawDeathNeedsRejection
<1>1. Drawable(68)
  BY DEF Drawable, FaceParts
<1>2. IInv => DrawDeathNeedsRejection
  BY <1>1 DEF IInv, RejectInv, DrawDeathNeedsRejection, Owner
<1> QED  BY <1>2, DetectorsInvariance, PTL

-----------------------------------------------------------------------------
(* What a step of the frame threads, or of another chain, leaves alone.    *)
LEMMA OtherChain ==
    ASSUME TypeOK, NEW c \in Chains, NEW d \in Chains \ {c}, ChainStep(d)
    PROVE  UNCHANGED <<at[c], stage[c]>>
<1> USE DEF TypeOK
<1>1. CASE PrepareStep(d)
  BY <1>1 DEF PrepareStep, TestFaces, TestLandmarks, Test, AssignFaceDetector,
     DeserializePredictor, Load, CheckParts
<1>2. CASE Resume(d) \/ Grant(d) \/ Deny(d) \/ ModelArrives(d)
  BY <1>2 DEF Resume, Grant, Deny, ModelArrives
<1>3. CASE OpenCamera(d) \/ Pause(d)
  BY <1>3 DEF OpenCamera, Pause
<1> QED  BY <1>1, <1>2, <1>3 DEF ChainStep

(* A load raises what is loaded of its detector; nothing else changes it.  *)
LEMMA LoadRaises ==
    ASSUME TypeOK, NEW c \in Chains, NEW h \in Detectors, NEW next, Load(c, h, next)
    PROVE  \A g \in Detectors : progress'[g] >= progress[g]
BY DEF TypeOK, Load

LEMMA ProgressRaises ==
    ASSUME TypeOK, [Next]_vars
    PROVE  \A g \in Detectors : progress'[g] >= progress[g]
<1> USE DEF global
<1>1. CASE UNCHANGED progress
  BY <1>1 DEF TypeOK
<1>2. ASSUME NEW c \in Chains, AssignFaceDetector(c) \/ DeserializePredictor(c)
      PROVE  \A g \in Detectors : progress'[g] >= progress[g]
  BY <1>2, LoadRaises DEF AssignFaceDetector, DeserializePredictor, Detectors
<1>3. ASSUME NEW c \in Chains, ChainStep(c),
             ~(AssignFaceDetector(c) \/ DeserializePredictor(c))
      PROVE  UNCHANGED progress
  BY <1>3 DEF ChainStep, PrepareStep, Resume, Grant, Deny, ModelArrives,
     TestFaces, TestLandmarks, Test, CheckParts, OpenCamera, Pause
<1> QED  BY StepCases, <1>1, <1>2, <1>3

(* The test of a detector that is ready does not lead to its load, and     *)
(* nothing but a test does.                                                *)
LEMMA LoadersDwindle ==
    ASSUME TypeOK, NEW g \in Detectors, IsReady(g), NEW c \in Chains, ChainStep(c),
           Loading(c, g)'
    PROVE  Loading(c, g) /\ stage'[c] >= stage[c]
<1>1. at'[c] = g /\ stage[c] \in 1..4
  BY DEF Loading, TypeOK
<1> USE DEF TypeOK, Detectors
<1>2. CASE PrepareStep(c)
  <2>1. CASE TestFaces(c) \/ TestLandmarks(c)
    BY <1>1, <2>1 DEF TestFaces, TestLandmarks, Test
  <2>2. CASE AssignFaceDetector(c) \/ DeserializePredictor(c)
    BY <1>1, <2>2 DEF AssignFaceDetector, DeserializePredictor, Load, Loading
  <2>3. CASE CheckParts(c)
    BY <1>1, <2>3 DEF CheckParts
  <2> QED  BY <1>2, <2>1, <2>2, <2>3 DEF PrepareStep
<1>3. CASE Resume(c) \/ Grant(c) \/ Deny(c) \/ ModelArrives(c) \/ OpenCamera(c)
  BY <1>1, <1>3 DEF Resume, Grant, Deny, ModelArrives, OpenCamera
<1>4. CASE Pause(c)
  BY <1>1, <1>4 DEF Pause, Loading
<1> QED  BY <1>2, <1>3, <1>4 DEF ChainStep

(* The writing of a detector that is ready runs out: with HalvesAreLoading *)
(* it ends with a whole one.                                               *)
THEOREM LoadsRunOutAlways == Spec => LoadsRunOut
<1>1. ASSUME TypeOK, [Next]_vars, NEW g \in Detectors, IsReady(g)
      PROVE  /\ IsReady(g)'
             /\ \A c \in Chains :
                   Loading(c, g)' => Loading(c, g) /\ stage'[c] >= stage[c]
  <2>1. IsReady(g)'
    <3>1. progress[g] \in 0..4 /\ progress'[g] \in 0..4
      BY <1>1, TypeInvariant DEF TypeOK
    <3>2. progress'[g] >= progress[g]
      BY <1>1, ProgressRaises
    <3> QED  BY <1>1, <3>1, <3>2 DEF IsReady
  <2>2. ASSUME NEW c \in Chains, Loading(c, g)'
        PROVE  Loading(c, g) /\ stage'[c] >= stage[c]
    <3>1. CASE UNCHANGED <<at[c], stage[c]>>
      BY <1>1, <2>2, <3>1 DEF Loading, TypeOK
    <3>2. CASE ChainStep(c)
      BY <1>1, <2>2, <3>2, LoadersDwindle
    <3>3. CASE UNCHANGED <<chain, global>>
      BY <3>1, <3>3 DEF chain
    <3> QED  BY <1>1, <3>1, <3>2, <3>3, StepCases, OtherChain
  <2> QED  BY <2>1, <2>2
<1>2. TypeOK /\ [Next]_vars =>
          [\A g \in Detectors : IsReady(g) =>
              /\ IsReady(g)'
              /\ \A c \in Chains :
                    Loading(c, g)' => Loading(c, g) /\ stage'[c] >= stage[c]]_vars
  BY <1>1
<1> QED  BY <1>2, DetectorsTypeCorrect, PTL DEF Spec, LoadsRunOut
=============================================================================
