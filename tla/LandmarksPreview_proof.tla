----------------------- MODULE LandmarksPreview_proof -----------------------
(***************************************************************************)
(* Proofs about LandmarksPreview for any number of sources, emissions and  *)
(* faces.  LockInv is inductive and gives FacesOfOneDetection, StartInv    *)
(* gives StartedWhenReady.  OwnerInv says whose the frame threads are, and *)
(* gives PauseStopsFrames.                                                 *)
(***************************************************************************)
EXTENDS LandmarksPreview, TLAPS

(* The frame thread that is adding faces is the one that has the mutex,    *)
(* the list holds its faces only, and the ones left fit.                   *)
LockInv ==
    /\ \A s \in Sources : frame[s] = "add" => lock = s
    /\ lock # None =>
          /\ frame[lock] = "add"
          /\ Len(faces) + left[lock] <= MaxFaces
          /\ \A i \in 1..Len(faces) : faces[i] = lock
    /\ FacesOfOneDetection

(* The source of the preview is either requested or started, only started  *)
(* sources have a frame thread, and the main thread releases a source it   *)
(* has.                                                                    *)
StartInv ==
    /\ main = "release" => source # None
    /\ source # None => (requested <=> state[source] # "started")
    /\ \A s \in Sources : frame[s] # "off" => state[s] = "started"
    /\ StartedWhenReady

(* A frame thread is the one of the source of the preview, or of one that  *)
(* was replaced, and a paused activity has no source.                      *)
OwnerInv ==
    /\ ~resumed /\ main # "release" => source = None
    /\ resumed => main # "release"
    /\ \A s \in Sources : frame[s] # "off" => source = s \/ s \in replaced

Inv == TypeOK /\ LockInv /\ StartInv

(* startIfReady keeps the types of what it assigns.                        *)
LEMMA StartIfReadyType ==
    ASSUME TypeOK, NEW s \in Sources \cup {None}, NEW request \in BOOLEAN,
           NEW available \in BOOLEAN, NEW kills \in SUBSET {"start"},
           StartIfReady(s, request, available, kills)
    PROVE  /\ state' \in [Sources -> SourceStates]
           /\ requested' \in BOOLEAN /\ surface' \in BOOLEAN
           /\ frame' \in [Sources -> FrameStates]
           /\ failure' \in Failures
<1> USE DEF StartIfReady, TypeOK, SourceStates, FrameStates, Failures
<1>1. CASE ~(request /\ available)
  BY <1>1
<1>2. CASE request /\ available /\ s = None
  BY <1>2
<1>3. CASE request /\ available /\ s # None
  BY <1>3
<1> QED  BY <1>1, <1>2, <1>3

(* startIfReady of a source that was not started before starts at most its *)
(* thread, which was off; a source that was started is left alone.         *)
LEMMA StartIfReadyFrame ==
    ASSUME TypeOK, StartInv, NEW s \in Sources \cup {None},
           NEW request \in BOOLEAN, NEW available \in BOOLEAN, NEW kills,
           s # None /\ request => state[s] # "started",
           StartIfReady(s, request, available, kills), NEW t \in Sources
    PROVE  /\ \/ frame'[t] = frame[t]
              \/ t = s /\ frame[t] = "off" /\ frame'[t] = "idle"
           /\ frame'[t] # "off" => state'[t] = "started"
<1> USE DEF StartIfReady, TypeOK, StartInv
<1>1. CASE ~(request /\ available)
  BY <1>1
<1>2. CASE request /\ available /\ s = None
  BY <1>2
<1>3. CASE request /\ available /\ s # None
  BY <1>3
<1> QED  BY <1>1, <1>2, <1>3

(* What startIfReady promises of its source: it is either requested or     *)
(* started, and if the surface is there it was tried.                      *)
LEMMA StartIfReadyStarts ==
    ASSUME TypeOK, NEW s \in Sources, NEW request \in BOOLEAN,
           NEW available \in BOOLEAN, NEW kills,
           StartIfReady(s, request, available, kills),
           request <=> state[s] # "started"
    PROVE  /\ requested' <=> state'[s] # "started"
           /\ surface' => state'[s] \in {"started", "failed"}
<1> USE DEF StartIfReady, TypeOK
<1>1. s # None
  BY NoneAssumption
<1>2. CASE ~(request /\ available)
  BY <1>2
<1>3. CASE request /\ available
  BY <1>1, <1>3
<1> QED  BY <1>2, <1>3

(* The initial state satisfies the invariant.                              *)
LEMMA InitInv == Init => Inv
<1> SUFFICES ASSUME Init PROVE Inv
  OBVIOUS
<1> USE BoundsAssumption DEF Init
<1>1. TypeOK
  <2>1. 0 \in 0..MaxFaces /\ 0 \in 0..MaxEmissions
    BY BoundsAssumption
  <2>2. faces \in Seq(Sources) /\ Len(faces) <= MaxFaces
    BY BoundsAssumption
  <2> QED
    BY <2>1, <2>2 DEF TypeOK, MainStates, SourceStates, FrameStates, Failures
<1>2. LockInv
  BY DEF LockInv, FacesOfOneDetection
<1>3. StartInv
  BY DEF StartInv, StartedWhenReady
<1> QED  BY <1>1, <1>2, <1>3 DEF Inv

(* What the three callers of startIfReady do to the frame threads: the one *)
(* of the source of the preview may start.                                 *)
FramesStart ==
    \A t \in Sources :
        /\ \/ frame'[t] = frame[t]
           \/ t = source' /\ frame[t] = "off" /\ frame'[t] = "idle"
        /\ frame'[t] # "off" => state'[t] = "started"

LEMMA SurfaceCreatedFrame ==
    ASSUME TypeOK, StartInv, SurfaceCreated
    PROVE  FramesStart
<1>1. /\ source \in Sources \cup {None} /\ requested \in BOOLEAN
      /\ source # None /\ requested => state[source] # "started"
      /\ source' = source
      /\ StartIfReady(source, requested, TRUE, {"start"})
  BY DEF TypeOK, StartInv, SurfaceCreated
<1> QED  BY <1>1, StartIfReadyFrame DEF FramesStart

LEMMA OnLayoutFrame ==
    ASSUME TypeOK, StartInv, OnLayout
    PROVE  FramesStart
<1>1. /\ source \in Sources \cup {None}
      /\ requested \in BOOLEAN /\ surface \in BOOLEAN
      /\ source # None /\ requested => state[source] # "started"
      /\ source' = source
      /\ StartIfReady(source, requested, surface, {"start"})
  BY DEF TypeOK, StartInv, OnLayout
<1> QED  BY <1>1, StartIfReadyFrame DEF FramesStart

LEMMA OpenSourceFrame ==
    ASSUME TypeOK, StartInv, NEW s \in Sources, OpenSource(s)
    PROVE  FramesStart
<1>1. /\ surface \in BOOLEAN /\ state[s] # "started" /\ source' = s
      /\ StartIfReady(s, TRUE, surface, {})
  BY DEF TypeOK, OpenSource
<1> QED  BY <1>1, StartIfReadyFrame DEF FramesStart

(* Every step keeps the types; AddFace needs to know that its faces fit.   *)
LEMMA TypeStep ==
    ASSUME TypeOK, LockInv, StartInv, [Next]_vars
    PROVE  TypeOK'
<1> USE BoundsAssumption, NoneAssumption
    DEF TypeOK, view, overlay, MainStates
<1>1. CASE OnResume
  <2>1. state' \in [Sources -> SourceStates]
    BY <1>1 DEF OnResume, SourceStates
  <2>2. emissions' \in 0..MaxEmissions
    BY <1>1 DEF OnResume
  <2> QED  BY <1>1, <2>1, <2>2 DEF OnResume
<1>2. CASE OnPause
  <2>1. main' \in MainStates /\ emissions' \in 0..MaxEmissions
    BY <1>2 DEF OnPause
  <2> QED  BY <1>2, <2>1 DEF OnPause
<1>3. CASE OnDraw  BY <1>3 DEF OnDraw
<1>4. CASE DrawSize  BY <1>4 DEF DrawSize
<1>5. CASE DrawGet  BY <1>5 DEF DrawGet, Failures
<1>6. CASE Release
  BY <1>6 DEF Release, SourceStates, FrameStates, StartInv
<1>7. CASE SurfaceCreated
  <2>1. StartIfReady(source, requested, TRUE, {"start"})
    BY <1>7 DEF SurfaceCreated
  <2>2. UNCHANGED <<main, drawn, resumed, emissions, source, replaced, overlay>>
    BY <1>7 DEF SurfaceCreated
  <2> QED  BY <2>1, <2>2, StartIfReadyType
<1>8. CASE SurfaceDestroyed  BY <1>8 DEF SurfaceDestroyed
<1>9. CASE OnLayout
  <2>1. StartIfReady(source, requested, surface, {"start"})
    BY <1>9 DEF OnLayout
  <2>2. UNCHANGED <<main, drawn, resumed, emissions, source, replaced, overlay>>
    BY <1>9 DEF OnLayout
  <2> QED  BY <2>1, <2>2, StartIfReadyType
<1>10. ASSUME NEW s \in Sources, OpenSource(s)
       PROVE  TypeOK'
  <2>1. StartIfReady(s, TRUE, surface, {})
    BY <1>10 DEF OpenSource
  <2>2. source' = s /\ emissions' \in 0..MaxEmissions /\ replaced' \subseteq Sources
    BY <1>10, NoneAssumption DEF OpenSource
  <2>3. UNCHANGED <<main, drawn, resumed, overlay>>
    BY <1>10 DEF OpenSource
  <2> QED  BY <2>1, <2>2, <2>3, StartIfReadyType
<1>11. ASSUME NEW s \in Sources, FrameStep(s)
       PROVE  TypeOK'
  <2> USE DEF FrameStates
  <2>1. CASE Detect(s)  BY <2>1 DEF Detect
  <2>2. CASE ClearFaces(s)  BY <2>2 DEF ClearFaces
  <2>3. CASE AddFace(s)
    <3>1. Len(faces) + left[s] <= MaxFaces /\ left[s] \in 1..MaxFaces
      BY <2>3 DEF AddFace, LockInv
    <3>2. faces' \in Seq(Sources) /\ Len(faces') = Len(faces) + 1
      BY <2>3 DEF AddFace
    <3>3. left' \in [Sources -> 0..MaxFaces]
      BY <2>3, <3>1 DEF AddFace
    <3> QED  BY <2>3, <3>1, <3>2, <3>3 DEF AddFace
  <2>4. CASE FacesSet(s)  BY <2>4 DEF FacesSet
  <2> QED  BY <1>11, <2>1, <2>2, <2>3, <2>4 DEF FrameStep
<1>12. CASE UNCHANGED vars  BY <1>12 DEF vars
<1> QED
  BY <1>1, <1>2, <1>3, <1>4, <1>5, <1>6, <1>7, <1>8, <1>9, <1>10, <1>11,
     <1>12 DEF Next, MainStep, Killed

(* Every step keeps LockInv: only frame threads write the list, and the    *)
(* other threads' starts and stops touch none that is adding.              *)
LEMMA LockStep ==
    ASSUME TypeOK, LockInv, StartInv, [Next]_vars
    PROVE  LockInv'
<1> DEFINE Quiet == /\ UNCHANGED overlay
                    /\ \A t \in Sources : frame'[t] = "add" <=> frame[t] = "add"
<1>1. ASSUME Quiet PROVE LockInv'
  BY <1>1 DEF LockInv, FacesOfOneDetection, overlay, TypeOK
<1>2. CASE \/ OnResume \/ OnPause \/ OnDraw \/ DrawSize \/ DrawGet
           \/ SurfaceDestroyed
  BY <1>1, <1>2
  DEF OnResume, OnPause, OnDraw, DrawSize, DrawGet, SurfaceDestroyed, overlay
<1>3. CASE Release
  BY <1>1, <1>3 DEF Release, TypeOK, overlay
<1>4. CASE SurfaceCreated
  BY <1>1, <1>4, SurfaceCreatedFrame DEF SurfaceCreated, FramesStart
<1>5. CASE OnLayout
  BY <1>1, <1>5, OnLayoutFrame DEF OnLayout, FramesStart
<1>6. ASSUME NEW s \in Sources, OpenSource(s)
      PROVE  LockInv'
  BY <1>1, <1>6, OpenSourceFrame DEF OpenSource, FramesStart
<1>7. ASSUME NEW s \in Sources, FrameStep(s)
      PROVE  LockInv'
  <2> USE NoneAssumption DEF LockInv, FacesOfOneDetection, TypeOK
  <2>1. CASE Detect(s)  BY <2>1 DEF Detect
  <2>2. CASE ClearFaces(s)  BY <2>2 DEF ClearFaces
  <2>3. CASE AddFace(s)
    <3>1. lock = s /\ lock' = s /\ frame' = frame /\ s # None
      BY <2>3 DEF AddFace
    <3>2. Len(faces') + left'[s] <= MaxFaces
      BY <2>3, <3>1, BoundsAssumption DEF AddFace
    <3>3. ASSUME NEW i \in 1..Len(faces')
          PROVE  faces'[i] = s
      BY <2>3, <3>1 DEF AddFace
    <3>4. \A i \in 1..Len(faces') : faces'[i] = s
      BY <3>3
    <3> QED  BY <3>1, <3>2, <3>4
  <2>4. CASE FacesSet(s)  BY <2>4 DEF FacesSet
  <2> QED  BY <1>7, <2>1, <2>2, <2>3, <2>4 DEF FrameStep
<1>8. CASE UNCHANGED vars
  BY <1>1, <1>8 DEF vars, overlay
<1> QED
  BY <1>2, <1>3, <1>4, <1>5, <1>6, <1>7, <1>8 DEF Next, MainStep, Killed

(* Every step keeps StartInv: whoever sets the second of the two flags     *)
(* starts the source.                                                      *)
LEMMA StartStep ==
    ASSUME TypeOK, LockInv, StartInv, [Next]_vars
    PROVE  StartInv'
<1> USE NoneAssumption DEF StartInv, StartedWhenReady, view
<1>1. CASE OnResume  BY <1>1 DEF OnResume, TypeOK
<1>2. CASE OnPause  BY <1>2 DEF OnPause
<1>3. CASE OnDraw \/ DrawSize \/ DrawGet
  BY <1>3 DEF OnDraw, DrawSize, DrawGet
<1>4. CASE Release  BY <1>4 DEF Release, TypeOK
<1>5. CASE SurfaceDestroyed  BY <1>5 DEF SurfaceDestroyed
<1>6. CASE SurfaceCreated
  <2>1. CASE source = None
    BY <1>6, <2>1, SurfaceCreatedFrame DEF SurfaceCreated, FramesStart
  <2>2. CASE source # None
    <3>1. source \in Sources /\ requested \in BOOLEAN
      BY <2>2 DEF TypeOK
    <3> QED
      BY <1>6, <2>2, <3>1, StartIfReadyStarts, SurfaceCreatedFrame
      DEF SurfaceCreated, FramesStart
  <2> QED  BY <2>1, <2>2
<1>7. CASE OnLayout
  <2>1. CASE source = None
    BY <1>7, <2>1, OnLayoutFrame DEF OnLayout, FramesStart
  <2>2. CASE source # None
    <3>1. source \in Sources /\ requested \in BOOLEAN /\ surface \in BOOLEAN
      BY <2>2 DEF TypeOK
    <3> QED
      BY <1>7, <2>2, <3>1, StartIfReadyStarts, OnLayoutFrame
      DEF OnLayout, FramesStart
  <2> QED  BY <2>1, <2>2
<1>8. ASSUME NEW s \in Sources, OpenSource(s)
      PROVE  StartInv'
  <2>1. surface \in BOOLEAN
    BY DEF TypeOK
  <2>2. /\ requested' <=> state'[s] # "started"
        /\ surface' => state'[s] \in {"started", "failed"}
    BY <1>8, <2>1, StartIfReadyStarts DEF OpenSource
  <2> QED
    BY <1>8, <2>2, OpenSourceFrame DEF OpenSource, FramesStart
<1>9. ASSUME NEW s \in Sources, FrameStep(s)
      PROVE  StartInv'
  BY <1>9 DEF FrameStep, Detect, ClearFaces, AddFace, FacesSet, TypeOK
<1>10. CASE UNCHANGED vars  BY <1>10 DEF vars
<1> QED
  BY <1>1, <1>2, <1>3, <1>4, <1>5, <1>6, <1>7, <1>8, <1>9, <1>10
  DEF Next, MainStep, Killed

(* The three together are an invariant.                                    *)
THEOREM PreviewInvariance == Spec => []Inv
<1>1. Inv /\ [Next]_vars => Inv'
  BY TypeStep, LockStep, StartStep DEF Inv
<1> QED  BY InitInv, <1>1, PTL DEF Spec

(* Every variable keeps its type, and the list of faces its bound: it is   *)
(* cleared before the faces of a detection are added (setFaces).           *)
THEOREM PreviewTypeCorrect == Spec => []TypeOK
<1>1. Inv => TypeOK
  BY DEF Inv
<1> QED  BY <1>1, PreviewInvariance, PTL

(* The mutex of setFaces: a list that nobody is writing holds the faces of *)
(* one detection, however many frame threads are alive.                    *)
THEOREM MutexSeparatesDetections == Spec => []FacesOfOneDetection
<1>1. Inv => FacesOfOneDetection
  BY DEF Inv, LockInv
<1> QED  BY <1>1, PreviewInvariance, PTL

(* startIfReady: the request and the surface come in any order, and the    *)
(* second one starts the source.                                           *)
THEOREM SecondFlagStarts == Spec => []StartedWhenReady
<1>1. Inv => StartedWhenReady
  BY DEF Inv, StartInv
<1> QED  BY <1>1, PreviewInvariance, PTL

(* Every step keeps OwnerInv: who loses the preview to another source goes *)
(* to replaced.                                                            *)
LEMMA OwnerStep ==
    ASSUME TypeOK, StartInv, OwnerInv, [Next]_vars
    PROVE  OwnerInv'
<1> USE NoneAssumption DEF OwnerInv, view
<1>1. CASE OnResume  BY <1>1 DEF OnResume
<1>2. CASE OnPause  BY <1>2 DEF OnPause
<1>3. CASE OnDraw \/ DrawSize \/ DrawGet
  BY <1>3 DEF OnDraw, DrawSize, DrawGet
<1>4. CASE Release
  <2>1. source \in Sources
    BY <1>4 DEF Release, TypeOK, StartInv
  <2>2. \A s \in Sources : frame'[s] # "off" => s \in replaced'
    BY <1>4, <2>1 DEF Release, TypeOK
  <2> QED  BY <1>4, <2>2 DEF Release, TypeOK
<1>5. CASE SurfaceDestroyed  BY <1>5 DEF SurfaceDestroyed
<1>6. CASE SurfaceCreated
  BY <1>6, SurfaceCreatedFrame DEF SurfaceCreated, FramesStart
<1>7. CASE OnLayout
  BY <1>7, OnLayoutFrame DEF OnLayout, FramesStart
<1>8. ASSUME NEW s \in Sources, OpenSource(s)
      PROVE  OwnerInv'
  <2>1. source' = s /\ resumed /\ resumed' /\ main' # "release"
    BY <1>8 DEF OpenSource
  <2>2. \A t \in Sources : frame[t] # "off" => t \in replaced'
    BY <1>8 DEF OpenSource
  <2>3. \A t \in Sources : frame'[t] # "off" => t = s \/ t \in replaced'
    BY <1>8, <2>1, <2>2, OpenSourceFrame DEF FramesStart
  <2> QED  BY <2>1, <2>3
<1>9. ASSUME NEW s \in Sources, FrameStep(s)
      PROVE  OwnerInv'
  BY <1>9 DEF FrameStep, Detect, ClearFaces, AddFace, FacesSet, TypeOK
<1>10. CASE UNCHANGED vars  BY <1>10 DEF vars
<1> QED
  BY <1>1, <1>2, <1>3, <1>4, <1>5, <1>6, <1>7, <1>8, <1>9, <1>10
  DEF Next, MainStep, Killed

(* Whose the frame threads are, in every run.                              *)
THEOREM OwnerInvariance == Spec => []OwnerInv
<1>1. Init => OwnerInv
  BY DEF Init, OwnerInv
<1>2. Inv /\ OwnerInv /\ [Next]_vars => OwnerInv'
  BY OwnerStep DEF Inv
<1> QED  BY <1>1, <1>2, PreviewInvariance, PTL DEF Spec

(* release joins the frame thread of the source: however many emissions a  *)
(* resume has, after onPause only replaced sources detect faces.           *)
THEOREM PauseStopsTheSource == Spec => []PauseStopsFrames
<1>1. OwnerInv => PauseStopsFrames
  BY NoneAssumption DEF OwnerInv, PauseStopsFrames
<1> QED  BY <1>1, OwnerInvariance, PTL

(* A step of the frame thread release() waits for: it starts no new frame, *)
(* and each face that it adds is one less.                                 *)
LEMMA FrameProgress ==
    ASSUME TypeOK, source \in Sources, main = "release", FrameStep(source)
    PROVE  FrameStepsLeft' < FrameStepsLeft
<1> USE BoundsAssumption DEF TypeOK, FrameStepsLeft, view
<1>1. CASE Detect(source)
  BY <1>1 DEF Detect, Stopping
<1>2. CASE ClearFaces(source)
  <2>1. left[source] \in Nat /\ left[source] <= MaxFaces
    OBVIOUS
  <2> QED  BY <1>2, <2>1 DEF ClearFaces
<1>3. CASE AddFace(source)
  <2>1. left[source] \in Nat /\ left'[source] = left[source] - 1
    BY <1>3 DEF AddFace
  <2> QED  BY <1>3, <2>1 DEF AddFace
<1>4. CASE FacesSet(source)
  <2>1. left[source] \in Nat
    OBVIOUS
  <2> QED  BY <1>4, <2>1 DEF FacesSet
<1> QED  BY <1>1, <1>2, <1>3, <1>4 DEF FrameStep

(* A step of another frame thread leaves that one where it is.             *)
LEMMA FrameOfOther ==
    ASSUME TypeOK, source \in Sources, NEW s \in Sources, s # source,
           FrameStep(s)
    PROVE  FrameStepsLeft' = FrameStepsLeft
  BY DEF FrameStep, Detect, ClearFaces, AddFace, FacesSet, FrameStepsLeft,
         TypeOK, view

(* release() is not kept waiting by the frame thread it joins: that one    *)
(* finishes its frame in a number of steps that only the mutex of the      *)
(* overlay, with a replaced source, can delay.                             *)
THEOREM ReleaseProgress == Spec => ReleaseWaitEnds
<1>1. ASSUME Inv, OwnerInv, Next, vars' # vars, main = "release",
             main' = "release"
      PROVE  \/ FrameStepsLeft' < FrameStepsLeft
             \/ FrameStepsLeft' = FrameStepsLeft /\ replaced # {}
  <2>1. source \in Sources /\ TypeOK
    BY <1>1 DEF Inv, StartInv, TypeOK
  <2>2. PICK s \in Sources : FrameStep(s)
    BY <1>1
    DEF Next, MainStep, OnResume, OnPause, OnDraw, DrawSize, DrawGet, Release,
        SurfaceCreated, SurfaceDestroyed, OnLayout, OpenSource, Killed
  <2>3. CASE s = source
    BY <1>1, <2>1, <2>2, <2>3, FrameProgress
  <2>4. CASE s # source
    <3>1. frame[s] # "off"
      BY <2>2 DEF FrameStep, Detect, ClearFaces, AddFace, FacesSet
    <3>2. replaced # {}
      BY <1>1, <2>4, <3>1 DEF OwnerInv
    <3> QED  BY <2>1, <2>2, <2>4, <3>2, FrameOfOther
  <2> QED  BY <2>3, <2>4
<1>2. Inv /\ OwnerInv /\ [Next]_vars =>
        [main = "release" /\ main' = "release" =>
            \/ FrameStepsLeft' < FrameStepsLeft
            \/ FrameStepsLeft' = FrameStepsLeft /\ replaced # {}]_vars
  BY <1>1
<1> QED  BY <1>2, PreviewInvariance, OwnerInvariance, PTL
         DEF Spec, ReleaseWaitEnds
=============================================================================
