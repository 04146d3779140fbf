--------------------------- MODULE NativeDetectors ---------------------------
(***************************************************************************)
(* The two detectors of dlib-face-landmarks-detector-jni.cpp: globals of   *)
(* the process, without a lock.  The chain of every onResume of the two    *)
(* landmarks activities tests and loads them on an io thread, then opens   *)
(* the camera, whose frame thread uses them; onPause stops the frame       *)
(* thread but not a load.  The faces go to the overlay of the activity,    *)
(* which draws the parts of DLibFace68.  How the model file gets there is  *)
(* the subject of ModelDownload, the lock of the overlay and the start of  *)
(* the camera that of LandmarksPreview: here the file is complete and the  *)
(* camera opens at once.                                                   *)
(***************************************************************************)
EXTENDS Integers

CONSTANTS DlibChains,    \* the resumes of SampleOfFacesAndLandmarksActivity1
          VisionChains,  \* those of Activity2 (both bound their number)
          FileParts,     \* how many landmarks a model file may be made for
          MaxFaces       \* faces in a frame

ASSUME ChainsAssumption == DlibChains \cap VisionChains = {}
ASSUME PartsAssumption == FileParts \subseteq Nat \ {0}
ASSUME FacesAssumption == MaxFaces \in Nat

Chains == DlibChains \cup VisionChains

VARIABLES
    at,        \* where each chain is
    stage,     \* of the global it loads, the step it is at
    denied,    \* chains without the permissions
    paused,    \* chains disposed by onPause
    progress,  \* how much of each global is loaded
    file,      \* the landmarks of the model file
    frame,     \* what the frame thread of each chain does
    left,      \* faces of its frame still without landmarks
    found,     \* the numbers of landmarks of the others
    overlay,   \* those of mFaces of the overlay of each activity
    failure    \* what killed the process

chain == <<at, stage, denied, paused>>
global == <<progress, file>>
detection == <<frame, left, found>>
vars == <<chain, global, detection, overlay, failure>>

(* sFaceDetector is assigned member by member (boxes_overlap and w, then    *)
(* scanner), sFaceLandmarksDetector is read field by field (initial_shape,  *)
(* forests, anchor_idx, deltas).                                            *)
Stages == [faces |-> 2, landmarks |-> 4]
Detectors == {"faces", "landmarks"}

AtStates == {"unused", "asked", "model", "isFacesReady", "faces",
             "isLandmarksReady", "landmarks", "check", "open", "opened",
             "rejected"}
FrameStates == {"off", "idle", "faces", "landmarks"}
Activities  == {"dlib", "vision"}
Counts      == FileParts \cup {0}

TypeOK ==
    /\ at \in [Chains -> AtStates]
    /\ stage \in [Chains -> 1..4]
    /\ \A c \in Chains : at[c] \in Detectors => stage[c] <= Stages[at[c]]
    /\ denied \subseteq Chains /\ paused \subseteq Chains
    /\ progress \in [Detectors -> 0..4]
    /\ \A g \in Detectors : progress[g] <= Stages[g]
    /\ file \in FileParts
    /\ frame \in [Chains -> FrameStates]
    /\ left \in [Chains -> 0..MaxFaces]
    /\ found \in [Chains -> SUBSET Counts]
    /\ overlay \in [Activities -> SUBSET Counts]
    /\ failure \in {"no", "native", "undelivered", "draw"}

Init ==
    /\ at = [c \in Chains |-> "unused"]
    /\ stage = [c \in Chains |-> 1]
    /\ denied = {} /\ paused = {}
    /\ progress = [g \in Detectors |-> 0]
    /\ file \in FileParts
    /\ frame = [c \in Chains |-> "off"]
    /\ left = [c \in Chains |-> 0]
    /\ found = [c \in Chains |-> {}]
    /\ overlay = [a \in Activities |-> {}]
    /\ failure = "no"

-----------------------------------------------------------------------------
(* The landmarks of a face: DLibFace68 *)

(* The first and the last landmark of the chin, the eyebrows, the nose, the *)
(* eyes and the lips.  Number 27 is in none of them.                        *)
FaceParts == {<<0, 16>>, <<17, 21>>, <<22, 26>>, <<28, 35>>, <<36, 41>>,
              <<42, 47>>, <<48, 59>>, <<60, 67>>}

(* onDrawForeground asks for every part once per landmark, and subList      *)
(* throws when the list is shorter.                                         *)
Drawable(n) == n = 0 \/ \A part \in FaceParts : part[2] < n

-----------------------------------------------------------------------------
(* The globals *)

(* num_detectors() > 0 and num_parts() > 0: the size of what is read first. *)
IsReady(g) == progress[g] > 0
Whole(g)   == progress[g] = Stages[g]

(* A thread is in the assignment, or in deserialize.                        *)
Loading(c, g) == at[c] = g

(* num_parts of initial_shape, which is all that operator() returns the     *)
(* size of: forests that are not there yet move no point.  Every load reads *)
(* the same file, so a reload does not change it.                           *)
NumParts == IF IsReady("landmarks") THEN file ELSE 0

(* What use of a global by one thread may do while another one writes it:   *)
(* go well, or anything, of which the model keeps the death of the process. *)
Used(g) ==
    \/ UNCHANGED failure
    \/ (\E d \in Chains : Loading(d, g)) /\ failure' = "native"

-----------------------------------------------------------------------------
(* The chain of onResume *)

(* The activity that is in front is the only one that is not paused.        *)
Resume(c) ==
    /\ at[c] = "unused"
    /\ \A d \in Chains : at[d] = "unused" \/ d \in paused
    /\ at' = [at EXCEPT ![c] = "asked"]
    /\ UNCHANGED <<stage, denied, paused, global, detection, overlay, failure>>

Grant(c) ==
    /\ at[c] = "asked" /\ c \notin paused
    /\ at' = [at EXCEPT ![c] = "model"]
    /\ UNCHANGED <<stage, denied, paused, global, detection, overlay, failure>>

(* Observable.just(false) opens the camera all the same.  A permission that *)
(* is taken back ends the process, so nobody was granted one before.        *)
Deny(c) ==
    /\ at[c] = "asked" /\ c \notin paused
    /\ \A d \in Chains : at[d] \in {"unused", "asked"} \/ d \in denied
    /\ at' = [at EXCEPT ![c] = "open"]
    /\ denied' = denied \cup {c}
    /\ UNCHANGED <<stage, paused, global, detection, overlay, failure>>

(* downloadFace68Model delivers the file, and the mapper starts.  (A second *)
(* delivery finds both globals ready: it opens the camera once more.)       *)
ModelArrives(c) ==
    /\ at[c] = "model" /\ c \notin paused
    /\ at' = [at EXCEPT ![c] = "isFacesReady"]
    /\ UNCHANGED <<stage, denied, paused, global, detection, overlay, failure>>

(* FAULT: a chain that finds no detector waits for one.                     *)
TestWaits(c, test, g, next) ==
    /\ at[c] = test /\ IsReady(g)
    /\ at' = [at EXCEPT ![c] = next]
    /\ stage' = [stage EXCEPT ![c] = 1]
    /\ UNCHANGED <<denied, paused, global, detection, overlay, failure>>

(* FAULT: every chain prepares, whatever isReady() says.                    *)
TestIgnoresReady(c, test, g, next) ==
    /\ at[c] = test
    /\ at' = [at EXCEPT ![c] = g]
    /\ stage' = [stage EXCEPT ![c] = 1]
    /\ UNCHANGED <<denied, paused, global, detection, overlay, failure>>

(* if (!isReady()) prepare(), for the one global and for the other.         *)
Test(c, test, g, next) ==
    /\ at[c] = test
    /\ at' = [at EXCEPT ![c] = IF IsReady(g) THEN next ELSE g]
    /\ stage' = [stage EXCEPT ![c] = 1]
    /\ UNCHANGED <<denied, paused, global, detection, overlay, failure>>

TestFaces(c) == Test(c, "isFacesReady", "faces", "isLandmarksReady")

(* FAULT: the test of the landmarks detector is negated.                    *)
TestLandmarksNegated(c) ==
    /\ at[c] = "isLandmarksReady"
    /\ at' = [at EXCEPT ![c] = IF IsReady("landmarks") THEN "landmarks"
                               ELSE "open"]
    /\ stage' = [stage EXCEPT ![c] = 1]
    /\ UNCHANGED <<denied, paused, global, detection, overlay, failure>>

TestLandmarks(c) == Test(c, "isLandmarksReady", "landmarks", "open")

(* FAULT: a load stops when onPause disposes its chain.                     *)
LoadUnlessPaused(c, g, next) ==
    /\ Loading(c, g) /\ c \notin paused
    /\ progress' = [progress EXCEPT ![g] = IF @ < stage[c] THEN stage[c] ELSE @]
    /\ IF stage[c] = Stages[g]
         THEN at' = [at EXCEPT ![c] = next] /\ UNCHANGED stage
         ELSE stage' = [stage EXCEPT ![c] = @ + 1] /\ UNCHANGED at
    /\ UNCHANGED <<denied, paused, file, detection, overlay, failure>>

(* FAULT: the last of the fields is not read.                               *)
LoadOneShort(c, g, next) ==
    /\ Loading(c, g)
    /\ progress' = [progress EXCEPT ![g] = IF @ < stage[c] THEN stage[c] ELSE @]
    /\ IF stage[c] + 1 = Stages[g]
         THEN at' = [at EXCEPT ![c] = next] /\ UNCHANGED stage
         ELSE stage' = [stage EXCEPT ![c] = @ + 1] /\ UNCHANGED at
    /\ UNCHANGED <<denied, paused, file, detection, overlay, failure>>

(* One step of a load, which nothing interrupts.  What another thread has   *)
(* loaded is loaded again, with the same values and in the same place: the  *)
(* matrix and the vectors keep their sizes (matrix.h:1911, serialize.h:974), *)
(* so no test of them changes.  Whoever uses them meanwhile is in Used.     *)
Load(c, g, next) ==
    /\ Loading(c, g)
    /\ progress' = [progress EXCEPT ![g] = IF @ < stage[c] THEN stage[c] ELSE @]
    /\ IF stage[c] = Stages[g]
         THEN at' = [at EXCEPT ![c] = next] /\ UNCHANGED stage
         ELSE stage' = [stage EXCEPT ![c] = @ + 1] /\ UNCHANGED at
    /\ UNCHANGED <<denied, paused, file, detection, overlay, failure>>

AssignFaceDetector(c)   == Load(c, "faces", "isLandmarksReady")
DeserializePredictor(c) == Load(c, "landmarks", "check")

(* FAULT: any predictor will do.                                            *)
CheckPartsNot(c) ==
    /\ at[c] = "check"
    /\ at' = [at EXCEPT ![c] = "open"]
    /\ UNCHANGED <<stage, denied, paused, global, detection, overlay, failure>>

(* prepareFaceLandmarksDetector throws when the predictor that it loaded,   *)
(* and leaves in the global, is not for 68 landmarks: the chain ends.  The  *)
(* flatMap of a disposed chain takes no error: RxJavaPlugins.onError gets   *)
(* it, which kills the process.                                             *)
CheckParts(c) ==
    LET throws == NumParts # 68 IN
    /\ at[c] = "check"
    /\ at' = [at EXCEPT ![c] = IF throws THEN "rejected" ELSE "open"]
    /\ failure' = IF throws /\ c \in paused THEN "undelivered" ELSE failure
    /\ UNCHANGED <<stage, denied, paused, global, detection, overlay>>

(* FAULT: the camera of a disposed chain is opened.                         *)
OpenCameraDisposed(c) ==
    /\ at[c] = "open"
    /\ at' = [at EXCEPT ![c] = "opened"]
    /\ frame' = [frame EXCEPT ![c] = "idle"]
    /\ UNCHANGED <<stage, denied, paused, global, left, found, overlay, failure>>

OpenCamera(c) ==
    /\ at[c] = "open" /\ c \notin paused
    /\ at' = [at EXCEPT ![c] = "opened"]
    /\ frame' = [frame EXCEPT ![c] = "idle"]
    /\ UNCHANGED <<stage, denied, paused, global, left, found, overlay, failure>>

(* onPause: the frame thread is joined, the chain is disposed.              *)
Pause(c) ==
    /\ at[c] # "unused" /\ c \notin paused
    /\ frame[c] \in {"off", "idle"}
    /\ frame' = [frame EXCEPT ![c] = "off"]
    /\ paused' = paused \cup {c}
    /\ UNCHANGED <<at, stage, denied, global, left, found, overlay, failure>>

-----------------------------------------------------------------------------
(* The frame thread *)

(* detectFacesAndLandmarks up to the faces.  A global that is not ready is  *)
(* a RuntimeException, which drops the frame and changes nothing.           *)
Guards(c) ==
    /\ c \in DlibChains /\ frame[c] = "idle"
    /\ \A g \in Detectors : IsReady(g)
    /\ frame' = [frame EXCEPT ![c] = "faces"]
    /\ UNCHANGED <<chain, global, left, found, overlay, failure>>

DetectFaces(c) ==
    /\ frame[c] = "faces"
    /\ frame' = [frame EXCEPT ![c] = "landmarks"]
    /\ \E n \in 0..MaxFaces : left' = [left EXCEPT ![c] = n]
    /\ found' = [found EXCEPT ![c] = {}]
    /\ Used("faces")
    /\ UNCHANGED <<chain, global, overlay>>

(* The Vision library finds the faces, detectLandmarksFromFaces takes them; *)
(* without a face it is not called, and the result is empty.                *)
VisionFaces(c) ==
    /\ c \in VisionChains /\ frame[c] = "idle"
    /\ frame' = [frame EXCEPT ![c] = "landmarks"]
    /\ \E n \in 0..MaxFaces : left' = [left EXCEPT ![c] = n]
    /\ found' = [found EXCEPT ![c] = {}]
    /\ UNCHANGED <<chain, global, overlay, failure>>

(* FAULT: j <= dets.size().                                                 *)
PredictOneMore(c) ==
    /\ frame[c] = "landmarks"
    /\ left' = [left EXCEPT ![c] = @ - 1]
    /\ found' = [found EXCEPT ![c] = @ \cup {NumParts}]
    /\ Used("landmarks")
    /\ UNCHANGED <<chain, global, frame, overlay>>

Predict(c) ==
    /\ frame[c] = "landmarks" /\ left[c] > 0
    /\ left' = [left EXCEPT ![c] = @ - 1]
    /\ found' = [found EXCEPT ![c] = @ \cup {NumParts}]
    /\ Used("landmarks")
    /\ UNCHANGED <<chain, global, frame, overlay>>

(* The faces reach setFaces, unless convertBitmapToArray2d left an          *)
(* exception pending: it does not stop the native function, only its caller.*)
Deliver(c) ==
    LET activity == IF c \in DlibChains THEN "dlib" ELSE "vision" IN
    /\ frame[c] = "landmarks" /\ left[c] = 0
    /\ frame' = [frame EXCEPT ![c] = "idle"]
    /\ \/ overlay' = [overlay EXCEPT ![activity] = found[c]]
       \/ UNCHANGED overlay
    /\ UNCHANGED <<chain, global, left, found, failure>>

(* onDrawForeground, which changes nothing unless it throws.                *)
DrawThrows(a) ==
    /\ \E n \in overlay[a] : ~Drawable(n)
    /\ failure' = "draw"
    /\ UNCHANGED <<chain, global, detection, overlay>>

-----------------------------------------------------------------------------
PrepareStep(c) ==
    \/ TestFaces(c) \/ AssignFaceDetector(c)
    \/ TestLandmarks(c) \/ DeserializePredictor(c) \/ CheckParts(c)

FrameStep(c) ==
    Guards(c) \/ DetectFaces(c) \/ VisionFaces(c) \/ Predict(c) \/ Deliver(c)

(* The process is dead. *)
Killed == failure # "no" /\ UNCHANGED vars

Next ==
    \/ /\ failure = "no"
       /\ \/ \E c \in Chains :
                \/ Resume(c) \/ Grant(c) \/ Deny(c) \/ ModelArrives(c)
                \/ PrepareStep(c) \/ OpenCamera(c) \/ Pause(c) \/ FrameStep(c)
          \/ \E a \in Activities : DrawThrows(a)
    \/ Killed

Spec == Init /\ [][Next]_vars

(* The io threads and the main thread are scheduled; nothing is asked of    *)
(* the user, the download or the camera.                                    *)
FairSpec ==
    /\ Spec
    /\ \A c \in Chains :
          /\ WF_vars(failure = "no" /\ PrepareStep(c))
          /\ WF_vars(failure = "no" /\ OpenCamera(c))

-----------------------------------------------------------------------------
(* Correctness *)

(* A frame thread meets a global that is being written, which is undefined, *)
(* only when the load belongs to a chain that onPause abandoned: within one *)
(* resume the chain loads first and opens the camera afterwards.            *)
Uses(c, g) == frame[c] = g

RaceNeedsAbandonedLoad ==
    \A c, d \in Chains, g \in Detectors :
        Uses(c, g) /\ Loading(d, g) => d \in paused

(* A global that is ready and not whole has a thread at work on it: there   *)
(* is no state in which the process is stuck with half a detector, although *)
(* "ready" looks at the first of its fields only.                           *)
HalfHasLoader ==
    \A g \in Detectors :
        IsReady(g) => Whole(g) \/ \E c \in Chains : Loading(c, g)

(* The two guards of detectFacesAndLandmarks, and their absence in          *)
(* detectLandmarksFromFaces, only matter for a camera that was opened       *)
(* without the permissions.                                                 *)
PreparedBeforeCamera ==
    \A c \in Chains \ denied : at[c] = "opened" =>
        \A g \in Detectors : IsReady(g)

(* Whatever part of the predictor a frame meets, its faces can be drawn:    *)
(* the overlay only throws for a model that is not for 68 landmarks, and    *)
(* that the load of an earlier resume rejected, or was about to.            *)
DrawDeathNeedsRejection ==
    failure = "draw" =>
        /\ ~Drawable(file)
        /\ \E c \in paused : at[c] \in {"landmarks", "check", "rejected"}

(* A global that is ready becomes whole, and nobody writes it any more,     *)
(* although the chain that loads it may have been paused.                   *)
LoadsSettle ==
    \A g \in Detectors :
        IsReady(g) ~> \/ Whole(g) /\ \A c \in Chains : ~Loading(c, g)
                      \/ failure # "no"

(* Every chain that has its model opens the camera or reports an error,     *)
(* unless it is paused before.                                              *)
PreparationEnds ==
    \A c \in Chains :
        at[c] = "isFacesReady" ~>
            at[c] \in {"opened", "rejected"} \/ c \in paused \/ failure # "no"

(* Once a global is ready no thread begins to write it: only those that     *)
(* were at it finish, and none of them starts over.  So however many chains *)
(* were paused during their loads, the writing of a global runs out.  A     *)
(* thread that tested "not ready" is at it before its first write.          *)
LoadsRunOut ==
    [][\A g \in Detectors : IsReady(g) =>
          /\ IsReady(g)'
          /\ \A c \in Chains :
                Loading(c, g)' => Loading(c, g) /\ stage'[c] >= stage[c]]_vars

(* "Before calling this method, make sure the face and landmarks detectors  *)
(* are both initialized. Otherwise a RuntimeException would be fired."      *)
(* (DLibLandmarks68Detector.java:236-237)                                   *)
GuardedUse ==
    \A c \in DlibChains : frame[c] = "faces" => \A g \in Detectors : Whole(g)

(* "It's not a 68 landmarks detector!" ends the chain before its camera     *)
(* (dlib-face-landmarks-detector-jni.cpp:149): no camera runs on a          *)
(* predictor that was rejected.                                             *)
RejectedNotUsed ==
    (\E d \in Chains : at[d] = "rejected") =>
        \A c \in Chains : at[c] = "opened" /\ c \notin paused => c \in denied
=============================================================================
