-------------------------- MODULE LandmarksPreview --------------------------
(***************************************************************************)
(* The second half of SampleOfFacesAndLandmarksActivity1 and 2: the model  *)
(* is there, and every emission of the chain builds a CameraSource and     *)
(* starts it in the CameraSourcePreview, now or when the surface exists.   *)
(* A started source has a frame thread that detects the faces of a frame   *)
(* and hands them to the FaceLandmarksOverlayView, which the main thread   *)
(* draws.  onPause releases the source.  The CameraSource of the Vision    *)
(* library and the surface are modelled from how the code uses them.       *)
(***************************************************************************)
EXTENDS Naturals, Sequences

CONSTANTS Sources,        \* CameraSources that may be alive (bounds them)
          None,           \* "no source"
          MaxEmissions,   \* emissions of the chain in one resume
          MaxFaces        \* faces in a frame

ASSUME NoneAssumption == None \notin Sources
ASSUME BoundsAssumption == MaxEmissions \in Nat /\ MaxFaces \in Nat

VARIABLES
    main,       \* what the main thread does
    drawn,      \* the faces onDrawForeground rendered so far
    resumed,    \* between onResume and onPause
    emissions,  \* emissions that may still come in this resume
    source,     \* mCameraSource
    replaced,   \* sources that start dropped for a later one
    state,      \* of each source
    requested,  \* mStartRequested
    surface,    \* mSurfaceAvailable
    frame,      \* what the frame thread of each source does
    left,       \* faces it has still to add
    lock,       \* the frame thread that holds mMutex of the overlay
    faces,      \* mFaces: of each face, the source it comes from
    failure     \* the exception that killed the process

view    == <<source, replaced, state, requested, surface>>
overlay == <<left, lock, faces>>
vars == <<main, drawn, resumed, emissions, view, frame, overlay, failure>>

MainStates   == {"idle", "size", "get", "release"}
SourceStates == {"unused", "built", "failed", "started", "released"}
FrameStates  == {"off", "idle", "set", "add"}
Failures     == {"no", "null", "start", "draw"}

TypeOK ==
    /\ main \in MainStates /\ drawn \in 0..MaxFaces
    /\ resumed \in BOOLEAN /\ emissions \in 0..MaxEmissions
    /\ source \in Sources \cup {None} /\ replaced \subseteq Sources
    /\ state \in [Sources -> SourceStates]
    /\ requested \in BOOLEAN /\ surface \in BOOLEAN
    /\ frame \in [Sources -> FrameStates]
    /\ left \in [Sources -> 0..MaxFaces]
    /\ lock \in Sources \cup {None}
    /\ faces \in Seq(Sources) /\ Len(faces) <= MaxFaces
    /\ failure \in Failures

Init ==
    /\ main = "idle" /\ drawn = 0
    /\ resumed = FALSE /\ emissions = 0
    /\ source = None /\ replaced = {} /\ state = [s \in Sources |-> "unused"]
    /\ requested = FALSE /\ surface = FALSE
    /\ frame = [s \in Sources |-> "off"]
    /\ left = [s \in Sources |-> 0]
    /\ lock = None /\ faces = <<>>
    /\ failure = "no"

-----------------------------------------------------------------------------
(* CameraSourcePreview *)

(* startIfReady for source s, given the two flags.  An exception of         *)
(* CameraSource.start leaves mStartRequested set; kills are the exceptions  *)
(* that the caller does not catch.                                          *)
StartIfReady(s, request, available, kills) ==
    /\ surface' = available
    /\ IF ~(request /\ available)
         THEN /\ requested' = request
              /\ state' = IF s # None /\ state[s] = "unused"
                            THEN [state EXCEPT ![s] = "built"] ELSE state
              /\ UNCHANGED <<frame, failure>>
         ELSE \/ /\ s = None                   \* NullPointerException
                 /\ failure' = "null"
                 /\ UNCHANGED <<requested, state, frame>>
              \/ /\ s # None
                 /\ requested' = FALSE
                 /\ state' = [state EXCEPT ![s] = "started"]
                 /\ frame' = [frame EXCEPT ![s] = "idle"]
                 /\ UNCHANGED failure
              \/ /\ s # None
                 /\ requested' = TRUE
                 /\ state' = [state EXCEPT ![s] = "failed"]
                 /\ failure' \in {"no"} \cup kills
                 /\ UNCHANGED frame

(* FAULT: surfaceCreated only notes that the surface exists.                *)
SurfaceCreatedOnly ==
    /\ main = "idle" /\ ~surface
    /\ surface' = TRUE
    /\ UNCHANGED <<main, drawn, resumed, emissions, source, replaced,
                   state, requested, frame, overlay, failure>>

(* surfaceCreated catches an IOException only.                              *)
SurfaceCreated ==
    /\ main = "idle" /\ ~surface
    /\ StartIfReady(source, requested, TRUE, {"start"})
    /\ UNCHANGED <<main, drawn, resumed, emissions, source, replaced, overlay>>

(* The system destroys the surface of an activity that is not resumed.      *)
SurfaceDestroyed ==
    /\ main = "idle" /\ surface /\ ~resumed
    /\ surface' = FALSE
    /\ UNCHANGED <<main, drawn, resumed, emissions, source, replaced,
                   state, requested, frame, overlay, failure>>

(* onLayout ends with startIfReady, with the same catch.                    *)
OnLayout ==
    /\ main = "idle" /\ requested /\ surface
    /\ StartIfReady(source, requested, surface, {"start"})
    /\ UNCHANGED <<main, drawn, resumed, emissions, source, replaced, overlay>>

-----------------------------------------------------------------------------
(* The activity *)

(* Sources that were released are reused as fresh identities.               *)
OnResume ==
    /\ main = "idle" /\ ~resumed
    /\ resumed' = TRUE /\ emissions' = MaxEmissions
    /\ state' = [s \in Sources |-> IF state[s] = "released" THEN "unused"
                                   ELSE state[s]]
    /\ UNCHANGED <<main, drawn, source, replaced, requested, surface, frame,
                   overlay, failure>>

(* The mapper on the main thread builds a source and calls                  *)
(* mCameraView.start, which drops the source it had.  An exception ends the *)
(* chain, with a toast.                                                     *)
OpenSource(s) ==
    /\ main = "idle" /\ resumed /\ emissions > 0
    /\ state[s] = "unused"
    /\ source' = s
    /\ replaced' = IF source = None THEN replaced ELSE replaced \cup {source}
    /\ StartIfReady(s, TRUE, surface, {})
    /\ emissions' = IF state'[s] = "failed" THEN 0 ELSE emissions - 1
    /\ UNCHANGED <<main, drawn, resumed, overlay>>

(* onPause: CameraSource.release stops the frame thread after the frame it  *)
(* is at, and joins it ...                                                  *)
OnPause ==
    /\ main = "idle" /\ resumed
    /\ resumed' = FALSE /\ emissions' = 0
    /\ main' = IF source = None THEN "idle" ELSE "release"
    /\ UNCHANGED <<drawn, view, frame, overlay, failure>>

(* FAULT: release drops the source without releasing it.                    *)
ReleaseDropsSource ==
    /\ main = "release"
    /\ source' = None /\ main' = "idle"
    /\ UNCHANGED <<drawn, resumed, emissions, replaced, state, requested,
                   surface, frame, overlay, failure>>

(* ... and mCameraSource is null from then on; mStartRequested stays.       *)
Release ==
    /\ main = "release" /\ frame[source] \in {"off", "idle"}
    /\ state' = [state EXCEPT ![source] = "released"]
    /\ frame' = [frame EXCEPT ![source] = "off"]
    /\ source' = None /\ main' = "idle"
    /\ UNCHANGED <<drawn, resumed, emissions, replaced, requested, surface,
                   overlay, failure>>

-----------------------------------------------------------------------------
(* The frame thread of a source *)

Stopping(s) == main = "release" /\ source = s

(* FAULT: the frame thread is not told to stop.                             *)
DetectUnstoppable(s) ==
    /\ frame[s] = "idle"
    /\ frame' = [frame EXCEPT ![s] = "set"]
    /\ \E n \in 0..MaxFaces : left' = [left EXCEPT ![s] = n]
    /\ UNCHANGED <<main, drawn, resumed, emissions, view, lock, faces, failure>>

(* detect and receiveDetections, up to setFaces.  A frame whose detection   *)
(* fails, or whose items are null, changes nothing.                         *)
Detect(s) ==
    /\ frame[s] = "idle" /\ ~Stopping(s)
    /\ frame' = [frame EXCEPT ![s] = "set"]
    /\ \E n \in 0..MaxFaces : left' = [left EXCEPT ![s] = n]
    /\ UNCHANGED <<main, drawn, resumed, emissions, view, lock, faces, failure>>

(* FAULT: setFaces without synchronized (mMutex).                           *)
ClearFacesUnlocked(s) ==
    /\ frame[s] = "set"
    /\ frame' = [frame EXCEPT ![s] = "add"]
    /\ lock' = s /\ faces' = <<>>
    /\ UNCHANGED <<main, drawn, resumed, emissions, view, left, failure>>

(* FAULT: setFaces without mFaces.clear().                                  *)
ClearFacesNot(s) ==
    /\ frame[s] = "set" /\ lock = None
    /\ frame' = [frame EXCEPT ![s] = "add"]
    /\ lock' = s
    /\ UNCHANGED <<main, drawn, resumed, emissions, view, left, faces, failure>>

(* setFaces takes the mutex and clears the list, ...                        *)
ClearFaces(s) ==
    /\ frame[s] = "set" /\ lock = None
    /\ frame' = [frame EXCEPT ![s] = "add"]
    /\ lock' = s /\ faces' = <<>>
    /\ UNCHANGED <<main, drawn, resumed, emissions, view, left, failure>>

(* ... adds the faces to it one by one, ...                                 *)
AddFace(s) ==
    /\ frame[s] = "add" /\ left[s] > 0
    /\ faces' = Append(faces, s)
    /\ left' = [left EXCEPT ![s] = @ - 1]
    /\ UNCHANGED <<main, drawn, resumed, emissions, view, frame, lock, failure>>

(* ... and leaves the mutex; postInvalidate asks for a drawing.             *)
FacesSet(s) ==
    /\ frame[s] = "add" /\ left[s] = 0
    /\ frame' = [frame EXCEPT ![s] = "idle"]
    /\ lock' = None
    /\ UNCHANGED <<main, drawn, resumed, emissions, view, left, faces, failure>>

-----------------------------------------------------------------------------
(* onDrawForeground, on the main thread, whenever the view is drawn *)

OnDraw ==
    /\ main = "idle"
    /\ main' = "size" /\ drawn' = 0
    /\ UNCHANGED <<resumed, emissions, view, frame, overlay, failure>>

(* i < mFaces.size()                                                        *)
DrawSize ==
    /\ main = "size"
    /\ main' = IF drawn < Len(faces) THEN "get" ELSE "idle"
    /\ UNCHANGED <<drawn, resumed, emissions, view, frame, overlay, failure>>

(* mFaces.get(i), which throws when the list became shorter meanwhile.      *)
DrawGet ==
    /\ main = "get"
    /\ IF drawn < Len(faces)
         THEN drawn' = drawn + 1 /\ main' = "size" /\ UNCHANGED failure
         ELSE failure' = "draw" /\ UNCHANGED <<drawn, main>>
    /\ UNCHANGED <<resumed, emissions, view, frame, overlay>>

-----------------------------------------------------------------------------
MainStep == DrawSize \/ DrawGet \/ Release

FrameStep(s) == Detect(s) \/ ClearFaces(s) \/ AddFace(s) \/ FacesSet(s)

(* The process is dead. *)
Killed == failure # "no" /\ UNCHANGED vars

Next ==
    \/ /\ failure = "no"
       /\ \/ OnResume \/ OnPause \/ OnDraw \/ MainStep
          \/ SurfaceCreated \/ SurfaceDestroyed \/ OnLayout
          \/ \E s \in Sources : OpenSource(s) \/ FrameStep(s)
    \/ Killed

Spec == Init /\ [][Next]_vars

(* The main thread and the frame threads are scheduled.                     *)
FairSpec ==
    /\ Spec
    /\ WF_vars(failure = "no" /\ MainStep)
    /\ \A s \in Sources : WF_vars(failure = "no" /\ FrameStep(s))

-----------------------------------------------------------------------------
(* The mutex of setFaces: whatever frame threads are alive, a list that     *)
(* nobody is writing holds the faces of one detection.  (A frame thread is  *)
(* at one detection at a time, so its source stands for it.)                *)
FacesOfOneDetection ==
    lock = None => \A i, j \in 1..Len(faces) : faces[i] = faces[j]

(* Whichever comes first, the request or the surface, the second one starts *)
(* the source (startIfReady in start, surfaceCreated and onLayout).         *)
StartedWhenReady ==
    source # None /\ surface => state[source] \in {"started", "failed"}

(* onPause waits for the frame thread: in a paused activity no frame is     *)
(* detected or handed to the overlay, but by a source that start dropped    *)
(* for a later one, which release cannot reach (CameraSourcePreview.start   *)
(* and release).                                                            *)
PauseStopsFrames ==
    ~resumed /\ main # "release" =>
        \A s \in Sources : frame[s] # "off" => s \in replaced

(* onPause returns: the frame thread always comes to the end of its frame,  *)
(* unless a source that was replaced may keep taking the mutex from it,     *)
(* which Java hands out in no particular order.                             *)
PauseReturns ==
    main = "release" /\ replaced = {} ~> main = "idle" \/ failure # "no"

(* The steps the frame thread of the source has left in its frame.          *)
FrameStepsLeft ==
    CASE frame[source] = "set" -> MaxFaces + 2
      [] frame[source] = "add" -> left[source] + 1
      [] OTHER -> 0

(* What PauseReturns rests on: while release() waits, every step of another *)
(* thread brings the frame thread it waits for closer to the end of its     *)
(* frame; only the thread of a replaced source may run without doing so.    *)
ReleaseWaitEnds ==
    [][main = "release" /\ main' = "release" =>
           \/ FrameStepsLeft' < FrameStepsLeft
           \/ FrameStepsLeft' = FrameStepsLeft /\ replaced # {}]_vars

(* "Could not start camera source." is logged, and a start asked for before *)
(* a release does not outlive it (CameraSourcePreview.java:98 and 151).     *)
StartHasSource == failure # "null"

(* "// Render all faces." (FaceLandmarksOverlayView.java:124)               *)
RendersAllFaces == failure # "draw"
=============================================================================
