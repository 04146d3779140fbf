--------------------------- MODULE CameraPreview ---------------------------
(***************************************************************************)
(* What the activities are promised of a camera preview, whatever          *)
(* callbacks, errors and threads bring it about: cameras are opened by an  *)
(* activity that is resumed, deliver frames into a surface that an image   *)
(* reader of the same camera keeps, and by the time onPause returns every  *)
(* frame has stopped and every reader is closed.  Camera2Pipeline          *)
(* implements it.                                                          *)
(***************************************************************************)
CONSTANTS Cameras     \* the openCamera calls

VARIABLES phase,      \* of the activity: paused, active from onResume on,
                      \* pausing during onPause, or dead with its process
          camera,     \* of each call: off, opening, ready or streaming
          readers     \* the cameras whose image reader is open

vars == <<phase, camera, readers>>

Init ==
    /\ phase = "paused"
    /\ camera = [o \in Cameras |-> "off"]
    /\ readers = {}

-----------------------------------------------------------------------------
(* onResume ... *)
Resume ==
    /\ phase = "paused" /\ phase' = "active"
    /\ UNCHANGED <<camera, readers>>

(* ... onPause is called, ... *)
Pause ==
    /\ phase = "active" /\ phase' = "pausing"
    /\ UNCHANGED <<camera, readers>>

(* ... and returns: nothing delivers frames any more. *)
Paused ==
    /\ phase = "pausing" /\ phase' = "paused"
    /\ \A o \in Cameras : camera[o] # "streaming"
    /\ readers = {}
    /\ UNCHANGED <<camera, readers>>

Moves(o, from, to) ==
    /\ camera[o] = from /\ camera' = [camera EXCEPT ![o] = to]
    /\ UNCHANGED phase

Open(o) == phase = "active" /\ Moves(o, "off", "opening") /\ UNCHANGED readers

(* The hardware answers at any time, also long after onPause. *)
Opened(o) == Moves(o, "opening", "ready") /\ UNCHANGED readers

(* A session and its reader need a device that is open. *)
CreateSession(o) ==
    /\ phase \in {"active", "pausing"}
    /\ camera[o] \in {"ready", "streaming"}
    /\ readers' = readers \cup {o}
    /\ UNCHANGED <<phase, camera>>

(* Frames need a reader; a request may still win against onPause. *)
Stream(o) ==
    /\ phase \in {"active", "pausing"} /\ o \in readers
    /\ Moves(o, "ready", "streaming")
    /\ UNCHANGED readers

(* The device is closed, or lost. *)
Close(o) ==
    /\ camera[o] # "off" /\ camera' = [camera EXCEPT ![o] = "off"]
    /\ UNCHANGED <<phase, readers>>

CloseReader(o) ==
    /\ o \in readers /\ readers' = readers \ {o}
    /\ UNCHANGED <<phase, camera>>

(* An exception kills the process, maybe in the middle of a close. *)
Die ==
    /\ phase \in {"active", "pausing"} /\ phase' = "dead"
    /\ \/ UNCHANGED <<camera, readers>>
       \/ \E o \in Cameras : camera' = [camera EXCEPT ![o] = "off"]
                             /\ UNCHANGED readers
       \/ \E o \in Cameras : readers' = readers \ {o} /\ UNCHANGED camera

Next ==
    \/ Resume \/ Pause \/ Paused \/ Die
    \/ phase # "dead" /\ \E o \in Cameras :
          \/ Open(o) \/ Opened(o) \/ CreateSession(o) \/ Stream(o)
          \/ Close(o) \/ CloseReader(o)

Spec == Init /\ [][Next]_vars
=============================================================================
