----------------------- MODULE Camera2Preview_proof -----------------------
(***************************************************************************)
(* Proof that Camera2Pipeline implements CameraPreview, for any set of     *)
(* open calls.  On top of the invariant of Camera2Pipeline_proof it needs  *)
(* that the disposed flag tells where onPause is (PhaseInv), and that a    *)
(* capture request is made for a reader that is open, or for a camera that *)
(* is closed already (ReaderInv).                                          *)
(***************************************************************************)
EXTENDS Camera2Pipeline_proof

(* onPause disposes first; what comes before it runs undisposed, and so    *)
(* does a main thread that an error overtook in the teardown.              *)
PhaseInv ==
    /\ pc["main"] \in {"cancel", "hide", "quit", "join", "paused"} => disposed
    /\ pc["main"] \in {"idle", "attach", "closeLate", "alert", "show"}
         => ~disposed
    /\ chain = "ended" /\ pc["main"] \in {"unsubscribe", "close"} => ~disposed

(* While the chain is live, or only main tears it down, none of its        *)
(* sessions is disposed.                                                   *)
LiveInv ==
    chain = "live" \/ (Failing /\ pc["bg"] \notin {"unsubscribe", "close"})
      => mine \cap sUnsub = {}

(* The reader of a session outlives its requests, unless the device is     *)
(* closed before.                                                          *)
ReaderInv == pc["bg"] \in {"request", "repeat"} =>
                at["bg"] \in Subscribed \/ hw[at["bg"]] = "closed"

PInv == PhaseInv /\ LiveInv /\ ReaderInv

(* The initial state is undisturbed.                                       *)
LEMMA InitPInv == Init => PInv
<1> SUFFICES ASSUME Init PROVE PInv
  OBVIOUS
<1>1. pc["main"] = "paused" /\ pc["bg"] = "idle" /\ chain = "drained" /\ disposed
  BY DEF Init
<1> QED  BY <1>1 DEF PInv, PhaseInv, LiveInv, ReaderInv, Failing

(* Only onResume and onPause touch the flag, where PhaseInv says so.        *)
LEMMA PhaseStep ==
    ASSUME TypeOK, TeardownInv, PhaseInv, [Next]_vars
    PROVE  PhaseInv'
<1> USE DEF Goto, Threads, threads, subs, camera, capture, looper
<1>1. CASE UNCHANGED vars  BY <1>1 DEF vars, PhaseInv, TypeOK, FlagsOK
<1>2. CASE OnResume
  BY <1>2 DEF OnResume, PhaseInv, TypeOK, FlagsOK
<1>3. CASE OnPause
  BY <1>3 DEF OnPause, PhaseInv, TypeOK, FlagsOK
<1>4. CASE PermissionGranted
  BY <1>4
     DEF PermissionGranted, TryOpen, OpenCamera, OpenFails, Working, PhaseInv,
         TypeOK, FlagsOK
<1>5. CASE PermissionDenied
  BY <1>5 DEF PermissionDenied, PhaseInv, TypeOK, FlagsOK
<1>6. CASE SurfaceChanges
  BY <1>6
     DEF SurfaceChanges, TryOpen, OpenCamera, OpenFails, Working, PhaseInv,
         TypeOK, FlagsOK
<1>7. CASE Attach
  BY <1>7 DEF Attach, PhaseInv, TypeOK, FlagsOK
<1>8. CASE Cancel
  BY <1>8 DEF Cancel, PhaseInv, TypeOK, FlagsOK
<1>9. CASE HideDialogs
  BY <1>9 DEF HideDialogs, PhaseInv, TypeOK, FlagsOK
<1>10. CASE QuitSafely
  BY <1>10 DEF QuitSafely, PhaseInv, TypeOK, FlagsOK
<1>11. CASE Join
  BY <1>11 DEF Join, PhaseInv, TypeOK, FlagsOK
<1>12. ASSUME NEW t \in Threads, NEW o \in Opens, Unsubscribe(t, o)
       PROVE  PhaseInv'
  BY <1>12 DEF Unsubscribe, Working, PhaseInv, TypeOK, FlagsOK
<1>13. ASSUME NEW t \in Threads, CloseDevice(t) PROVE PhaseInv'
  BY <1>13 DEF CloseDevice, PhaseInv, TypeOK, FlagsOK
<1>14. ASSUME NEW t \in Threads, DevicesDone(t) PROVE PhaseInv'
  BY <1>14 DEF DevicesDone, PhaseInv, TypeOK, FlagsOK
<1>15. ASSUME NEW t \in Threads, NEW o \in Opens, UnsubscribeSession(t, o)
       PROVE  PhaseInv'
  BY <1>15 DEF UnsubscribeSession, Working, PhaseInv, TypeOK, FlagsOK
<1>16. ASSUME NEW t \in Threads, CloseSession(t) PROVE PhaseInv'
  BY <1>16 DEF CloseSession, PhaseInv, TypeOK, FlagsOK
<1>17. ASSUME NEW t \in Threads, CloseReader(t) PROVE PhaseInv'
  BY <1>17 DEF CloseReader, PhaseInv, TypeOK, FlagsOK
<1>18. ASSUME NEW t \in Threads, SessionsDone(t) PROVE PhaseInv'
  BY <1>18 DEF SessionsDone, PhaseInv, TypeOK, FlagsOK
<1>19. ASSUME NEW t \in Threads, DeliverError(t) PROVE PhaseInv'
  BY <1>19 DEF DeliverError, PhaseInv, TypeOK, FlagsOK
<1>20. ASSUME NEW t \in Threads, ShowAlert(t) PROVE PhaseInv'
  BY <1>20 DEF ShowAlert, PhaseInv, TypeOK, FlagsOK
<1>21. ASSUME NEW o \in Opens, OnOpened(o) PROVE PhaseInv'
  BY <1>21 DEF OnOpened, Receive, Working, PhaseInv, TypeOK, FlagsOK
<1>22. ASSUME NEW o \in Opens, OnError(o) PROVE PhaseInv'
  BY <1>22 DEF OnError, Receive, Raise, PhaseInv, TypeOK, FlagsOK
<1>23. ASSUME NEW o \in Opens, OnConfigured(o) PROVE PhaseInv'
  BY <1>23 DEF OnConfigured, Receive, Working, PhaseInv, TypeOK, FlagsOK
<1>24. ASSUME NEW o \in Opens, OnConfigureFailed(o) PROVE PhaseInv'
  BY <1>24
     DEF OnConfigureFailed, Receive, Raise, Overtake, Failing, PhaseInv,
         TypeOK, FlagsOK
<1>25. CASE CreateSession
  BY <1>25 DEF CreateSession, Raise, PhaseInv, TypeOK, FlagsOK
<1>26. CASE AssignSession
  BY <1>26 DEF AssignSession, PhaseInv, TypeOK, FlagsOK
<1>27. CASE EmitSession
  BY <1>27 DEF EmitSession, PhaseInv, TypeOK, FlagsOK
<1>28. CASE CreateRequest
  BY <1>28
     DEF CreateRequest, RequestThrows, Overtake, Failing, PhaseInv, TypeOK,
         FlagsOK, TeardownInv, TeardownStates
<1>29. CASE SetRepeatingRequest
  BY <1>29
     DEF SetRepeatingRequest, RequestThrows, Overtake, Failing, PhaseInv,
         TypeOK, FlagsOK, TeardownInv, TeardownStates
<1>30. ASSUME NEW o \in Opens, Framework(o) PROVE PhaseInv'
  BY <1>30 DEF Framework, PhaseInv, TypeOK, FlagsOK
<1> QED  BY <1>1, <1>2, <1>3, <1>4, <1>5, <1>6, <1>7, <1>8, <1>9, <1>10, <1>11,
   <1>12, <1>13, <1>14, <1>15, <1>16, <1>17, <1>18, <1>19, <1>20, <1>21, <1>22,
   <1>23, <1>24, <1>25, <1>26, <1>27, <1>28, <1>29, <1>30
  DEF Next, MainStep, BgStep, UserStep, Teardown, Killed

(* Whoever disposes a session found the chain ended, or ended it.           *)
LEMMA LiveStep ==
    ASSUME TypeOK, TeardownInv, FreshInv, QuiescentInv, LiveInv, [Next]_vars
    PROVE  LiveInv'
<1> USE DEF Goto, Threads, threads, subs, camera, capture, looper, Failing
<1>1. CASE UNCHANGED vars  BY <1>1
   DEF vars, LiveInv, TypeOK, TeardownInv, TeardownStates, FreshInv,
       QuiescentInv
<1>2. CASE OnResume
  BY <1>2
     DEF OnResume, LiveInv, TypeOK, TeardownInv, TeardownStates, FreshInv,
         QuiescentInv
<1>3. CASE OnPause
  BY <1>3
     DEF OnPause, LiveInv, TypeOK, TeardownInv, TeardownStates, FreshInv,
         QuiescentInv
<1>4. CASE PermissionGranted
  BY <1>4
     DEF PermissionGranted, TryOpen, OpenCamera, OpenFails, Working, LiveInv,
         TypeOK, TeardownInv, TeardownStates, FreshInv, QuiescentInv
<1>5. CASE PermissionDenied
  BY <1>5
     DEF PermissionDenied, LiveInv, TypeOK, TeardownInv, TeardownStates,
         FreshInv, QuiescentInv
<1>6. CASE SurfaceChanges
  BY <1>6
     DEF SurfaceChanges, TryOpen, OpenCamera, OpenFails, Working, LiveInv,
         TypeOK, TeardownInv, TeardownStates, FreshInv, QuiescentInv
<1>7. CASE Attach
  BY <1>7
     DEF Attach, LiveInv, TypeOK, TeardownInv, TeardownStates, FreshInv,
         QuiescentInv
<1>8. CASE Cancel
  BY <1>8
     DEF Cancel, LiveInv, TypeOK, TeardownInv, TeardownStates, FreshInv,
         QuiescentInv
<1>9. CASE HideDialogs
  BY <1>9
     DEF HideDialogs, LiveInv, TypeOK, TeardownInv, TeardownStates, FreshInv,
         QuiescentInv
<1>10. CASE QuitSafely
  BY <1>10
     DEF QuitSafely, LiveInv, TypeOK, TeardownInv, TeardownStates, FreshInv,
         QuiescentInv
<1>11. CASE Join
  BY <1>11
     DEF Join, LiveInv, TypeOK, TeardownInv, TeardownStates, FreshInv,
         QuiescentInv
<1>12. ASSUME NEW t \in Threads, NEW o \in Opens, Unsubscribe(t, o)
       PROVE  LiveInv'
  BY <1>12
     DEF Unsubscribe, Working, LiveInv, TypeOK, TeardownInv, TeardownStates,
         FreshInv, QuiescentInv
<1>13. ASSUME NEW t \in Threads, CloseDevice(t) PROVE LiveInv'
  BY <1>13
     DEF CloseDevice, LiveInv, TypeOK, TeardownInv, TeardownStates, FreshInv,
         QuiescentInv
<1>14. ASSUME NEW t \in Threads, DevicesDone(t) PROVE LiveInv'
  BY <1>14
     DEF DevicesDone, LiveInv, TypeOK, TeardownInv, TeardownStates, FreshInv,
         QuiescentInv
<1>15. ASSUME NEW t \in Threads, NEW o \in Opens, UnsubscribeSession(t, o)
       PROVE  LiveInv'
  BY <1>15
     DEF UnsubscribeSession, Working, LiveInv, TypeOK, TeardownInv,
         TeardownStates, FreshInv, QuiescentInv
<1>16. ASSUME NEW t \in Threads, CloseSession(t) PROVE LiveInv'
  BY <1>16
     DEF CloseSession, LiveInv, TypeOK, TeardownInv, TeardownStates, FreshInv,
         QuiescentInv
<1>17. ASSUME NEW t \in Threads, CloseReader(t) PROVE LiveInv'
  BY <1>17
     DEF CloseReader, LiveInv, TypeOK, TeardownInv, TeardownStates, FreshInv,
         QuiescentInv
<1>18. ASSUME NEW t \in Threads, SessionsDone(t) PROVE LiveInv'
  BY <1>18
     DEF SessionsDone, LiveInv, TypeOK, TeardownInv, TeardownStates, FreshInv,
         QuiescentInv
<1>19. ASSUME NEW t \in Threads, DeliverError(t) PROVE LiveInv'
  BY <1>19
     DEF DeliverError, LiveInv, TypeOK, TeardownInv, TeardownStates, FreshInv,
         QuiescentInv
<1>20. ASSUME NEW t \in Threads, ShowAlert(t) PROVE LiveInv'
  BY <1>20
     DEF ShowAlert, LiveInv, TypeOK, TeardownInv, TeardownStates, FreshInv,
         QuiescentInv
<1>21. ASSUME NEW o \in Opens, OnOpened(o) PROVE LiveInv'
  BY <1>21
     DEF OnOpened, Receive, Working, LiveInv, TypeOK, TeardownInv,
         TeardownStates, FreshInv, QuiescentInv
<1>22. ASSUME NEW o \in Opens, OnError(o) PROVE LiveInv'
  BY <1>22
     DEF OnError, Receive, Raise, LiveInv, TypeOK, TeardownInv, TeardownStates,
         FreshInv, QuiescentInv
<1>23. ASSUME NEW o \in Opens, OnConfigured(o) PROVE LiveInv'
  BY <1>23
     DEF OnConfigured, Receive, Working, LiveInv, TypeOK, TeardownInv,
         TeardownStates, FreshInv, QuiescentInv
<1>24. ASSUME NEW o \in Opens, OnConfigureFailed(o) PROVE LiveInv'
  BY <1>24
     DEF OnConfigureFailed, Receive, Raise, Overtake, LiveInv, TypeOK,
         TeardownInv, TeardownStates, FreshInv, QuiescentInv
<1>25. CASE CreateSession
  BY <1>25
     DEF CreateSession, Raise, LiveInv, TypeOK, TeardownInv, TeardownStates,
         FreshInv, QuiescentInv
<1>26. CASE AssignSession
  BY <1>26
     DEF AssignSession, LiveInv, TypeOK, TeardownInv, TeardownStates, FreshInv,
         QuiescentInv
<1>27. CASE EmitSession
  BY <1>27
     DEF EmitSession, LiveInv, TypeOK, TeardownInv, TeardownStates, FreshInv,
         QuiescentInv
<1>28. CASE CreateRequest
  BY <1>28
     DEF CreateRequest, RequestThrows, Overtake, LiveInv, TypeOK, TeardownInv,
         TeardownStates, FreshInv, QuiescentInv
<1>29. CASE SetRepeatingRequest
  BY <1>29
     DEF SetRepeatingRequest, RequestThrows, Overtake, LiveInv, TypeOK,
         TeardownInv, TeardownStates, FreshInv, QuiescentInv
<1>30. ASSUME NEW o \in Opens, Framework(o) PROVE LiveInv'
  BY <1>30
     DEF Framework, LiveInv, TypeOK, TeardownInv, TeardownStates, FreshInv,
         QuiescentInv
<1> QED  BY <1>1, <1>2, <1>3, <1>4, <1>5, <1>6, <1>7, <1>8, <1>9, <1>10, <1>11,
   <1>12, <1>13, <1>14, <1>15, <1>16, <1>17, <1>18, <1>19, <1>20, <1>21, <1>22,
   <1>23, <1>24, <1>25, <1>26, <1>27, <1>28, <1>29, <1>30
  DEF Next, MainStep, BgStep, UserStep, Teardown, Killed

(* Once readers are closed, the devices of this resume are.                 *)
LEMMA ReaderStep ==
    ASSUME IInv, LiveInv, ReaderInv, [Next]_vars
    PROVE  ReaderInv'
<1> USE DEF Goto, Threads, threads, subs, camera, capture, looper
<1>1. CASE UNCHANGED vars  BY <1>1
   DEF vars, ReaderInv, Subscribed, IInv, TypeOK, QuiescentInv
<1>2. CASE OnResume
  BY <1>2 DEF OnResume, ReaderInv, Subscribed, IInv, TypeOK, QuiescentInv
<1>3. CASE OnPause
  BY <1>3 DEF OnPause, ReaderInv, Subscribed, IInv, TypeOK, QuiescentInv
<1>4. CASE PermissionGranted
  BY <1>4
     DEF PermissionGranted, TryOpen, OpenCamera, OpenFails, Working, ReaderInv,
         Subscribed, IInv, TypeOK, QuiescentInv
<1>5. CASE PermissionDenied
  BY <1>5
     DEF PermissionDenied, ReaderInv, Subscribed, IInv, TypeOK, QuiescentInv
<1>6. CASE SurfaceChanges
  <2>1. /\ pc'["bg"] = pc["bg"] /\ at'["bg"] = at["bg"] /\ reader' = reader
        /\ \A x \in Opens : hw[x] = "closed" => hw'[x] = "closed"
    BY <1>6
       DEF SurfaceChanges, TryOpen, OpenCamera, OpenFails, Working, IInv,
           TypeOK
  <2>2. pc["bg"] \in {"request", "repeat"} => at["bg"] \in Opens
    BY DEF IInv, CallbackInv, TypeOK
  <2> QED  BY <2>1, <2>2 DEF ReaderInv, Subscribed
<1>7. CASE Attach
  BY <1>7 DEF Attach, ReaderInv, Subscribed, IInv, TypeOK, QuiescentInv
<1>8. CASE Cancel
  BY <1>8 DEF Cancel, ReaderInv, Subscribed, IInv, TypeOK, QuiescentInv
<1>9. CASE HideDialogs
  BY <1>9 DEF HideDialogs, ReaderInv, Subscribed, IInv, TypeOK, QuiescentInv
<1>10. CASE QuitSafely
  BY <1>10 DEF QuitSafely, ReaderInv, Subscribed, IInv, TypeOK, QuiescentInv
<1>11. CASE Join
  BY <1>11 DEF Join, ReaderInv, Subscribed, IInv, TypeOK, QuiescentInv
<1>12. ASSUME NEW t \in Threads, NEW o \in Opens, Unsubscribe(t, o)
       PROVE  ReaderInv'
  BY <1>12
     DEF Unsubscribe, Working, ReaderInv, Subscribed, IInv, TypeOK,
         QuiescentInv
<1>13. ASSUME NEW t \in Threads, CloseDevice(t) PROVE ReaderInv'
  BY <1>13 DEF CloseDevice, ReaderInv, Subscribed, IInv, TypeOK, QuiescentInv
<1>14. ASSUME NEW t \in Threads, DevicesDone(t) PROVE ReaderInv'
  BY <1>14 DEF DevicesDone, ReaderInv, Subscribed, IInv, TypeOK, QuiescentInv
<1>15. ASSUME NEW t \in Threads, NEW o \in Opens, UnsubscribeSession(t, o)
       PROVE  ReaderInv'
  BY <1>15
     DEF UnsubscribeSession, Working, ReaderInv, Subscribed, IInv, TypeOK,
         QuiescentInv
<1>16. ASSUME NEW t \in Threads, CloseSession(t) PROVE ReaderInv'
  BY <1>16 DEF CloseSession, ReaderInv, Subscribed, IInv, TypeOK, QuiescentInv
<1>17. ASSUME NEW t \in Threads, CloseReader(t) PROVE ReaderInv'
  <2>1. CASE t = "bg"
    BY <1>17, <2>1 DEF CloseReader, ReaderInv, IInv, TypeOK
  <2>2. CASE t = "main" /\ pc["bg"] \notin {"request", "repeat"}
    BY <1>17, <2>2 DEF CloseReader, ReaderInv, IInv, TypeOK
  <2>3. CASE t = "main" /\ pc["bg"] \in {"request", "repeat"}
    <3>1. pc["main"] = "closeReader"
      BY <1>17, <2>3 DEF CloseReader
    <3>2. chain = "drained"
      BY <2>3, <3>1 DEF IInv, TeardownInv, TeardownStates, Threads
    <3>3. at["bg"] \in unsub
      BY <2>3, <3>1, <3>2 DEF IInv, SubscriptionInv, CallbackInv
    <3>4. hw[at["bg"]] = "closed"
      BY <2>3, <3>1, <3>3 DEF IInv, StreamInv, Closable, Closing, Requesting
    <3> QED  BY <1>17, <2>3, <3>4 DEF CloseReader, ReaderInv, IInv, TypeOK
  <2> QED  BY <1>17, <2>1, <2>2, <2>3
<1>18. ASSUME NEW t \in Threads, SessionsDone(t) PROVE ReaderInv'
  BY <1>18 DEF SessionsDone, ReaderInv, Subscribed, IInv, TypeOK, QuiescentInv
<1>19. ASSUME NEW t \in Threads, DeliverError(t) PROVE ReaderInv'
  BY <1>19 DEF DeliverError, ReaderInv, Subscribed, IInv, TypeOK, QuiescentInv
<1>20. ASSUME NEW t \in Threads, ShowAlert(t) PROVE ReaderInv'
  BY <1>20 DEF ShowAlert, ReaderInv, Subscribed, IInv, TypeOK, QuiescentInv
<1>21. ASSUME NEW o \in Opens, OnOpened(o) PROVE ReaderInv'
  BY <1>21
     DEF OnOpened, Receive, Working, ReaderInv, Subscribed, IInv, TypeOK,
         QuiescentInv
<1>22. ASSUME NEW o \in Opens, OnError(o) PROVE ReaderInv'
  BY <1>22
     DEF OnError, Receive, Raise, ReaderInv, Subscribed, IInv, TypeOK,
         QuiescentInv
<1>23. ASSUME NEW o \in Opens, OnConfigured(o) PROVE ReaderInv'
  BY <1>23
     DEF OnConfigured, Receive, Working, ReaderInv, Subscribed, IInv, TypeOK,
         QuiescentInv
<1>24. ASSUME NEW o \in Opens, OnConfigureFailed(o) PROVE ReaderInv'
  BY <1>24
     DEF OnConfigureFailed, Receive, Raise, Overtake, ReaderInv, Subscribed,
         IInv, TypeOK, QuiescentInv
<1>25. CASE CreateSession
  BY <1>25
     DEF CreateSession, Raise, ReaderInv, Subscribed, IInv, TypeOK,
         QuiescentInv
<1>26. CASE AssignSession
  BY <1>26 DEF AssignSession, ReaderInv, Subscribed, IInv, TypeOK, QuiescentInv
<1>27. CASE EmitSession
  <2>1. CASE chain = "live" \/ Failing
    <3>1. at["bg"] \in mine /\ sess[at["bg"]] # "none" /\ at["bg"] \in Opens
      BY <1>27 DEF EmitSession, IInv, CallbackInv, TypeOK
    <3>2. at["bg"] \in Subscribed
      BY <1>27, <2>1, <3>1
         DEF EmitSession, LiveInv, IInv, ReleaseInv, Subscribed
    <3> QED  BY <1>27, <3>2 DEF EmitSession, ReaderInv, Subscribed
  <2>2. CASE ~(chain = "live" \/ Failing)
    BY <1>27, <2>2 DEF EmitSession, ReaderInv, IInv, TypeOK
  <2> QED  BY <2>1, <2>2
<1>28. CASE CreateRequest
  BY <1>28
     DEF CreateRequest, RequestThrows, Overtake, ReaderInv, Subscribed, IInv,
         TypeOK, QuiescentInv
<1>29. CASE SetRepeatingRequest
  BY <1>29
     DEF SetRepeatingRequest, RequestThrows, Overtake, ReaderInv, Subscribed,
         IInv, TypeOK, QuiescentInv
<1>30. ASSUME NEW o \in Opens, Framework(o) PROVE ReaderInv'
  <2>1. /\ pc'["bg"] = pc["bg"] /\ at'["bg"] = at["bg"] /\ reader' = reader
        /\ \A x \in Opens : hw[x] = "closed" => hw'[x] = "closed"
    BY <1>30 DEF Framework, IInv, TypeOK
  <2>2. pc["bg"] \in {"request", "repeat"} => at["bg"] \in Opens
    BY DEF IInv, CallbackInv, TypeOK
  <2> QED  BY <2>1, <2>2 DEF ReaderInv, Subscribed
<1> QED  BY <1>1, <1>2, <1>3, <1>4, <1>5, <1>6, <1>7, <1>8, <1>9, <1>10, <1>11,
   <1>12, <1>13, <1>14, <1>15, <1>16, <1>17, <1>18, <1>19, <1>20, <1>21, <1>22,
   <1>23, <1>24, <1>25, <1>26, <1>27, <1>28, <1>29, <1>30
  DEF Next, MainStep, BgStep, UserStep, Teardown, Killed

-----------------------------------------------------------------------------
(* Steps of the pipeline as steps of the preview *)

PStep == [Preview!Next]_(Preview!vars)

(* One camera changes its state for the activity as it does in hw.         *)
LEMMA CamerasStep ==
    ASSUME TypeOK, NEW o \in Opens, NEW s \in HwStates, hw' = [hw EXCEPT ![o] = s]
    PROVE  CameraStates' = [CameraStates EXCEPT ![o] = CameraOf(s)]
  BY DEF CameraStates, TypeOK

(* A step that is neither onResume, onPause, a join nor a crash.           *)
LEMMA PhaseSame ==
    ASSUME ~crashed, ~crashed', disposed' = disposed,
           pc'["main"] = "paused" <=> pc["main"] = "paused"
    PROVE  Phase' = Phase /\ Phase # "dead"
  BY DEF Phase

(* Steps that leave devices and readers alone.                             *)
LEMMA Stutters ==
    ASSUME Phase' = Phase, UNCHANGED <<hw, reader>>
    PROVE  PStep
<1>1. CameraStates' = CameraStates /\ Subscribed' = Subscribed
  BY DEF CameraStates, Subscribed
<1> QED  BY <1>1 DEF PStep, Preview!vars

(* Devices that are closed or lost, whatever their state.                  *)
LEMMA Closes ==
    ASSUME TypeOK, Phase' = Phase, Phase # "dead", UNCHANGED reader,
           NEW o \in Opens, NEW s \in {"failed", "closed"},
           hw' = [hw EXCEPT ![o] = s]
    PROVE  PStep
<1>1. CameraStates' = [CameraStates EXCEPT ![o] = "off"]
  BY CamerasStep DEF HwStates, CameraOf
<1>2. Subscribed' = Subscribed
  BY DEF Subscribed
<1>3. CASE CameraStates[o] # "off"
  BY <1>1, <1>2, <1>3 DEF PStep, Preview!Next, Preview!Close
<1>4. CASE CameraStates[o] = "off"
  <2>1. CameraStates' = CameraStates
    BY <1>1, <1>4 DEF CameraStates
  <2> QED  BY <1>2, <2>1 DEF PStep, Preview!vars
<1> QED  BY <1>3, <1>4

(* Readers that are closed, if they were open.                             *)
LEMMA ClosesReader ==
    ASSUME TypeOK, Phase' = Phase, Phase # "dead", UNCHANGED hw,
           NEW o \in Opens, reader' = [reader EXCEPT ![o] = "closed"]
    PROVE  PStep
<1>1. CameraStates' = CameraStates
  BY DEF CameraStates
<1>2. Subscribed' = Subscribed \ {o}
  BY DEF Subscribed, TypeOK
<1>3. CASE o \in Subscribed
  BY <1>1, <1>2, <1>3 DEF PStep, Preview!Next, Preview!CloseReader
<1>4. CASE o \notin Subscribed
  BY <1>1, <1>2, <1>4 DEF PStep, Preview!vars
<1> QED  BY <1>3, <1>4

(* The background thread is busy, or about to be, so that the activity is  *)
(* not paused: its exception is one of an active or pausing preview.       *)
LEMMA Busy ==
    ASSUME QuiescentInv, ~crashed, pc["bg"] # "idle" \/ queue # <<>>
    PROVE  Phase \in {"active", "pausing"} /\ pc["main"] # "paused"
  BY DEF QuiescentInv, Phase

(* The exception that kills the process comes with at most one close.      *)
LEMMA Dies ==
    ASSUME TypeOK, Phase \in {"active", "pausing"}, crashed',
           \/ UNCHANGED <<hw, reader>>
           \/ /\ UNCHANGED reader
              /\ \E o \in Opens : hw' = [hw EXCEPT ![o] = "closed"]
           \/ /\ UNCHANGED hw
              /\ \E o \in Opens : reader' = [reader EXCEPT ![o] = "closed"]
    PROVE  PStep
<1>1. Phase' = "dead"
  BY DEF Phase
<1>2. CASE UNCHANGED <<hw, reader>>
  <2>1. CameraStates' = CameraStates /\ Subscribed' = Subscribed
    BY <1>2 DEF CameraStates, Subscribed
  <2> QED  BY <1>1, <2>1 DEF PStep, Preview!Next, Preview!Die
<1>3. ASSUME NEW o \in Opens, UNCHANGED reader, hw' = [hw EXCEPT ![o] = "closed"]
      PROVE  PStep
  <2>1. CameraStates' = [CameraStates EXCEPT ![o] = "off"]
    BY <1>3, CamerasStep DEF HwStates, CameraOf
  <2>2. Subscribed' = Subscribed
    BY <1>3 DEF Subscribed
  <2> QED  BY <1>1, <2>1, <2>2 DEF PStep, Preview!Next, Preview!Die
<1>4. ASSUME NEW o \in Opens, UNCHANGED hw,
             reader' = [reader EXCEPT ![o] = "closed"]
      PROVE  PStep
  <2>1. CameraStates' = CameraStates
    BY <1>4 DEF CameraStates
  <2>2. Subscribed' = Subscribed \ {o}
    BY <1>4 DEF Subscribed, TypeOK
  <2> QED  BY <1>1, <2>1, <2>2 DEF PStep, Preview!Next, Preview!Die
<1> QED  BY <1>2, <1>3, <1>4

(* A camera is only opened in an active activity.                          *)
LEMMA OpensOnlyActive ==
    ASSUME TypeOK, PhaseInv, ~crashed, ~crashed', disposed' = disposed,
           pc["main"] = "idle", UNCHANGED reader,
           NEW o \in Opens, OpenCamera(o)
    PROVE  PStep
<1>1. Phase = "active" /\ Phase' = "active"
  BY DEF PhaseInv, Phase, OpenCamera, TypeOK, Threads
<1>2. CameraStates[o] = "off"
  BY DEF OpenCamera, CameraStates, CameraOf
<1>3. CameraStates' = [CameraStates EXCEPT ![o] = "opening"]
  BY CamerasStep DEF OpenCamera, HwStates, CameraOf
<1>4. Subscribed' = Subscribed
  BY DEF Subscribed
<1> QED  BY <1>1, <1>2, <1>3, <1>4
         DEF PStep, Preview!Next, Preview!Open, Preview!Moves

(* Every step of the pipeline is a step of the preview, or none at all.    *)
LEMMA PreviewMaps ==
    ASSUME IInv, IInv', PInv, [Next]_vars
    PROVE  PStep
<1> USE DEF Goto, Threads, threads, subs, camera, capture, looper
<1> USE DEF IInv, PInv
<1>1. CASE UNCHANGED vars
  <2>1. Phase' = Phase /\ UNCHANGED <<hw, reader>>
    BY <1>1 DEF vars, Phase
  <2> QED  BY <2>1, Stutters
<1>2. ASSUME ~crashed, OnResume PROVE PStep
  <2>1. Phase = "paused" /\ Phase' = "active"
    BY <1>2 DEF OnResume, Phase, TypeOK
  <2>2. Subscribed = {}
    BY <1>2 DEF OnResume, AllListenersDisposed, Paused
  <2>3. Subscribed' = {}
    BY <1>2, <2>2 DEF OnResume, Subscribed
  <2>4. CameraStates' = CameraStates
    BY <1>2 DEF OnResume, CameraStates, CameraOf, TypeOK
  <2> QED  BY <2>1, <2>2, <2>3, <2>4 DEF PStep, Preview!Next, Preview!Resume
<1>3. ASSUME ~crashed, OnPause PROVE PStep
  <2>1. Phase = "active" /\ Phase' = "pausing"
    BY <1>3 DEF OnPause, PhaseInv, Phase, TypeOK
  <2>2. CameraStates' = CameraStates /\ Subscribed' = Subscribed
    BY <1>3 DEF OnPause, CameraStates, Subscribed
  <2> QED  BY <2>1, <2>2 DEF PStep, Preview!Next, Preview!Pause
<1>4. ASSUME ~crashed, PermissionGranted PROVE PStep
  <2>1. ~crashed' /\ disposed' = disposed /\ UNCHANGED reader
    BY <1>4 DEF PermissionGranted
  <2>2. ASSUME NEW o \in Opens, OpenCamera(o) PROVE PStep
    <3>1. pc["main"] = "idle"
      BY <1>4, <2>2 DEF PermissionGranted, OpenCamera
    <3> QED  BY <1>4, <2>1, <2>2, <3>1, OpensOnlyActive
  <2>3. CASE UNCHANGED hw /\ (pc'["main"] = "paused" <=> pc["main"] = "paused")
    BY <1>4, <2>1, <2>3, PhaseSame, Stutters
  <2> QED  BY <1>4, <2>2, <2>3
              DEF PermissionGranted, TryOpen, OpenFails, TypeOK
<1>5. ASSUME ~crashed, PermissionDenied PROVE PStep
  <2>1. ~crashed' /\ disposed' = disposed /\ UNCHANGED <<hw, reader>>
        /\ (pc'["main"] = "paused" <=> pc["main"] = "paused")
    BY <1>5 DEF PermissionDenied, TypeOK
  <2> QED  BY <1>5, <2>1, PhaseSame, Stutters
<1>6. ASSUME ~crashed, SurfaceChanges PROVE PStep
  <2>1. ~crashed' /\ disposed' = disposed /\ UNCHANGED reader
    BY <1>6 DEF SurfaceChanges
  <2>2. ASSUME NEW o \in Opens, OpenCamera(o) PROVE PStep
    <3>1. pc["main"] = "idle"
      BY <1>6, <2>2 DEF SurfaceChanges, OpenCamera
    <3> QED  BY <1>6, <2>1, <2>2, <3>1, OpensOnlyActive
  <2>3. CASE UNCHANGED hw /\ (pc'["main"] = "paused" <=> pc["main"] = "paused")
    BY <1>6, <2>1, <2>3, PhaseSame, Stutters
  <2> QED  BY <1>6, <2>2, <2>3 DEF SurfaceChanges, TryOpen, OpenFails, TypeOK
<1>7. ASSUME ~crashed, Attach PROVE PStep
  <2>1. ~crashed' /\ disposed' = disposed /\ UNCHANGED <<hw, reader>>
        /\ (pc'["main"] = "paused" <=> pc["main"] = "paused")
    BY <1>7 DEF Attach, TypeOK
  <2> QED  BY <1>7, <2>1, PhaseSame, Stutters
<1>8. ASSUME ~crashed, Cancel PROVE PStep
  <2>1. disposed' = disposed /\ UNCHANGED <<hw, reader>>
        /\ (pc'["main"] = "paused" <=> pc["main"] = "paused")
        /\ Phase \in {"active", "pausing"}
    BY <1>8 DEF Cancel, TypeOK, Phase
  <2>2. CASE crashed'  BY <2>1, <2>2, Dies
  <2>3. CASE ~crashed'  BY <1>8, <2>1, <2>3, PhaseSame, Stutters
  <2> QED  BY <2>2, <2>3
<1>9. ASSUME ~crashed, HideDialogs PROVE PStep
  <2>1. ~crashed' /\ disposed' = disposed /\ UNCHANGED <<hw, reader>>
        /\ (pc'["main"] = "paused" <=> pc["main"] = "paused")
    BY <1>9 DEF HideDialogs, TypeOK
  <2> QED  BY <1>9, <2>1, PhaseSame, Stutters
<1>10. ASSUME ~crashed, QuitSafely PROVE PStep
  <2>1. ~crashed' /\ disposed' = disposed /\ UNCHANGED <<hw, reader>>
        /\ (pc'["main"] = "paused" <=> pc["main"] = "paused")
    BY <1>10 DEF QuitSafely, TypeOK
  <2> QED  BY <1>10, <2>1, PhaseSame, Stutters
<1>11. ASSUME ~crashed, Join PROVE PStep
  <2>1. Phase = "pausing" /\ Phase' = "paused"
    BY <1>11 DEF Join, PhaseInv, Phase, TypeOK
  <2>2. Paused' /\ UNCHANGED <<hw, reader>>
    BY <1>11 DEF Join, Paused, TypeOK
  <2>3. CameraStates' = CameraStates /\ Subscribed' = Subscribed
    BY <2>2 DEF CameraStates, Subscribed
  <2>4. Subscribed = {} /\ \A o \in Opens : hw[o] # "streaming"
    BY <2>2, <2>3 DEF AllListenersDisposed, PreviewCameraStopped
  <2>5. \A o \in Opens : CameraStates[o] # "streaming"
    BY <2>4 DEF CameraStates, CameraOf
  <2> QED  BY <2>1, <2>3, <2>4, <2>5 DEF PStep, Preview!Next, Preview!Paused
<1>12. ASSUME NEW t \in Threads, NEW o \in Opens, ~crashed, Unsubscribe(t, o)
       PROVE  PStep
  <2>1. ~crashed' /\ disposed' = disposed /\ UNCHANGED <<hw, reader>>
        /\ (pc'["main"] = "paused" <=> pc["main"] = "paused")
    BY <1>12 DEF Unsubscribe, Working, TypeOK
  <2> QED  BY <1>12, <2>1, PhaseSame, Stutters
<1>13. ASSUME NEW t \in Threads, ~crashed, CloseDevice(t) PROVE PStep
  <2>1. ~crashed' /\ disposed' = disposed /\ UNCHANGED reader
        /\ (pc'["main"] = "paused" <=> pc["main"] = "paused")
    BY <1>13 DEF CloseDevice, TypeOK
  <2>2. at[t] \in Opens
    BY <1>13 DEF CloseDevice, SubscriptionInv, Closing, TypeOK
  <2>3. hw' = hw \/ hw' = [hw EXCEPT ![at[t]] = "closed"]
    BY <1>13 DEF CloseDevice
  <2> QED  BY <1>13, <2>1, <2>2, <2>3, PhaseSame, Stutters, Closes
<1>14. ASSUME NEW t \in Threads, ~crashed, DevicesDone(t) PROVE PStep
  <2>1. disposed' = disposed /\ UNCHANGED <<hw, reader>>
        /\ (pc'["main"] = "paused" <=> pc["main"] = "paused")
    BY <1>14 DEF DevicesDone, TypeOK
  <2>2. Phase \in {"active", "pausing"}
    <3>1. pc["main"] # "paused"
      BY <1>14 DEF DevicesDone, QuiescentInv, Threads
    <3> QED  BY <1>14, <3>1 DEF Phase
  <2>3. CASE crashed'  BY <1>14, <2>1, <2>2, <2>3, Dies
  <2>4. CASE ~crashed'  BY <1>14, <2>1, <2>4, PhaseSame, Stutters
  <2> QED  BY <2>3, <2>4
<1>15. ASSUME NEW t \in Threads, NEW o \in Opens, ~crashed, UnsubscribeSession(t, o)
       PROVE  PStep
  <2>1. ~crashed' /\ disposed' = disposed /\ UNCHANGED <<hw, reader>>
        /\ (pc'["main"] = "paused" <=> pc["main"] = "paused")
    BY <1>15 DEF UnsubscribeSession, Working, TypeOK
  <2> QED  BY <1>15, <2>1, PhaseSame, Stutters
<1>16. ASSUME NEW t \in Threads, ~crashed, CloseSession(t) PROVE PStep
  <2>1. ~crashed' /\ disposed' = disposed /\ UNCHANGED <<hw, reader>>
        /\ (pc'["main"] = "paused" <=> pc["main"] = "paused")
    BY <1>16 DEF CloseSession, TypeOK
  <2> QED  BY <1>16, <2>1, PhaseSame, Stutters
<1>17. ASSUME NEW t \in Threads, ~crashed, CloseReader(t) PROVE PStep
  <2>1. ~crashed' /\ disposed' = disposed /\ UNCHANGED hw
        /\ (pc'["main"] = "paused" <=> pc["main"] = "paused")
    BY <1>17 DEF CloseReader, TypeOK
  <2>2. at[t] \in Opens
    BY <1>17 DEF CloseReader, SubscriptionInv, TypeOK
  <2>3. reader' = [reader EXCEPT ![at[t]] = "closed"]
    BY <1>17 DEF CloseReader
  <2> QED  BY <1>17, <2>1, <2>2, <2>3, PhaseSame, ClosesReader
<1>18. ASSUME NEW t \in Threads, ~crashed, SessionsDone(t) PROVE PStep
  <2>1. ~crashed' /\ disposed' = disposed /\ UNCHANGED <<hw, reader>>
        /\ (pc'["main"] = "paused" <=> pc["main"] = "paused")
    BY <1>18 DEF SessionsDone, TypeOK
  <2> QED  BY <1>18, <2>1, PhaseSame, Stutters
<1>19. ASSUME NEW t \in Threads, ~crashed, DeliverError(t) PROVE PStep
  <2>1. ~crashed' /\ disposed' = disposed /\ UNCHANGED <<hw, reader>>
        /\ (pc'["main"] = "paused" <=> pc["main"] = "paused")
    BY <1>19 DEF DeliverError, TypeOK
  <2> QED  BY <1>19, <2>1, PhaseSame, Stutters
<1>20. ASSUME NEW t \in Threads, ~crashed, ShowAlert(t) PROVE PStep
  <2>1. ~crashed' /\ disposed' = disposed /\ UNCHANGED <<hw, reader>>
        /\ (pc'["main"] = "paused" <=> pc["main"] = "paused")
    BY <1>20 DEF ShowAlert, TypeOK
  <2> QED  BY <1>20, <2>1, PhaseSame, Stutters
<1>21. ASSUME NEW o \in Opens, ~crashed, OnOpened(o) PROVE PStep
  <2>1. ~crashed' /\ disposed' = disposed /\ UNCHANGED <<hw, reader>>
        /\ (pc'["main"] = "paused" <=> pc["main"] = "paused")
    BY <1>21 DEF OnOpened, Receive, Working, TypeOK
  <2> QED  BY <1>21, <2>1, PhaseSame, Stutters
<1>22. ASSUME NEW o \in Opens, ~crashed, OnError(o) PROVE PStep
  <2>1. queue # <<>>
    BY <1>22 DEF OnError, Receive, Raise
  <2>2. disposed' = disposed
        /\ (pc'["main"] = "paused" <=> pc["main"] = "paused")
    BY <1>22 DEF OnError, Receive, Raise, TypeOK
  <2>3. /\ UNCHANGED reader
        /\ UNCHANGED <<hw, crashed>> \/ hw' = [hw EXCEPT ![o] = "closed"]
    BY <1>22 DEF OnError
  <2>4. CASE crashed'  BY <1>22, <2>1, <2>3, <2>4, Busy, Dies
  <2>5. CASE ~crashed'  BY <1>22, <2>2, <2>3, <2>5, PhaseSame, Stutters, Closes
  <2> QED  BY <2>4, <2>5
<1>23. ASSUME NEW o \in Opens, ~crashed, OnConfigured(o) PROVE PStep
  <2>1. ~crashed' /\ disposed' = disposed /\ UNCHANGED <<hw, reader>>
        /\ (pc'["main"] = "paused" <=> pc["main"] = "paused")
    BY <1>23 DEF OnConfigured, Receive, Working, TypeOK
  <2> QED  BY <1>23, <2>1, PhaseSame, Stutters
<1>24. ASSUME NEW o \in Opens, ~crashed, OnConfigureFailed(o) PROVE PStep
  <2>1. queue # <<>>
    BY <1>24 DEF OnConfigureFailed, Receive, Raise, Overtake
  <2>2. disposed' = disposed
        /\ (pc'["main"] = "paused" <=> pc["main"] = "paused")
    BY <1>24 DEF OnConfigureFailed, Receive, Raise, Overtake, TypeOK
  <2>3. /\ UNCHANGED hw
        /\ UNCHANGED reader \/ reader' = [reader EXCEPT ![o] = "closed"]
    BY <1>24 DEF OnConfigureFailed
  <2>4. CASE crashed'  BY <1>24, <2>1, <2>3, <2>4, Busy, Dies
  <2>5. CASE ~crashed'  BY <1>24, <2>2, <2>3, <2>5, PhaseSame, Stutters,
     ClosesReader
  <2> QED  BY <2>4, <2>5
<1>25. ASSUME ~crashed, CreateSession PROVE PStep
  <2>1. pc["bg"] # "idle"
    BY <1>25 DEF CreateSession, Raise
  <2>2. disposed' = disposed
        /\ (pc'["main"] = "paused" <=> pc["main"] = "paused")
    BY <1>25 DEF CreateSession, Raise, TypeOK
  <2>3. UNCHANGED hw /\ at["bg"] \in Opens
    BY <1>25 DEF CreateSession, CallbackInv, TypeOK
  <2>4. CASE crashed' /\ UNCHANGED reader
    BY <1>25, <2>1, <2>3, <2>4, Busy, Dies
  <2>5. CASE ~crashed' /\ UNCHANGED reader
    BY <1>25, <2>2, <2>3, <2>5, PhaseSame, Stutters
  <2>6. CASE /\ ~crashed' /\ reader' = [reader EXCEPT ![at["bg"]] = "open"]
             /\ hw[at["bg"]] # "failed"
    <3>1. hw[at["bg"]] \in {"open", "streaming"}
      BY <1>25, <2>3, <2>6
         DEF CreateSession, MutexInv, OnceInv, TypeOK, HwStates
    <3>2. CameraStates[at["bg"]] \in {"ready", "streaming"}
      BY <2>3, <3>1 DEF CameraStates, CameraOf
    <3>3. CameraStates' = CameraStates /\ Subscribed' = Subscribed \cup {at["bg"]}
      BY <2>3, <2>6 DEF CameraStates, Subscribed, TypeOK
    <3>4. Phase \in {"active", "pausing"} /\ Phase' = Phase
      BY <1>25, <2>1, <2>2, <2>6, Busy, PhaseSame
    <3> QED  BY <2>3, <3>2, <3>3, <3>4
             DEF PStep, Preview!Next, Preview!CreateSession
  <2> QED  BY <1>25, <2>4, <2>5, <2>6 DEF CreateSession
<1>26. ASSUME ~crashed, AssignSession PROVE PStep
  <2>1. ~crashed' /\ disposed' = disposed /\ UNCHANGED <<hw, reader>>
        /\ (pc'["main"] = "paused" <=> pc["main"] = "paused")
    BY <1>26 DEF AssignSession, TypeOK
  <2> QED  BY <1>26, <2>1, PhaseSame, Stutters
<1>27. ASSUME ~crashed, EmitSession PROVE PStep
  <2>1. ~crashed' /\ disposed' = disposed /\ UNCHANGED <<hw, reader>>
        /\ (pc'["main"] = "paused" <=> pc["main"] = "paused")
    BY <1>27 DEF EmitSession, TypeOK
  <2> QED  BY <1>27, <2>1, PhaseSame, Stutters
<1>28. ASSUME ~crashed, CreateRequest PROVE PStep
  <2>1. pc["bg"] # "idle"
    BY <1>28 DEF CreateRequest, RequestThrows, Overtake
  <2>2. disposed' = disposed
        /\ (pc'["main"] = "paused" <=> pc["main"] = "paused")
    BY <1>28 DEF CreateRequest, RequestThrows, Overtake, TypeOK
  <2>3. UNCHANGED <<hw, reader>>
    BY <1>28 DEF CreateRequest
  <2>4. CASE crashed'  BY <1>28, <2>1, <2>3, <2>4, Busy, Dies
  <2>5. CASE ~crashed'  BY <1>28, <2>2, <2>3, <2>5, PhaseSame, Stutters
  <2> QED  BY <2>4, <2>5
<1>29. ASSUME ~crashed, SetRepeatingRequest PROVE PStep
  <2>1. pc["bg"] # "idle"
    BY <1>29 DEF SetRepeatingRequest, RequestThrows, Overtake
  <2>2. disposed' = disposed
        /\ (pc'["main"] = "paused" <=> pc["main"] = "paused")
    BY <1>29 DEF SetRepeatingRequest, RequestThrows, Overtake, TypeOK
  <2>3. UNCHANGED reader /\ at["bg"] \in Opens
    BY <1>29 DEF SetRepeatingRequest, CallbackInv, TypeOK
  <2>4. CASE crashed' /\ UNCHANGED hw
    BY <1>29, <2>1, <2>3, <2>4, Busy, Dies
  <2>5. CASE ~crashed' /\ UNCHANGED hw
    BY <1>29, <2>2, <2>3, <2>5, PhaseSame, Stutters
  <2>6. CASE /\ ~crashed' /\ hw' = [hw EXCEPT ![at["bg"]] = "streaming"]
             /\ hw[at["bg"]] = "open"
    <3>1. CameraStates[at["bg"]] = "ready"
      BY <2>3, <2>6 DEF CameraStates, CameraOf
    <3>2. CameraStates' = [CameraStates EXCEPT ![at["bg"]] = "streaming"]
      BY <2>3, <2>6, CamerasStep DEF HwStates, CameraOf
    <3>3. at["bg"] \in Subscribed
      BY <1>29, <2>6 DEF SetRepeatingRequest, ReaderInv
    <3>4. Subscribed' = Subscribed
      BY <2>3 DEF Subscribed
    <3>5. Phase \in {"active", "pausing"} /\ Phase' = Phase
      BY <1>29, <2>1, <2>2, <2>6, Busy, PhaseSame
    <3> QED  BY <2>3, <3>1, <3>2, <3>3, <3>4, <3>5
             DEF PStep, Preview!Next, Preview!Stream, Preview!Moves
  <2>7. CASE /\ ~crashed' /\ hw' = [hw EXCEPT ![at["bg"]] = "streaming"]
             /\ hw[at["bg"]] = "streaming"
    BY <2>5, <2>7 DEF TypeOK
  <2>8. \/ UNCHANGED hw
        \/ /\ ~crashed' /\ hw' = [hw EXCEPT ![at["bg"]] = "streaming"]
           /\ hw[at["bg"]] \in {"open", "streaming"}
    BY <1>29 DEF SetRepeatingRequest
  <2> QED  BY <2>4, <2>5, <2>6, <2>7, <2>8
<1>30. ASSUME NEW o \in Opens, ~crashed, Framework(o) PROVE PStep
  <2>1. ~crashed' /\ disposed' = disposed /\ UNCHANGED reader
        /\ (pc'["main"] = "paused" <=> pc["main"] = "paused")
    BY <1>30 DEF Framework
  <2>2. CASE UNCHANGED hw  BY <1>30, <2>1, <2>2, PhaseSame, Stutters
  <2>3. CASE hw' = [hw EXCEPT ![o] = "failed"]
    BY <1>30, <2>1, <2>3, PhaseSame, Closes
  <2>4. CASE hw[o] = "opening" /\ hw' = [hw EXCEPT ![o] = "open"]
    <3>1. CameraStates[o] = "opening"
      BY <1>30, <2>4 DEF CameraStates, CameraOf
    <3>2. CameraStates' = [CameraStates EXCEPT ![o] = "ready"]
      BY <1>30, <2>4, CamerasStep DEF HwStates, CameraOf
    <3>3. Subscribed' = Subscribed
      BY <2>1 DEF Subscribed
    <3>4. Phase' = Phase /\ Phase # "dead"
      BY <1>30, <2>1, PhaseSame
    <3> QED  BY <1>30, <3>1, <3>2, <3>3, <3>4
             DEF PStep, Preview!Next, Preview!Opened, Preview!Moves
  <2> QED  BY <1>30, <2>2, <2>3, <2>4 DEF Framework
<1> QED  BY <1>1, <1>2, <1>3, <1>4, <1>5, <1>6, <1>7, <1>8, <1>9, <1>10, <1>11,
   <1>12, <1>13, <1>14, <1>15, <1>16, <1>17, <1>18, <1>19, <1>20, <1>21, <1>22,
   <1>23, <1>24, <1>25, <1>26, <1>27, <1>28, <1>29, <1>30
  DEF Next, MainStep, BgStep, UserStep, Teardown, Killed

-----------------------------------------------------------------------------
(* What the refinement adds to the invariant of the pipeline.              *)
THEOREM PreviewInvariance == Spec => []PInv
<1>1. Init => PInv
  BY InitPInv
<1>2. IInv /\ PInv /\ [Next]_vars => PInv'
  BY PhaseStep, LiveStep, ReaderStep DEF IInv, PInv
<1> QED  BY <1>1, <1>2, Invariance, PTL DEF Spec

(* The two threads of the pipeline, the framework and the callbacks, in    *)
(* whatever order they run, show the activity a preview that keeps its     *)
(* promises: CameraPreview is what Camera2Pipeline implements.             *)
THEOREM PipelineIsPreview == Spec => ImplementsPreview
<1>1. Init => Preview!Init
  <2> SUFFICES ASSUME Init PROVE Preview!Init
    OBVIOUS
  <2>1. Phase = "paused"
    BY DEF Init, Phase
  <2>2. CameraStates = [o \in Opens |-> "off"]
    BY DEF Init, CameraStates, CameraOf
  <2>3. Subscribed = {}
    BY DEF Init, Subscribed
  <2> QED  BY <2>1, <2>2, <2>3 DEF Preview!Init
<1>2. IInv /\ IInv' /\ PInv /\ [Next]_vars => [Preview!Next]_(Preview!vars)
  BY PreviewMaps DEF PStep
<1> QED  BY <1>1, <1>2, Invariance, PreviewInvariance, PTL
         DEF Spec, ImplementsPreview, Preview!Spec
=============================================================================
