----------------------- MODULE Camera2Pipeline_proof -----------------------
(***************************************************************************)
(* Proofs that Camera2Pipeline keeps its invariant for any set of open     *)
(* calls.  One lemma per conjunct of IInv: each action, from a state that  *)
(* satisfies the conjuncts named in ASSUME, re-establishes that conjunct.  *)
(***************************************************************************)
EXTENDS Camera2Pipeline, TLAPS

(* Handler.post appends a message for a live listener, or does nothing.     *)
LEMMA PostLemma ==
    ASSUME NEW cb, NEW o, Post(cb, o)
    PROVE  \/ queue' = queue
           \/ /\ o \in mine /\ ~quit
              /\ queue' = Append(queue, [cb |-> cb, cam |-> o])
  BY Zenon DEF Post

(* So the framework's steps leave the queue alone or append one callback,  *)
(* onConfigured only for a device that has a session.                      *)
LEMMA FrameworkLemma ==
    ASSUME NEW o \in Opens, Framework(o), hw \in [Opens -> HwStates]
    PROVE  \/ queue' = queue
           \/ \E cb \in Callbacks :
                 /\ o \in mine /\ ~quit
                 /\ queue' = Append(queue, [cb |-> cb, cam |-> o])
                 /\ cb \in {"onConfigured", "onConfigureFailed"}
                      => sess[o] # "none"
                 /\ cb = "onOpened" => hw[o] = "opening" /\ hw'[o] = "open"
<1>1. CASE hw[o] = "opening" /\ hw'[o] = "open" /\ Post("onOpened", o)
  BY <1>1, PostLemma DEF Callbacks
<1>2. CASE Post("onError", o)
  BY <1>2, PostLemma DEF Callbacks
<1>3. CASE sess[o] = "configuring" /\ Post("onConfigured", o)
  BY <1>3, PostLemma DEF Callbacks
<1>4. CASE sess[o] = "configuring" /\ Post("onConfigureFailed", o)
  BY <1>4, PostLemma DEF Callbacks
<1> QED
  BY <1>1, <1>2, <1>3, <1>4 DEF Framework

(* What CallbackInv says of the queue, and that a step which handles one   *)
(* callback or posts one keeps it.                                         *)
QueueInv(q, s) ==
    \A i \in 1..Len(q) : /\ q[i].cam \in mine
                         /\ q[i].cb \in {"onConfigured", "onConfigureFailed"}
                              => s[q[i].cam] # "none"

(* Taking the head of the queue gives a live listener and keeps QueueInv.  *)
LEMMA ReceiveLemma ==
    ASSUME NEW cb \in Callbacks, NEW o \in Opens, queue \in Seq(Messages),
           QueueInv(queue, sess), Receive(cb, o)
    PROVE  /\ queue' \in Seq(Messages)
           /\ o \in mine
           /\ cb \in {"onConfigured", "onConfigureFailed"} => sess[o] # "none"
           /\ QueueInv(queue', sess)
<1>1. queue # <<>> /\ queue' = Tail(queue)
      /\ queue[1] = [cb |-> cb, cam |-> o]
  BY DEF Receive
<1>2. queue' \in Seq(Messages)
  BY <1>1
<1>3. /\ o \in mine
      /\ cb \in {"onConfigured", "onConfigureFailed"} => sess[o] # "none"
  <2>1. 1 \in 1..Len(queue)  BY <1>1
  <2>2. queue[1].cam = o /\ queue[1].cb = cb  BY <1>1
  <2> QED  BY <2>1, <2>2 DEF QueueInv
<1>4. ASSUME NEW i \in 1..Len(queue')
      PROVE  i + 1 \in 1..Len(queue) /\ queue'[i] = queue[i + 1]
  BY <1>1, <1>4
<1> QED  BY <1>2, <1>3, <1>4 DEF QueueInv

(* The queue that is left is a sequence of messages.                       *)
LEMMA ReceiveType ==
    ASSUME NEW cb, NEW o, queue \in Seq(Messages), Receive(cb, o)
    PROVE  queue' \in Seq(Messages)
  BY DEF Receive

(* The framework's callbacks keep QueueInv and the type of the queue.      *)
LEMMA FrameworkQueue ==
    ASSUME NEW o \in Opens, queue \in Seq(Messages), QueueInv(queue, sess),
           Framework(o), hw \in [Opens -> HwStates]
    PROVE  queue' \in Seq(Messages) /\ QueueInv(queue', sess)
<1>1. CASE queue' = queue
  BY <1>1
<1>2. ASSUME NEW cb \in Callbacks, o \in mine,
             queue' = Append(queue, [cb |-> cb, cam |-> o]),
             cb \in {"onConfigured", "onConfigureFailed"} => sess[o] # "none"
      PROVE  queue' \in Seq(Messages) /\ QueueInv(queue', sess)
  <2> DEFINE m == [cb |-> cb, cam |-> o]
  <2>1. m \in Messages /\ m.cb = cb /\ m.cam = o
    BY DEF Messages
  <2> HIDE DEF m
  <2>2. queue' = Append(queue, m)
    BY <1>2 DEF m
  <2>3. queue' \in Seq(Messages)
    BY <2>1, <2>2
  <2>4. ASSUME NEW i \in 1..Len(queue')
        PROVE  (i \in 1..Len(queue) /\ queue'[i] = queue[i]) \/ queue'[i] = m
    BY <2>1, <2>2
  <2> QED  BY <1>2, <2>1, <2>3, <2>4 DEF QueueInv
<1> QED  BY <1>1, <1>2, FrameworkLemma

(* The initial state satisfies every conjunct.                             *)
LEMMA InitIInv == Init => IInv
<1> SUFFICES ASSUME Init PROVE IInv
  OBVIOUS
<1> USE DEF Init, Threads
<1>1. FlagsOK
  BY Zenon DEF FlagsOK
<1>2. TypeOK
  BY <1>1, NoOpenAssumption
  DEF TypeOK, MainStates, BgStates, TeardownStates, ChainStates, HwStates,
      SessStates, ReaderStates
<1>3. QuiescentInv
  BY Zenon DEF QuiescentInv
<1>4. MutexInv /\ TeardownInv
  BY DEF MutexInv, TeardownInv, TeardownStates
<1>5. SubscriptionInv /\ FreshInv /\ CallbackInv
  BY DEF SubscriptionInv, FreshInv, CallbackInv, Closing
<1>6. /\ StreamInv /\ OnceInv /\ ReleaseInv /\ PreviewCameraStopped
      /\ AllListenersDisposed /\ DisposedByOneThread
  BY DEF StreamInv, OnceInv, ReleaseInv, AllListenersDisposed, Subscribed,
         PreviewCameraStopped, DisposedByOneThread, Closing, Failing, Requesting
<1> QED  BY <1>1, <1>2, <1>3, <1>4, <1>5, <1>6 DEF IInv

(* The Boolean flags stay Boolean.                                         *)
LEMMA FlagsStep ==
    ASSUME FlagsOK, [Next]_vars
    PROVE  FlagsOK'
<1> USE DEF FlagsOK, threads, subs, camera, capture, looper, Goto
<1>1. CASE OnResume  BY <1>1, Zenon DEF OnResume
<1>2. CASE OnPause  BY <1>2, Zenon DEF OnPause
<1>3. CASE PermissionGranted
  BY <1>3, Zenon DEF PermissionGranted, TryOpen, OpenCamera, OpenFails, Working
<1>4. CASE PermissionDenied  BY <1>4, Zenon DEF PermissionDenied
<1>5. CASE SurfaceChanges
  BY <1>5, Zenon DEF SurfaceChanges, TryOpen, OpenCamera, OpenFails, Working
<1>6. CASE Attach  BY <1>6, Zenon DEF Attach
<1>7. CASE Cancel  BY <1>7, Zenon DEF Cancel
<1>8. CASE HideDialogs  BY <1>8, Zenon DEF HideDialogs
<1>9. CASE QuitSafely  BY <1>9, Zenon DEF QuitSafely
<1>10. CASE Join  BY <1>10, Zenon DEF Join
<1>11. ASSUME NEW t \in Threads, NEW o \in Opens, Unsubscribe(t, o)
       PROVE  FlagsOK'
  BY <1>11, Zenon DEF Unsubscribe, Working
<1>12. ASSUME NEW t \in Threads, CloseDevice(t) PROVE FlagsOK'
  BY <1>12, Zenon DEF CloseDevice
<1>13. ASSUME NEW t \in Threads, DevicesDone(t) PROVE FlagsOK'
  BY <1>13, Zenon DEF DevicesDone
<1>14. ASSUME NEW t \in Threads, NEW o \in Opens, UnsubscribeSession(t, o)
       PROVE  FlagsOK'
  BY <1>14, Zenon DEF UnsubscribeSession, Working, Subscribed
<1>15. ASSUME NEW t \in Threads, CloseSession(t) PROVE FlagsOK'
  BY <1>15, Zenon DEF CloseSession
<1>16. ASSUME NEW t \in Threads, CloseReader(t) PROVE FlagsOK'
  BY <1>16, Zenon DEF CloseReader
<1>17. ASSUME NEW t \in Threads, SessionsDone(t) PROVE FlagsOK'
  BY <1>17, Zenon DEF SessionsDone, Subscribed
<1>18. ASSUME NEW t \in Threads, DeliverError(t) PROVE FlagsOK'
  BY <1>18, Zenon DEF DeliverError
<1>19. ASSUME NEW t \in Threads, ShowAlert(t) PROVE FlagsOK'
  BY <1>19, Zenon DEF ShowAlert
<1>20. ASSUME NEW o \in Opens, OnOpened(o) PROVE FlagsOK'
  BY <1>20, Zenon DEF OnOpened, Receive, Working
<1>21. ASSUME NEW o \in Opens, OnError(o) PROVE FlagsOK'
  BY <1>21, Zenon DEF OnError, Receive, Raise
<1>22. ASSUME NEW o \in Opens, OnConfigured(o) PROVE FlagsOK'
  BY <1>22, Zenon DEF OnConfigured, Receive, Working
<1>23. ASSUME NEW o \in Opens, OnConfigureFailed(o) PROVE FlagsOK'
  BY <1>23, Zenon DEF OnConfigureFailed, Receive, Raise, Overtake
<1>24. CASE CreateSession  BY <1>24, Zenon DEF CreateSession, Raise
<1>25. CASE AssignSession  BY <1>25, Zenon DEF AssignSession
<1>26. CASE EmitSession  BY <1>26, Zenon DEF EmitSession
<1>27. CASE CreateRequest  BY <1>27, Zenon
                              DEF CreateRequest, RequestThrows, Overtake
<1>28. CASE SetRepeatingRequest
  BY <1>28, Zenon DEF SetRepeatingRequest, RequestThrows, Overtake
<1>29. ASSUME NEW o \in Opens, Framework(o) PROVE FlagsOK'
  BY <1>29, Zenon DEF Framework, Post
<1>30. CASE UNCHANGED vars  BY <1>30, Zenon DEF vars
<1> QED  BY <1>1, <1>2, <1>3, <1>4, <1>5, <1>6, <1>7, <1>8, <1>9,
    <1>10, <1>11, <1>12, <1>13, <1>14, <1>15, <1>16, <1>17, <1>18,
    <1>19, <1>20, <1>21, <1>22, <1>23, <1>24, <1>25, <1>26, <1>27,
    <1>28, <1>29, <1>30
    DEF Next, MainStep, BgStep, UserStep, Teardown, Killed, Threads

(* Every variable keeps its type.                                          *)
LEMMA TypeStep ==
    ASSUME TypeOK, FlagsOK', SubscriptionInv, CallbackInv, [Next]_vars
    PROVE  TypeOK'
<1> USE DEF threads, subs, camera, capture, looper, Goto, Threads,
            TeardownStates, MainStates, BgStates, TypeOK, SubscriptionInv,
            CallbackInv, ChainStates, HwStates, SessStates, ReaderStates,
            Callbacks, Messages
<1>1. CASE OnResume  BY <1>1 DEF OnResume
<1>2. CASE OnPause  BY <1>2 DEF OnPause
<1>3. CASE PermissionGranted
  BY <1>3 DEF PermissionGranted, TryOpen, OpenCamera, OpenFails, Working
<1>4. CASE PermissionDenied  BY <1>4 DEF PermissionDenied
<1>5. CASE SurfaceChanges
  BY <1>5 DEF SurfaceChanges, TryOpen, OpenCamera, OpenFails, Working
<1>6. CASE Attach  BY <1>6 DEF Attach
<1>7. CASE Cancel  BY <1>7 DEF Cancel
<1>8. CASE HideDialogs  BY <1>8 DEF HideDialogs
<1>9. CASE QuitSafely  BY <1>9 DEF QuitSafely
<1>10. CASE Join  BY <1>10 DEF Join
<1>11. ASSUME NEW t \in Threads, NEW o \in Opens, Unsubscribe(t, o)
       PROVE  TypeOK'
  BY <1>11 DEF Unsubscribe, Working
<1>12. ASSUME NEW t \in Threads, CloseDevice(t) PROVE TypeOK'
  BY <1>12 DEF CloseDevice
<1>13. ASSUME NEW t \in Threads, DevicesDone(t) PROVE TypeOK'
  BY <1>13 DEF DevicesDone
<1>14. ASSUME NEW t \in Threads, NEW o \in Opens, UnsubscribeSession(t, o)
       PROVE  TypeOK'
  BY <1>14 DEF UnsubscribeSession, Working, Subscribed
<1>15. ASSUME NEW t \in Threads, CloseSession(t) PROVE TypeOK'
  BY <1>15 DEF CloseSession
<1>16. ASSUME NEW t \in Threads, CloseReader(t) PROVE TypeOK'
  BY <1>16 DEF CloseReader
<1>17. ASSUME NEW t \in Threads, SessionsDone(t) PROVE TypeOK'
  BY <1>17 DEF SessionsDone, Subscribed
<1>18. ASSUME NEW t \in Threads, DeliverError(t) PROVE TypeOK'
  BY <1>18 DEF DeliverError
<1>19. ASSUME NEW t \in Threads, ShowAlert(t) PROVE TypeOK'
  BY <1>19 DEF ShowAlert
<1>20. ASSUME NEW o \in Opens, OnOpened(o) PROVE TypeOK'
  BY <1>20 DEF OnOpened, Receive, Working
<1>21. ASSUME NEW o \in Opens, OnError(o) PROVE TypeOK'
  <2>1. queue' \in Seq(Messages)
    <3>1. Receive("onError", o)  BY <1>21 DEF OnError
    <3> HIDE DEF Messages, TypeOK, CallbackInv
    <3>2. queue \in Seq(Messages)  BY DEF TypeOK
    <3> QED  BY <3>1, <3>2, ReceiveType
  <2>2. hw' \in [Opens -> HwStates] /\ unsub' \subseteq Opens
        /\ device' \subseteq Opens
    BY <1>21 DEF OnError
  <2>3. /\ pc' \in [Threads -> MainStates \cup BgStates]
        /\ pc'["main"] \in MainStates /\ pc'["bg"] \in BgStates
        /\ chain' \in ChainStates /\ held' \in Opens \cup {NoOpen}
    BY <1>21 DEF OnError, Raise
  <2> QED  BY <1>21, <2>1, <2>2, <2>3 DEF OnError
<1>22. ASSUME NEW o \in Opens, OnConfigured(o) PROVE TypeOK'
  BY <1>22 DEF OnConfigured, Receive, Working
<1>23. ASSUME NEW o \in Opens, OnConfigureFailed(o) PROVE TypeOK'
  <2>1. queue' \in Seq(Messages)
    <3>1. Receive("onConfigureFailed", o)  BY <1>23 DEF OnConfigureFailed
    <3> HIDE DEF Messages, TypeOK, CallbackInv
    <3>2. queue \in Seq(Messages)  BY DEF TypeOK
    <3> QED  BY <3>1, <3>2, ReceiveType
  <2> QED  BY <1>23, <2>1 DEF OnConfigureFailed, Receive, Raise, Overtake
<1>24. CASE CreateSession  BY <1>24 DEF CreateSession, Raise
<1>25. CASE AssignSession  BY <1>25 DEF AssignSession
<1>26. CASE EmitSession  BY <1>26 DEF EmitSession
<1>27. CASE CreateRequest  BY <1>27 DEF CreateRequest, RequestThrows, Overtake
<1>28. CASE SetRepeatingRequest
  BY <1>28 DEF SetRepeatingRequest, RequestThrows, Overtake
<1>29. ASSUME NEW o \in Opens, Framework(o) PROVE TypeOK'
  <2>1. queue' \in Seq(Messages)
    <3>1. QueueInv(queue, sess)  BY DEF QueueInv
    <3> QED  BY <1>29, <3>1, FrameworkQueue
  <2>2. hw' \in [Opens -> HwStates] /\ sess' \in [Opens -> SessStates]
    BY <1>29 DEF Framework
  <2> QED  BY <1>29, <2>1, <2>2 DEF Framework
<1>30. CASE UNCHANGED vars  BY <1>30 DEF vars
<1> QED  BY <1>1, <1>2, <1>3, <1>4, <1>5, <1>6, <1>7, <1>8, <1>9,
    <1>10, <1>11, <1>12, <1>13, <1>14, <1>15, <1>16, <1>17, <1>18,
    <1>19, <1>20, <1>21, <1>22, <1>23, <1>24, <1>25, <1>26, <1>27,
    <1>28, <1>29, <1>30
    DEF Next, MainStep, BgStep, UserStep, Teardown, Killed, Threads

(* No step closes the device whose onOpened is in progress.                *)
LEMMA MutexStep ==
    ASSUME TypeOK, MutexInv, CallbackInv, [Next]_vars
    PROVE  MutexInv'
<1> USE DEF threads, subs, camera, capture, looper, Goto, Threads,
            TeardownStates, MainStates, BgStates, TypeOK, HwStates, MutexInv,
            CallbackInv
<1>1. CASE OnResume  BY <1>1 DEF OnResume
<1>2. CASE OnPause  BY <1>2 DEF OnPause
<1>3. CASE PermissionGranted
  BY <1>3 DEF PermissionGranted, TryOpen, OpenCamera, OpenFails, Working
<1>4. CASE PermissionDenied  BY <1>4 DEF PermissionDenied
<1>5. CASE SurfaceChanges
  BY <1>5 DEF SurfaceChanges, TryOpen, OpenCamera, OpenFails, Working
<1>6. CASE Attach  BY <1>6 DEF Attach
<1>7. CASE Cancel  BY <1>7 DEF Cancel
<1>8. CASE HideDialogs  BY <1>8 DEF HideDialogs
<1>9. CASE QuitSafely  BY <1>9 DEF QuitSafely
<1>10. CASE Join  BY <1>10 DEF Join
<1>11. ASSUME NEW t \in Threads, NEW o \in Opens, Unsubscribe(t, o)
       PROVE  MutexInv'
  BY <1>11 DEF Unsubscribe, Working
<1>12. ASSUME NEW t \in Threads, CloseDevice(t) PROVE MutexInv'
  BY <1>12 DEF CloseDevice
<1>13. ASSUME NEW t \in Threads, DevicesDone(t) PROVE MutexInv'
  BY <1>13 DEF DevicesDone
<1>14. ASSUME NEW t \in Threads, NEW o \in Opens, UnsubscribeSession(t, o)
       PROVE  MutexInv'
  BY <1>14 DEF UnsubscribeSession, Working, Subscribed
<1>15. ASSUME NEW t \in Threads, CloseSession(t) PROVE MutexInv'
  BY <1>15 DEF CloseSession
<1>16. ASSUME NEW t \in Threads, CloseReader(t) PROVE MutexInv'
  BY <1>16 DEF CloseReader
<1>17. ASSUME NEW t \in Threads, SessionsDone(t) PROVE MutexInv'
  BY <1>17 DEF SessionsDone, Subscribed
<1>18. ASSUME NEW t \in Threads, DeliverError(t) PROVE MutexInv'
  BY <1>18 DEF DeliverError
<1>19. ASSUME NEW t \in Threads, ShowAlert(t) PROVE MutexInv'
  BY <1>19 DEF ShowAlert
<1>20. ASSUME NEW o \in Opens, OnOpened(o) PROVE MutexInv'
  BY <1>20 DEF OnOpened, Receive, Working
<1>21. ASSUME NEW o \in Opens, OnError(o) PROVE MutexInv'
  BY <1>21 DEF OnError, Receive, Raise
<1>22. ASSUME NEW o \in Opens, OnConfigured(o) PROVE MutexInv'
  BY <1>22 DEF OnConfigured, Receive, Working
<1>23. ASSUME NEW o \in Opens, OnConfigureFailed(o) PROVE MutexInv'
  BY <1>23 DEF OnConfigureFailed, Receive, Raise, Overtake
<1>24. CASE CreateSession  BY <1>24 DEF CreateSession, Raise
<1>25. CASE AssignSession  BY <1>25 DEF AssignSession
<1>26. CASE EmitSession  BY <1>26 DEF EmitSession
<1>27. CASE CreateRequest  BY <1>27 DEF CreateRequest, RequestThrows, Overtake
<1>28. CASE SetRepeatingRequest
  BY <1>28 DEF SetRepeatingRequest, RequestThrows, Overtake
<1>29. ASSUME NEW o \in Opens, Framework(o) PROVE MutexInv'
  BY <1>29 DEF Framework, Post
<1>30. CASE UNCHANGED vars  BY <1>30 DEF vars
<1> QED  BY <1>1, <1>2, <1>3, <1>4, <1>5, <1>6, <1>7, <1>8, <1>9,
    <1>10, <1>11, <1>12, <1>13, <1>14, <1>15, <1>16, <1>17, <1>18,
    <1>19, <1>20, <1>21, <1>22, <1>23, <1>24, <1>25, <1>26, <1>27,
    <1>28, <1>29, <1>30
    DEF Next, MainStep, BgStep, UserStep, Teardown, Killed, Threads

(* A paused activity has no background work.                               *)
LEMMA QuiescentStep ==
    ASSUME TypeOK, QuiescentInv, [Next]_vars
    PROVE  QuiescentInv'
<1> USE DEF threads, subs, camera, capture, looper, Goto, Threads,
            TeardownStates, MainStates, BgStates, TypeOK, ChainStates,
            QuiescentInv
<1>1. CASE OnResume  BY <1>1 DEF OnResume
<1>2. CASE OnPause  BY <1>2 DEF OnPause
<1>3. CASE PermissionGranted
  BY <1>3 DEF PermissionGranted, TryOpen, OpenCamera, OpenFails, Working
<1>4. CASE PermissionDenied  BY <1>4 DEF PermissionDenied
<1>5. CASE SurfaceChanges
  BY <1>5 DEF SurfaceChanges, TryOpen, OpenCamera, OpenFails, Working
<1>6. CASE Attach  BY <1>6 DEF Attach
<1>7. CASE Cancel  BY <1>7 DEF Cancel
<1>8. CASE HideDialogs  BY <1>8 DEF HideDialogs
<1>9. CASE QuitSafely  BY <1>9 DEF QuitSafely
<1>10. CASE Join  BY <1>10 DEF Join
<1>11. ASSUME NEW t \in Threads, NEW o \in Opens, Unsubscribe(t, o)
       PROVE  QuiescentInv'
  BY <1>11 DEF Unsubscribe, Working
<1>12. ASSUME NEW t \in Threads, CloseDevice(t) PROVE QuiescentInv'
  BY <1>12 DEF CloseDevice
<1>13. ASSUME NEW t \in Threads, DevicesDone(t) PROVE QuiescentInv'
  BY <1>13 DEF DevicesDone
<1>14. ASSUME NEW t \in Threads, NEW o \in Opens, UnsubscribeSession(t, o)
       PROVE  QuiescentInv'
  BY <1>14 DEF UnsubscribeSession, Working, Subscribed
<1>15. ASSUME NEW t \in Threads, CloseSession(t) PROVE QuiescentInv'
  BY <1>15 DEF CloseSession
<1>16. ASSUME NEW t \in Threads, CloseReader(t) PROVE QuiescentInv'
  BY <1>16 DEF CloseReader
<1>17. ASSUME NEW t \in Threads, SessionsDone(t) PROVE QuiescentInv'
  BY <1>17 DEF SessionsDone, Subscribed
<1>18. ASSUME NEW t \in Threads, DeliverError(t) PROVE QuiescentInv'
  BY <1>18 DEF DeliverError
<1>19. ASSUME NEW t \in Threads, ShowAlert(t) PROVE QuiescentInv'
  BY <1>19 DEF ShowAlert
<1>20. ASSUME NEW o \in Opens, OnOpened(o) PROVE QuiescentInv'
  BY <1>20 DEF OnOpened, Receive, Working
<1>21. ASSUME NEW o \in Opens, OnError(o) PROVE QuiescentInv'
  BY <1>21 DEF OnError, Receive, Raise
<1>22. ASSUME NEW o \in Opens, OnConfigured(o) PROVE QuiescentInv'
  BY <1>22 DEF OnConfigured, Receive, Working
<1>23. ASSUME NEW o \in Opens, OnConfigureFailed(o) PROVE QuiescentInv'
  BY <1>23 DEF OnConfigureFailed, Receive, Raise, Overtake
<1>24. CASE CreateSession  BY <1>24 DEF CreateSession, Raise
<1>25. CASE AssignSession  BY <1>25 DEF AssignSession
<1>26. CASE EmitSession  BY <1>26 DEF EmitSession
<1>27. CASE CreateRequest  BY <1>27 DEF CreateRequest, RequestThrows, Overtake
<1>28. CASE SetRepeatingRequest
  BY <1>28 DEF SetRepeatingRequest, RequestThrows, Overtake
<1>29. ASSUME NEW o \in Opens, Framework(o) PROVE QuiescentInv'
  BY <1>29 DEF Framework, Post
<1>30. CASE UNCHANGED vars  BY <1>30 DEF vars
<1> QED  BY <1>1, <1>2, <1>3, <1>4, <1>5, <1>6, <1>7, <1>8, <1>9,
    <1>10, <1>11, <1>12, <1>13, <1>14, <1>15, <1>16, <1>17, <1>18,
    <1>19, <1>20, <1>21, <1>22, <1>23, <1>24, <1>25, <1>26, <1>27,
    <1>28, <1>29, <1>30
    DEF Next, MainStep, BgStep, UserStep, Teardown, Killed, Threads

(* The teardown runs only in a chain that ended, and somebody runs it.     *)
LEMMA TeardownStep ==
    ASSUME TypeOK, QuiescentInv, TeardownInv, [Next]_vars
    PROVE  TeardownInv'
<1> USE DEF threads, subs, camera, capture, looper, Goto, Threads,
            TeardownStates, MainStates, BgStates, TypeOK, ChainStates,
            Failing, QuiescentInv, TeardownInv
<1>1. CASE OnResume  BY <1>1 DEF OnResume
<1>2. CASE OnPause  BY <1>2 DEF OnPause
<1>3. CASE PermissionGranted
  BY <1>3 DEF PermissionGranted, TryOpen, OpenCamera, OpenFails, Working
<1>4. CASE PermissionDenied  BY <1>4 DEF PermissionDenied
<1>5. CASE SurfaceChanges
  BY <1>5 DEF SurfaceChanges, TryOpen, OpenCamera, OpenFails, Working
<1>6. CASE Attach  BY <1>6 DEF Attach
<1>7. CASE Cancel  BY <1>7 DEF Cancel
<1>8. CASE HideDialogs  BY <1>8 DEF HideDialogs
<1>9. CASE QuitSafely  BY <1>9 DEF QuitSafely
<1>10. CASE Join  BY <1>10 DEF Join
<1>11. ASSUME NEW t \in Threads, NEW o \in Opens, Unsubscribe(t, o)
       PROVE  TeardownInv'
  BY <1>11 DEF Unsubscribe, Working
<1>12. ASSUME NEW t \in Threads, CloseDevice(t) PROVE TeardownInv'
  BY <1>12 DEF CloseDevice
<1>13. ASSUME NEW t \in Threads, DevicesDone(t) PROVE TeardownInv'
  BY <1>13 DEF DevicesDone
<1>14. ASSUME NEW t \in Threads, NEW o \in Opens, UnsubscribeSession(t, o)
       PROVE  TeardownInv'
  BY <1>14 DEF UnsubscribeSession, Working, Subscribed
<1>15. ASSUME NEW t \in Threads, CloseSession(t) PROVE TeardownInv'
  BY <1>15 DEF CloseSession
<1>16. ASSUME NEW t \in Threads, CloseReader(t) PROVE TeardownInv'
  BY <1>16 DEF CloseReader
<1>17. ASSUME NEW t \in Threads, SessionsDone(t) PROVE TeardownInv'
  BY <1>17 DEF SessionsDone, Subscribed
<1>18. ASSUME NEW t \in Threads, DeliverError(t) PROVE TeardownInv'
  BY <1>18 DEF DeliverError
<1>19. ASSUME NEW t \in Threads, ShowAlert(t) PROVE TeardownInv'
  BY <1>19 DEF ShowAlert
<1>20. ASSUME NEW o \in Opens, OnOpened(o) PROVE TeardownInv'
  BY <1>20 DEF OnOpened, Receive, Working
<1>21. ASSUME NEW o \in Opens, OnError(o) PROVE TeardownInv'
  BY <1>21 DEF OnError, Receive, Raise
<1>22. ASSUME NEW o \in Opens, OnConfigured(o) PROVE TeardownInv'
  BY <1>22 DEF OnConfigured, Receive, Working
<1>23. ASSUME NEW o \in Opens, OnConfigureFailed(o) PROVE TeardownInv'
  BY <1>23 DEF OnConfigureFailed, Receive, Raise, Overtake
<1>24. CASE CreateSession  BY <1>24 DEF CreateSession, Raise
<1>25. CASE AssignSession  BY <1>25 DEF AssignSession
<1>26. CASE EmitSession  BY <1>26 DEF EmitSession
<1>27. CASE CreateRequest  BY <1>27 DEF CreateRequest, RequestThrows, Overtake
<1>28. CASE SetRepeatingRequest
  BY <1>28 DEF SetRepeatingRequest, RequestThrows, Overtake
<1>29. ASSUME NEW o \in Opens, Framework(o) PROVE TeardownInv'
  BY <1>29 DEF Framework, Post
<1>30. CASE UNCHANGED vars  BY <1>30 DEF vars
<1> QED  BY <1>1, <1>2, <1>3, <1>4, <1>5, <1>6, <1>7, <1>8, <1>9,
    <1>10, <1>11, <1>12, <1>13, <1>14, <1>15, <1>16, <1>17, <1>18,
    <1>19, <1>20, <1>21, <1>22, <1>23, <1>24, <1>25, <1>26, <1>27,
    <1>28, <1>29, <1>30
    DEF Next, MainStep, BgStep, UserStep, Teardown, Killed, Threads

(* Unsubscribed listeners and the state of the chain agree.                *)
LEMMA SubscriptionStep ==
    ASSUME TypeOK, QuiescentInv, TeardownInv, SubscriptionInv, FreshInv,
           CallbackInv, [Next]_vars
    PROVE  SubscriptionInv'
<1> USE DEF threads, subs, camera, capture, looper, Goto, Threads,
            TeardownStates, MainStates, BgStates, Closing, TypeOK,
            ChainStates, Messages, QuiescentInv, TeardownInv, SubscriptionInv,
            FreshInv, CallbackInv
<1>1. CASE OnResume  BY <1>1 DEF OnResume
<1>2. CASE OnPause  BY <1>2 DEF OnPause
<1>3. CASE PermissionGranted
  BY <1>3 DEF PermissionGranted, TryOpen, OpenCamera, OpenFails, Working
<1>4. CASE PermissionDenied  BY <1>4 DEF PermissionDenied
<1>5. CASE SurfaceChanges
  BY <1>5 DEF SurfaceChanges, TryOpen, OpenCamera, OpenFails, Working
<1>6. CASE Attach  BY <1>6 DEF Attach
<1>7. CASE Cancel  BY <1>7 DEF Cancel
<1>8. CASE HideDialogs  BY <1>8 DEF HideDialogs
<1>9. CASE QuitSafely  BY <1>9 DEF QuitSafely
<1>10. CASE Join  BY <1>10 DEF Join
<1>11. ASSUME NEW t \in Threads, NEW o \in Opens, Unsubscribe(t, o)
       PROVE  SubscriptionInv'
  BY <1>11 DEF Unsubscribe, Working
<1>12. ASSUME NEW t \in Threads, CloseDevice(t) PROVE SubscriptionInv'
  BY <1>12 DEF CloseDevice
<1>13. ASSUME NEW t \in Threads, DevicesDone(t) PROVE SubscriptionInv'
  BY <1>13 DEF DevicesDone
<1>14. ASSUME NEW t \in Threads, NEW o \in Opens, UnsubscribeSession(t, o)
       PROVE  SubscriptionInv'
  BY <1>14 DEF UnsubscribeSession, Working, Subscribed
<1>15. ASSUME NEW t \in Threads, CloseSession(t) PROVE SubscriptionInv'
  BY <1>15 DEF CloseSession
<1>16. ASSUME NEW t \in Threads, CloseReader(t) PROVE SubscriptionInv'
  BY <1>16 DEF CloseReader
<1>17. ASSUME NEW t \in Threads, SessionsDone(t) PROVE SubscriptionInv'
  BY <1>17 DEF SessionsDone, Subscribed
<1>18. ASSUME NEW t \in Threads, DeliverError(t) PROVE SubscriptionInv'
  BY <1>18 DEF DeliverError
<1>19. ASSUME NEW t \in Threads, ShowAlert(t) PROVE SubscriptionInv'
  BY <1>19 DEF ShowAlert
<1>20. ASSUME NEW o \in Opens, OnOpened(o) PROVE SubscriptionInv'
  BY <1>20 DEF OnOpened, Receive, Working
<1>21. ASSUME NEW o \in Opens, OnError(o) PROVE SubscriptionInv'
  BY <1>21 DEF OnError, Receive, Raise
<1>22. ASSUME NEW o \in Opens, OnConfigured(o) PROVE SubscriptionInv'
  BY <1>22 DEF OnConfigured, Receive, Working
<1>23. ASSUME NEW o \in Opens, OnConfigureFailed(o) PROVE SubscriptionInv'
  BY <1>23 DEF OnConfigureFailed, Receive, Raise, Overtake
<1>24. CASE CreateSession  BY <1>24 DEF CreateSession, Raise
<1>25. CASE AssignSession  BY <1>25 DEF AssignSession
<1>26. CASE EmitSession  BY <1>26 DEF EmitSession
<1>27. CASE CreateRequest  BY <1>27 DEF CreateRequest, RequestThrows, Overtake
<1>28. CASE SetRepeatingRequest
  BY <1>28 DEF SetRepeatingRequest, RequestThrows, Overtake
<1>29. ASSUME NEW o \in Opens, Framework(o) PROVE SubscriptionInv'
  BY <1>29 DEF Framework, Post
<1>30. CASE UNCHANGED vars  BY <1>30 DEF vars
<1> QED  BY <1>1, <1>2, <1>3, <1>4, <1>5, <1>6, <1>7, <1>8, <1>9,
    <1>10, <1>11, <1>12, <1>13, <1>14, <1>15, <1>16, <1>17, <1>18,
    <1>19, <1>20, <1>21, <1>22, <1>23, <1>24, <1>25, <1>26, <1>27,
    <1>28, <1>29, <1>30
    DEF Next, MainStep, BgStep, UserStep, Teardown, Killed, Threads

(* An unused identity carries no state.                                    *)
LEMMA FreshStep ==
    ASSUME TypeOK, QuiescentInv, SubscriptionInv, FreshInv, CallbackInv,
           [Next]_vars
    PROVE  FreshInv'
<1> USE DEF threads, subs, camera, capture, looper, Goto, Threads,
            TeardownStates, MainStates, BgStates, TypeOK, HwStates,
            SessStates, ReaderStates, Messages, QuiescentInv, SubscriptionInv,
            FreshInv, CallbackInv
<1>1. CASE OnResume  BY <1>1 DEF OnResume
<1>2. CASE OnPause  BY <1>2 DEF OnPause
<1>3. CASE PermissionGranted
  BY <1>3 DEF PermissionGranted, TryOpen, OpenCamera, OpenFails, Working
<1>4. CASE PermissionDenied  BY <1>4 DEF PermissionDenied
<1>5. CASE SurfaceChanges
  BY <1>5 DEF SurfaceChanges, TryOpen, OpenCamera, OpenFails, Working
<1>6. CASE Attach  BY <1>6 DEF Attach
<1>7. CASE Cancel  BY <1>7 DEF Cancel
<1>8. CASE HideDialogs  BY <1>8 DEF HideDialogs
<1>9. CASE QuitSafely  BY <1>9 DEF QuitSafely
<1>10. CASE Join  BY <1>10 DEF Join
<1>11. ASSUME NEW t \in Threads, NEW o \in Opens, Unsubscribe(t, o)
       PROVE  FreshInv'
  BY <1>11 DEF Unsubscribe, Working
<1>12. ASSUME NEW t \in Threads, CloseDevice(t) PROVE FreshInv'
  BY <1>12 DEF CloseDevice
<1>13. ASSUME NEW t \in Threads, DevicesDone(t) PROVE FreshInv'
  BY <1>13 DEF DevicesDone
<1>14. ASSUME NEW t \in Threads, NEW o \in Opens, UnsubscribeSession(t, o)
       PROVE  FreshInv'
  BY <1>14 DEF UnsubscribeSession, Working, Subscribed
<1>15. ASSUME NEW t \in Threads, CloseSession(t) PROVE FreshInv'
  BY <1>15 DEF CloseSession
<1>16. ASSUME NEW t \in Threads, CloseReader(t) PROVE FreshInv'
  BY <1>16 DEF CloseReader
<1>17. ASSUME NEW t \in Threads, SessionsDone(t) PROVE FreshInv'
  BY <1>17 DEF SessionsDone, Subscribed
<1>18. ASSUME NEW t \in Threads, DeliverError(t) PROVE FreshInv'
  BY <1>18 DEF DeliverError
<1>19. ASSUME NEW t \in Threads, ShowAlert(t) PROVE FreshInv'
  BY <1>19 DEF ShowAlert
<1>20. ASSUME NEW o \in Opens, OnOpened(o) PROVE FreshInv'
  BY <1>20 DEF OnOpened, Receive, Working
<1>21. ASSUME NEW o \in Opens, OnError(o) PROVE FreshInv'
  BY <1>21 DEF OnError, Receive, Raise
<1>22. ASSUME NEW o \in Opens, OnConfigured(o) PROVE FreshInv'
  BY <1>22 DEF OnConfigured, Receive, Working
<1>23. ASSUME NEW o \in Opens, OnConfigureFailed(o) PROVE FreshInv'
  BY <1>23 DEF OnConfigureFailed, Receive, Raise, Overtake
<1>24. CASE CreateSession  BY <1>24 DEF CreateSession, Raise
<1>25. CASE AssignSession  BY <1>25 DEF AssignSession
<1>26. CASE EmitSession  BY <1>26 DEF EmitSession
<1>27. CASE CreateRequest  BY <1>27 DEF CreateRequest, RequestThrows, Overtake
<1>28. CASE SetRepeatingRequest
  BY <1>28 DEF SetRepeatingRequest, RequestThrows, Overtake
<1>29. ASSUME NEW o \in Opens, Framework(o) PROVE FreshInv'
  BY <1>29 DEF Framework, Post
<1>30. CASE UNCHANGED vars  BY <1>30 DEF vars
<1> QED  BY <1>1, <1>2, <1>3, <1>4, <1>5, <1>6, <1>7, <1>8, <1>9,
    <1>10, <1>11, <1>12, <1>13, <1>14, <1>15, <1>16, <1>17, <1>18,
    <1>19, <1>20, <1>21, <1>22, <1>23, <1>24, <1>25, <1>26, <1>27,
    <1>28, <1>29, <1>30
    DEF Next, MainStep, BgStep, UserStep, Teardown, Killed, Threads

(* Callbacks concern listeners of this resume that got their device.       *)
LEMMA CallbackStep ==
    ASSUME TypeOK, QuiescentInv, SubscriptionInv, FreshInv, CallbackInv,
           [Next]_vars
    PROVE  CallbackInv'
<1> USE DEF threads, subs, camera, capture, looper, Goto, Threads,
            TeardownStates, MainStates, BgStates, Closing, TypeOK, SessStates,
            Callbacks, Messages, QuiescentInv, SubscriptionInv, FreshInv,
            CallbackInv
<1>1. CASE OnResume  BY <1>1 DEF OnResume
<1>2. CASE OnPause  BY <1>2 DEF OnPause
<1>3. CASE PermissionGranted
  BY <1>3 DEF PermissionGranted, TryOpen, OpenCamera, OpenFails, Working
<1>4. CASE PermissionDenied  BY <1>4 DEF PermissionDenied
<1>5. CASE SurfaceChanges
  BY <1>5 DEF SurfaceChanges, TryOpen, OpenCamera, OpenFails, Working
<1>6. CASE Attach  BY <1>6 DEF Attach
<1>7. CASE Cancel  BY <1>7 DEF Cancel
<1>8. CASE HideDialogs  BY <1>8 DEF HideDialogs
<1>9. CASE QuitSafely  BY <1>9 DEF QuitSafely
<1>10. CASE Join  BY <1>10 DEF Join
<1>11. ASSUME NEW t \in Threads, NEW o \in Opens, Unsubscribe(t, o)
       PROVE  CallbackInv'
  BY <1>11 DEF Unsubscribe, Working
<1>12. ASSUME NEW t \in Threads, CloseDevice(t) PROVE CallbackInv'
  BY <1>12 DEF CloseDevice
<1>13. ASSUME NEW t \in Threads, DevicesDone(t) PROVE CallbackInv'
  BY <1>13 DEF DevicesDone
<1>14. ASSUME NEW t \in Threads, NEW o \in Opens, UnsubscribeSession(t, o)
       PROVE  CallbackInv'
  BY <1>14 DEF UnsubscribeSession, Working, Subscribed
<1>15. ASSUME NEW t \in Threads, CloseSession(t) PROVE CallbackInv'
  <2>1. \A p \in Opens : sess[p] # "none" => sess'[p] # "none"
    BY <1>15 DEF CloseSession
  <2>2. UNCHANGED <<queue, mine, device, unsub, at>> /\ session' \subseteq session
    BY <1>15 DEF CloseSession
  <2>3. \A p \in Opens : sess'[p] # "none" => sess[p] # "none"
    BY <1>15 DEF CloseSession
  <2>4. \A i \in 1..Len(queue) : queue[i].cam \in Opens
    OBVIOUS
  <2> QED  BY <1>15, <2>1, <2>2, <2>3, <2>4 DEF CloseSession
<1>16. ASSUME NEW t \in Threads, CloseReader(t) PROVE CallbackInv'
  BY <1>16 DEF CloseReader
<1>17. ASSUME NEW t \in Threads, SessionsDone(t) PROVE CallbackInv'
  BY <1>17 DEF SessionsDone, Subscribed
<1>18. ASSUME NEW t \in Threads, DeliverError(t) PROVE CallbackInv'
  BY <1>18 DEF DeliverError
<1>19. ASSUME NEW t \in Threads, ShowAlert(t) PROVE CallbackInv'
  BY <1>19 DEF ShowAlert
<1>20. ASSUME NEW o \in Opens, OnOpened(o) PROVE CallbackInv'
  <2>1. QueueInv(queue, sess)
    BY DEF QueueInv
  <2>2. o \in mine /\ QueueInv(queue', sess)
    <3>1. Receive("onOpened", o)  BY <1>20 DEF OnOpened
    <3> HIDE DEF CallbackInv, Messages, TypeOK, Callbacks
    <3>2. queue \in Seq(Messages) /\ "onOpened" \in Callbacks
      BY DEF TypeOK, Callbacks
    <3> QED  BY <2>1, <3>1, <3>2, ReceiveLemma
  <2>3. QueueInv(queue', sess')
    BY <1>20, <2>2 DEF OnOpened, QueueInv
  <2>4. UNCHANGED <<mine, unsub, sess, session>> /\ device \subseteq device'
    BY <1>20 DEF OnOpened
  <2>5. \/ UNCHANGED <<pc, at>>
        \/ pc'["bg"] = "opened" /\ at'["bg"] = o /\ o \in device'
    BY <1>20 DEF OnOpened, Working
  <2>6. pc["bg"] = "idle"
    BY <1>20 DEF OnOpened, Receive
  <2> QED  BY <2>2, <2>3, <2>4, <2>5, <2>6 DEF QueueInv
<1>21. ASSUME NEW o \in Opens, OnError(o) PROVE CallbackInv'
  BY <1>21 DEF OnError, Receive, Raise
<1>22. ASSUME NEW o \in Opens, OnConfigured(o) PROVE CallbackInv'
  BY <1>22 DEF OnConfigured, Receive, Working
<1>23. ASSUME NEW o \in Opens, OnConfigureFailed(o) PROVE CallbackInv'
  <2>1. QueueInv(queue, sess)
    BY DEF QueueInv
  <2>2. /\ o \in mine /\ sess[o] # "none"
        /\ QueueInv(queue', sess) /\ queue' \in Seq(Messages)
    <3>1. Receive("onConfigureFailed", o)  BY <1>23 DEF OnConfigureFailed
    <3> HIDE DEF CallbackInv, Messages, TypeOK, Callbacks
    <3>2. queue \in Seq(Messages) /\ "onConfigureFailed" \in Callbacks
      BY DEF TypeOK, Callbacks
    <3> QED  BY <2>1, <3>1, <3>2, ReceiveLemma
  <2>3. \A p \in Opens : sess[p] # "none" => sess'[p] # "none"
    BY <1>23 DEF OnConfigureFailed
  <2>4. QueueInv(queue', sess')
    <3> SUFFICES ASSUME NEW i \in 1..Len(queue')
                 PROVE  /\ queue'[i].cam \in mine
                        /\ queue'[i].cb \in {"onConfigured", "onConfigureFailed"}
                             => sess'[queue'[i].cam] # "none"
      BY DEF QueueInv
    <3>1. queue'[i].cam \in mine /\ mine \subseteq Opens
      BY <2>2 DEF QueueInv
    <3>2. queue'[i].cb \in {"onConfigured", "onConfigureFailed"}
            => sess[queue'[i].cam] # "none"
      BY <2>2 DEF QueueInv
    <3> DEFINE p == queue'[i].cam
    <3>3. p \in Opens /\ (sess[p] # "none" => sess'[p] # "none")
      BY <2>3, <3>1
    <3> QED  BY <3>1, <3>2, <3>3
  <2>5. UNCHANGED <<at, mine, device, unsub>> /\ session' \subseteq session
        /\ pc'["bg"] \in {"idle", "unsubscribe", "sessions"}
    BY <1>23 DEF OnConfigureFailed, Raise, Overtake, Receive
  <2>6. \A p \in Opens : sess'[p] # "none" => sess[p] # "none"
    BY <1>23, <2>2 DEF OnConfigureFailed
  <2> QED  BY <1>23, <2>2, <2>3, <2>4, <2>5, <2>6
           DEF OnConfigureFailed, Raise, Overtake, Receive, QueueInv
<1>24. CASE CreateSession  BY <1>24 DEF CreateSession, Raise
<1>25. CASE AssignSession  BY <1>25 DEF AssignSession
<1>26. CASE EmitSession  BY <1>26 DEF EmitSession
<1>27. CASE CreateRequest  BY <1>27 DEF CreateRequest, RequestThrows, Overtake
<1>28. CASE SetRepeatingRequest
  BY <1>28 DEF SetRepeatingRequest, RequestThrows, Overtake
<1>29. ASSUME NEW o \in Opens, Framework(o) PROVE CallbackInv'
  <2>1. UNCHANGED <<pc, at, mine, device, unsub, session>>
    BY <1>29 DEF Framework
  <2>2. \A p \in Opens : (sess[p] = "none") <=> (sess'[p] = "none")
    BY <1>29 DEF Framework
  <2>3. QueueInv(queue', sess) /\ queue' \in Seq(Messages)
    <3>1. QueueInv(queue, sess)  BY DEF QueueInv
    <3> HIDE DEF CallbackInv, Messages, TypeOK, Callbacks
    <3>2. queue \in Seq(Messages)  BY DEF TypeOK
    <3> QED  BY <1>29, <3>1, <3>2, FrameworkQueue DEF TypeOK
  <2>4. QueueInv(queue', sess')
    <3>1. \A i \in 1..Len(queue') : queue'[i].cam \in mine
      BY <2>3 DEF QueueInv
    <3> QED  BY <2>2, <2>3, <3>1 DEF QueueInv
  <2> QED  BY <2>1, <2>2, <2>4 DEF QueueInv
<1>30. CASE UNCHANGED vars  BY <1>30 DEF vars
<1> QED  BY <1>1, <1>2, <1>3, <1>4, <1>5, <1>6, <1>7, <1>8, <1>9,
    <1>10, <1>11, <1>12, <1>13, <1>14, <1>15, <1>16, <1>17, <1>18,
    <1>19, <1>20, <1>21, <1>22, <1>23, <1>24, <1>25, <1>26, <1>27,
    <1>28, <1>29, <1>30
    DEF Next, MainStep, BgStep, UserStep, Teardown, Killed, Threads

(* A streaming device stays closable until it is closed.                   *)
LEMMA StreamStep ==
    ASSUME TypeOK, QuiescentInv, TeardownInv, SubscriptionInv, FreshInv,
           CallbackInv, StreamInv, PreviewCameraStopped, [Next]_vars
    PROVE  StreamInv'
<1> USE DEF threads, subs, camera, capture, looper, Goto, Threads,
            TeardownStates, MainStates, BgStates, Closing, Closable, Paused,
            Failing, Requesting, TypeOK, HwStates, Messages, QuiescentInv,
            TeardownInv, SubscriptionInv, FreshInv, CallbackInv, StreamInv,
            PreviewCameraStopped
<1>1. CASE OnResume  BY <1>1 DEF OnResume
<1>2. CASE OnPause  BY <1>2 DEF OnPause
<1>3. CASE PermissionGranted
  BY <1>3 DEF PermissionGranted, TryOpen, OpenCamera, OpenFails, Working
<1>4. CASE PermissionDenied  BY <1>4 DEF PermissionDenied
<1>5. CASE SurfaceChanges
  BY <1>5 DEF SurfaceChanges, TryOpen, OpenCamera, OpenFails, Working
<1>6. CASE Attach  BY <1>6 DEF Attach
<1>7. CASE Cancel  BY <1>7 DEF Cancel
<1>8. CASE HideDialogs  BY <1>8 DEF HideDialogs
<1>9. CASE QuitSafely  BY <1>9 DEF QuitSafely
<1>10. CASE Join  BY <1>10 DEF Join
<1>11. ASSUME NEW t \in Threads, NEW o \in Opens, Unsubscribe(t, o)
       PROVE  StreamInv'
  BY <1>11 DEF Unsubscribe, Working
<1>12. ASSUME NEW t \in Threads, CloseDevice(t) PROVE StreamInv'
  BY <1>12 DEF CloseDevice
<1>13. ASSUME NEW t \in Threads, DevicesDone(t) PROVE StreamInv'
  BY <1>13 DEF DevicesDone
<1>14. ASSUME NEW t \in Threads, NEW o \in Opens, UnsubscribeSession(t, o)
       PROVE  StreamInv'
  BY <1>14 DEF UnsubscribeSession, Working, Subscribed
<1>15. ASSUME NEW t \in Threads, CloseSession(t) PROVE StreamInv'
  BY <1>15 DEF CloseSession
<1>16. ASSUME NEW t \in Threads, CloseReader(t) PROVE StreamInv'
  BY <1>16 DEF CloseReader
<1>17. ASSUME NEW t \in Threads, SessionsDone(t) PROVE StreamInv'
  BY <1>17 DEF SessionsDone, Subscribed
<1>18. ASSUME NEW t \in Threads, DeliverError(t) PROVE StreamInv'
  BY <1>18 DEF DeliverError
<1>19. ASSUME NEW t \in Threads, ShowAlert(t) PROVE StreamInv'
  BY <1>19 DEF ShowAlert
<1>20. ASSUME NEW o \in Opens, OnOpened(o) PROVE StreamInv'
  BY <1>20 DEF OnOpened, Receive, Working
<1>21. ASSUME NEW o \in Opens, OnError(o) PROVE StreamInv'
  BY <1>21 DEF OnError, Receive, Raise
<1>22. ASSUME NEW o \in Opens, OnConfigured(o) PROVE StreamInv'
  BY <1>22 DEF OnConfigured, Receive, Working
<1>23. ASSUME NEW o \in Opens, OnConfigureFailed(o) PROVE StreamInv'
  BY <1>23 DEF OnConfigureFailed, Receive, Raise, Overtake
<1>24. CASE CreateSession  BY <1>24 DEF CreateSession, Raise
<1>25. CASE AssignSession  BY <1>25 DEF AssignSession
<1>26. CASE EmitSession  BY <1>26 DEF EmitSession
<1>27. CASE CreateRequest  BY <1>27 DEF CreateRequest, RequestThrows, Overtake
<1>28. CASE SetRepeatingRequest
  BY <1>28 DEF SetRepeatingRequest, RequestThrows, Overtake
<1>29. ASSUME NEW o \in Opens, Framework(o) PROVE StreamInv'
  <2>1. UNCHANGED <<pc, at, chain, disposed, mine, device, unsub>>
    BY <1>29 DEF Framework
  <2>2. \A p \in Opens : /\ hw'[p] = "streaming" => hw[p] = "streaming"
                         /\ hw[p] = "closed" => hw'[p] = "closed"
                         /\ sess'[p] # "none" => sess[p] # "none"
    BY <1>29 DEF Framework
  <2> QED  BY <2>1, <2>2
<1>30. CASE UNCHANGED vars  BY <1>30 DEF vars
<1> QED  BY <1>1, <1>2, <1>3, <1>4, <1>5, <1>6, <1>7, <1>8, <1>9,
    <1>10, <1>11, <1>12, <1>13, <1>14, <1>15, <1>16, <1>17, <1>18,
    <1>19, <1>20, <1>21, <1>22, <1>23, <1>24, <1>25, <1>26, <1>27,
    <1>28, <1>29, <1>30
    DEF Next, MainStep, BgStep, UserStep, Teardown, Killed, Threads

(* When the looper is joined every streaming device has been closed.       *)
LEMMA PreviewStep ==
    ASSUME TypeOK, QuiescentInv, TeardownInv, SubscriptionInv, StreamInv,
           PreviewCameraStopped, [Next]_vars
    PROVE  PreviewCameraStopped'
<1> USE DEF threads, subs, camera, capture, looper, Goto, Threads,
            TeardownStates, MainStates, BgStates, Closing, Closable, Paused,
            TypeOK, HwStates, QuiescentInv, TeardownInv, SubscriptionInv,
            StreamInv, PreviewCameraStopped, Failing, Requesting
<1>1. CASE OnResume  BY <1>1 DEF OnResume
<1>2. CASE OnPause  BY <1>2 DEF OnPause
<1>3. CASE PermissionGranted
  BY <1>3 DEF PermissionGranted, TryOpen, OpenCamera, OpenFails, Working
<1>4. CASE PermissionDenied  BY <1>4 DEF PermissionDenied
<1>5. CASE SurfaceChanges
  BY <1>5 DEF SurfaceChanges, TryOpen, OpenCamera, OpenFails, Working
<1>6. CASE Attach  BY <1>6 DEF Attach
<1>7. CASE Cancel  BY <1>7 DEF Cancel
<1>8. CASE HideDialogs  BY <1>8 DEF HideDialogs
<1>9. CASE QuitSafely  BY <1>9 DEF QuitSafely
<1>10. CASE Join  BY <1>10 DEF Join
<1>11. ASSUME NEW t \in Threads, NEW o \in Opens, Unsubscribe(t, o)
       PROVE  PreviewCameraStopped'
  BY <1>11 DEF Unsubscribe, Working
<1>12. ASSUME NEW t \in Threads, CloseDevice(t) PROVE PreviewCameraStopped'
  BY <1>12 DEF CloseDevice
<1>13. ASSUME NEW t \in Threads, DevicesDone(t) PROVE PreviewCameraStopped'
  BY <1>13 DEF DevicesDone
<1>14. ASSUME NEW t \in Threads, NEW o \in Opens, UnsubscribeSession(t, o)
       PROVE  PreviewCameraStopped'
  BY <1>14 DEF UnsubscribeSession, Working, Subscribed
<1>15. ASSUME NEW t \in Threads, CloseSession(t) PROVE PreviewCameraStopped'
  BY <1>15 DEF CloseSession
<1>16. ASSUME NEW t \in Threads, CloseReader(t) PROVE PreviewCameraStopped'
  BY <1>16 DEF CloseReader
<1>17. ASSUME NEW t \in Threads, SessionsDone(t) PROVE PreviewCameraStopped'
  BY <1>17 DEF SessionsDone, Subscribed
<1>18. ASSUME NEW t \in Threads, DeliverError(t) PROVE PreviewCameraStopped'
  BY <1>18 DEF DeliverError
<1>19. ASSUME NEW t \in Threads, ShowAlert(t) PROVE PreviewCameraStopped'
  BY <1>19 DEF ShowAlert
<1>20. ASSUME NEW o \in Opens, OnOpened(o) PROVE PreviewCameraStopped'
  BY <1>20 DEF OnOpened, Receive, Working
<1>21. ASSUME NEW o \in Opens, OnError(o) PROVE PreviewCameraStopped'
  BY <1>21 DEF OnError, Receive, Raise
<1>22. ASSUME NEW o \in Opens, OnConfigured(o) PROVE PreviewCameraStopped'
  BY <1>22 DEF OnConfigured, Receive, Working
<1>23. ASSUME NEW o \in Opens, OnConfigureFailed(o)
       PROVE  PreviewCameraStopped'
  BY <1>23 DEF OnConfigureFailed, Receive, Raise, Overtake
<1>24. CASE CreateSession  BY <1>24 DEF CreateSession, Raise
<1>25. CASE AssignSession  BY <1>25 DEF AssignSession
<1>26. CASE EmitSession  BY <1>26 DEF EmitSession
<1>27. CASE CreateRequest  BY <1>27 DEF CreateRequest, RequestThrows, Overtake
<1>28. CASE SetRepeatingRequest
  BY <1>28 DEF SetRepeatingRequest, RequestThrows, Overtake
<1>29. ASSUME NEW o \in Opens, Framework(o) PROVE PreviewCameraStopped'
  BY <1>29 DEF Framework, Post
<1>30. CASE UNCHANGED vars  BY <1>30 DEF vars
<1> QED  BY <1>1, <1>2, <1>3, <1>4, <1>5, <1>6, <1>7, <1>8, <1>9,
    <1>10, <1>11, <1>12, <1>13, <1>14, <1>15, <1>16, <1>17, <1>18,
    <1>19, <1>20, <1>21, <1>22, <1>23, <1>24, <1>25, <1>26, <1>27,
    <1>28, <1>29, <1>30
    DEF Next, MainStep, BgStep, UserStep, Teardown, Killed, Threads

(* onOpened is delivered once, so a device gets one session.               *)
LEMMA OnceStep ==
    ASSUME TypeOK, QuiescentInv, SubscriptionInv, FreshInv, CallbackInv,
           OnceInv, AllListenersDisposed, [Next]_vars
    PROVE  OnceInv'
<1> USE DEF threads, subs, camera, capture, looper, Goto, Threads,
            TeardownStates, MainStates, BgStates, Subscribed, Paused, TypeOK,
            HwStates, SessStates, ReaderStates, Callbacks, Messages,
            QuiescentInv, SubscriptionInv, FreshInv, CallbackInv, OnceInv,
            AllListenersDisposed
<1>1. CASE OnResume  BY <1>1 DEF OnResume
<1>2. CASE OnPause  BY <1>2 DEF OnPause
<1>3. CASE PermissionGranted
  BY <1>3 DEF PermissionGranted, TryOpen, OpenCamera, OpenFails, Working
<1>4. CASE PermissionDenied  BY <1>4 DEF PermissionDenied
<1>5. CASE SurfaceChanges
  BY <1>5 DEF SurfaceChanges, TryOpen, OpenCamera, OpenFails, Working
<1>6. CASE Attach  BY <1>6 DEF Attach
<1>7. CASE Cancel  BY <1>7 DEF Cancel
<1>8. CASE HideDialogs  BY <1>8 DEF HideDialogs
<1>9. CASE QuitSafely  BY <1>9 DEF QuitSafely
<1>10. CASE Join  BY <1>10 DEF Join
<1>11. ASSUME NEW t \in Threads, NEW o \in Opens, Unsubscribe(t, o)
       PROVE  OnceInv'
  BY <1>11 DEF Unsubscribe, Working
<1>12. ASSUME NEW t \in Threads, CloseDevice(t) PROVE OnceInv'
  BY <1>12 DEF CloseDevice
<1>13. ASSUME NEW t \in Threads, DevicesDone(t) PROVE OnceInv'
  BY <1>13 DEF DevicesDone
<1>14. ASSUME NEW t \in Threads, NEW o \in Opens, UnsubscribeSession(t, o)
       PROVE  OnceInv'
  BY <1>14 DEF UnsubscribeSession, Working, Subscribed
<1>15. ASSUME NEW t \in Threads, CloseSession(t) PROVE OnceInv'
  BY <1>15 DEF CloseSession
<1>16. ASSUME NEW t \in Threads, CloseReader(t) PROVE OnceInv'
  BY <1>16 DEF CloseReader
<1>17. ASSUME NEW t \in Threads, SessionsDone(t) PROVE OnceInv'
  BY <1>17 DEF SessionsDone, Subscribed
<1>18. ASSUME NEW t \in Threads, DeliverError(t) PROVE OnceInv'
  BY <1>18 DEF DeliverError
<1>19. ASSUME NEW t \in Threads, ShowAlert(t) PROVE OnceInv'
  BY <1>19 DEF ShowAlert
<1>20. ASSUME NEW o \in Opens, OnOpened(o) PROVE OnceInv'
  BY <1>20 DEF OnOpened, Receive, Working
<1>21. ASSUME NEW o \in Opens, OnError(o) PROVE OnceInv'
  BY <1>21 DEF OnError, Receive, Raise
<1>22. ASSUME NEW o \in Opens, OnConfigured(o) PROVE OnceInv'
  BY <1>22 DEF OnConfigured, Receive, Working
<1>23. ASSUME NEW o \in Opens, OnConfigureFailed(o) PROVE OnceInv'
  BY <1>23 DEF OnConfigureFailed, Receive, Raise, Overtake
<1>24. CASE CreateSession  BY <1>24 DEF CreateSession, Raise
<1>25. CASE AssignSession  BY <1>25 DEF AssignSession
<1>26. CASE EmitSession  BY <1>26 DEF EmitSession
<1>27. CASE CreateRequest  BY <1>27 DEF CreateRequest, RequestThrows, Overtake
<1>28. CASE SetRepeatingRequest
  BY <1>28 DEF SetRepeatingRequest, RequestThrows, Overtake
<1>29. ASSUME NEW o \in Opens, Framework(o) PROVE OnceInv'
  <2>1. UNCHANGED <<pc, at, sUnsub, reader>>
    BY <1>29 DEF Framework
  <2>2. \A p \in Opens : (sess[p] = "none") <=> (sess'[p] = "none")
    BY <1>29 DEF Framework
  <2>3. \A p \in Opens : hw'[p] \in {"unused", "opening"} => hw'[p] = hw[p]
    BY <1>29 DEF Framework
  <2>4. \A p \in Opens : hw[p] \notin {"unused", "opening"}
                          => hw'[p] \notin {"unused", "opening"}
    BY <1>29 DEF Framework
  <2>5. /\ \A p \in Opens :
             /\ sess'[p] = "none" => p \notin sUnsub' /\ reader'[p] = "none"
             /\ hw'[p] \in {"unused", "opening"} => sess'[p] = "none"
        /\ pc'["bg"] = "opened" => /\ sess'[at'["bg"]] = "none"
                                   /\ hw'[at'["bg"]] \notin {"unused", "opening"}
    BY <2>1, <2>2, <2>3, <2>4
  <2>6. CASE queue' = queue
    BY <2>1, <2>2, <2>4, <2>5, <2>6
  <2>7. ASSUME NEW cb \in Callbacks, o \in mine,
               queue' = Append(queue, [cb |-> cb, cam |-> o]),
               cb = "onOpened" => hw[o] = "opening" /\ hw'[o] = "open"
        PROVE  OnceInv'
    <3> DEFINE m == [cb |-> cb, cam |-> o]
    <3>1. m \in Messages /\ m.cb = cb /\ m.cam = o
      OBVIOUS
    <3> HIDE DEF m
    <3>2. /\ Len(queue') = Len(queue) + 1 /\ Len(queue) \in Nat
          /\ queue'[Len(queue) + 1] = m
          /\ \A i \in 1..Len(queue) : queue'[i] = queue[i]
      <4>1. queue' = Append(queue, m)  BY <2>7 DEF m
      <4>2. queue \in Seq(Messages)  OBVIOUS
      <4> HIDE DEF Messages
      <4> QED  BY <3>1, <4>1, <4>2
    <3>3. ASSUME m.cb = "onOpened"
          PROVE  \A i \in 1..Len(queue) :
                   queue[i].cb = "onOpened" => queue[i].cam # o
      BY <2>7, <3>1, <3>3
    <3> QED  BY <2>1, <2>2, <2>4, <2>5, <2>7, <3>1, <3>2, <3>3
  <2> QED  BY <1>29, <2>6, <2>7, FrameworkLemma
<1>30. CASE UNCHANGED vars  BY <1>30 DEF vars
<1> QED  BY <1>1, <1>2, <1>3, <1>4, <1>5, <1>6, <1>7, <1>8, <1>9,
    <1>10, <1>11, <1>12, <1>13, <1>14, <1>15, <1>16, <1>17, <1>18,
    <1>19, <1>20, <1>21, <1>22, <1>23, <1>24, <1>25, <1>26, <1>27,
    <1>28, <1>29, <1>30
    DEF Next, MainStep, BgStep, UserStep, Teardown, Killed, Threads

(* Main closed every device before it left its error to the request.       *)
LEMMA HandedOverClosed ==
    ASSUME TypeOK, TeardownInv, SubscriptionInv, StreamInv, HandedOver
    PROVE  hw[at["bg"]] = "closed"
BY DEF TypeOK, TeardownInv, SubscriptionInv, StreamInv, HandedOver, Closable,
       Closing, Requesting, Threads

(* Every open reader has a thread that will close it once the chain ended. *)
LEMMA ReleaseStep ==
    ASSUME TypeOK, QuiescentInv, TeardownInv, SubscriptionInv, FreshInv,
           CallbackInv, StreamInv, OnceInv, ReleaseInv, AllListenersDisposed,
           [Next]_vars
    PROVE  ReleaseInv'
<1> USE DEF threads, subs, camera, capture, looper, Goto, Threads,
            TeardownStates, MainStates, BgStates, Closing, Releasing,
            Subscribed, Paused, TypeOK, SessStates, ReaderStates, Messages,
            QuiescentInv, TeardownInv, SubscriptionInv, FreshInv, CallbackInv,
            OnceInv, ReleaseInv, AllListenersDisposed, HandedOver, Requesting,
            Failing
<1>1. CASE OnResume  BY <1>1 DEF OnResume
<1>2. CASE OnPause  BY <1>2 DEF OnPause
<1>3. CASE PermissionGranted
  BY <1>3 DEF PermissionGranted, TryOpen, OpenCamera, OpenFails, Working
<1>4. CASE PermissionDenied  BY <1>4 DEF PermissionDenied
<1>5. CASE SurfaceChanges
  BY <1>5 DEF SurfaceChanges, TryOpen, OpenCamera, OpenFails, Working
<1>6. CASE Attach  BY <1>6 DEF Attach
<1>7. CASE Cancel  BY <1>7 DEF Cancel
<1>8. CASE HideDialogs  BY <1>8 DEF HideDialogs
<1>9. CASE QuitSafely  BY <1>9 DEF QuitSafely
<1>10. CASE Join  BY <1>10 DEF Join
<1>11. ASSUME NEW t \in Threads, NEW o \in Opens, Unsubscribe(t, o)
       PROVE  ReleaseInv'
  BY <1>11 DEF Unsubscribe, Working
<1>12. ASSUME NEW t \in Threads, CloseDevice(t) PROVE ReleaseInv'
  BY <1>12 DEF CloseDevice
<1>13. ASSUME NEW t \in Threads, DevicesDone(t) PROVE ReleaseInv'
  BY <1>13 DEF DevicesDone
<1>14. ASSUME NEW t \in Threads, NEW o \in Opens, UnsubscribeSession(t, o)
       PROVE  ReleaseInv'
  BY <1>14 DEF UnsubscribeSession, Working, Subscribed
<1>15. ASSUME NEW t \in Threads, CloseSession(t) PROVE ReleaseInv'
  BY <1>15 DEF CloseSession
<1>16. ASSUME NEW t \in Threads, CloseReader(t) PROVE ReleaseInv'
  BY <1>16 DEF CloseReader
<1>17. ASSUME NEW t \in Threads, SessionsDone(t) PROVE ReleaseInv'
  BY <1>17 DEF SessionsDone, Subscribed
<1>18. ASSUME NEW t \in Threads, DeliverError(t) PROVE ReleaseInv'
  BY <1>18 DEF DeliverError
<1>19. ASSUME NEW t \in Threads, ShowAlert(t) PROVE ReleaseInv'
  BY <1>19 DEF ShowAlert
<1>20. ASSUME NEW o \in Opens, OnOpened(o) PROVE ReleaseInv'
  BY <1>20 DEF OnOpened, Receive, Working
<1>21. ASSUME NEW o \in Opens, OnError(o) PROVE ReleaseInv'
  BY <1>21 DEF OnError, Receive, Raise
<1>22. ASSUME NEW o \in Opens, OnConfigured(o) PROVE ReleaseInv'
  BY <1>22 DEF OnConfigured, Receive, Working
<1>23. ASSUME NEW o \in Opens, OnConfigureFailed(o) PROVE ReleaseInv'
  BY <1>23 DEF OnConfigureFailed, Receive, Raise, Overtake
<1>24. CASE CreateSession  BY <1>24 DEF CreateSession, Raise
<1>25. CASE AssignSession  BY <1>25 DEF AssignSession
<1>26. CASE EmitSession  BY <1>26 DEF EmitSession
<1>27. CASE CreateRequest
  BY <1>27, HandedOverClosed DEF CreateRequest, RequestThrows, Overtake
<1>28. CASE SetRepeatingRequest
  BY <1>28, HandedOverClosed DEF SetRepeatingRequest, RequestThrows, Overtake
<1>29. ASSUME NEW o \in Opens, Framework(o) PROVE ReleaseInv'
  <2>1. UNCHANGED <<pc, at, chain, mine, sUnsub, reader>>
    BY <1>29 DEF Framework
  <2>2. \A p \in Opens : sess'[p] # "none" => sess[p] # "none"
    BY <1>29 DEF Framework
  <2> QED  BY <2>1, <2>2
<1>30. CASE UNCHANGED vars  BY <1>30 DEF vars
<1> QED  BY <1>1, <1>2, <1>3, <1>4, <1>5, <1>6, <1>7, <1>8, <1>9,
    <1>10, <1>11, <1>12, <1>13, <1>14, <1>15, <1>16, <1>17, <1>18,
    <1>19, <1>20, <1>21, <1>22, <1>23, <1>24, <1>25, <1>26, <1>27,
    <1>28, <1>29, <1>30
    DEF Next, MainStep, BgStep, UserStep, Teardown, Killed, Threads

(* When the looper is joined every listener is disposed.                   *)
LEMMA ListenersStep ==
    ASSUME TypeOK, QuiescentInv, TeardownInv, SubscriptionInv, FreshInv,
           CallbackInv, ReleaseInv, AllListenersDisposed, [Next]_vars
    PROVE  AllListenersDisposed'
<1> USE DEF threads, subs, camera, capture, looper, Goto, Threads,
            TeardownStates, MainStates, BgStates, Closing, Releasing,
            Subscribed, Paused, TypeOK, SessStates, ReaderStates, Messages,
            QuiescentInv, TeardownInv, SubscriptionInv, FreshInv, CallbackInv,
            ReleaseInv, AllListenersDisposed, HandedOver, Requesting, Failing
<1>1. CASE OnResume  BY <1>1 DEF OnResume
<1>2. CASE OnPause  BY <1>2 DEF OnPause
<1>3. CASE PermissionGranted
  BY <1>3 DEF PermissionGranted, TryOpen, OpenCamera, OpenFails, Working
<1>4. CASE PermissionDenied  BY <1>4 DEF PermissionDenied
<1>5. CASE SurfaceChanges
  BY <1>5 DEF SurfaceChanges, TryOpen, OpenCamera, OpenFails, Working
<1>6. CASE Attach  BY <1>6 DEF Attach
<1>7. CASE Cancel  BY <1>7 DEF Cancel
<1>8. CASE HideDialogs  BY <1>8 DEF HideDialogs
<1>9. CASE QuitSafely  BY <1>9 DEF QuitSafely
<1>10. CASE Join  BY <1>10 DEF Join
<1>11. ASSUME NEW t \in Threads, NEW o \in Opens, Unsubscribe(t, o)
       PROVE  AllListenersDisposed'
  BY <1>11 DEF Unsubscribe, Working
<1>12. ASSUME NEW t \in Threads, CloseDevice(t) PROVE AllListenersDisposed'
  BY <1>12 DEF CloseDevice
<1>13. ASSUME NEW t \in Threads, DevicesDone(t) PROVE AllListenersDisposed'
  BY <1>13 DEF DevicesDone
<1>14. ASSUME NEW t \in Threads, NEW o \in Opens, UnsubscribeSession(t, o)
       PROVE  AllListenersDisposed'
  BY <1>14 DEF UnsubscribeSession, Working, Subscribed
<1>15. ASSUME NEW t \in Threads, CloseSession(t) PROVE AllListenersDisposed'
  BY <1>15 DEF CloseSession
<1>16. ASSUME NEW t \in Threads, CloseReader(t) PROVE AllListenersDisposed'
  BY <1>16 DEF CloseReader
<1>17. ASSUME NEW t \in Threads, SessionsDone(t) PROVE AllListenersDisposed'
  BY <1>17 DEF SessionsDone, Subscribed
<1>18. ASSUME NEW t \in Threads, DeliverError(t) PROVE AllListenersDisposed'
  BY <1>18 DEF DeliverError
<1>19. ASSUME NEW t \in Threads, ShowAlert(t) PROVE AllListenersDisposed'
  BY <1>19 DEF ShowAlert
<1>20. ASSUME NEW o \in Opens, OnOpened(o) PROVE AllListenersDisposed'
  BY <1>20 DEF OnOpened, Receive, Working
<1>21. ASSUME NEW o \in Opens, OnError(o) PROVE AllListenersDisposed'
  BY <1>21 DEF OnError, Receive, Raise
<1>22. ASSUME NEW o \in Opens, OnConfigured(o) PROVE AllListenersDisposed'
  BY <1>22 DEF OnConfigured, Receive, Working
<1>23. ASSUME NEW o \in Opens, OnConfigureFailed(o)
       PROVE  AllListenersDisposed'
  BY <1>23 DEF OnConfigureFailed, Receive, Raise, Overtake
<1>24. CASE CreateSession  BY <1>24 DEF CreateSession, Raise
<1>25. CASE AssignSession  BY <1>25 DEF AssignSession
<1>26. CASE EmitSession  BY <1>26 DEF EmitSession
<1>27. CASE CreateRequest  BY <1>27 DEF CreateRequest, RequestThrows, Overtake
<1>28. CASE SetRepeatingRequest
  BY <1>28 DEF SetRepeatingRequest, RequestThrows, Overtake
<1>29. ASSUME NEW o \in Opens, Framework(o) PROVE AllListenersDisposed'
  BY <1>29 DEF Framework, Post
<1>30. CASE UNCHANGED vars  BY <1>30 DEF vars
<1> QED  BY <1>1, <1>2, <1>3, <1>4, <1>5, <1>6, <1>7, <1>8, <1>9,
    <1>10, <1>11, <1>12, <1>13, <1>14, <1>15, <1>16, <1>17, <1>18,
    <1>19, <1>20, <1>21, <1>22, <1>23, <1>24, <1>25, <1>26, <1>27,
    <1>28, <1>29, <1>30
    DEF Next, MainStep, BgStep, UserStep, Teardown, Killed, Threads

(* A listener is unsubscribed once, so one thread disposes it.             *)
LEMMA DisposeStep ==
    ASSUME TypeOK, QuiescentInv, TeardownInv, SubscriptionInv,
           DisposedByOneThread, [Next]_vars
    PROVE  DisposedByOneThread'
<1> USE DEF threads, subs, camera, capture, looper, Goto, Threads,
            TeardownStates, MainStates, BgStates, Closing, TypeOK,
            QuiescentInv, TeardownInv, SubscriptionInv, DisposedByOneThread
<1>1. CASE OnResume  BY <1>1 DEF OnResume
<1>2. CASE OnPause  BY <1>2 DEF OnPause
<1>3. CASE PermissionGranted
  BY <1>3 DEF PermissionGranted, TryOpen, OpenCamera, OpenFails, Working
<1>4. CASE PermissionDenied  BY <1>4 DEF PermissionDenied
<1>5. CASE SurfaceChanges
  BY <1>5 DEF SurfaceChanges, TryOpen, OpenCamera, OpenFails, Working
<1>6. CASE Attach  BY <1>6 DEF Attach
<1>7. CASE Cancel  BY <1>7 DEF Cancel
<1>8. CASE HideDialogs  BY <1>8 DEF HideDialogs
<1>9. CASE QuitSafely  BY <1>9 DEF QuitSafely
<1>10. CASE Join  BY <1>10 DEF Join
<1>11. ASSUME NEW t \in Threads, NEW o \in Opens, Unsubscribe(t, o)
       PROVE  DisposedByOneThread'
  BY <1>11 DEF Unsubscribe, Working
<1>12. ASSUME NEW t \in Threads, CloseDevice(t) PROVE DisposedByOneThread'
  BY <1>12 DEF CloseDevice
<1>13. ASSUME NEW t \in Threads, DevicesDone(t) PROVE DisposedByOneThread'
  BY <1>13 DEF DevicesDone
<1>14. ASSUME NEW t \in Threads, NEW o \in Opens, UnsubscribeSession(t, o)
       PROVE  DisposedByOneThread'
  BY <1>14 DEF UnsubscribeSession, Working, Subscribed
<1>15. ASSUME NEW t \in Threads, CloseSession(t) PROVE DisposedByOneThread'
  BY <1>15 DEF CloseSession
<1>16. ASSUME NEW t \in Threads, CloseReader(t) PROVE DisposedByOneThread'
  BY <1>16 DEF CloseReader
<1>17. ASSUME NEW t \in Threads, SessionsDone(t) PROVE DisposedByOneThread'
  BY <1>17 DEF SessionsDone, Subscribed
<1>18. ASSUME NEW t \in Threads, DeliverError(t) PROVE DisposedByOneThread'
  BY <1>18 DEF DeliverError
<1>19. ASSUME NEW t \in Threads, ShowAlert(t) PROVE DisposedByOneThread'
  BY <1>19 DEF ShowAlert
<1>20. ASSUME NEW o \in Opens, OnOpened(o) PROVE DisposedByOneThread'
  BY <1>20 DEF OnOpened, Receive, Working
<1>21. ASSUME NEW o \in Opens, OnError(o) PROVE DisposedByOneThread'
  BY <1>21 DEF OnError, Receive, Raise
<1>22. ASSUME NEW o \in Opens, OnConfigured(o) PROVE DisposedByOneThread'
  BY <1>22 DEF OnConfigured, Receive, Working
<1>23. ASSUME NEW o \in Opens, OnConfigureFailed(o)
       PROVE  DisposedByOneThread'
  BY <1>23 DEF OnConfigureFailed, Receive, Raise, Overtake
<1>24. CASE CreateSession  BY <1>24 DEF CreateSession, Raise
<1>25. CASE AssignSession  BY <1>25 DEF AssignSession
<1>26. CASE EmitSession  BY <1>26 DEF EmitSession
<1>27. CASE CreateRequest  BY <1>27 DEF CreateRequest, RequestThrows, Overtake
<1>28. CASE SetRepeatingRequest
  BY <1>28 DEF SetRepeatingRequest, RequestThrows, Overtake
<1>29. ASSUME NEW o \in Opens, Framework(o) PROVE DisposedByOneThread'
  BY <1>29 DEF Framework, Post
<1>30. CASE UNCHANGED vars  BY <1>30 DEF vars
<1> QED  BY <1>1, <1>2, <1>3, <1>4, <1>5, <1>6, <1>7, <1>8, <1>9,
    <1>10, <1>11, <1>12, <1>13, <1>14, <1>15, <1>16, <1>17, <1>18,
    <1>19, <1>20, <1>21, <1>22, <1>23, <1>24, <1>25, <1>26, <1>27,
    <1>28, <1>29, <1>30
    DEF Next, MainStep, BgStep, UserStep, Teardown, Killed, Threads

-----------------------------------------------------------------------------
(* IInv is an inductive invariant of the specification.                    *)
THEOREM Invariance == Spec => []IInv
<1>1. Init => IInv
  BY InitIInv
<1>2. IInv /\ [Next]_vars => IInv'
  <2> SUFFICES ASSUME IInv, [Next]_vars PROVE IInv'
    OBVIOUS
  <2> USE DEF IInv
  <2>1. FlagsOK'  BY FlagsStep DEF TypeOK
  <2>2. TypeOK'  BY <2>1, TypeStep
  <2>3. MutexInv' /\ QuiescentInv' /\ TeardownInv'
    BY MutexStep, QuiescentStep, TeardownStep
  <2>4. SubscriptionInv' /\ FreshInv' /\ CallbackInv'
    BY SubscriptionStep, FreshStep, CallbackStep
  <2>5. StreamInv' /\ OnceInv' /\ ReleaseInv'
    BY StreamStep, OnceStep, ReleaseStep
  <2>6. PreviewCameraStopped' /\ AllListenersDisposed' /\ DisposedByOneThread'
    BY PreviewStep, ListenersStep, DisposeStep
  <2> QED  BY <2>2, <2>3, <2>4, <2>5, <2>6
<1> QED  BY <1>1, <1>2, PTL DEF Spec

(* The variables of the pipeline keep their types.                         *)
THEOREM TypeCorrect == Spec => []TypeOK
<1>1. IInv => TypeOK  BY DEF IInv
<1> QED  BY <1>1, Invariance, PTL

(* No interleaving of callbacks, errors and dispose calls leaves a camera  *)
(* streaming when onPause has returned.                                    *)
THEOREM PreviewStops == Spec => []PreviewCameraStopped
<1>1. IInv => PreviewCameraStopped  BY DEF IInv
<1> QED  BY <1>1, Invariance, PTL

(* No listener, session or reader of the chain stays subscribed after      *)
(* onPause.                                                                *)
THEOREM ListenersDisposed == Spec => []AllListenersDisposed
<1>1. IInv => AllListenersDisposed  BY DEF IInv
<1> QED  BY <1>1, Invariance, PTL

(* Two threads never dispose the same device or the same session.          *)
THEOREM SingleDispose == Spec => []DisposedByOneThread
<1>1. IInv => DisposedByOneThread  BY DEF IInv
<1> QED  BY <1>1, Invariance, PTL

(* No capture session is created on a camera that was closed.              *)
THEOREM MutexProtects == Spec => []NoSessionOnClosedCamera
<1>1. IInv => NoSessionOnClosedCamera
  BY DEF IInv, MutexInv, NoSessionOnClosedCamera
<1> QED  BY <1>1, Invariance, PTL
=============================================================================
