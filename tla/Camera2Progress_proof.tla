----------------------- MODULE Camera2Progress_proof -----------------------
(***************************************************************************)
(* Proofs of what keeps Camera2Pipeline going, for any set of open calls:  *)
(* a failure is never lost before it is shown, and while onPause blocks    *)
(* the main thread each step of the background thread decreases a natural  *)
(* number.  The eventualities PauseReturns and ErrorReported follow from   *)
(* these facts and from the fairness of the two threads.                   *)
(***************************************************************************)
EXTENDS Camera2Preview_proof, FiniteSetTheorems

(* Only a callback in progress holds the mutex of a camera.                *)
LockedInv == held # NoOpen => pc["bg"] \in {"opened"} \cup TeardownStates

(* The actions that take a callback out of those states release it.        *)
LEMMA LockedStep ==
    ASSUME TypeOK, LockedInv, [Next]_vars
    PROVE  LockedInv'
<1> USE DEF Goto, Threads, threads, subs, camera, capture, looper
<1>1. CASE UNCHANGED vars
  BY <1>1 DEF vars, LockedInv, TeardownStates, TypeOK, BgStates
<1>2. CASE OnResume
  BY <1>2 DEF OnResume, LockedInv, TeardownStates, TypeOK, BgStates
<1>3. CASE OnPause
  BY <1>3 DEF OnPause, LockedInv, TeardownStates, TypeOK, BgStates
<1>4. CASE PermissionGranted
  BY <1>4
     DEF PermissionGranted, TryOpen, OpenCamera, OpenFails, Working,
         LockedInv, TeardownStates, TypeOK, BgStates
<1>5. CASE PermissionDenied
  BY <1>5
     DEF PermissionDenied, LockedInv, TeardownStates, TypeOK, BgStates
<1>6. CASE SurfaceChanges
  BY <1>6
     DEF SurfaceChanges, TryOpen, OpenCamera, OpenFails, Working,
         LockedInv, TeardownStates, TypeOK, BgStates
<1>7. CASE Attach
  BY <1>7 DEF Attach, LockedInv, TeardownStates, TypeOK, BgStates
<1>8. CASE Cancel
  BY <1>8 DEF Cancel, LockedInv, TeardownStates, TypeOK, BgStates
<1>9. CASE HideDialogs
  BY <1>9 DEF HideDialogs, LockedInv, TeardownStates, TypeOK, BgStates
<1>10. CASE QuitSafely
  BY <1>10 DEF QuitSafely, LockedInv, TeardownStates, TypeOK, BgStates
<1>11. CASE Join
  BY <1>11 DEF Join, LockedInv, TeardownStates, TypeOK, BgStates
<1>12. ASSUME NEW t \in Threads, NEW o \in Opens, Unsubscribe(t, o)
       PROVE  LockedInv'
  BY <1>12
     DEF Unsubscribe, Working, LockedInv, TeardownStates, TypeOK,
         BgStates
<1>13. ASSUME NEW t \in Threads, CloseDevice(t) PROVE LockedInv'
  BY <1>13 DEF CloseDevice, LockedInv, TeardownStates, TypeOK, BgStates
<1>14. ASSUME NEW t \in Threads, DevicesDone(t) PROVE LockedInv'
  BY <1>14 DEF DevicesDone, LockedInv, TeardownStates, TypeOK, BgStates
<1>15. ASSUME NEW t \in Threads, NEW o \in Opens, UnsubscribeSession(t, o)
       PROVE  LockedInv'
  BY <1>15
     DEF UnsubscribeSession, Working, LockedInv, TeardownStates, TypeOK,
         BgStates
<1>16. ASSUME NEW t \in Threads, CloseSession(t) PROVE LockedInv'
  BY <1>16 DEF CloseSession, LockedInv, TeardownStates, TypeOK, BgStates
<1>17. ASSUME NEW t \in Threads, CloseReader(t) PROVE LockedInv'
  BY <1>17 DEF CloseReader, LockedInv, TeardownStates, TypeOK, BgStates
<1>18. ASSUME NEW t \in Threads, SessionsDone(t) PROVE LockedInv'
  BY <1>18 DEF SessionsDone, LockedInv, TeardownStates, TypeOK, BgStates
<1>19. ASSUME NEW t \in Threads, DeliverError(t) PROVE LockedInv'
  BY <1>19 DEF DeliverError, LockedInv, TeardownStates, TypeOK, BgStates
<1>20. ASSUME NEW t \in Threads, ShowAlert(t) PROVE LockedInv'
  BY <1>20 DEF ShowAlert, LockedInv, TeardownStates, TypeOK, BgStates
<1>21. ASSUME NEW o \in Opens, OnOpened(o) PROVE LockedInv'
  BY <1>21
     DEF OnOpened, Receive, Working, LockedInv, TeardownStates, TypeOK,
         BgStates
<1>22. ASSUME NEW o \in Opens, OnError(o) PROVE LockedInv'
  BY <1>22
     DEF OnError, Receive, Raise, LockedInv, TeardownStates, TypeOK,
         BgStates
<1>23. ASSUME NEW o \in Opens, OnConfigured(o) PROVE LockedInv'
  BY <1>23
     DEF OnConfigured, Receive, Working, LockedInv, TeardownStates,
         TypeOK, BgStates
<1>24. ASSUME NEW o \in Opens, OnConfigureFailed(o) PROVE LockedInv'
  BY <1>24
     DEF OnConfigureFailed, Receive, Raise, Overtake, LockedInv,
         TeardownStates, TypeOK, BgStates
<1>25. CASE CreateSession
  BY <1>25
     DEF CreateSession, Raise, LockedInv, TeardownStates, TypeOK,
         BgStates
<1>26. CASE AssignSession
  BY <1>26 DEF AssignSession, LockedInv, TeardownStates, TypeOK, BgStates
<1>27. CASE EmitSession
  BY <1>27 DEF EmitSession, LockedInv, TeardownStates, TypeOK, BgStates
<1>28. CASE CreateRequest
  BY <1>28
     DEF CreateRequest, RequestThrows, Overtake, LockedInv, TeardownStates,
         TypeOK, BgStates
<1>29. CASE SetRepeatingRequest
  BY <1>29
     DEF SetRepeatingRequest, RequestThrows, Overtake, LockedInv,
         TeardownStates, TypeOK, BgStates
<1>30. ASSUME NEW o \in Opens, Framework(o) PROVE LockedInv'
  BY <1>30 DEF Framework, LockedInv, TeardownStates, TypeOK, BgStates
<1> QED  BY <1>1, <1>2, <1>3, <1>4, <1>5, <1>6, <1>7, <1>8, <1>9, <1>10, <1>11,
   <1>12, <1>13, <1>14, <1>15, <1>16, <1>17, <1>18, <1>19, <1>20, <1>21,
   <1>22, <1>23, <1>24, <1>25, <1>26, <1>27, <1>28, <1>29, <1>30
  DEF Next, MainStep, BgStep, UserStep, Teardown, Killed

(* The looper quits in the last step of onPause before join().             *)
QuitInv == quit => pc["main"] \in {"join", "paused"}

(* Only onResume follows join(), and it prepares a new looper.             *)
LEMMA QuitStep ==
    ASSUME TypeOK, QuitInv, [Next]_vars
    PROVE  QuitInv'
<1> USE DEF Goto, Threads, threads, subs, camera, capture, looper
<1>1. CASE UNCHANGED vars
  BY <1>1 DEF vars, QuitInv, TypeOK, TeardownStates
<1>2. CASE OnResume
  BY <1>2 DEF OnResume, QuitInv, TypeOK, TeardownStates
<1>3. CASE OnPause
  BY <1>3 DEF OnPause, QuitInv, TypeOK, TeardownStates
<1>4. CASE PermissionGranted
  BY <1>4
     DEF PermissionGranted, TryOpen, OpenCamera, OpenFails, Working, QuitInv,
         TypeOK, TeardownStates
<1>5. CASE PermissionDenied
  BY <1>5 DEF PermissionDenied, QuitInv, TypeOK, TeardownStates
<1>6. CASE SurfaceChanges
  BY <1>6
     DEF SurfaceChanges, TryOpen, OpenCamera, OpenFails, Working, QuitInv,
         TypeOK, TeardownStates
<1>7. CASE Attach
  BY <1>7 DEF Attach, QuitInv, TypeOK, TeardownStates
<1>8. CASE Cancel
  BY <1>8 DEF Cancel, QuitInv, TypeOK, TeardownStates
<1>9. CASE HideDialogs
  BY <1>9 DEF HideDialogs, QuitInv, TypeOK, TeardownStates
<1>10. CASE QuitSafely
  BY <1>10 DEF QuitSafely, QuitInv, TypeOK, TeardownStates
<1>11. CASE Join
  BY <1>11 DEF Join, QuitInv, TypeOK, TeardownStates
<1>12. ASSUME NEW t \in Threads, NEW o \in Opens, Unsubscribe(t, o)
       PROVE  QuitInv'
  BY <1>12 DEF Unsubscribe, Working, QuitInv, TypeOK, TeardownStates
<1>13. ASSUME NEW t \in Threads, CloseDevice(t) PROVE QuitInv'
  BY <1>13 DEF CloseDevice, QuitInv, TypeOK, TeardownStates
<1>14. ASSUME NEW t \in Threads, DevicesDone(t) PROVE QuitInv'
  BY <1>14 DEF DevicesDone, QuitInv, TypeOK, TeardownStates
<1>15. ASSUME NEW t \in Threads, NEW o \in Opens, UnsubscribeSession(t, o)
       PROVE  QuitInv'
  BY <1>15 DEF UnsubscribeSession, Working, QuitInv, TypeOK, TeardownStates
<1>16. ASSUME NEW t \in Threads, CloseSession(t) PROVE QuitInv'
  BY <1>16 DEF CloseSession, QuitInv, TypeOK, TeardownStates
<1>17. ASSUME NEW t \in Threads, CloseReader(t) PROVE QuitInv'
  BY <1>17 DEF CloseReader, QuitInv, TypeOK, TeardownStates
<1>18. ASSUME NEW t \in Threads, SessionsDone(t) PROVE QuitInv'
  BY <1>18 DEF SessionsDone, QuitInv, TypeOK, TeardownStates
<1>19. ASSUME NEW t \in Threads, DeliverError(t) PROVE QuitInv'
  BY <1>19 DEF DeliverError, QuitInv, TypeOK, TeardownStates
<1>20. ASSUME NEW t \in Threads, ShowAlert(t) PROVE QuitInv'
  BY <1>20 DEF ShowAlert, QuitInv, TypeOK, TeardownStates
<1>21. ASSUME NEW o \in Opens, OnOpened(o) PROVE QuitInv'
  BY <1>21 DEF OnOpened, Receive, Working, QuitInv, TypeOK, TeardownStates
<1>22. ASSUME NEW o \in Opens, OnError(o) PROVE QuitInv'
  BY <1>22 DEF OnError, Receive, Raise, QuitInv, TypeOK, TeardownStates
<1>23. ASSUME NEW o \in Opens, OnConfigured(o) PROVE QuitInv'
  BY <1>23 DEF OnConfigured, Receive, Working, QuitInv, TypeOK, TeardownStates
<1>24. ASSUME NEW o \in Opens, OnConfigureFailed(o) PROVE QuitInv'
  BY <1>24
     DEF OnConfigureFailed, Receive, Raise, Overtake, QuitInv, TypeOK,
         TeardownStates
<1>25. CASE CreateSession
  BY <1>25 DEF CreateSession, Raise, QuitInv, TypeOK, TeardownStates
<1>26. CASE AssignSession
  BY <1>26 DEF AssignSession, QuitInv, TypeOK, TeardownStates
<1>27. CASE EmitSession
  BY <1>27 DEF EmitSession, QuitInv, TypeOK, TeardownStates
<1>28. CASE CreateRequest
  BY <1>28
     DEF CreateRequest, RequestThrows, Overtake, QuitInv, TypeOK,
         TeardownStates
<1>29. CASE SetRepeatingRequest
  BY <1>29
     DEF SetRepeatingRequest, RequestThrows, Overtake, QuitInv, TypeOK,
         TeardownStates
<1>30. ASSUME NEW o \in Opens, Framework(o) PROVE QuitInv'
  BY <1>30 DEF Framework, QuitInv, TypeOK, TeardownStates
<1> QED  BY <1>1, <1>2, <1>3, <1>4, <1>5, <1>6, <1>7, <1>8, <1>9, <1>10, <1>11,
   <1>12, <1>13, <1>14, <1>15, <1>16, <1>17, <1>18, <1>19, <1>20, <1>21,
   <1>22, <1>23, <1>24, <1>25, <1>26, <1>27, <1>28, <1>29, <1>30
  DEF Next, MainStep, BgStep, UserStep, Teardown, Killed

(* The first stages of the chain keep finitely many listeners ...          *)
FiniteInv == IsFiniteSet(attached) /\ IsFiniteSet(Subscribed)

(* ... since each step adds at most one.                                   *)
LEMMA FiniteStep ==
    ASSUME TypeOK, FiniteInv, [Next]_vars
    PROVE  FiniteInv'
<1> USE DEF Goto, Threads, threads, subs, camera, capture, looper
<1>1. CASE UNCHANGED vars
  BY <1>1 DEF vars, FiniteInv, Subscribed, TypeOK
<1>2. CASE OnResume
  <2>1. attached' = {} /\ Subscribed' \subseteq Subscribed
    BY <1>2 DEF OnResume, Subscribed, TypeOK
  <2> QED  BY <2>1, FS_EmptySet, FS_Subset DEF FiniteInv
<1>3. CASE OnPause
  BY <1>3 DEF OnPause, FiniteInv, Subscribed, TypeOK
<1>4. CASE PermissionGranted
  BY <1>4
     DEF PermissionGranted, TryOpen, OpenCamera, OpenFails, Working, FiniteInv,
         Subscribed, TypeOK
<1>5. CASE PermissionDenied
  BY <1>5 DEF PermissionDenied, FiniteInv, Subscribed, TypeOK
<1>6. CASE SurfaceChanges
  BY <1>6
     DEF SurfaceChanges, TryOpen, OpenCamera, OpenFails, Working, FiniteInv,
         Subscribed, TypeOK
<1>7. CASE Attach
  <2>1. /\ attached' = attached \cup {at["main"]}
        /\ Subscribed' = Subscribed
    BY <1>7 DEF Attach, Subscribed
  <2> QED  BY <2>1, FS_AddElement DEF FiniteInv
<1>8. CASE Cancel
  BY <1>8 DEF Cancel, FiniteInv, Subscribed, TypeOK
<1>9. CASE HideDialogs
  BY <1>9 DEF HideDialogs, FiniteInv, Subscribed, TypeOK
<1>10. CASE QuitSafely
  BY <1>10 DEF QuitSafely, FiniteInv, Subscribed, TypeOK
<1>11. CASE Join
  BY <1>11 DEF Join, FiniteInv, Subscribed, TypeOK
<1>12. ASSUME NEW t \in Threads, NEW o \in Opens, Unsubscribe(t, o)
       PROVE  FiniteInv'
  BY <1>12 DEF Unsubscribe, Working, FiniteInv, Subscribed, TypeOK
<1>13. ASSUME NEW t \in Threads, CloseDevice(t) PROVE FiniteInv'
  BY <1>13 DEF CloseDevice, FiniteInv, Subscribed, TypeOK
<1>14. ASSUME NEW t \in Threads, DevicesDone(t) PROVE FiniteInv'
  BY <1>14 DEF DevicesDone, FiniteInv, Subscribed, TypeOK
<1>15. ASSUME NEW t \in Threads, NEW o \in Opens, UnsubscribeSession(t, o)
       PROVE  FiniteInv'
  BY <1>15 DEF UnsubscribeSession, Working, FiniteInv, Subscribed, TypeOK
<1>16. ASSUME NEW t \in Threads, CloseSession(t) PROVE FiniteInv'
  BY <1>16 DEF CloseSession, FiniteInv, Subscribed, TypeOK
<1>17. ASSUME NEW t \in Threads, CloseReader(t) PROVE FiniteInv'
  <2>1. attached' = attached /\ Subscribed' \subseteq Subscribed
    BY <1>17 DEF CloseReader, Subscribed, TypeOK
  <2> QED  BY <2>1, FS_Subset DEF FiniteInv
<1>18. ASSUME NEW t \in Threads, SessionsDone(t) PROVE FiniteInv'
  BY <1>18 DEF SessionsDone, FiniteInv, Subscribed, TypeOK
<1>19. ASSUME NEW t \in Threads, DeliverError(t) PROVE FiniteInv'
  BY <1>19 DEF DeliverError, FiniteInv, Subscribed, TypeOK
<1>20. ASSUME NEW t \in Threads, ShowAlert(t) PROVE FiniteInv'
  BY <1>20 DEF ShowAlert, FiniteInv, Subscribed, TypeOK
<1>21. ASSUME NEW o \in Opens, OnOpened(o) PROVE FiniteInv'
  BY <1>21 DEF OnOpened, Receive, Working, FiniteInv, Subscribed, TypeOK
<1>22. ASSUME NEW o \in Opens, OnError(o) PROVE FiniteInv'
  BY <1>22 DEF OnError, Receive, Raise, FiniteInv, Subscribed, TypeOK
<1>23. ASSUME NEW o \in Opens, OnConfigured(o) PROVE FiniteInv'
  BY <1>23 DEF OnConfigured, Receive, Working, FiniteInv, Subscribed, TypeOK
<1>24. ASSUME NEW o \in Opens, OnConfigureFailed(o) PROVE FiniteInv'
  <2>1. attached' = attached /\ Subscribed' \subseteq Subscribed
    BY <1>24 DEF OnConfigureFailed, Subscribed, TypeOK
  <2> QED  BY <2>1, FS_Subset DEF FiniteInv
<1>25. CASE CreateSession
  <2>1. attached' = attached
    BY <1>25 DEF CreateSession
  <2>2. Subscribed' \subseteq Subscribed \cup {at["bg"]}
    BY <1>25 DEF CreateSession, Subscribed, TypeOK
  <2>3. IsFiniteSet(Subscribed \cup {at["bg"]})
    BY FS_AddElement DEF FiniteInv
  <2> QED  BY <2>1, <2>2, <2>3, FS_Subset DEF FiniteInv
<1>26. CASE AssignSession
  BY <1>26 DEF AssignSession, FiniteInv, Subscribed, TypeOK
<1>27. CASE EmitSession
  BY <1>27 DEF EmitSession, FiniteInv, Subscribed, TypeOK
<1>28. CASE CreateRequest
  BY <1>28
     DEF CreateRequest, RequestThrows, Overtake, FiniteInv, Subscribed, TypeOK
<1>29. CASE SetRepeatingRequest
  BY <1>29
     DEF SetRepeatingRequest, RequestThrows, Overtake, FiniteInv, Subscribed,
         TypeOK
<1>30. ASSUME NEW o \in Opens, Framework(o) PROVE FiniteInv'
  BY <1>30 DEF Framework, FiniteInv, Subscribed, TypeOK
<1> QED  BY <1>1, <1>2, <1>3, <1>4, <1>5, <1>6, <1>7, <1>8, <1>9, <1>10, <1>11,
   <1>12, <1>13, <1>14, <1>15, <1>16, <1>17, <1>18, <1>19, <1>20, <1>21,
   <1>22, <1>23, <1>24, <1>25, <1>26, <1>27, <1>28, <1>29, <1>30
  DEF Next, MainStep, BgStep, UserStep, Teardown, Killed

-----------------------------------------------------------------------------
(* FailureIsReported: first, that no onError is lost while the chain lives. *)

Queued(o) == \E i \in 1..Len(queue) : queue[i] = [cb |-> "onError", cam |-> o]

QueuedInv == chain = "live" => \A o \in mine :
                /\ hw[o] # "closed"
                /\ hw[o] = "failed" => Queued(o)

(* Another callback that is handled leaves an onError in the queue ...      *)
LEMMA ReceiveQueued ==
    ASSUME NEW cb, NEW o, queue \in Seq(Messages), Receive(cb, o),
           NEW x, cb # "onError" \/ o # x, Queued(x)
    PROVE  Queued(x)'
<1>1. PICK i \in 1..Len(queue) : queue[i] = [cb |-> "onError", cam |-> x]
  BY DEF Queued
<1>2. /\ queue # <<>> /\ queue' = Tail(queue)
      /\ queue[1] = [cb |-> cb, cam |-> o]
  BY DEF Receive
<1>3. queue[i].cb = "onError" /\ queue[i].cam = x
  BY <1>1
<1>4. queue[1].cb = cb /\ queue[1].cam = o
  BY <1>2
<1>5. i # 1
  BY <1>3, <1>4
<1>6. i - 1 \in 1..Len(queue') /\ queue'[i - 1] = queue[i]
  BY <1>2, <1>5
<1> QED  BY <1>1, <1>6 DEF Queued

(* ... and so does posting one, and a posted onError is in the queue.       *)
LEMMA PostQueued ==
    ASSUME NEW cb \in Callbacks, NEW o \in Opens, queue \in Seq(Messages),
           Post(cb, o), NEW x
    PROVE  /\ Queued(x) => Queued(x)'
           /\ cb = "onError" /\ o \in mine /\ ~quit => Queued(o)'
<1> DEFINE m == [cb |-> cb, cam |-> o]
<1>1. m \in Messages
  BY DEF Messages
<1>2. cb = "onError" => m = [cb |-> "onError", cam |-> o]
  OBVIOUS
<1>3. queue' = queue \/ queue' = Append(queue, m)
  BY Zenon DEF Post
<1>4. o \in mine /\ ~quit => queue' = Append(queue, m)
  BY Zenon DEF Post
<1> HIDE DEF m
<1>5. ASSUME queue' = Append(queue, m)
      PROVE  /\ Len(queue') \in 1..Len(queue') /\ queue'[Len(queue')] = m
             /\ \A i \in 1..Len(queue) :
                  i \in 1..Len(queue') /\ queue'[i] = queue[i]
  BY <1>1, <1>5
<1>6. Queued(x) => Queued(x)'
  BY <1>3, <1>5 DEF Queued
<1>7. cb = "onError" /\ o \in mine /\ ~quit => Queued(o)'
  BY <1>2, <1>4, <1>5 DEF Queued
<1> QED  BY <1>6, <1>7

(* An error that the chain does not hear of yet waits in the queue.        *)
LEMMA QueuedStep ==
    ASSUME TypeOK, TeardownInv, QuiescentInv, QuitInv, QueuedInv, [Next]_vars
    PROVE  QueuedInv'
<1> USE DEF Goto, Threads, threads, subs, camera, capture, looper
<1>1. CASE UNCHANGED vars
  BY <1>1
     DEF vars, QueuedInv, Queued, TypeOK, TeardownInv, TeardownStates,
         QuiescentInv
<1>2. CASE OnResume
  BY <1>2
     DEF OnResume, QueuedInv, Queued, TypeOK, TeardownInv, TeardownStates,
         QuiescentInv
<1>3. CASE OnPause
  BY <1>3
     DEF OnPause, QueuedInv, Queued, TypeOK, TeardownInv, TeardownStates,
         QuiescentInv
<1>4. CASE PermissionGranted
  BY <1>4
     DEF PermissionGranted, TryOpen, OpenCamera, OpenFails, Working, QueuedInv,
         Queued, TypeOK, TeardownInv, TeardownStates, QuiescentInv
<1>5. CASE PermissionDenied
  BY <1>5
     DEF PermissionDenied, QueuedInv, Queued, TypeOK, TeardownInv,
         TeardownStates, QuiescentInv
<1>6. CASE SurfaceChanges
  BY <1>6
     DEF SurfaceChanges, TryOpen, OpenCamera, OpenFails, Working, QueuedInv,
         Queued, TypeOK, TeardownInv, TeardownStates, QuiescentInv
<1>7. CASE Attach
  BY <1>7
     DEF Attach, QueuedInv, Queued, TypeOK, TeardownInv, TeardownStates,
         QuiescentInv
<1>8. CASE Cancel
  BY <1>8
     DEF Cancel, QueuedInv, Queued, TypeOK, TeardownInv, TeardownStates,
         QuiescentInv
<1>9. CASE HideDialogs
  BY <1>9
     DEF HideDialogs, QueuedInv, Queued, TypeOK, TeardownInv, TeardownStates,
         QuiescentInv
<1>10. CASE QuitSafely
  BY <1>10
     DEF QuitSafely, QueuedInv, Queued, TypeOK, TeardownInv, TeardownStates,
         QuiescentInv
<1>11. CASE Join
  BY <1>11
     DEF Join, QueuedInv, Queued, TypeOK, TeardownInv, TeardownStates,
         QuiescentInv
<1>12. ASSUME NEW t \in Threads, NEW o \in Opens, Unsubscribe(t, o)
       PROVE  QueuedInv'
  BY <1>12
     DEF Unsubscribe, Working, QueuedInv, Queued, TypeOK, TeardownInv,
         TeardownStates, QuiescentInv
<1>13. ASSUME NEW t \in Threads, CloseDevice(t) PROVE QueuedInv'
  BY <1>13
     DEF CloseDevice, QueuedInv, Queued, TypeOK, TeardownInv, TeardownStates,
         QuiescentInv
<1>14. ASSUME NEW t \in Threads, DevicesDone(t) PROVE QueuedInv'
  BY <1>14
     DEF DevicesDone, QueuedInv, Queued, TypeOK, TeardownInv, TeardownStates,
         QuiescentInv
<1>15. ASSUME NEW t \in Threads, NEW o \in Opens, UnsubscribeSession(t, o)
       PROVE  QueuedInv'
  BY <1>15
     DEF UnsubscribeSession, Working, QueuedInv, Queued, TypeOK, TeardownInv,
         TeardownStates, QuiescentInv
<1>16. ASSUME NEW t \in Threads, CloseSession(t) PROVE QueuedInv'
  BY <1>16
     DEF CloseSession, QueuedInv, Queued, TypeOK, TeardownInv, TeardownStates,
         QuiescentInv
<1>17. ASSUME NEW t \in Threads, CloseReader(t) PROVE QueuedInv'
  BY <1>17
     DEF CloseReader, QueuedInv, Queued, TypeOK, TeardownInv, TeardownStates,
         QuiescentInv
<1>18. ASSUME NEW t \in Threads, SessionsDone(t) PROVE QueuedInv'
  BY <1>18
     DEF SessionsDone, QueuedInv, Queued, TypeOK, TeardownInv, TeardownStates,
         QuiescentInv
<1>19. ASSUME NEW t \in Threads, DeliverError(t) PROVE QueuedInv'
  BY <1>19
     DEF DeliverError, QueuedInv, Queued, TypeOK, TeardownInv, TeardownStates,
         QuiescentInv
<1>20. ASSUME NEW t \in Threads, ShowAlert(t) PROVE QueuedInv'
  BY <1>20
     DEF ShowAlert, QueuedInv, Queued, TypeOK, TeardownInv, TeardownStates,
         QuiescentInv
<1>21. ASSUME NEW o \in Opens, OnOpened(o) PROVE QueuedInv'
  <2>1. Receive("onOpened", o)
    BY <1>21 DEF OnOpened
  <2>2. ASSUME NEW x, Queued(x) PROVE Queued(x)'
    BY <2>1, <2>2, ReceiveQueued DEF TypeOK
  <2>3. UNCHANGED <<hw, mine>> /\ (chain' = "live" => chain = "live")
    BY <1>21 DEF OnOpened
  <2> QED  BY <2>2, <2>3 DEF QueuedInv
<1>22. ASSUME NEW o \in Opens, OnError(o) PROVE QueuedInv'
  <2>1. CASE hw[o] = "closed"
    <3>1. Receive("onError", o) /\ UNCHANGED <<hw, chain, mine>>
      BY <1>22, <2>1 DEF OnError
    <3>2. ASSUME NEW x, x # o, Queued(x) PROVE Queued(x)'
      BY <3>1, <3>2, ReceiveQueued DEF TypeOK
    <3> QED  BY <2>1, <3>1, <3>2 DEF QueuedInv
  <2>2. CASE hw[o] # "closed"
    BY <1>22, <2>2 DEF OnError, Raise, QueuedInv
  <2> QED  BY <2>1, <2>2
<1>23. ASSUME NEW o \in Opens, OnConfigured(o) PROVE QueuedInv'
  <2>1. Receive("onConfigured", o)
    BY <1>23 DEF OnConfigured
  <2>2. ASSUME NEW x, Queued(x) PROVE Queued(x)'
    BY <2>1, <2>2, ReceiveQueued DEF TypeOK
  <2>3. UNCHANGED <<hw, mine>> /\ (chain' = "live" => chain = "live")
    BY <1>23 DEF OnConfigured
  <2> QED  BY <2>2, <2>3 DEF QueuedInv
<1>24. ASSUME NEW o \in Opens, OnConfigureFailed(o) PROVE QueuedInv'
  <2>1. Receive("onConfigureFailed", o)
    BY <1>24 DEF OnConfigureFailed
  <2>2. ASSUME NEW x, Queued(x) PROVE Queued(x)'
    BY <2>1, <2>2, ReceiveQueued DEF TypeOK
  <2>3. UNCHANGED <<hw, mine>> /\ (chain' = "live" => chain = "live")
    BY <1>24 DEF OnConfigureFailed, Raise, Overtake
  <2> QED  BY <2>2, <2>3 DEF QueuedInv
<1>25. CASE CreateSession
  BY <1>25
     DEF CreateSession, Raise, QueuedInv, Queued, TypeOK, TeardownInv,
         TeardownStates, QuiescentInv
<1>26. CASE AssignSession
  BY <1>26
     DEF AssignSession, QueuedInv, Queued, TypeOK, TeardownInv, TeardownStates,
         QuiescentInv
<1>27. CASE EmitSession
  BY <1>27
     DEF EmitSession, QueuedInv, Queued, TypeOK, TeardownInv, TeardownStates,
         QuiescentInv
<1>28. CASE CreateRequest
  BY <1>28
     DEF CreateRequest, RequestThrows, Overtake, QueuedInv, Queued, TypeOK,
         TeardownInv, TeardownStates, QuiescentInv
<1>29. CASE SetRepeatingRequest
  BY <1>29
     DEF SetRepeatingRequest, RequestThrows, Overtake, QueuedInv, Queued,
         TypeOK, TeardownInv, TeardownStates, QuiescentInv
<1>30. ASSUME NEW o \in Opens, Framework(o) PROVE QueuedInv'
  <2>1. SUFFICES ASSUME chain = "live", QueuedInv
                PROVE  QueuedInv'
    BY <1>30 DEF Framework, QueuedInv
  <2>2. ~quit
    BY <2>1 DEF QuitInv, TeardownInv
  <2>3. UNCHANGED <<chain, mine>>
    BY <1>30 DEF Framework
  <2>4. PICK cb \in Callbacks : Post(cb, o)
    BY <1>30 DEF Framework, Callbacks
  <2>5. ASSUME NEW x, Queued(x) PROVE Queued(x)'
    BY <2>4, <2>5, PostQueued DEF TypeOK
  <2>6. CASE UNCHANGED hw
    BY <2>1, <2>3, <2>5, <2>6 DEF QueuedInv
  <2>7. CASE hw' = [hw EXCEPT ![o] = "open"]
    BY <2>1, <2>3, <2>5, <2>7 DEF QueuedInv, TypeOK
  <2>8. CASE hw' = [hw EXCEPT ![o] = "failed"] /\ Post("onError", o)
    <3>1. o \in mine => Queued(o)'
      BY <2>2, <2>8, PostQueued DEF TypeOK, Callbacks
    <3> QED  BY <2>1, <2>3, <2>5, <2>8, <3>1 DEF QueuedInv, TypeOK
  <2> QED  BY <1>30, <2>6, <2>7, <2>8 DEF Framework
<1> QED  BY <1>1, <1>2, <1>3, <1>4, <1>5, <1>6, <1>7, <1>8, <1>9, <1>10, <1>11,
   <1>12, <1>13, <1>14, <1>15, <1>16, <1>17, <1>18, <1>19, <1>20, <1>21,
   <1>22, <1>23, <1>24, <1>25, <1>26, <1>27, <1>28, <1>29, <1>30
  DEF Next, MainStep, BgStep, UserStep, Teardown, Killed

(* Then, that whoever ended the chain goes on to show the alert.  An error *)
(* that overtook the one of main is shown by the background thread.        *)
ShownInv ==
    /\ chain \in {"cancelled", "ended", "drained"} /\ ~disposed
         => alert \/ HandedOver \/ \E t \in Threads : pc[t] \in TeardownStates
    /\ chain = "ended" => disposed \/ alert \/ pc["bg"] \in TeardownStates

(* An error of the background thread ends the chain, which it then tears   *)
(* down, or comes behind one that is shown, or that main goes on to show.  *)
LEMMA RaiseShown ==
    ASSUME TypeOK, ShownInv, NEW mutex, Raise(mutex),
           pc["bg"] \in {"idle", "opened"}, UNCHANGED <<disposed, alert>>
    PROVE  ShownInv'
<1>1. CASE chain' = "cancelled" /\ pc' = [pc EXCEPT !["bg"] = "unsubscribe"]
  BY <1>1 DEF ShownInv, TypeOK, Threads, TeardownStates
<1>2. CASE /\ chain \in {"cancelled", "ended", "drained"} /\ UNCHANGED chain
           /\ pc' = [pc EXCEPT !["bg"] = "idle"]
  <2>1. pc'["main"] = pc["main"] /\ pc["bg"] \notin TeardownStates \cup Requesting
    BY <1>2 DEF TypeOK, Threads, TeardownStates, Requesting
  <2>2. disposed \/ alert \/ pc["main"] \in TeardownStates
    BY <1>2, <2>1 DEF ShownInv, HandedOver, Threads
  <2>3. chain = "ended" => disposed \/ alert
    BY <2>1 DEF ShownInv
  <2> QED  BY <1>2, <2>1, <2>2, <2>3 DEF ShownInv, Threads
<1> QED  BY <1>1, <1>2 DEF Raise

(* Only onPause takes a thread off that way, or an alert down.             *)
LEMMA ShownStep ==
    ASSUME IInv, PhaseInv, ShownInv, [Next]_vars
    PROVE  ShownInv'
<1> USE DEF Goto, Threads, threads, subs, camera, capture, looper, HandedOver,
            Requesting
<1>0. TypeOK /\ QuiescentInv
  BY DEF IInv
<1>1. CASE UNCHANGED vars
  BY <1>0, <1>1
     DEF vars, ShownInv, PhaseInv, TypeOK, FlagsOK, TeardownStates, BgStates
<1>2. CASE OnResume
  BY <1>0, <1>2
     DEF OnResume, ShownInv, PhaseInv, TypeOK, FlagsOK, TeardownStates,
         BgStates
<1>3. CASE OnPause
  BY <1>0, <1>3
     DEF OnPause, ShownInv, PhaseInv, TypeOK, FlagsOK, TeardownStates, BgStates
<1>4. CASE PermissionGranted
  BY <1>0, <1>4
     DEF PermissionGranted, TryOpen, OpenCamera, OpenFails, Working, ShownInv,
         PhaseInv, TypeOK, FlagsOK, TeardownStates, BgStates
<1>5. CASE PermissionDenied
  BY <1>0, <1>5
     DEF PermissionDenied, ShownInv, PhaseInv, TypeOK, FlagsOK, TeardownStates,
         BgStates
<1>6. CASE SurfaceChanges
  BY <1>0, <1>6
     DEF SurfaceChanges, TryOpen, OpenCamera, OpenFails, Working, ShownInv,
         PhaseInv, TypeOK, FlagsOK, TeardownStates, BgStates
<1>7. CASE Attach
  BY <1>0, <1>7
     DEF Attach, ShownInv, PhaseInv, TypeOK, FlagsOK, TeardownStates, BgStates
<1>8. CASE Cancel
  BY <1>0, <1>8
     DEF Cancel, ShownInv, PhaseInv, TypeOK, FlagsOK, TeardownStates, BgStates
<1>9. CASE HideDialogs
  BY <1>0, <1>9
     DEF HideDialogs, ShownInv, PhaseInv, TypeOK, FlagsOK, TeardownStates,
         BgStates
<1>10. CASE QuitSafely
  BY <1>0, <1>10
     DEF QuitSafely, ShownInv, PhaseInv, TypeOK, FlagsOK, TeardownStates,
         BgStates
<1>11. CASE Join
  BY <1>0, <1>11
     DEF Join, ShownInv, PhaseInv, TypeOK, FlagsOK, TeardownStates, BgStates
<1>12. ASSUME NEW t \in Threads, NEW o \in Opens, Unsubscribe(t, o)
       PROVE  ShownInv'
  BY <1>0, <1>12
     DEF Unsubscribe, Working, ShownInv, PhaseInv, TypeOK, FlagsOK,
         TeardownStates, BgStates
<1>13. ASSUME NEW t \in Threads, CloseDevice(t) PROVE ShownInv'
  BY <1>0, <1>13
     DEF CloseDevice, ShownInv, PhaseInv, TypeOK, FlagsOK, TeardownStates,
         BgStates
<1>14. ASSUME NEW t \in Threads, DevicesDone(t) PROVE ShownInv'
  BY <1>0, <1>14
     DEF DevicesDone, ShownInv, PhaseInv, TypeOK, FlagsOK, TeardownStates,
         BgStates
<1>15. ASSUME NEW t \in Threads, NEW o \in Opens, UnsubscribeSession(t, o)
       PROVE  ShownInv'
  BY <1>0, <1>15
     DEF UnsubscribeSession, Working, ShownInv, PhaseInv, TypeOK, FlagsOK,
         TeardownStates, BgStates
<1>16. ASSUME NEW t \in Threads, CloseSession(t) PROVE ShownInv'
  BY <1>0, <1>16
     DEF CloseSession, ShownInv, PhaseInv, TypeOK, FlagsOK, TeardownStates,
         BgStates
<1>17. ASSUME NEW t \in Threads, CloseReader(t) PROVE ShownInv'
  BY <1>0, <1>17
     DEF CloseReader, ShownInv, PhaseInv, TypeOK, FlagsOK, TeardownStates,
         BgStates
<1>18. ASSUME NEW t \in Threads, SessionsDone(t) PROVE ShownInv'
  BY <1>0, <1>18
     DEF SessionsDone, ShownInv, PhaseInv, TypeOK, FlagsOK, TeardownStates,
         BgStates
<1>19. ASSUME NEW t \in Threads, DeliverError(t) PROVE ShownInv'
  BY <1>0, <1>19
     DEF DeliverError, ShownInv, PhaseInv, TypeOK, FlagsOK, TeardownStates,
         BgStates
<1>20. ASSUME NEW t \in Threads, ShowAlert(t) PROVE ShownInv'
  BY <1>0, <1>20
     DEF ShowAlert, ShownInv, PhaseInv, TypeOK, FlagsOK, TeardownStates,
         BgStates
<1>21. ASSUME NEW o \in Opens, OnOpened(o) PROVE ShownInv'
  BY <1>0, <1>21
     DEF OnOpened, Receive, Working, ShownInv, PhaseInv, TypeOK, FlagsOK,
         TeardownStates, BgStates
<1>22. ASSUME NEW o \in Opens, OnError(o) PROVE ShownInv'
  <2>1. CASE hw[o] = "closed"
    BY <1>0, <1>22, <2>1, Zenon DEF OnError, ShownInv
  <2>2. CASE hw[o] # "closed"
    BY <1>0, <1>22, <2>2, RaiseShown DEF OnError, Receive
  <2> QED  BY <2>1, <2>2
<1>23. ASSUME NEW o \in Opens, OnConfigured(o) PROVE ShownInv'
  BY <1>0, <1>23
     DEF OnConfigured, Receive, Working, ShownInv, PhaseInv, TypeOK, FlagsOK,
         TeardownStates, BgStates
<1>24. ASSUME NEW o \in Opens, OnConfigureFailed(o) PROVE ShownInv'
  <2>1. CASE o \in sUnsub
    BY <1>0, <1>24, <2>1, Zenon DEF OnConfigureFailed, ShownInv
  <2>2. CASE o \notin sUnsub /\ Failing
    BY <1>0, <1>24, <2>2
       DEF OnConfigureFailed, Overtake, ShownInv, TypeOK, TeardownStates
  <2>3. CASE o \notin sUnsub /\ ~Failing
    BY <1>0, <1>24, <2>3, RaiseShown DEF OnConfigureFailed, Receive
  <2> QED  BY <2>1, <2>2, <2>3
<1>25. CASE CreateSession
  <2>1. CASE Raise(at["bg"])
    BY <1>0, <1>25, <2>1, RaiseShown DEF CreateSession
  <2>2. CASE pc' = [pc EXCEPT !["bg"] = "idle"] /\ UNCHANGED <<chain, crashed>>
    BY <1>0, <1>25, <2>2 DEF CreateSession, ShownInv, TypeOK, TeardownStates
  <2> QED  BY <1>25, <2>1, <2>2 DEF CreateSession
<1>26. CASE AssignSession
  BY <1>0, <1>26
     DEF AssignSession, ShownInv, PhaseInv, TypeOK, FlagsOK, TeardownStates,
         BgStates
<1>27. CASE EmitSession
  BY <1>0, <1>27
     DEF EmitSession, ShownInv, PhaseInv, TypeOK, FlagsOK, TeardownStates,
         BgStates
<1>28. CASE CreateRequest
  <2>1. HandedOver => hw[at["bg"]] = "closed"
    BY HandedOverClosed DEF IInv
  <2> QED  BY <1>0, <1>28, <2>1
           DEF CreateRequest, RequestThrows, Overtake, ShownInv, TypeOK,
               TeardownStates
<1>29. CASE SetRepeatingRequest
  <2>1. HandedOver => hw[at["bg"]] = "closed"
    BY HandedOverClosed DEF IInv
  <2> QED  BY <1>0, <1>29, <2>1
           DEF SetRepeatingRequest, RequestThrows, Overtake, ShownInv, TypeOK,
               TeardownStates
<1>30. ASSUME NEW o \in Opens, Framework(o) PROVE ShownInv'
  BY <1>0, <1>30
     DEF Framework, ShownInv, PhaseInv, TypeOK, FlagsOK, TeardownStates,
         BgStates
<1> QED  BY <1>1, <1>2, <1>3, <1>4, <1>5, <1>6, <1>7, <1>8, <1>9, <1>10, <1>11,
   <1>12, <1>13, <1>14, <1>15, <1>16, <1>17, <1>18, <1>19, <1>20, <1>21,
   <1>22, <1>23, <1>24, <1>25, <1>26, <1>27, <1>28, <1>29, <1>30
  DEF Next, MainStep, BgStep, UserStep, Teardown, Killed

(* What this module adds to the invariants of the pipeline.                *)
GInv == LockedInv /\ QuitInv /\ FiniteInv /\ QueuedInv /\ ShownInv

(* No camera is open when the process starts.                              *)
LEMMA InitGInv == Init => GInv
<1> SUFFICES ASSUME Init PROVE GInv
  OBVIOUS
<1>1. LockedInv /\ QuitInv /\ QueuedInv /\ ShownInv
  BY DEF Init, LockedInv, QuitInv, QueuedInv, ShownInv
<1>2. attached = {} /\ Subscribed = {}
  BY DEF Init, Subscribed
<1> QED  BY <1>1, <1>2, FS_EmptySet DEF GInv, FiniteInv

(* GInv holds together with the invariants of the pipeline.                *)
THEOREM ProgressInvariance == Spec => []GInv
<1>1. Init => GInv
  BY InitGInv
<1>2. IInv /\ PInv /\ GInv /\ [Next]_vars => GInv'
  BY LockedStep, QuitStep, FiniteStep, QueuedStep, ShownStep
  DEF IInv, PInv, GInv
<1> QED  BY <1>1, <1>2, Invariance, PreviewInvariance, PTL DEF Spec

(* A camera failure under a live chain waits in the handler's queue, and   *)
(* the end of a chain nobody disposed is shown, or about to be.            *)
THEOREM FailureReported == Spec => []FailureIsReported
<1>1. GInv => FailureIsReported
  BY DEF GInv, QueuedInv, Queued, ShownInv, FailureIsReported
<1> QED  BY <1>1, ProgressInvariance, PTL

-----------------------------------------------------------------------------
(* WaitingEnds: the measure Remaining.                                     *)

(* How much each place in a callback counts.                               *)
LEMMA StepsTable ==
    /\ StepsLeft("idle") = 0 /\ StepsLeft("opened") = 1
    /\ StepsLeft("repeat") = 1 /\ StepsLeft("show") = 1
    /\ StepsLeft("request") = 2 /\ StepsLeft("alert") = 2
    /\ StepsLeft("emit") = 3 /\ StepsLeft("sessions") = 3
    /\ StepsLeft("assign") = 4 /\ StepsLeft("unsubscribe") = 4
    /\ StepsLeft("closeReader") = 4
    /\ StepsLeft("closeSession") = 5 /\ StepsLeft("close") = 5
  BY DEF StepsLeft

(* The measure is a natural number.                                        *)
LEMMA CountsType ==
    ASSUME TypeOK, FiniteInv
    PROVE  /\ StepsLeft(pc["bg"]) \in 0..5
           /\ Len(queue) \in Nat
           /\ IsFiniteSet(attached \ unsub)
           /\ IsFiniteSet(Subscribed \ sUnsub)
           /\ Cardinality(attached \ unsub) \in Nat
           /\ Cardinality(Subscribed \ sUnsub) \in Nat
           /\ ToHandle \in Nat /\ Remaining \in Nat
<1>1. StepsLeft(pc["bg"]) \in 0..5
  BY StepsTable DEF TypeOK, BgStates, TeardownStates
<1>2. Len(queue) \in Nat
  BY DEF TypeOK
<1>3. IsFiniteSet(attached \ unsub) /\ IsFiniteSet(Subscribed \ sUnsub)
  BY FS_Subset DEF FiniteInv
<1>4. /\ Cardinality(attached \ unsub) \in Nat
      /\ Cardinality(Subscribed \ sUnsub) \in Nat
  BY <1>3, FS_CardinalityType
<1>5. ToHandle \in Nat
  BY <1>2 DEF ToHandle
<1> QED  BY <1>1, <1>2, <1>3, <1>4, <1>5 DEF Remaining

(* What a step of the background thread does to the other summands when it *)
(* finds nothing new to dispose.                                           *)
Shrinks ==
    /\ attached' \ unsub' \subseteq attached \ unsub
    /\ Subscribed' \ sUnsub' \subseteq Subscribed \ sUnsub

(* Then the two cardinalities do not grow.                                 *)
LEMMA ShrinksCounts ==
    ASSUME TypeOK, FiniteInv, Shrinks
    PROVE  /\ Cardinality(attached' \ unsub') \in Nat
           /\ Cardinality(attached' \ unsub') <= Cardinality(attached \ unsub)
           /\ Cardinality(Subscribed' \ sUnsub') \in Nat
           /\ Cardinality(Subscribed' \ sUnsub')
                <= Cardinality(Subscribed \ sUnsub)
  BY CountsType, FS_Subset, FS_CardinalityType DEF Shrinks

(* The sum, for any values of its parts.                                   *)
Sum(q, a, s, r) == 5 * q + 2 * a + 3 * s + r

(* It is Remaining before and after a step.                                *)
LEMMA RemainingIsSum ==
    /\ Remaining = Sum(ToHandle, Cardinality(attached \ unsub),
                       Cardinality(Subscribed \ sUnsub), StepsLeft(pc["bg"]))
    /\ Remaining' = Sum(ToHandle', Cardinality(attached' \ unsub'),
                        Cardinality(Subscribed' \ sUnsub'),
                        StepsLeft(pc'["bg"]))
  BY DEF Remaining, Sum

(* A step further decreases it, ...                                        *)
LEMMA SumStep ==
    \A q, a, s, r, a1, s1, r1 \in Nat :
      a1 <= a /\ s1 <= s /\ r1 < r => Sum(q, a1, s1, r1) < Sum(q, a, s, r)
  BY DEF Sum

(* ... so do a message that starts a callback, ...                         *)
LEMMA SumMessage ==
    \A q, a, s, a1, s1, r1 \in Nat :
      q > 0 /\ a1 <= a /\ s1 <= s /\ r1 <= 4
        => Sum(q - 1, a1, s1, r1) < Sum(q, a, s, 0)
  BY DEF Sum

(* ... a device and a session that are disposed.                           *)
LEMMA SumDispose ==
    \A q, a, s \in Nat : /\ a > 0 => Sum(q, a - 1, s, 5) < Sum(q, a, s, 4)
                         /\ s > 0 => Sum(q, a, s - 1, 5) < Sum(q, a, s, 3)
  BY DEF Sum

(* A step further in a callback.                                           *)
LEMMA StepCounts ==
    ASSUME TypeOK, TypeOK', FiniteInv, Shrinks, pc'["main"] = pc["main"],
           queue' = queue, StepsLeft(pc'["bg"]) < StepsLeft(pc["bg"]),
           StepsLeft(pc'["bg"]) \in Nat
    PROVE  Remaining' < Remaining
<1>1. ToHandle' = ToHandle /\ ToHandle \in Nat
  BY CountsType DEF ToHandle
<1>2. StepsLeft(pc["bg"]) \in Nat
  BY CountsType
<1> QED  BY <1>1, <1>2, CountsType, ShrinksCounts, RemainingIsSum, SumStep

(* The first step of a callback that join() waits for.                     *)
LEMMA MessageCounts ==
    ASSUME TypeOK, TypeOK', FiniteInv, Shrinks, pc'["main"] = pc["main"],
           pc["main"] = "join", queue # <<>>, queue' = Tail(queue),
           pc["bg"] = "idle", StepsLeft(pc'["bg"]) \in 0..4
    PROVE  Remaining' < Remaining
<1>1. Len(queue) > 0 /\ Len(queue') = Len(queue) - 1
  BY DEF TypeOK
<1>2. ToHandle' = ToHandle - 1 /\ ToHandle > 0 /\ ToHandle \in Nat
  BY <1>1, CountsType DEF ToHandle
<1>3. StepsLeft(pc["bg"]) = 0
  BY StepsTable
<1>4. StepsLeft(pc'["bg"]) \in Nat /\ StepsLeft(pc'["bg"]) <= 4
  OBVIOUS
<1> QED
  BY <1>2, <1>3, <1>4, CountsType, ShrinksCounts, RemainingIsSum, SumMessage

(* One element less.                                                       *)
LEMMA OneLess ==
    ASSUME NEW S, IsFiniteSet(S), NEW x \in S, NEW T, T = S \ {x}
    PROVE  /\ Cardinality(T) = Cardinality(S) - 1
           /\ Cardinality(S) \in Nat /\ Cardinality(S) > 0
<1>1. Cardinality(T) = Cardinality(S) - 1
  BY FS_RemoveElement
<1>2. IsFiniteSet(T)
  BY FS_RemoveElement
<1>3. Cardinality(T) \in Nat /\ Cardinality(S) \in Nat
  BY <1>2, FS_CardinalityType
<1> QED  BY <1>1, <1>3

(* The dispose of a device, which comes back to look for the next one.     *)
LEMMA DeviceCounts ==
    ASSUME TypeOK, TypeOK', FiniteInv, pc'["main"] = pc["main"],
           queue' = queue, NEW o \in attached \ unsub,
           attached' \ unsub' = (attached \ unsub) \ {o},
           Subscribed' \ sUnsub' = Subscribed \ sUnsub,
           pc["bg"] = "unsubscribe", pc'["bg"] = "close"
    PROVE  Remaining' < Remaining
<1>1. /\ Cardinality(attached' \ unsub') = Cardinality(attached \ unsub) - 1
      /\ Cardinality(attached \ unsub) > 0
  BY CountsType, OneLess
<1>2. ToHandle' = ToHandle
  BY DEF ToHandle
<1>3. StepsLeft(pc["bg"]) = 4 /\ StepsLeft(pc'["bg"]) = 5
  BY StepsTable
<1> QED  BY <1>1, <1>2, <1>3, CountsType, RemainingIsSum, SumDispose

(* The dispose of a session, and of its reader.                            *)
LEMMA SessionCounts ==
    ASSUME TypeOK, TypeOK', FiniteInv, pc'["main"] = pc["main"],
           queue' = queue, NEW o \in Subscribed \ sUnsub,
           attached' \ unsub' = attached \ unsub,
           Subscribed' \ sUnsub' = (Subscribed \ sUnsub) \ {o},
           pc["bg"] = "sessions", pc'["bg"] = "closeSession"
    PROVE  Remaining' < Remaining
<1>1. /\ Cardinality(Subscribed' \ sUnsub')
           = Cardinality(Subscribed \ sUnsub) - 1
      /\ Cardinality(Subscribed \ sUnsub) > 0
  BY CountsType, OneLess
<1>2. ToHandle' = ToHandle
  BY DEF ToHandle
<1>3. StepsLeft(pc["bg"]) = 3 /\ StepsLeft(pc'["bg"]) = 5
  BY StepsTable
<1> QED  BY <1>1, <1>2, <1>3, CountsType, RemainingIsSum, SumDispose

(* Who waits for a mutex waits for a callback, which ends when it gives    *)
(* the mutex back; who waits in join() has a chain that is torn down, or   *)
(* being torn down by the background thread.                               *)
LEMMA WaitingFacts ==
    ASSUME IInv, GInv, MainWaits
    PROVE  \/ /\ pc["main"] = "join" /\ quit
              /\ chain = "drained" \/ pc["bg"] \in {"unsubscribe", "close"}
              /\ chain # "live"
           \/ /\ pc["main"] \in Closing
              /\ at["main"] \in Opens /\ at["main"] # NoOpen
              /\ held = at["main"]
              /\ pc["bg"] \in {"opened"} \cup TeardownStates
              /\ chain \notin {"live", "cut"}
<1>1. CASE pc["main"] = "join"
  <2>1. quit  BY <1>1 DEF IInv, QuiescentInv
  <2>2. chain \in {"cancelled", "ended", "drained"}
    BY <1>1 DEF IInv, TeardownInv
  <2>3. chain = "drained" \/ pc["bg"] \in {"unsubscribe", "close"}
    BY <1>1, <2>2 DEF IInv, TeardownInv, Threads
  <2> QED  BY <1>1, <2>1, <2>2, <2>3
<1>2. CASE pc["main"] \in Closing /\ held = at["main"]
  <2>1. at["main"] \in Opens
    BY <1>2 DEF IInv, SubscriptionInv, TypeOK, Threads
  <2>2. at["main"] # NoOpen
    BY <2>1, NoOpenAssumption
  <2>3. pc["bg"] \in {"opened"} \cup TeardownStates
    BY <1>2, <2>2 DEF GInv, LockedInv
  <2>4. chain \notin {"live", "cut"}
    BY <1>2 DEF IInv, TeardownInv, TeardownStates, Closing, Threads
  <2> QED  BY <1>2, <2>1, <2>2, <2>3, <2>4
<1> QED  BY <1>1, <1>2 DEF MainWaits

(* Every step of the background thread brings the end of the wait closer.  *)
LEMMA BgProgress ==
    ASSUME IInv, IInv', GInv, MainWaits, MainWaits', ~crashed', BgStep
    PROVE  Remaining' < Remaining
<1> USE DEF Goto, threads, subs, camera, capture, looper
<1>1. TypeOK /\ TypeOK' /\ FiniteInv
  BY DEF IInv, GInv
<1>2. /\ pc \in [Threads -> MainStates \cup BgStates]
      /\ "bg" \in Threads /\ "main" \in Threads
      /\ pc["bg"] \in BgStates
  BY <1>1 DEF TypeOK, Threads
<1>3. ASSUME pc["bg"] \notin {"opened"} \cup TeardownStates
      PROVE  /\ pc["main"] = "join"
             /\ chain = "drained"
  BY <1>3, WaitingFacts DEF TeardownStates
<1>4. ASSUME NEW o \in Opens, OnOpened(o) PROVE Remaining' < Remaining
  <2>1. /\ pc["bg"] = "idle" /\ queue # <<>> /\ queue' = Tail(queue)
        /\ pc'["bg"] \in {"idle", "opened"} /\ pc'["main"] = pc["main"]
        /\ UNCHANGED <<attached, unsub, reader, sUnsub>>
    BY <1>2, <1>4 DEF OnOpened, Receive
  <2> QED  BY <1>1, <1>3, <2>1, MessageCounts, StepsTable
           DEF Shrinks, Subscribed, TeardownStates
<1>5. ASSUME NEW o \in Opens, OnError(o) PROVE Remaining' < Remaining
  <2>1. pc["bg"] = "idle" /\ queue # <<>> /\ queue' = Tail(queue)
    BY <1>5 DEF OnError, Receive
  <2>2. hw[o] = "closed"
    BY <1>3, <1>5, <2>1 DEF OnError, Raise, TeardownStates
  <2>3. UNCHANGED <<pc, attached, unsub, reader, sUnsub>>
    BY <1>5, <2>2 DEF OnError
  <2> QED  BY <1>1, <1>3, <2>1, <2>3, MessageCounts, StepsTable
           DEF Shrinks, Subscribed, TeardownStates
<1>6. ASSUME NEW o \in Opens, OnConfigured(o) PROVE Remaining' < Remaining
  <2>1. /\ pc["bg"] = "idle" /\ queue # <<>> /\ queue' = Tail(queue)
        /\ pc'["bg"] \in {"idle", "assign"} /\ pc'["main"] = pc["main"]
        /\ UNCHANGED <<attached, unsub, reader, sUnsub>>
    BY <1>2, <1>6 DEF OnConfigured, Receive
  <2> QED  BY <1>1, <1>3, <2>1, MessageCounts, StepsTable
           DEF Shrinks, Subscribed, TeardownStates
<1>7. ASSUME NEW o \in Opens, OnConfigureFailed(o) PROVE Remaining' < Remaining
  <2>1. pc["bg"] = "idle" /\ queue # <<>> /\ queue' = Tail(queue)
    BY <1>7 DEF OnConfigureFailed, Receive
  <2>2. o \in sUnsub
    BY <1>3, <1>7, <2>1 DEF OnConfigureFailed, Raise, Failing, TeardownStates
  <2>3. UNCHANGED <<pc, attached, unsub, reader, sUnsub>>
    BY <1>7, <2>2 DEF OnConfigureFailed
  <2> QED  BY <1>1, <1>3, <2>1, <2>3, MessageCounts, StepsTable
           DEF Shrinks, Subscribed, TeardownStates
<1>8. ASSUME CreateSession PROVE Remaining' < Remaining
  <2>1. pc["bg"] = "opened" /\ UNCHANGED <<at, attached, unsub, sUnsub, queue>>
    BY <1>8 DEF CreateSession
  <2>2. ASSUME chain \notin {"live", "cut"}
        PROVE  /\ pc' = [pc EXCEPT !["bg"] = "idle"] /\ held' = NoOpen
               /\ chain = "drained" => UNCHANGED reader
    BY <1>8, <2>2 DEF CreateSession, Raise
  <2>3. CASE pc["main"] = "join" /\ chain = "drained"
    <3>1. pc'["bg"] = "idle" /\ pc'["main"] = pc["main"] /\ UNCHANGED reader
      BY <1>2, <2>2, <2>3
    <3> QED  BY <1>1, <2>1, <3>1, StepCounts, StepsTable
                DEF Shrinks, Subscribed
  <2>4. CASE pc["main"] \in Closing /\ chain \notin {"live", "cut"}
             /\ at["main"] # NoOpen
    <3>1. pc'["main"] = pc["main"] /\ held' # at'["main"]
      BY <1>2, <2>1, <2>2, <2>4
    <3> QED  BY <2>4, <3>1 DEF MainWaits, Closing
  <2> QED  BY <2>1, <2>3, <2>4, WaitingFacts
<1>9. ASSUME AssignSession PROVE Remaining' < Remaining
  <2>1. /\ pc["bg"] = "assign" /\ pc'["bg"] = "emit"
        /\ pc'["main"] = pc["main"]
        /\ UNCHANGED <<attached, unsub, reader, sUnsub, queue>>
    BY <1>2, <1>9 DEF AssignSession
  <2> QED  BY <1>1, <2>1, StepCounts, StepsTable DEF Shrinks, Subscribed
<1>10. ASSUME EmitSession PROVE Remaining' < Remaining
  <2>1. /\ pc["bg"] = "emit" /\ pc'["bg"] \in {"request", "idle"}
        /\ pc'["main"] = pc["main"]
        /\ UNCHANGED <<attached, unsub, reader, sUnsub, queue>>
    BY <1>2, <1>10 DEF EmitSession
  <2> QED  BY <1>1, <2>1, StepCounts, StepsTable DEF Shrinks, Subscribed
<1>11. ASSUME CreateRequest PROVE Remaining' < Remaining
  <2>1. pc["bg"] = "request" /\ UNCHANGED <<attached, unsub, reader, sUnsub, queue>>
    BY <1>11 DEF CreateRequest
  <2>2. pc' = [pc EXCEPT !["bg"] = "repeat"]
    BY <1>3, <1>11, <2>1
       DEF CreateRequest, RequestThrows, Failing, TeardownStates
  <2>3. pc'["bg"] = "repeat" /\ pc'["main"] = pc["main"]
    BY <1>2, <2>2
  <2> QED  BY <1>1, <2>1, <2>3, StepCounts, StepsTable DEF Shrinks, Subscribed
<1>12. ASSUME SetRepeatingRequest PROVE Remaining' < Remaining
  <2>1. /\ pc["bg"] = "repeat"
        /\ UNCHANGED <<attached, unsub, reader, sUnsub, queue>>
    BY <1>12 DEF SetRepeatingRequest
  <2>2. pc' = [pc EXCEPT !["bg"] = "idle"]
    BY <1>3, <1>12, <2>1
       DEF SetRepeatingRequest, RequestThrows, Failing, TeardownStates
  <2>3. pc'["bg"] = "idle" /\ pc'["main"] = pc["main"]
    BY <1>2, <2>2
  <2> QED  BY <1>1, <2>1, <2>3, StepCounts, StepsTable DEF Shrinks, Subscribed
<1>13. ASSUME NEW o \in Opens, Unsubscribe("bg", o) PROVE Remaining' < Remaining
  <2>1. /\ pc["bg"] = "unsubscribe" /\ pc'["bg"] = "close"
        /\ pc'["main"] = pc["main"] /\ o \in attached \ unsub
        /\ unsub' = unsub \cup {o}
        /\ UNCHANGED <<attached, reader, sUnsub, queue>>
    BY <1>2, <1>13 DEF Unsubscribe
  <2>2. /\ attached' \ unsub' = (attached \ unsub) \ {o}
        /\ Subscribed' \ sUnsub' = Subscribed \ sUnsub
    BY <2>1 DEF Subscribed
  <2> QED  BY <1>1, <2>1, <2>2, DeviceCounts
<1>14. ASSUME CloseDevice("bg") PROVE Remaining' < Remaining
  <2>1. /\ pc["bg"] = "close" /\ pc'["bg"] = "unsubscribe"
        /\ pc'["main"] = pc["main"]
        /\ UNCHANGED <<attached, unsub, reader, sUnsub, queue>>
    BY <1>2, <1>14 DEF CloseDevice, BgStates, TeardownStates
  <2> QED  BY <1>1, <2>1, StepCounts, StepsTable DEF Shrinks, Subscribed
<1>15. ASSUME DevicesDone("bg") PROVE Remaining' < Remaining
  <2>1. /\ pc["bg"] = "unsubscribe" /\ pc'["bg"] = "sessions"
        /\ pc'["main"] = pc["main"]
        /\ UNCHANGED <<attached, unsub, reader, sUnsub, queue>>
    BY <1>2, <1>15 DEF DevicesDone
  <2> QED  BY <1>1, <2>1, StepCounts, StepsTable DEF Shrinks, Subscribed
<1>16. ASSUME NEW o \in Opens, UnsubscribeSession("bg", o)
       PROVE  Remaining' < Remaining
  <2>1. /\ pc["bg"] = "sessions" /\ pc'["bg"] = "closeSession"
        /\ pc'["main"] = pc["main"] /\ o \in Subscribed \ sUnsub
        /\ sUnsub' = sUnsub \cup {o}
        /\ UNCHANGED <<attached, unsub, reader, queue>>
    BY <1>2, <1>16 DEF UnsubscribeSession
  <2>2. /\ attached' \ unsub' = attached \ unsub
        /\ Subscribed' \ sUnsub' = (Subscribed \ sUnsub) \ {o}
    BY <2>1 DEF Subscribed
  <2> QED  BY <1>1, <2>1, <2>2, SessionCounts
<1>17. ASSUME CloseSession("bg") PROVE Remaining' < Remaining
  <2>1. /\ pc["bg"] = "closeSession" /\ pc'["bg"] = "closeReader"
        /\ pc'["main"] = pc["main"]
        /\ UNCHANGED <<attached, unsub, reader, sUnsub, queue>>
    BY <1>2, <1>17 DEF CloseSession
  <2> QED  BY <1>1, <2>1, StepCounts, StepsTable DEF Shrinks, Subscribed
<1>18. ASSUME CloseReader("bg") PROVE Remaining' < Remaining
  <2>1. /\ pc["bg"] = "closeReader" /\ pc'["bg"] = "sessions"
        /\ pc'["main"] = pc["main"]
        /\ UNCHANGED <<attached, unsub, sUnsub, queue>>
    BY <1>2, <1>18 DEF CloseReader
  <2>2. Subscribed' \subseteq Subscribed
    BY <1>1, <1>18 DEF CloseReader, Subscribed, TypeOK
  <2> QED  BY <1>1, <2>1, <2>2, StepCounts, StepsTable DEF Shrinks
<1>19. ASSUME SessionsDone("bg") PROVE Remaining' < Remaining
  <2>1. /\ pc["bg"] = "sessions" /\ pc'["bg"] = "alert"
        /\ pc'["main"] = pc["main"]
        /\ UNCHANGED <<attached, unsub, reader, sUnsub, queue>>
    BY <1>2, <1>19 DEF SessionsDone
  <2> QED  BY <1>1, <2>1, StepCounts, StepsTable DEF Shrinks, Subscribed
<1>20. ASSUME DeliverError("bg") PROVE Remaining' < Remaining
  <2>1. /\ pc["bg"] = "alert" /\ pc'["bg"] \in {"idle", "show"}
        /\ pc'["main"] = pc["main"]
        /\ UNCHANGED <<attached, unsub, reader, sUnsub, queue>>
    BY <1>2, <1>20 DEF DeliverError
  <2> QED  BY <1>1, <2>1, StepCounts, StepsTable DEF Shrinks, Subscribed
<1>21. ASSUME ShowAlert("bg") PROVE Remaining' < Remaining
  <2>1. /\ pc["bg"] = "show" /\ pc'["bg"] = "idle"
        /\ pc'["main"] = pc["main"]
        /\ UNCHANGED <<attached, unsub, reader, sUnsub, queue>>
    BY <1>2, <1>21 DEF ShowAlert
  <2> QED  BY <1>1, <2>1, StepCounts, StepsTable DEF Shrinks, Subscribed
<1> QED  BY <1>4, <1>5, <1>6, <1>7, <1>8, <1>9, <1>10, <1>11, <1>12, <1>13,
   <1>14, <1>15, <1>16, <1>17, <1>18, <1>19, <1>20, <1>21 DEF BgStep, Teardown

(* While the main thread waits it takes no step, the user's included.      *)
LEMMA MainIsBlocked ==
    ASSUME IInv, MainWaits, MainStep \/ UserStep
    PROVE  FALSE
<1>1. pc["main"] \in {"close", "closeLate", "join"}
  BY DEF MainWaits, Closing
<1>2. ~UserStep
  BY <1>1
  DEF UserStep, OnResume, OnPause, PermissionGranted, PermissionDenied,
      SurfaceChanges, Goto
<1>3. ~CloseDevice("main") /\ ~Join
  BY DEF MainWaits, Closing, CloseDevice, Join, Goto
<1>4. ~MainStep
  BY <1>1, <1>3
  DEF MainStep, Attach, Cancel, HideDialogs, QuitSafely, Teardown, Unsubscribe,
      DevicesDone, UnsubscribeSession, CloseSession, CloseReader, SessionsDone,
      DeliverError, ShowAlert, Goto
<1> QED  BY <1>2, <1>4

(* The framework adds nothing to wait for: the looper has quit, or the     *)
(* main thread does not wait for its queue.                                *)
LEMMA FrameworkWaits ==
    ASSUME IInv, MainWaits, NEW o \in Opens, Framework(o)
    PROVE  UNCHANGED <<pc, Remaining>> /\ Len(queue') >= Len(queue)
<1> USE DEF threads, subs, camera, capture, looper
<1>1. /\ UNCHANGED <<pc, attached, unsub, sUnsub>>
      /\ Subscribed' = Subscribed
  BY DEF Framework, Subscribed
<1>2. PICK cb : Post(cb, o)
  BY DEF Framework
<1>3. pc["main"] = "join" => queue' = queue
  BY <1>2, Zenon DEF Post, IInv, QuiescentInv
<1>4. Len(queue') >= Len(queue)
  <2>1. queue \in Seq(Messages)
    BY DEF IInv, TypeOK
  <2>2. queue' = queue \/ queue' = Append(queue, [cb |-> cb, cam |-> o])
    BY <1>2, Zenon DEF Post
  <2> QED  BY <2>1, <2>2
<1>5. Remaining' = Remaining
  BY <1>1, <1>3 DEF Remaining, ToHandle
<1> QED  BY <1>1, <1>4, <1>5

(* onPause never waits forever for want of progress: a step taken while    *)
(* the main thread waits is one of the background thread, which decreases  *)
(* a natural number, or one of the framework, which leaves it alone.       *)
THEOREM PauseProgress == Spec => WaitingEnds
<1>1. ASSUME IInv, IInv', GInv, [Next]_vars, MainWaits, MainWaits', ~crashed'
      PROVE  \/ Remaining' < Remaining
             \/ UNCHANGED <<pc, Remaining>> /\ Len(queue') >= Len(queue)
  <2>1. CASE BgStep
    BY <1>1, <2>1, BgProgress
  <2>2. CASE MainStep \/ UserStep
    BY <1>1, <2>2, MainIsBlocked
  <2>3. CASE \E o \in Opens : Framework(o)
    BY <1>1, <2>3, FrameworkWaits
  <2>4. CASE UNCHANGED vars
    <3>1. Len(queue) \in Nat
      BY <1>1 DEF IInv, TypeOK
    <3> QED  BY <2>4, <3>1
             DEF vars, threads, subs, camera, capture, looper, Remaining,
                 ToHandle, Subscribed
  <2> QED  BY <1>1, <2>1, <2>2, <2>3, <2>4 DEF Next, Killed
<1>2. ASSUME IInv, IInv', GInv, [Next]_vars
      PROVE  [MainWaits /\ MainWaits' /\ ~crashed'
                => \/ Remaining' < Remaining
                   \/ /\ UNCHANGED <<pc, Remaining>>
                      /\ Len(queue') >= Len(queue)]_vars
  BY <1>1, <1>2
<1> QED  BY <1>2, Invariance, ProgressInvariance, PTL DEF Spec, WaitingEnds
=============================================================================
