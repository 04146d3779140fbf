-------------------------- MODULE Camera2Pipeline --------------------------
(***************************************************************************)
(* The camera preview of SampleOfCamera2ApiActivity1: the reactive chain   *)
(*                                                                         *)
(*   permission -> TextureView -> Camera2Observable                        *)
(*     -> Camera2CaptureSessionObservable + Camera2ImageReaderObservable   *)
(*     -> repeating capture request -> alert dialog on error               *)
(*                                                                         *)
(* that onResume subscribes and onPause disposes.  Two threads run it: the *)
(* main thread (lifecycle, surface and permission callbacks, dispose) and  *)
(* the handler thread CameraBackground (every camera callback).  An        *)
(* element of Opens stands for one subscription of Camera2Observable: its  *)
(* DisposableListener, the CameraDevice, and the capture session and image *)
(* reader created from that device.  The camera framework and RxJava are   *)
(* modelled from how the code uses them.                                   *)
(***************************************************************************)
EXTENDS Naturals, Sequences, FiniteSets

CONSTANTS Opens,      \* the openCamera calls (bounds their number)
          NoOpen      \* "no such call"

ASSUME NoOpenAssumption == NoOpen \notin Opens

VARIABLES
    pc,         \* where each thread is
    at,         \* the Camera2Observable subscription a thread is working on
    chain,      \* how far the reactive chain is: see ChainStates
    disposed,   \* mDisposables.clear() reached the LambdaObserver
    surface,    \* the TextureView has a SurfaceTexture
    mine,       \* openCamera calls made since the last onResume
    attached,   \* listeners handed to RxJava by observer.onSubscribe(listener)
    hw,         \* the CameraDevice of each open call, as the framework sees it
    unsub,      \* Camera2Observable listeners with mUnsubscribed set
    device,     \* those with mCameraDevice # null
    held,       \* the listener whose mMutex the background thread holds
    sess,       \* the CameraCaptureSession of each open call
    sUnsub,     \* Camera2CaptureSessionObservable listeners, mUnsubscribed set
    session,    \* those with mCaptureSession # null
    reader,     \* the ImageReader of each open call, as subscribed
    queue,      \* messages of mBackgroundHandler
    quit,       \* quitSafely() was called
    alert,      \* the alert dialog is showing
    crashed     \* an exception nobody handles killed the process

threads == <<pc, at>>
subs    == <<mine, attached>>
camera  == <<hw, unsub, device>>
capture == <<sess, sUnsub, session, reader>>
looper  == <<queue, quit>>
vars == <<threads, chain, disposed, surface, subs, camera, held, capture,
          looper, alert, crashed>>

Threads == {"main", "bg"}

TeardownStates == {"unsubscribe", "close", "sessions", "closeSession",
                   "closeReader", "alert", "show"}
MainStates == TeardownStates \cup
    {"paused", "idle", "attach", "closeLate", "cancel", "hide", "quit", "join"}
BgStates == TeardownStates \cup
    {"idle", "opened", "assign", "emit", "request", "repeat"}

(* asking: waiting for the permission.  live: every stage subscribed.      *)
(* cut: the stages after publish() are disposed, the camera stages not.    *)
(* cancelled: some thread is disposing the camera stages.  ended: an error *)
(* that came in behind them, on the background thread, ended the chain.    *)
(* drained: the flatMap of createCaptureSession takes no more inners.      *)
ChainStates == {"asking", "live", "cut", "cancelled", "ended", "drained"}
HwStates    == {"unused", "opening", "open", "streaming", "failed", "closed"}
SessStates  == {"none", "configuring", "configured", "failed", "closed"}
ReaderStates == {"none", "open", "closed"}
Callbacks   == {"onOpened", "onError", "onConfigured", "onConfigureFailed"}
Messages    == [cb : Callbacks, cam : Opens]

FlagsOK ==
    /\ disposed \in BOOLEAN /\ surface \in BOOLEAN /\ quit \in BOOLEAN
    /\ alert \in BOOLEAN /\ crashed \in BOOLEAN

TypeOK ==
    /\ pc \in [Threads -> MainStates \cup BgStates]
    /\ pc["main"] \in MainStates /\ pc["bg"] \in BgStates
    /\ at \in [Threads -> Opens \cup {NoOpen}]
    /\ chain \in ChainStates
    /\ FlagsOK
    /\ mine \subseteq Opens /\ attached \subseteq Opens
    /\ hw \in [Opens -> HwStates]
    /\ unsub \subseteq Opens /\ device \subseteq Opens
    /\ held \in Opens \cup {NoOpen}
    /\ sess \in [Opens -> SessStates]
    /\ sUnsub \subseteq Opens /\ session \subseteq Opens
    /\ reader \in [Opens -> ReaderStates]
    /\ queue \in Seq(Messages)

(* The process as the system starts it: no activity has resumed yet.       *)
Init ==
    /\ pc = [main |-> "paused", bg |-> "idle"]
    /\ at = [t \in Threads |-> NoOpen]
    /\ chain = "drained" /\ disposed = TRUE
    /\ surface = FALSE
    /\ mine = {} /\ attached = {}
    /\ hw = [o \in Opens |-> "unused"]
    /\ unsub = {} /\ device = {}
    /\ held = NoOpen
    /\ sess = [o \in Opens |-> "none"]
    /\ sUnsub = {} /\ session = {}
    /\ reader = [o \in Opens |-> "none"]
    /\ queue = <<>> /\ quit = TRUE
    /\ alert = FALSE /\ crashed = FALSE

-----------------------------------------------------------------------------
(* Helpers *)

Goto(t, from, to) == pc[t] = from /\ pc' = [pc EXCEPT ![t] = to]

Working(t, o) == at' = [at EXCEPT ![t] = o]

(* Handler.post: a message to a looper that quit, or that belonged to an   *)
(* earlier resume of the activity, is dropped.                             *)
Post(cb, o) ==
    queue' = IF quit \/ o \notin mine THEN queue
             ELSE Append(queue, [cb |-> cb, cam |-> o])

(* Main disposes the devices because opening another camera threw: the     *)
(* stages after createCaptureSession are still subscribed.  (Only asked on  *)
(* the background thread, which does not run callbacks while it disposes.) *)
Failing == chain = "cancelled" /\ ~disposed

Requesting == {"request", "repeat"}

(* Main left its error to the background thread, which is in onNext.       *)
HandedOver ==
    /\ chain = "drained" /\ pc["bg"] \in Requesting
    /\ pc["main"] \in {"idle", "cancel"}
Releasing == {"closeSession", "closeReader"}

Receive(cb, o) ==
    /\ pc["bg"] = "idle"
    /\ queue # <<>>
    /\ Head(queue) = [cb |-> cb, cam |-> o]
    /\ queue' = Tail(queue)
    /\ UNCHANGED quit

(* An error enters the chain on the background thread.  A chain that still *)
(* listens is torn down by this thread, under the mutex the callback took. *)
(* While the main thread disposes, the error is swallowed or reported to   *)
(* RxJavaPlugins.onError, and after that always reported: on Android the   *)
(* default handler kills the process.                                      *)
Raise(mutex) ==
    \/ /\ chain \in {"live", "cut"}
       /\ chain' = "cancelled" /\ held' = mutex
       /\ pc' = [pc EXCEPT !["bg"] = "unsubscribe"]
       /\ UNCHANGED crashed
    \/ /\ chain \in {"cancelled", "ended"}
       /\ held' = NoOpen
       /\ pc' = [pc EXCEPT !["bg"] = "idle"]
       /\ crashed' \in BOOLEAN
       /\ UNCHANGED chain
    \/ /\ chain = "drained"
       /\ held' = NoOpen
       /\ pc' = [pc EXCEPT !["bg"] = "idle"]
       /\ crashed' = TRUE
       /\ UNCHANGED chain

(* An error behind the camera stages while main fails to open a camera:    *)
(* the background thread disposes the sessions and shows this error.       *)
Overtake ==
    /\ chain' = "ended"
    /\ pc' = [pc EXCEPT !["bg"] = "sessions"]
    /\ UNCHANGED <<held, crashed>>

-----------------------------------------------------------------------------
(* Main thread: lifecycle, permission and surface callbacks *)

(* onResume: a new looper, a new chain, which asks for the permission.     *)
(* Open calls whose device is gone are reused as fresh identities.         *)
OnResume ==
    LET gone == {o \in Opens : hw[o] \in {"failed", "closed"}}
    IN  /\ Goto("main", "paused", "idle")
        /\ chain' = "asking" /\ disposed' = FALSE /\ quit' = FALSE
        /\ mine' = {} /\ attached' = {}
        /\ hw' = [o \in Opens |-> IF o \in gone THEN "unused" ELSE hw[o]]
        /\ unsub' = unsub \ gone /\ device' = device \ gone
        /\ sess' = [o \in Opens |-> IF o \in gone THEN "none" ELSE sess[o]]
        /\ sUnsub' = sUnsub \ gone /\ session' = session \ gone
        /\ reader' = [o \in Opens |-> IF o \in gone THEN "none" ELSE reader[o]]
        /\ UNCHANGED <<at, surface, held, queue, alert, crashed>>

(* The chain receives a Boolean from the TextureView and opens a camera,   *)
(* whatever the Boolean says.                                              *)
OpenCamera(o) ==
    /\ hw[o] = "unused"
    /\ hw' = [hw EXCEPT ![o] = "opening"]
    /\ mine' = mine \cup {o}
    /\ pc' = [pc EXCEPT !["main"] = "attach"] /\ Working("main", o)
    /\ chain' = "live"

(* configureCamera or openCamera throws: the main thread tears down.       *)
OpenFails ==
    /\ chain' = "cancelled"
    /\ pc' = [pc EXCEPT !["main"] = "unsubscribe"]
    /\ UNCHANGED <<at, hw, mine>>

TryOpen == OpenFails \/ \E o \in Opens : OpenCamera(o)

PermissionGranted ==
    /\ pc["main"] = "idle" /\ chain = "asking"
    /\ \/ surface /\ TryOpen
       \/ ~surface /\ chain' = "live" /\ UNCHANGED <<threads, hw, mine>>
    /\ UNCHANGED <<disposed, surface, attached, unsub, device, held, capture,
                   looper, alert, crashed>>

PermissionDenied ==
    /\ chain = "asking" /\ chain' = "drained"
    /\ Goto("main", "idle", "alert")
    /\ UNCHANGED <<at, disposed, surface, subs, camera, held, capture, looper,
                   alert, crashed>>

(* onSurfaceTextureAvailable emits true, onSurfaceTextureDestroyed false;  *)
(* without a live chain no listener is registered.                         *)
SurfaceChanges ==
    /\ pc["main"] \in {"idle", "paused"}
    /\ surface' = ~surface
    /\ \/ pc["main"] = "idle" /\ chain = "live" /\ TryOpen
       \/ chain # "live" /\ UNCHANGED <<threads, chain, hw, mine>>
    /\ UNCHANGED <<disposed, attached, unsub, device, held, capture, looper,
                   alert, crashed>>

(* FAULT: RxJava would keep a listener that comes after the chain ended.   *)
AttachWithoutDispose ==
    /\ pc["main"] = "attach"
    /\ attached' = attached \cup {at["main"]}
    /\ pc' = [pc EXCEPT !["main"] = "idle"]
    /\ UNCHANGED <<at, chain, disposed, surface, mine, camera, held, capture,
                   looper, alert, crashed>>

(* observer.onSubscribe(listener), after openCamera returned: RxJava       *)
(* disposes the listener at once if the chain ended meanwhile.             *)
Attach ==
    LET o == at["main"]
    IN  /\ pc["main"] = "attach"
        /\ attached' = attached \cup {o}
        /\ IF chain = "live" \/ o \in unsub
             THEN pc' = [pc EXCEPT !["main"] = "idle"] /\ UNCHANGED unsub
             ELSE pc' = [pc EXCEPT !["main"] = "closeLate"]
                  /\ unsub' = unsub \cup {o}
        /\ UNCHANGED <<at, chain, disposed, surface, mine, hw, device, held,
                       capture, looper, alert, crashed>>

(* onPause: mDisposables.clear() disposes the LambdaObserver and the stages *)
(* after publish() first, then (Cancel) the camera stages.                  *)
OnPause ==
    /\ Goto("main", "idle", "cancel")
    /\ disposed' = TRUE
    /\ chain' = IF chain \in {"asking", "live"} THEN "cut" ELSE chain
    /\ UNCHANGED <<at, surface, subs, camera, held, capture, looper, alert,
                   crashed>>

(* The camera stages are disposed by whoever cancels them first.  While    *)
(* the background thread is at the devices, the main thread already        *)
(* disposes the sessions.  An error handed over to the background thread    *)
(* and not delivered yet is fatal now.                                     *)
Cancel ==
    /\ \/ /\ chain = "cut" /\ chain' = "cancelled"
          /\ Goto("main", "cancel", "unsubscribe") /\ UNCHANGED crashed
       \/ /\ chain = "cancelled"
          /\ Goto("main", "cancel", "sessions") /\ UNCHANGED <<chain, crashed>>
       \/ /\ chain \in {"ended", "drained"} /\ ~HandedOver
          /\ Goto("main", "cancel", "hide") /\ UNCHANGED <<chain, crashed>>
       \/ /\ pc["main"] = "cancel" /\ HandedOver
          /\ crashed' = TRUE /\ UNCHANGED <<pc, chain>>
    /\ UNCHANGED <<at, disposed, surface, subs, camera, held, capture, looper,
                   alert>>

HideDialogs ==
    /\ Goto("main", "hide", "quit")
    /\ alert' = FALSE
    /\ UNCHANGED <<at, chain, disposed, surface, subs, camera, held, capture,
                   looper, crashed>>

QuitSafely ==
    /\ Goto("main", "quit", "join")
    /\ quit' = TRUE
    /\ UNCHANGED <<at, chain, disposed, surface, subs, camera, held, capture,
                   queue, alert, crashed>>

(* FAULT: onPause does not wait for the handler thread.                    *)
JoinAtOnce ==
    /\ Goto("main", "join", "paused")
    /\ UNCHANGED <<at, chain, disposed, surface, subs, camera, held, capture,
                   looper, alert, crashed>>

(* join() returns when the looper handled every message posted before.     *)
Join ==
    /\ pc["bg"] = "idle" /\ queue = <<>>
    /\ Goto("main", "join", "paused")
    /\ UNCHANGED <<at, chain, disposed, surface, subs, camera, held, capture,
                   looper, alert, crashed>>

-----------------------------------------------------------------------------
(* Disposing the camera stages: devices, then sessions, then readers.  The *)
(* thread that ended the chain does it.                                    *)

(* FAULT: get and set of mUnsubscribed instead of compareAndSet: a thread   *)
(* that read false before the other one's set goes on.                     *)
UnsubscribeNonAtomically(t, o) ==
    /\ o \in attached
    /\ o \in unsub => \E u \in Threads \ {t} :
                         pc[u] \in {"close", "closeLate"} /\ at[u] = o
    /\ Goto(t, "unsubscribe", "close") /\ Working(t, o)
    /\ unsub' = unsub \cup {o}
    /\ UNCHANGED <<chain, disposed, surface, subs, hw, device, held, capture,
                   looper, alert, crashed>>

(* FAULT: no test of mUnsubscribed at all, so dispose is repeated.         *)
UnsubscribeAlways(t, o) ==
    /\ o \in attached
    /\ Goto(t, "unsubscribe", "close") /\ Working(t, o)
    /\ unsub' = unsub \cup {o}
    /\ UNCHANGED <<chain, disposed, surface, subs, hw, device, held, capture,
                   looper, alert, crashed>>

(* Camera2Observable.DisposableListener.dispose: the compare-and-set ...   *)
Unsubscribe(t, o) ==
    /\ o \in attached \ unsub
    /\ Goto(t, "unsubscribe", "close") /\ Working(t, o)
    /\ unsub' = unsub \cup {o}
    /\ UNCHANGED <<chain, disposed, surface, subs, hw, device, held, capture,
                   looper, alert, crashed>>

(* FAULT: the critical section without synchronized (mMutex).              *)
CloseDeviceUnlocked(t) ==
    LET o == at[t]
    IN  /\ pc[t] \in {"close", "closeLate"}
        /\ hw' = IF o \in device THEN [hw EXCEPT ![o] = "closed"] ELSE hw
        /\ device' = device \ {o}
        /\ pc' = [pc EXCEPT ![t] = IF pc[t] = "close" THEN "unsubscribe"
                                   ELSE "idle"]
        /\ UNCHANGED <<at, chain, disposed, surface, subs, unsub, held, capture,
                       looper, alert, crashed>>

(* ... and the critical section, which waits for a callback in progress.   *)
CloseDevice(t) ==
    LET o == at[t]
    IN  /\ pc[t] \in {"close", "closeLate"}
        /\ t = "main" => held # o
        /\ hw' = IF o \in device THEN [hw EXCEPT ![o] = "closed"] ELSE hw
        /\ device' = device \ {o}
        /\ pc' = [pc EXCEPT ![t] = IF pc[t] = "close" THEN "unsubscribe"
                                   ELSE "idle"]
        /\ UNCHANGED <<at, chain, disposed, surface, subs, unsub, held, capture,
                       looper, alert, crashed>>

(* Every attached device listener is disposed.  The error goes on to the   *)
(* flatMap of createCaptureSession, which the main thread may have disposed *)
(* by now.  An error of the main thread is left to the background thread if *)
(* that is in onNext; when an error overtook it, it joins that one while   *)
(* the sessions are disposed, or is reported to RxJavaPlugins.onError.      *)
DevicesDone(t) ==
    LET overtaken == t = "main" /\ chain = "ended"
        handsOver == t = "main" /\ ~disposed /\ pc["bg"] \in Requesting
    IN  /\ attached \subseteq unsub
        /\ Goto(t, "unsubscribe",
                IF overtaken \/ handsOver THEN "idle" ELSE "sessions")
        /\ chain' = "drained"
        /\ crashed' \in
             IF overtaken /\ pc["bg"] \notin {"sessions"} \cup Releasing
               THEN {TRUE}
             ELSE IF overtaken \/ (t = "bg" /\ disposed /\ held # NoOpen)
               THEN BOOLEAN
             ELSE {crashed}
        /\ UNCHANGED <<at, disposed, surface, subs, camera, held, capture,
                       looper, alert>>

Subscribed == {o \in Opens : reader[o] = "open"}

(* Camera2CaptureSessionObservable.DisposableListener.dispose, in the same *)
(* two steps, then Camera2ImageReaderObservable.DisposableListener.dispose *)
UnsubscribeSession(t, o) ==
    /\ o \in Subscribed \ sUnsub
    /\ Goto(t, "sessions", "closeSession") /\ Working(t, o)
    /\ sUnsub' = sUnsub \cup {o}
    /\ UNCHANGED <<chain, disposed, surface, subs, camera, held, sess, session,
                   reader, looper, alert, crashed>>

CloseSession(t) ==
    LET o == at[t]
    IN  /\ Goto(t, "closeSession", "closeReader")
        /\ sess' = IF o \in session THEN [sess EXCEPT ![o] = "closed"] ELSE sess
        /\ session' = session \ {o}
        /\ UNCHANGED <<at, chain, disposed, surface, subs, camera, held, sUnsub,
                       reader, looper, alert, crashed>>

CloseReader(t) ==
    /\ Goto(t, "closeReader", "sessions")
    /\ reader' = [reader EXCEPT ![at[t]] = "closed"]
    /\ UNCHANGED <<at, chain, disposed, surface, subs, camera, held, sess,
                   sUnsub, session, looper, alert, crashed>>

SessionsDone(t) ==
    /\ Subscribed \subseteq sUnsub
    /\ Goto(t, "sessions", IF t = "main" /\ disposed THEN "hide" ELSE "alert")
    /\ UNCHANGED <<at, chain, disposed, surface, subs, camera, held, capture,
                   looper, alert, crashed>>

(* LambdaObserver.onNext: accept(UiModel.failed) unless disposed ...       *)
DeliverError(t) ==
    /\ pc[t] = "alert"
    /\ pc' = [pc EXCEPT ![t] = IF disposed THEN "idle" ELSE "show"]
    /\ held' = IF t = "bg" /\ disposed THEN NoOpen ELSE held
    /\ UNCHANGED <<at, chain, disposed, surface, subs, camera, capture, looper,
                   alert, crashed>>

(* ... and showAlertDialog, on the thread of the error.                    *)
ShowAlert(t) ==
    /\ Goto(t, "show", "idle")
    /\ alert' = TRUE
    /\ held' = IF t = "bg" THEN NoOpen ELSE held
    /\ UNCHANGED <<at, chain, disposed, surface, subs, camera, capture, looper,
                   crashed>>

-----------------------------------------------------------------------------
(* Background thread: the camera callbacks *)

(* FAULT: onOpened does not assign mCameraDevice when it is disposed, and   *)
(* goes on.                                                                *)
OnOpenedDropsLateDevice(o) ==
    /\ Receive("onOpened", o)
    /\ IF hw[o] = "closed"
         THEN UNCHANGED <<threads, held, device>>
         ELSE /\ pc' = [pc EXCEPT !["bg"] = "opened"] /\ Working("bg", o)
              /\ held' = o
              /\ device' = IF o \in mine THEN device ELSE device \cup {o}
    /\ UNCHANGED <<chain, disposed, surface, subs, hw, unsub, capture, alert,
                   crashed>>

(* onOpened takes the mutex and keeps the device, disposed or not.  The    *)
(* framework drops the callback of a device closed meanwhile.              *)
OnOpened(o) ==
    /\ Receive("onOpened", o)
    /\ IF hw[o] = "closed"
         THEN UNCHANGED <<threads, held, device>>
         ELSE /\ pc' = [pc EXCEPT !["bg"] = "opened"] /\ Working("bg", o)
              /\ held' = o
              /\ device' = device \cup {o}
    /\ UNCHANGED <<chain, disposed, surface, subs, hw, unsub, capture, alert,
                   crashed>>

(* onNext(cameraDevice), still in onOpened: the mapper of                  *)
(* createCaptureSession and the subscription of what it returns.  While    *)
(* main fails to open a camera the emission is queued, and dropped.        *)
CreateSession ==
    LET o == at["bg"]
        emits == chain # "ended" /\ ~Failing
        subscribes == emits /\ chain # "drained" /\ surface
        done == /\ pc' = [pc EXCEPT !["bg"] = "idle"] /\ held' = NoOpen
                /\ UNCHANGED <<chain, crashed>>
    IN  /\ pc["bg"] = "opened"
        /\ \/ /\ subscribes /\ hw[o] # "failed"
              /\ sess' = [sess EXCEPT ![o] = "configuring"]
              /\ reader' = [reader EXCEPT ![o] = "open"]
              /\ done
           \/ /\ subscribes                   \* CameraAccessException
              /\ Raise(o)
              /\ UNCHANGED <<sess, reader>>
           \/ /\ emits /\ ~surface            \* getSurfaceTexture() is null
              /\ Raise(o)
              /\ UNCHANGED <<sess, reader>>
           \/ /\ ~emits \/ chain = "drained"  \* no inner is subscribed
              /\ done
              /\ UNCHANGED <<sess, reader>>
        /\ UNCHANGED <<at, disposed, surface, subs, camera, sUnsub, session,
                       looper, alert>>

(* FAULT: onError closes and disposes, but does not report downstream.     *)
OnErrorSwallowed(o) ==
    /\ Receive("onError", o)
    /\ IF hw[o] = "closed"
         THEN UNCHANGED camera
         ELSE /\ hw' = [hw EXCEPT ![o] = "closed"]
              /\ device' = IF o \in unsub THEN device ELSE device \ {o}
              /\ unsub' = unsub \cup {o}
    /\ UNCHANGED <<threads, chain, disposed, surface, subs, held, capture,
                   alert, crashed>>

(* onError and onDisconnected: close, dispose, report downstream.          *)
OnError(o) ==
    /\ Receive("onError", o)
    /\ IF hw[o] = "closed"
         THEN UNCHANGED <<pc, chain, held, camera, crashed>>
         ELSE /\ hw' = [hw EXCEPT ![o] = "closed"]
              /\ device' = IF o \in unsub THEN device ELSE device \ {o}
              /\ unsub' = unsub \cup {o}
              /\ Raise(o)
    /\ UNCHANGED <<at, disposed, surface, subs, capture, alert>>

(* FAULT: onConfigured does not remember the listener it works for.        *)
OnConfiguredUnbound(o) ==
    /\ Receive("onConfigured", o)
    /\ IF o \in sUnsub
         THEN UNCHANGED threads
         ELSE pc' = [pc EXCEPT !["bg"] = "assign"] /\ Working("bg", NoOpen)
    /\ UNCHANGED <<chain, disposed, surface, subs, camera, held, capture,
                   alert, crashed>>

(* onConfigured: the check of isDisposed(), with no lock ...               *)
OnConfigured(o) ==
    /\ Receive("onConfigured", o)
    /\ IF o \in sUnsub
         THEN UNCHANGED threads
         ELSE pc' = [pc EXCEPT !["bg"] = "assign"] /\ Working("bg", o)
    /\ UNCHANGED <<chain, disposed, surface, subs, camera, held, capture,
                   alert, crashed>>

(* ... mCaptureSession = session ...                                       *)
AssignSession ==
    /\ Goto("bg", "assign", "emit")
    /\ session' = session \cup {at["bg"]}
    /\ UNCHANGED <<at, chain, disposed, surface, subs, camera, held, sess,
                   sUnsub, reader, looper, alert, crashed>>

(* ... and onNext, which reaches setRepeatedCaptureRequest only while the  *)
(* stages after publish() are subscribed.                                  *)
EmitSession ==
    /\ Goto("bg", "emit",
            IF chain = "live" \/ Failing THEN "request" ELSE "idle")
    /\ UNCHANGED <<at, chain, disposed, surface, subs, camera, held, capture,
                   looper, alert, crashed>>

(* The mapper throws.  While the chain lives, the error passes publish(),  *)
(* which then disposes the camera stages; once they are cut, or hold an    *)
(* error that main handed over, it is fatal.                               *)
RequestThrows ==
    \/ /\ chain = "live" /\ chain' = "ended"
       /\ pc' = [pc EXCEPT !["bg"] = "unsubscribe"]
       /\ UNCHANGED <<held, crashed>>
    \/ Failing /\ Overtake
    \/ /\ chain # "live" /\ ~Failing
       /\ crashed' = TRUE
       /\ UNCHANGED <<pc, chain, held>>

CreateRequest ==
    /\ pc["bg"] = "request"
    /\ IF hw[at["bg"]] \in {"open", "streaming"}
         THEN pc' = [pc EXCEPT !["bg"] = "repeat"]
              /\ UNCHANGED <<chain, held, crashed>>
         ELSE RequestThrows
    /\ UNCHANGED <<at, disposed, surface, subs, camera, capture, looper, alert>>

SetRepeatingRequest ==
    LET o == at["bg"]
        usable == hw[o] \in {"open", "streaming"} /\ sess[o] = "configured"
    IN  /\ pc["bg"] = "repeat"
        /\ IF usable
             THEN /\ hw' = [hw EXCEPT ![o] = "streaming"]
                  /\ pc' = [pc EXCEPT !["bg"] = "idle"]
                  /\ UNCHANGED <<chain, held, crashed>>
             ELSE RequestThrows /\ UNCHANGED hw
        /\ UNCHANGED <<at, disposed, surface, subs, unsub, device, capture,
                       looper, alert>>

(* onConfigureFailed: the error disposes the reader merged with the session. *)
OnConfigureFailed(o) ==
    /\ Receive("onConfigureFailed", o)
    /\ sess' = [sess EXCEPT ![o] = "closed"]
    /\ session' = session \ {o}
    /\ IF o \in sUnsub
         THEN UNCHANGED <<pc, chain, held, crashed, sUnsub, reader>>
         ELSE /\ sUnsub' = sUnsub \cup {o}
              /\ reader' = [reader EXCEPT ![o] = "closed"]
              /\ IF Failing THEN Overtake ELSE Raise(NoOpen)
    /\ UNCHANGED <<at, disposed, surface, subs, camera, alert>>

-----------------------------------------------------------------------------
(* The camera framework *)

Framework(o) ==
    /\ \/ /\ hw[o] = "opening"
          /\ hw' = [hw EXCEPT ![o] = "open"]
          /\ Post("onOpened", o)
          /\ UNCHANGED sess
       \/ /\ hw[o] \in {"opening", "open", "streaming"}
          /\ hw' = [hw EXCEPT ![o] = "failed"]
          /\ Post("onError", o)
          /\ UNCHANGED sess
       \/ /\ sess[o] = "configuring"
          /\ \E ok \in BOOLEAN :
                /\ sess' = [sess EXCEPT ![o] = IF ok THEN "configured"
                                               ELSE "failed"]
                /\ Post(IF ok THEN "onConfigured" ELSE "onConfigureFailed", o)
          /\ UNCHANGED hw
    /\ UNCHANGED <<threads, chain, disposed, surface, subs, unsub, device, held,
                   sUnsub, session, reader, quit, alert, crashed>>

(* The process is dead: the system closed its cameras and its windows.     *)
Killed == crashed /\ UNCHANGED vars

-----------------------------------------------------------------------------
Teardown(t) ==
    \/ \E o \in Opens : Unsubscribe(t, o)
    \/ CloseDevice(t)
    \/ DevicesDone(t)
    \/ \E o \in Opens : UnsubscribeSession(t, o)
    \/ CloseSession(t)
    \/ CloseReader(t)
    \/ SessionsDone(t)
    \/ DeliverError(t)
    \/ ShowAlert(t)

(* What each thread does without further input.                            *)
MainStep == Attach \/ Cancel \/ HideDialogs \/ QuitSafely \/ Join
            \/ Teardown("main")
BgStep ==
    \/ \E o \in Opens : OnOpened(o) \/ OnError(o) \/ OnConfigured(o)
                        \/ OnConfigureFailed(o)
    \/ CreateSession \/ AssignSession \/ EmitSession
    \/ CreateRequest \/ SetRepeatingRequest
    \/ Teardown("bg")

UserStep == OnResume \/ OnPause \/ PermissionGranted \/ PermissionDenied
            \/ SurfaceChanges

Next ==
    \/ ~crashed /\ (MainStep \/ BgStep \/ UserStep)
    \/ ~crashed /\ \E o \in Opens : Framework(o)
    \/ Killed

Spec == Init /\ [][Next]_vars

(* The operating system schedules both threads of the process.             *)
FairSpec == Spec /\ WF_vars(~crashed /\ MainStep) /\ WF_vars(~crashed /\ BgStep)

-----------------------------------------------------------------------------
(* Properties *)

Paused == pc["main"] = "paused" /\ ~crashed

(* When onPause has returned no camera delivers preview frames, whatever   *)
(* callbacks, errors and dispose calls interleaved: a device whose         *)
(* repeating request was submitted was closed.  (SampleOfCamera2ApiActivity1 *)
(* onPause, Camera2Observable dispose.)                                    *)
PreviewCameraStopped == Paused => \A o \in Opens : hw[o] # "streaming"

(* Nothing stays subscribed after onPause: every Camera2Observable         *)
(* listener of this resume is disposed, also the ones attached after the   *)
(* chain ended, and so are every session listener and image reader.        *)
AllListenersDisposed ==
    Paused => /\ mine \subseteq unsub
              /\ \A o \in Opens : sess[o] # "none" => o \in sUnsub
              /\ Subscribed = {}

(* The mutex of Camera2Observable: between the assignment of mCameraDevice *)
(* and the end of onNext in onOpened, no dispose closes that device, so no *)
(* session is created on a closed camera.                                  *)
NoSessionOnClosedCamera == pc["bg"] = "opened" => hw[at["bg"]] # "closed"

(* The compare-and-set of dispose: the two threads never run the critical  *)
(* section for the same device, nor for the same session.                  *)
DisposedByOneThread ==
    /\ {pc["main"], pc["bg"]} \subseteq {"close", "closeLate"}
         => at["main"] # at["bg"]
    /\ {pc["main"], pc["bg"]} \subseteq {"closeSession", "closeReader"}
         => at["main"] # at["bg"]

(* onPause returns: disposing and joining the looper never block forever,  *)
(* unless an exception kills the process first.                            *)
PauseReturns == (pc["main"] = "cancel") ~> (pc["main"] = "paused" \/ crashed)

(* A camera that fails while the chain is subscribed is reported: the      *)
(* alert shows, unless the user pauses or the process dies first.          *)
ErrorReported ==
    \A o \in Opens :
        (hw[o] = "failed" /\ o \in mine /\ chain = "live")
            ~> (alert \/ disposed \/ crashed)

(* What PauseReturns and ErrorReported rest on, stated of states and steps. *)

(* A camera that failed under a live chain has its onError in the handler's *)
(* queue, so the failure cannot get lost.  A chain that ended by itself    *)
(* shows the alert or has a thread on its way to it, or the error of main  *)
(* waits for the request of the background thread to return.  This holds   *)
(* of a process that an exception killed, too: before onPause only a       *)
(* second error is fatal, never the one that ends the chain.               *)
FailureIsReported ==
    /\ chain = "live" => \A o \in mine :
         /\ hw[o] # "closed"
         /\ hw[o] = "failed" =>
              \E i \in 1..Len(queue) : queue[i] = [cb |-> "onError", cam |-> o]
    /\ chain \in {"cancelled", "ended", "drained"} /\ ~disposed
         => alert \/ HandedOver \/ \E t \in Threads : pc[t] \in TeardownStates

(* Where the main thread is blocked: at a mutex that a callback holds, or  *)
(* in join() while the background thread has work left.                    *)
Closing == {"close", "closeLate"}

MainWaits ==
    \/ pc["main"] \in Closing /\ held = at["main"]
    \/ pc["main"] = "join" /\ ~(pc["bg"] = "idle" /\ queue = <<>>)

(* The steps of its present callback the background thread has left, but   *)
(* for the devices and sessions it may still find to dispose.              *)
StepsLeft(p) ==
    CASE p = "idle" -> 0
      [] p \in {"opened", "repeat", "show"} -> 1
      [] p \in {"request", "alert"} -> 2
      [] p \in {"emit", "sessions"} -> 3
      [] p \in {"closeSession", "close"} -> 5
      [] OTHER -> 4

(* join() waits for every message, a mutex for none.                       *)
ToHandle == IF pc["main"] = "join" THEN Len(queue) ELSE 0

(* What is left to do before the main thread goes on: a callback takes at  *)
(* most 5 steps from its message on, a device costs one step back on the   *)
(* way to the end of it, a session and its reader two.                     *)
Remaining ==
    5 * ToHandle + 2 * Cardinality(attached \ unsub)
      + 3 * Cardinality(Subscribed \ sUnsub) + StepsLeft(pc["bg"])

(* onPause waits for finitely many steps: while the main thread is blocked *)
(* every step of the background thread brings the end of the waiting       *)
(* closer, and what the framework does meanwhile, posting included, adds   *)
(* nothing to wait for.                                                    *)
WaitingEnds ==
    [][MainWaits /\ MainWaits' /\ ~crashed'
         => \/ Remaining' < Remaining
            \/ /\ UNCHANGED <<pc, Remaining>>
               /\ Len(queue') >= Len(queue)]_vars

(* "Stop every observables: Will stop: CameraDevice -> ..."                *)
(* (SampleOfCamera2ApiActivity1.java:169)                                  *)
PauseClosesEveryCamera == Paused => device = {}

-----------------------------------------------------------------------------
(* The preview that the activity is promised *)

(* The activity between onResume and the end of onPause.                   *)
Phase ==
    IF crashed THEN "dead"
    ELSE IF pc["main"] = "paused" THEN "paused"
    ELSE IF disposed THEN "pausing" ELSE "active"

(* What a camera is for the activity: lost, closed and unused are the same. *)
CameraOf(state) ==
    CASE state = "opening"   -> "opening"
      [] state = "open"      -> "ready"
      [] state = "streaming" -> "streaming"
      [] OTHER               -> "off"

CameraStates == [o \in Opens |-> CameraOf(hw[o])]

Preview == INSTANCE CameraPreview
    WITH Cameras <- Opens, phase <- Phase, camera <- CameraStates,
         readers <- Subscribed

(* The chain and its two threads implement the preview of CameraPreview:   *)
(* no camera opens in a paused activity, sessions and readers only go with *)
(* an open device, no frame is produced without a reader, and onPause only *)
(* returns when all of them are stopped.                                   *)
ImplementsPreview == Preview!Spec

-----------------------------------------------------------------------------
(* The inductive invariant behind the theorems of Camera2Pipeline_proof *)

(* The mutex taken by onOpened is held until its end.                      *)
MutexInv == pc["bg"] = "opened" => held = at["bg"] /\ hw[at["bg"]] # "closed"

(* A paused activity has no background thread, a chain that asks for the   *)
(* permission has no cameras.                                              *)
QuiescentInv ==
    /\ pc["main"] \in {"join", "paused"} => quit
    /\ pc["main"] = "paused" \/ chain = "asking"
         => pc["bg"] = "idle" /\ queue = <<>>
    /\ chain = "asking" => mine = {}
    /\ chain = "cut" \/ pc["main"] = "cancel" => disposed

(* Only a thread that ended the chain is in the teardown, and one thread   *)
(* disposes the devices, ...                                               *)
TeardownInv ==
    /\ \A t \in Threads :
         pc[t] \in TeardownStates \cup {"closeLate"}
           => chain \in {"cancelled", "ended", "drained"}
    /\ pc["main"] \in {"hide", "quit", "join", "paused"}
         => chain \in {"cancelled", "ended", "drained"}
    /\ pc["main"] = "attach" => chain \notin {"asking", "cut"}
    /\ chain \in {"cancelled", "ended"}
         => \E t \in Threads : pc[t] \in {"unsubscribe", "close"}
    /\ ~({pc["main"], pc["bg"]} \subseteq {"unsubscribe", "close"})
    /\ pc["bg"] \in TeardownStates \ {"unsubscribe", "close"}
         => chain # "cancelled"

(* ... what it closes is unsubscribed, and a live chain has no             *)
(* unsubscribed listener.                                                  *)
SubscriptionInv ==
    /\ \A t \in Threads : pc[t] \in Closing => at[t] \in unsub
    /\ \A t \in Threads : pc[t] \in {"closeSession", "closeReader"}
                           => at[t] \in sUnsub
    /\ attached \subseteq mine
    /\ mine \subseteq attached \cup
                      IF pc["main"] = "attach" THEN {at["main"]} ELSE {}
    /\ pc["main"] = "attach" => at["main"] \in mine
    /\ chain = "live" => mine \cap unsub = {}
    /\ chain = "drained" => attached \subseteq unsub

(* An identity that was not used yet, in this resume or at all, is fresh.  *)
FreshInv ==
    /\ \A o \in mine : hw[o] # "unused"
    /\ \A o \in Opens : hw[o] = "unused" =>
         o \notin unsub \cup sUnsub /\ sess[o] = "none" /\ reader[o] = "none"

(* A listener with a session got its device first.                         *)
CallbackInv ==
    /\ \A i \in 1..Len(queue) :
         /\ queue[i].cam \in mine
         /\ queue[i].cb \in {"onConfigured", "onConfigureFailed"}
              => sess[queue[i].cam] # "none"
    /\ pc["bg"] \in {"opened", "assign", "emit", "request", "repeat"}
         => at["bg"] \in mine
    /\ pc["bg"] \in {"assign", "emit", "request", "repeat"}
         => sess[at["bg"]] # "none"
    /\ pc["bg"] = "opened" => at["bg"] \in device \cup unsub
    /\ \A o \in mine : sess[o] # "none" => o \in device \cup unsub
    /\ \A o \in session : sess[o] # "none"

(* onOpened comes once per open call, so each device gets one session.     *)
OnceInv ==
    /\ \A o \in Opens :
         /\ sess[o] = "none" => o \notin sUnsub /\ reader[o] = "none"
         /\ hw[o] \in {"unused", "opening"} => sess[o] = "none"
    /\ \A i \in 1..Len(queue) : queue[i].cb = "onOpened" =>
         /\ sess[queue[i].cam] = "none"
         /\ hw[queue[i].cam] \notin {"unused", "opening"}
         /\ \A j \in 1..Len(queue) :
              queue[j].cb = "onOpened" /\ queue[j].cam = queue[i].cam => j = i
         /\ pc["bg"] = "opened" => at["bg"] # queue[i].cam
    /\ pc["bg"] = "opened" => /\ sess[at["bg"]] = "none"
                              /\ hw[at["bg"]] \notin {"unused", "opening"}

(* A device that streams, or is about to, can still be closed.             *)
Closable(o) ==
    /\ o \in mine /\ o \in device
    /\ o \notin unsub \/ \E t \in Threads : pc[t] \in Closing /\ at[t] = o

StreamInv ==
    /\ \A o \in Opens : hw[o] = "streaming" => Closable(o)
    /\ pc["bg"] \in Requesting => Closable(at["bg"]) \/ hw[at["bg"]] = "closed"
    /\ Failing => \A o \in mine :
                    sess[o] # "none" => Closable(o) \/ hw[o] = "closed"

(* A session that is subscribed has its reader open, and somebody is about *)
(* to close every reader once the chain is drained.                        *)
ReleaseInv ==
    /\ \A o \in Opens : sess[o] # "none" => reader[o] = "open" \/ o \in sUnsub
    /\ \A o \in Subscribed :
         /\ o \in mine
         /\ o \in sUnsub => \E t \in Threads : pc[t] \in Releasing /\ at[t] = o
         /\ chain \in {"ended", "drained"} =>
              \/ HandedOver
              \/ chain = "ended" /\ pc["bg"] \in {"unsubscribe", "close"}
              \/ \E t \in Threads : pc[t] \in Releasing \cup {"sessions"}

IInv == /\ TypeOK /\ MutexInv /\ QuiescentInv /\ TeardownInv
        /\ SubscriptionInv /\ FreshInv /\ CallbackInv /\ StreamInv
        /\ OnceInv /\ ReleaseInv
        /\ PreviewCameraStopped /\ AllListenersDisposed /\ DisposedByOneThread
=============================================================================
