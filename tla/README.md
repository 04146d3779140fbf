# A TLA+ model of the dlib demo

The repository is an Android demo of face landmarks detection: a library
(`src/lib-dlib`) that wraps dlib behind JNI, and an application
(`src/demo-dlib`) whose activities obtain the trained model, open a camera,
feed its frames to the detectors and draw the faces over the preview.  What is
hard in it is not the image processing, which dlib and the Android framework
do, but the life cycle around it: reactive chains that are subscribed in
`onResume` and disposed in `onPause` while callbacks of the camera, the download
manager and io threads are still under way.

Paths below are relative to `src/demo-dlib/src/main/java/com/my/demo/dlib/`
unless they start with `lib-dlib`.

## Inventory

| component | state | operations | what is hard |
|---|---|---|---|
| Camera2 preview: `SampleOfCamera2ApiActivity1`, `reactive/*` | the chain and its `Disposable`, one listener per open call (`mCameraDevice`, `mUnsubscribed`, `mMutex`), one per session, one per image reader, the looper of `CameraBackground`, the alert | `onResume`, `onPause`, permission, surface available and destroyed, `onOpened`, `onError`, `onConfigured`, `onConfigureFailed`, `dispose` | the main thread disposes while the background thread delivers callbacks and errors; resources acquired after `dispose` |
| Landmarks model: `util/DlibModelHelper`, `SampleOfFacesAndLandmarksActivity1` | the download id in the preferences, the download, the receiver, a `PublishSubject`, the file on disk, the native predictor | `downloadFace68Model`, `checkDownloadTask`, `onReceive`, unpack, load, pause | checks, broadcast, subscription and pause in any order; a process that dies with the disk half written |
| Native detector: `lib-dlib` JNI and `DLibLandmarks68Detector` | two global detectors | `is...Ready`, `prepare...`, four `detect...` | globals without a lock, used by several threads |
| Overlay: `view/FaceLandmarksOverlayView` | `mFaces`, preview size, scale | `setFaces`, `setCameraPreviewSize`, `onDrawForeground` | the writer locks, the reader does not |
| Detector adapters: `detector/*` | the frame being detected | `detect`, `setOperational`, `receiveDetections` | run on the frame thread of `CameraSource` |
| `view/CameraSourcePreview` | camera source, `mStartRequested`, `mSurfaceAvailable` | `start`, `stop`, `release`, surface callbacks | start before or after the surface exists |
| `SampleOfFacesAndLandmarksActivity2` | as Activity1, with a picture of the camera | as Activity1 | as Activity1 |
| Data: `lib-dlib` `DLibFace68`, `DLibFace`, `messages.proto` | immutable | ranges of landmarks, bound of a face | index ranges, the initial value of a maximum |
| Sizes: `chooseOptimalSize`, `AutoFitTextureView.onMeasure`, `CameraSourcePreview.onLayout` | none | pure functions | integer arithmetic at the boundaries |
| Profiler: `lib-dlib` `profiler.cpp` | a stack of time stamps | `start`, `stopAndGetInterval` | unbalanced calls |
| `StartActivity`, `SplashScreenActivity` | none | navigation | nothing |

The activities call the helpers through RxJava chains; the chains call back
into the activities on the main thread, on `CameraBackground`, or on io threads.
The camera, download manager, preferences, loopers and RxJava are outside the
repository; they are modelled from how the code uses them and marked external
in the map.  Vendored code (dlib, protobuf) and generated code
(`Messages.java`) are left aside.

What makes the components correct:

* preview: after `onPause` nothing streams and nothing stays subscribed; each
  resource is closed by one thread, once; no session is made on a closed
  camera; an error of a live chain is shown and never fatal; `onPause` returns;
* model: a completed download is delivered, whatever the order of check,
  broadcast and subscription; the receiver is unregistered once; only a whole
  model is loaded; the id is forgotten only on a failure;
* native detector: it is used only when it is loaded;
* overlay: the list of faces is that of one detection, and drawing it never
  fails;
* preview view: the source is started when, and only when, it was asked for and
  the surface exists, and is not used after its release;
* pure functions: they compute what their comments say.

## How the modules fit together

| module | models | proofs |
|---|---|---|
| `CameraPreview` | what an activity is promised of its cameras (abstract) | |
| `Camera2Pipeline` | the Camera2 activity and its listeners; implements `CameraPreview` | `Camera2Pipeline_proof`, `Camera2Preview_proof`, `Camera2Progress_proof` |
| `PreviewSize` | the sizes that activity chooses | `PreviewSize_proof` |
| `ModelDownload` | the chain of the landmarks activities up to the model | `ModelDownload_proof` |
| `NativeDetectors` | the chain from the model to the camera, the native globals and the frames that use them, for both activities at once | `NativeDetectors_proof` |
| `LandmarksPreview` | the camera source, its surface, the frame threads and the overlay | `LandmarksPreview_proof` |

The last three cut one chain at its two seams, the emission of the model file and
the start of a camera source; each leaves to the others what lies beyond.
`ModelDownload` says how often and in which state the file arrives,
`NativeDetectors` takes one complete file and opens the camera in one step,
`LandmarksPreview` takes any number of emissions up to its bound and looks at
neither the model nor what a detection computes.

Left for later: a composition of the three (the states multiply, and each hazard
found so far lives within one of them), the sizes of the buffers of one session
of `Camera2Pipeline` against a second `configureCamera`, and the coordinates of
faces and landmarks.

## Modules

### `Camera2Pipeline`

Two threads, `pc["main"]` and `pc["bg"]`; `at[t]` is the listener a thread works
on.  An element of `Opens` is one subscription of `Camera2Observable`, with its
device (`hw`, `device`, `unsub`), capture session (`sess`, `session`, `sUnsub`)
and image reader (`reader`).  `queue` is the message queue of the
`CameraBackground` looper.  `chain` is the state of the reactive chain that the
code never writes down, because RxJava keeps it:

* `asking`: subscribed, waiting for the permission;
* `live`: every stage subscribed;
* `cut`: `onPause` disposed the stages below `publish()`, not yet the cameras;
* `cancelled`: a thread is disposing the camera stages;
* `ended`: the background thread does, after a capture request failed;
* `drained`: the devices are disposed, nothing is subscribed any more.

Actions are the handlers, split where another thread can come in between:
`dispose` is `Unsubscribe` (the compare-and-set) and `CloseDevice` (the critical
section, which waits while `held` says that a callback owns the mutex);
`onOpened` is `OnOpened`, which assigns, and `CreateSession`, the synchronous
`onNext`; `onConfigured` is `OnConfigured`, `AssignSession`, `EmitSession`, then
the request in `CreateRequest` and `SetRepeatingRequest`; `onPause` is
`OnPause`, `Cancel`, the teardown, `HideDialogs`, `QuitSafely`, `Join`.
`Framework` opens, fails and configures, and posts the callbacks.  `Raise` is an
error entering the chain: handled by a live one; swallowed or fatal while the
main thread disposes, depending on the operator it meets; fatal afterwards.
A camera that cannot be opened (`OpenFails`) makes the main thread dispose the
devices while the stages behind `publish()` are still subscribed (`Failing`): a
session of the background thread still gets its request then, and a request that
throws disposes the sessions and is shown first (`Overtake`), while the error of the
main thread is dropped, fatal, or left to the background thread (`HandedOver`),
according to how far that one is.

`Preview` instantiates `CameraPreview` under this mapping: `Phase` is `paused`
while the main thread is, `pausing` once `onPause` disposed the chain, `active`
before, `dead` after a fatal error; the camera of a call is what its hardware
does, with closed, failed and unused ones alike; `readers` are the readers that
are open (`Subscribed`).  `ImplementsPreview` says that every step is one of
`CameraPreview` or none: a camera is opened by an active activity only (though
the hardware may answer much later), a session needs an open device, frames need
a reader, and `onPause` returns when nothing streams and no reader is open.
Whether a device that does not stream is open after `onPause` is left to the
hardware by `CameraPreview`: it may be, as `camera2_cameras` shows.

Abstractions: whether the alert is showing is one flag; frames, sizes and
`sample` are left out; a reader whose session could not be created is not
followed (its `Surface` is unreachable then, no listener or stage knows it, and
nothing else depends on it); an exception of `configureCamera` (a null
configuration map included) happens only while the chain is live; all callbacks that report a broken camera are one. A device identity is
used again in a later resume once its camera is closed or failed.

### `ModelDownload`

An element of `Chains` is one `onResume` with its call of
`downloadFace68Model`; an element of `Tasks` is a download id.  `start[c]`
follows the call line by line (read, enqueue, store, register, schedule,
subscribe), on an io thread: pausing does not stop it.  `check[c, k]` is a call
of `checkDownloadTask`, from the end of the call (`"initial"`) or from the
receiver (`"received"`), in three steps: query, `onNext`, `onComplete`.
`inbox`, `work`, `file` and `model` follow the emitted archive: unpacked with
`exists()`, truncate, copy, then loaded into the native global.  `ending` is the
terminal event between the subject and the activity.  `leaving` is the window in
`onPause` between `doOnDispose` and the removal of the observer.

`ProcessDies` ends the process at any point, by a crash or by the system: the
disk (`prefDisk`, `file`) and the download manager survive, everything else
starts over.  `FlushPreferences` is the delayed write of `apply()`.
`crashed` is set by what kills an Android process: an exception in
`doOnDispose` or an error on a finished subject, both through
`RxJavaPlugins.onError`, and a C++ exception of `dlib::deserialize` that leaves a
JNI function.

`MapThrows` is a mapper that throws: RxJava disposes what is above it, and so
unregisters the receiver.  `MapFails` is the mapper that unpacks: it may throw before
the file exists (the archive cannot be opened), during the copy, or after it
(`addCompletedDownload`), and the chain hears of it unless it is disposed.

Abstractions: the unpacking and the loading of one chain do not overlap; the
main thread's progress messages are left out; the permissions are granted (the
denied path is in `NativeDetectors`);
writes after a truncation by another chain leave the file partial until the
last one that truncated it has copied everything; the loading is one step that
another chain may overlap, in detail the subject of `NativeDetectors`; a failed download and one
that is still running look alike to the check, as in the code; a download
that the `DownloadManager` lost is one the user removed.

### `LandmarksPreview`

What happens once the model is there, in `SampleOfFacesAndLandmarksActivity1`
and `2` alike.  Every emission of the chain runs the mapper that builds a
`CameraSource` and hands it to `CameraSourcePreview.start` (`OpenSource`).
`source`, `requested` and `surface` are the three fields of the preview;
`StartIfReady` is shared by its three callers, which differ in what they do with
an exception: the mapper's chain ends, `surfaceCreated` and `onLayout` catch an
`IOException` only.  `state[s]` and `frame[s]` are the source and its frame
thread; a thread goes through `Detect`, then `setFaces` of the
`FaceLandmarksOverlayView` as `ClearFaces` (takes `mMutex`), one `AddFace` per
face, and `FacesSet` (leaves it).  The main thread draws with `OnDraw`,
`DrawSize` and `DrawGet`, without the mutex: `mFaces` is a
`CopyOnWriteArrayList`, so `clear`, each `add`, `size` and `get` are atomic and
nothing else is.  `OnPause` begins `CameraSource.release`, which tells the frame
thread to stop (`Stopping`) and joins it; `Release` is its return.

Abstractions: a face is identified by the source it was detected in; a detection
that fails or that has a null item changes nothing and is left out; sizes and
scale are left out; the system destroys a surface only of an activity that is
not resumed; the load of the model before the mapper is the subject of
`NativeDetectors`, and of what comes before it only the number of emissions is
kept.  Two
emissions in one resume are possible: the check that the call starts and the
one that the receiver starts run on two threads, and both may reach `onNext`
before either reaches `onComplete`.

`replaced` is a history variable: the sources that another one took the place of
in `CameraSourcePreview.mCameraSource`.  The code has no such set, and no
reference to these sources either: nobody can release them.

### `NativeDetectors`

`sFaceDetector` and `sFaceLandmarksDetector` are globals of the process without a
lock.  `progress[g]` counts the parts that are there: assigning the face
detector copies two members, then the scanner (two steps), `deserialize`
fills four fields (`initial_shape`, `forests`, `anchor_idx`, `deltas`).  "Ready"
(`num_detectors() > 0`, `num_parts() > 0`) looks at the first of them: `IsReady`
is `progress > 0`, `Whole` is all of it.  An element of `DlibChains` or
`VisionChains` is a resume of `SampleOfFacesAndLandmarksActivity1` or `2`; they
share the code up to the camera, and at most one is not paused.  `at[c]` follows
the mapper: test and load the one, test and load the other, check for 68
landmarks, open the camera.  `Pause` stops the frames and the steps on the main
thread, not a test or a load on the io thread.  A denied permission goes to the
camera directly.  A frame of Activity1 is `Guards` (the two
exceptions of `detectFacesAndLandmarks`), `DetectFaces`, `Predict` for every
face and `Deliver`; one of Activity2 gets its faces from the Vision library
(`VisionFaces`) and has no guards.  A predictor that is rejected when its chain was
disposed meanwhile throws to nobody: `failure` is `"undelivered"`, the exception goes
to `RxJavaPlugins.onError` and the process dies.  What a frame does with a global that is being
written is undefined in C++: `Used` lets it go well or kill the process.
`NumParts` is the number of landmarks it then returns, `FaceParts` are the ranges
that `DLibFace68` cuts them into, and `Drawable` says for which numbers the
`subList` calls of the drawing do not throw: 0, or more than 67.

Abstractions: the coordinates of faces and landmarks, the image and the overlay's
lock; a load reads a whole file (partial ones are in `ModelDownload`); a second
emission of a chain is left out, it finds both detectors ready; a thread that
loads what another one has loaded writes the same values over equal ones without
being seen half done (the reload resizes each field to the size it has,
`dlib/matrix/matrix.h:1911` and `dlib/serialize.h:974`, and the face detector is
copied member by member from an equal one, `object_detector.h:405-416`; the race
itself is in `Used`); reading an image of
another format ends in a lost frame or none (the JNI calls made with the
exception pending are undefined).

### `PreviewSize`

The choice of the preview size in the Camera2 activity.  `ConfigureCamera` is
`configureCamera`: `ChooseOptimalSize` says which size `chooseOptimalSize`
returns for the sizes of the camera and the size of the view, and `AspectRatio`
what the view is told, turned in portrait, by `SetAspectRatio`.  The view may still be
0 by 0, and `configureCamera` does not look.  `OnMeasure` is a layout, of the one
that `setAspectRatio` requested or of a window that changed; `Measured` has the
integer divisions of the code.  The two depend on each other: the next
`ConfigureCamera` chooses from the view that the last choice shaped.
Orientation does not change, as the activity is created anew when the screen
turns; the matrix of `configureTransform` is left out.

### `MC...` modules

They add the symmetry sets, and the sizes of `PreviewSize`.

## Runs

| run | result | what it shows |
|---|---|---|
| `camera2` | passes | with two open calls alive at a time, over any number of resumes: `PreviewCameraStopped`, `AllListenersDisposed`, `NoSessionOnClosedCamera`, `DisposedByOneThread`, the inductive invariant `IInv`, and `ImplementsPreview`; `FailureIsReported`: no failure of a live chain gets lost on its way to the alert; `WaitingEnds`: while `onPause` is blocked, what it waits for gets less; under fairness `PauseReturns`: disposing and joining do not block, and `ErrorReported`: a broken camera is shown |
| `camera2_cameras` | violated | a device opened after its listener was disposed stays open after `onPause` |
| `model` | passes | `NoMissedCompletion`, `FatalCauses`, `ReceiverReleased`, `ForgetsOnlyOnError`; `SecondDownloadNeedsOverlap` and `TruncationNeedsOverlap`: downloading again what is stored, or truncating a model that is there, takes two chains that overlap across a pause; under fairness `DownloadedIsDelivered`: no subscribed chain hangs on a successful download |
| `model_valid` | violated | an unpacking that breaks off leaves part of the model, which the next resume loads |
| `model_emit` | violated | the check may emit before anybody is subscribed |
| `preview` | passes | with two emissions in a resume and so two frame threads: `FacesOfOneDetection`, `StartedWhenReady`; `PauseStopsFrames`: what runs on after `onPause` was replaced while it ran; `ReleaseWaitEnds`: while `release` joins a frame thread, that thread gets on with its frame; under fairness `PauseReturns` |
| `preview_start` | violated | a request that `release` did not clear starts a null source |
| `preview_draw` | violated | `size()` and `get(i)` are two calls: a drawing may throw in between |
| `size` | passes | any sequence of layouts and resumes: `ViewFits`, `NotStretched`, `ChosenIsSupported` |
| `detectors` | passes | `RaceNeedsAbandonedLoad`: a frame only races with a load that `onPause` abandoned; `HalfHasLoader`, and under fairness `LoadsSettle`: half a detector becomes a whole one; `PreparedBeforeCamera`; `DrawDeathNeedsRejection`; `PreparationEnds`: every resume gets a camera or an error; `LoadsRunOut`: a detector that is ready gets no new writer |
| `detectors_ready` | violated | the guards accept half a detector |
| `detectors_rejected` | violated | a rejected predictor is ready in the next resume |

`FatalCauses` passes, and is worth reading for what it admits: a process is
killed when the activity is paused while a completed archive is being unpacked,
because the receiver is unregistered by `doOnComplete` and again by
`doOnDispose`.  Together with `model_valid`: such a process leaves part of a
model, and every later one that loads it aborts.  The trace of `model_valid` needs
no death: an `IOException` ends the copy, and the next resume of the same process
finds the file.

`ReceiverReleased` speaks of chains that ended or that were subscribed when they
were disposed; a chain disposed earlier leaks its receiver (see below).
`ForgetsOnlyOnError` admits a second cause beside an error of the subject: a subject
that completes between the two steps of `onPause`, whose `doOnComplete` unregisters
what `doOnDispose` has unregistered, throws, and so runs `doOnError` for a download
that is good.

`PauseStopsFrames`, `RaceNeedsAbandonedLoad`, `SecondDownloadNeedsOverlap` and
`TruncationNeedsOverlap` are the same kind of result: they hold, and name the one
way in which the plain statement (no frame after `onPause`; no race on the
globals; a stored download is not repeated; a model that is there is not
overwritten) fails.

Three properties are the safety half of a liveness property, and say of every
step what the latter says of whole runs: `WaitingEnds` and `ReleaseWaitEnds` of the
two `PauseReturns`, `LoadsRunOut` of `LoadsSettle`.  `FailureIsReported` has that place beside `ErrorReported`.

Four more behaviours of the models contradict a comment and have no run of
their own, being narrower: an alert shown by the background thread after
`hideAlertDialog` outlives `onPause`; while an error disposes the devices on the
background thread, `onPause` closes the sessions before them; a source that
`CameraSourcePreview.start` replaces keeps its camera and its frame thread after
`onPause`; and a chain that is disposed while it calls `downloadFace68Model`
never subscribes, and leaves its receiver registered.

### Bounds

* `Opens`: two identities.  A second camera is opened while the first one is
  there when the surface is destroyed or comes back; identities return after
  the camera is gone, so the number of resumes is not bounded.  The races
  concern one listener and two threads, and two listeners are needed for the
  order of the disposal.
* `Chains`: two resumes; the second may start while the call, the check, the
  unpacking or the loading of the first one goes on.  After a death a chain
  that was not used before runs in the new process.
* `Tasks`: one download in `model`, which has no symmetry; two in the other runs,
  so that a forgotten or lost id leads to a new one (the safety properties of
  `model` are proved for any number).  With all ids used `Enqueue` is blocked;
  `DownloadedIsDelivered` speaks of chains past that point.
* `Sources`, `MaxEmissions`, `MaxFaces`: two emissions in a resume, three sources
  alive, two faces in a frame: enough for two frame threads that write the
  list at once while it grows, shrinks and is drawn.  Identities return after
  `release`, so resumes are not bounded; a source that was dropped while it
  runs never returns, and with all three dropped or failed no further one can
  be opened.  `PauseReturns` is stated for a pause without replaced sources:
  these could keep the mutex from the thread that is joined.
* `DlibChains`, `VisionChains`: two resumes of Activity1 and one of Activity2, in
  any order: an abandoned load, one that overlaps it, and a third that finds
  either done.  `FileParts`: models for 5 and for 68 landmarks, the two that
  dlib publishes.  `MaxFaces`: two, so that one frame may meet the predictor
  before and after a step of a load; one in the violated runs.
* `Parents`, `Cameras`: offers of 2 to 5 by 2 to 5 and every list of one to three
  of five sizes, with a minimum of two: ratios that divide the offers and that
  do not, sizes below the minimum, ties in area, exact matches.

Symmetry is used only where no liveness property is checked.

### Fairness

`FairSpec` of `Camera2Pipeline` has weak fairness of what each of the two
threads does next: they are threads of a live process.  Nothing is asked of the
user, of the permission dialog, or of the camera.  `FairSpec` of
`ModelDownload` has it for the call, the checks and the stream of each chain,
which run on io threads of an unbounded scheduler.  `FairSpec` of
`LandmarksPreview` has it for what the main thread is in the middle of and for
each frame thread.  `FairSpec` of `NativeDetectors` has it for the mapper of each
chain and for the opening of its camera.  Nothing is asked of the
download manager, of the flush of the preferences, or of the user.

## Proofs

`Camera2Pipeline_proof` proves, for every set `Opens`, from the sole assumption
`NoOpen \notin Opens`, that `IInv` is an invariant, and with it `TypeOK`,
`PreviewCameraStopped`, `AllListenersDisposed`, `DisposedByOneThread` and
`NoSessionOnClosedCamera`.

None of them is inductive.  That nothing streams after `onPause` rests on this
argument: a device that streams is in `mine` and `device`, and is either not
unsubscribed or being closed by a thread in the critical section (`StreamInv`).
A listener in `mine` is attached, or about to be (`SubscriptionInv`), and when
the chain is drained every attached one is unsubscribed.  A thread in the
teardown means a chain that ended, and a chain that is being cancelled has a
thread at the devices (`TeardownInv`).  When `join` returns the background
thread is idle with an empty queue (`QuiescentInv`), and the main thread is past
its own critical sections, so no thread is closing and nothing streams.
For sessions and readers `ReleaseInv` plays the part of `StreamInv`, and
`OnceInv` and `CallbackInv` say that `onOpened` is delivered once and
`onConfigured` only for a device that has a session.  `MutexInv` is the mutex;
`FreshInv` says that an identity that is not in use carries nothing over from
its earlier life.

Each conjunct has a lemma with one step per action, under the conjuncts it
needs; `Invariance` joins them.

`Camera2Preview_proof` proves `ImplementsPreview`.  Besides `IInv` it needs `PInv`:
`onPause` disposes before anything else it does (`PhaseInv`), no session of a live
chain is disposed (`LiveInv`), and while a request is made the reader of its
session is open or its device closed (`ReaderInv`), which is why frames never
start without a reader.  `Paused` of `CameraPreview` is the return of `join`: there
`PreviewCameraStopped` and `AllListenersDisposed` give its guard.

`Camera2Progress_proof` proves, for every set `Opens`, what the liveness of the
pipeline rests on, from the inductive `GInv`.  `FailureIsReported`: the failure of a
camera of a live chain has its `onError` in the queue (`QueuedInv`), and a chain
that ended by itself shows the alert or has a thread in the teardown, on its way to
it (`ShownInv`).  `WaitingEnds`: while the main thread waits, at a mutex or in
`join`, a step of the background thread decreases `Remaining`, and every other step
leaves it alone.  `Remaining` counts five for a message that `join` waits for, two
for a listener still to be unsubscribed, three for a session, and what the present
callback has left (`StepsLeft`): a teardown may start in a callback, and each
listener sends it back once.  `QuitInv` says that the looper is told to quit on the way into
`join` and not before, so a live chain has its failures queued; `FiniteInv` that only finitely many listeners were
attached, so that the measure is a natural number although `Opens` may be infinite.

`ModelDownload_proof` proves, for all sets of resumes and downloads, `TypeOK`,
`NoMissedCompletion`, `FatalCauses`, `ReceiverReleased` and `ForgetsOnlyOnError`.
A chain can be told of a download in two ways, and
`HeardInv` says that one of them is always to come, already from the moment before
the observable is subscribed: the receiver is registered before the check, so a
completion before the check is seen by it and one after it is broadcast.
`InboxInv` is the link between what was emitted and who is about to complete:
files in the inbox of an open subject come from checks that stand between
`onNext` and `onComplete`, so a chain whose check goes on has not lost its file.
`StreamInv` follows the receiver to the end of a chain: an attached chain without
a receiver is one whose subject completed, which is also the first cause in
`FatalCauses`, and a listening one whose subject is open and that has none is
leaving, which is the second cause in `ForgetsOnlyOnError`.  `CallInv`, `IdInv` and `TaskInv` say what does not exist before
the line of the call that makes it.

`SecondDownloadNeedsOverlap` and `TruncationNeedsOverlap` are proved from a second
invariant, `OInv`.  Its heart is `ActiveInv`: of two chains that were resumed in the
process one is disposed or ended, since the activity that is in front has only one.
The id in the preferences was stored by a chain that is past its `enqueue` when
another one stands at it, having read -1 before; the file that a chain is about to
truncate was created by another after this one found none.  `WriterInv` says that a
truncated file has a writer of this process.

`NativeDetectors_proof` proves, for all sets of resumes, files and numbers of
faces, `TypeOK`, `RaceNeedsAbandonedLoad`, `HalfHasLoader`, `PreparedBeforeCamera`
and `DrawDeathNeedsRejection`.  `LoadInv` says that among those who load half a
detector one stands no further than one step behind what is there: when the
last of them ends, all of it is there.  `ReadyInv` says which detectors a chain
has left behind it were ready then.  `OwnerInv` and `RejectInv` follow a model
that is not for 68 landmarks: whoever loaded it never opens a camera, so a face
with its landmarks was found by another chain, and then the loader was paused
(`ActiveInv`).

`LoadsRunOut` says that only a test begins a load, and not of a ready detector
(`LoadersDwindle`), and that what is loaded only grows (`ProgressRaises`): the
writers of a ready detector get fewer, and when there are none left it is whole, by
`HalfHasLoader`.

`LandmarksPreview_proof` proves, for every set of sources and all natural bounds,
`TypeOK`, `FacesOfOneDetection`, `StartedWhenReady` and `PauseStopsFrames`.  The assumptions on the constants are
`NoneAssumption` and `BoundsAssumption`.  `LockInv` ties the mutex to the thread
that is adding faces: only that one writes, it began with an empty list, and the
faces it has left fit, which is also why the list keeps its bound.  For that no
start may disturb a frame thread at work, and `StartInv` says so: the source of
the preview is either requested or started, never both.  `OwnerInv`
says that a frame thread belongs to the source of the preview or to a replaced
one, and that a paused activity has no source.  `ReleaseWaitEnds` is proved from the
two: while the main thread joins, only frame threads move; the one that is joined
lowers `FrameStepsLeft` with each step, as its source is stopped and detects
nothing any more, and any other belongs to a replaced source.

`PreviewSize_proof` proves `TypeOK`, `ViewFits`, `NotStretched` and `ChosenIsSupported` for
all sizes of views and cameras.  `RatioLemma` is the arithmetic of `onMeasure`,
from what an integer division leaves; `RatioInv` says that a view that is laid
out was measured with the ratio of the size chosen last.  The integers of the
model are unbounded; `ProductsFit` proves that up to 46340, the root of the largest
`int`, no product of `onMeasure` overflows, from the invariant that the ratio is that
of a size of the camera.

Only model-checked: the liveness properties (`PauseReturns` of both modules,
`ErrorReported`, `DownloadedIsDelivered`, `LoadsSettle`, `PreparationEnds`).  TLAPS
proves neither liveness under fairness here nor `ENABLED`, on which fairness rests.
Of all but `DownloadedIsDelivered` and `PreparationEnds` a safety half is proved, as
said above: each step that a thread takes brings the end closer.  That the thread is
not stuck and is scheduled is what TLC adds.  For `DownloadedIsDelivered`,
`NoMissedCompletion` is proved: somebody is still to come who delivers.

## Not modelled

* The frames of the Camera2 preview: `onImageAvailable` never acquires an image
  from a reader of two (see the hazards), and changes no state.
* Coordinates: the transform of the preview, the sizes that
  `CameraSourcePreview.onLayout` computes, the scale of the overlay, faces and
  landmarks.  `messages.proto` calls `RectFList` normalized, while
  `findLandmarksFromFaces` sends pixels and the native side reads pixels; landmark
  27 is in none of the ranges of `DLibFace68` and is not drawn.  Neither can go
  wrong in an order or a state.
* `detectFaces` and `detectLandmarksFromFace` of the native detector, and the
  constructor of `DLibFace68` that computes a bound: nothing calls them.
* The profiler: local to each native function, with paired start and stop; it
  measures time and decides nothing.
* `StartActivity` and `SplashScreenActivity` (no state), `GraphicOverlay` (a sample
  of the Vision library), generated code (`Messages.java`, `messages.pb.*`) and the
  vendored headers of dlib and protobuf, by far the largest part of the repository,
  of which only what the globals depend on is modelled: the assignment of
  `object_detector`, and the fields, `num_parts`, `operator()` and `deserialize` of
  `shape_predictor`.
