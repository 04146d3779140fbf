--------------------------- MODULE ModelDownload ---------------------------
(***************************************************************************)
(* How SampleOfFacesAndLandmarksActivity1 gets the 68 landmarks model:     *)
(* DlibModelHelper.downloadFace68Model and what the activity does with its *)
(* result.  Every onResume subscribes a chain, every onPause disposes it.  *)
(* The call runs on an io thread: it reads the download id of the shared   *)
(* preferences, or enqueues a download, registers a receiver, schedules a  *)
(* check of the download and returns an observable that is subscribed      *)
(* last.  A check emits the archive into a PublishSubject, which an io     *)
(* thread unpacks and another one loads.  DownloadManager, preferences,    *)
(* file system and RxJava are modelled from how the code uses them.        *)
(***************************************************************************)
EXTENDS Naturals

CONSTANTS Chains,     \* the onResume calls (bounds their number)
          Tasks,      \* DownloadManager ids (bounds the downloads)
          None        \* the id -1, and "no chain"

ASSUME NoneAssumption == None \notin Chains \cup Tasks

VARIABLES
    start,        \* where the call of downloadFace68Model is
    id,           \* its downloadId
    pref,         \* the id in the shared preferences
    prefDisk,     \* the id on disk: apply() writes it later
    task,         \* the download of each id
    registered,   \* chains whose receiver is registered
    broadcast,    \* receivers ACTION_DOWNLOAD_COMPLETE is on its way to
    check,        \* the check of each chain, scheduled at the end of the
                  \* call or by the broadcast
    subject,      \* open, completed or error
    subscribed,   \* chains subscribed to their subject
    leaving,      \* chains whose doOnDispose ran, still attached
    disposed,     \* chains disposed by onPause
    inbox,        \* files emitted and not unpacked yet
    ending,       \* the terminal event on its way down the chain
    ended,        \* chains whose terminal event reached the activity
    work,         \* what the io threads do with the emitted file
    model,        \* the native predictor, a global of the process
    loaded,       \* chains that opened the camera
    file,         \* the unpacked model
    writer,       \* the chain that truncated it last
    crashed

download == <<pref, prefDisk, task>>
receivers == <<registered, broadcast>>
stream == <<subject, subscribed, leaving, disposed, inbox, ending, ended>>
disk == <<file, writer>>
native == <<model, loaded>>
vars == <<start, id, download, receivers, check, stream, work, native, disk,
          crashed>>

StartStates == {"unused", "read", "enqueue", "store", "register", "schedule",
                "subscribe", "done"}
TaskStates  == {"none", "running", "successful", "failed", "removed"}
Checks      == {"initial", "received"}
CheckStates == {"none", "query", "emit", "complete"}
WorkStates  == {"idle", "exists", "create", "copy", "load", "loading"}

TypeOK ==
    /\ start \in [Chains -> StartStates]
    /\ id \in [Chains -> Tasks \cup {None}]
    /\ pref \in Tasks \cup {None} /\ prefDisk \in Tasks \cup {None}
    /\ task \in [Tasks -> TaskStates]
    /\ registered \subseteq Chains /\ broadcast \subseteq Chains
    /\ check \in [Chains -> [Checks -> CheckStates]]
    /\ subject \in [Chains -> {"open", "completed", "error"}]
    /\ subscribed \subseteq Chains /\ leaving \subseteq Chains
    /\ disposed \subseteq Chains /\ ended \subseteq Chains
    /\ inbox \in [Chains -> 0..2]     \* one file of each check
    /\ ending \in [Chains -> {"no", "complete", "error"}]
    /\ work \in [Chains -> WorkStates]
    /\ model \in {"none", "half", "whole"} /\ loaded \subseteq Chains
    /\ file \in {"absent", "partial", "complete"}
    /\ writer \in Chains \cup {None}
    /\ crashed \in BOOLEAN

Init ==
    /\ start = [c \in Chains |-> "unused"]
    /\ id = [c \in Chains |-> None]
    /\ pref = None /\ prefDisk = None
    /\ task = [t \in Tasks |-> "none"]
    /\ registered = {} /\ broadcast = {}
    /\ check = [c \in Chains |-> [k \in Checks |-> "none"]]
    /\ subject = [c \in Chains |-> "open"]
    /\ subscribed = {} /\ leaving = {} /\ disposed = {} /\ ended = {}
    /\ inbox = [c \in Chains |-> 0]
    /\ ending = [c \in Chains |-> "no"]
    /\ work = [c \in Chains |-> "idle"]
    /\ model = "none" /\ loaded = {}
    /\ file = "absent" /\ writer = None
    /\ crashed = FALSE

-----------------------------------------------------------------------------
(* Context.unregisterReceiver: throws when the receiver is not registered. *)
(* In doOnDispose the exception goes to RxJavaPlugins.onError, which kills *)
(* the process.                                                            *)
Unregister(c) ==
    /\ registered' = registered \ {c}
    /\ crashed' = (crashed \/ c \notin registered)

(* The operators next to the subject still pass events on while onPause    *)
(* runs doOnDispose; the ones below are disposed by then.                  *)
Listening(c) == c \in subscribed /\ c \notin disposed \cup ended
Attached(c)  == Listening(c) /\ c \notin leaving

(* subject.onError: the doOnError of a subscribed chain forgets the id.  A *)
(* subject that terminated before reports it, which kills the process.     *)
SubjectError(c) ==
    /\ subject' = [subject EXCEPT ![c] = IF @ = "open" THEN "error" ELSE @]
    /\ crashed' = (crashed \/ subject[c] # "open")
    /\ IF subject[c] = "open" /\ Listening(c)
         THEN pref' = None /\ ending' = [ending EXCEPT ![c] = "error"]
         ELSE UNCHANGED <<pref, ending>>

(* FAULT: without doOnComplete, a completed chain keeps its receiver.      *)
StreamCompleteKeepsReceiver(c) ==
    /\ ending' = [ending EXCEPT ![c] = "complete"]
    /\ UNCHANGED <<registered, pref>>

(* FAULT: the id is reset in doFinally instead of doOnError.               *)
StreamCompleteForgetsId(c) ==
    /\ pref' = None
    /\ registered' = registered \ {c}
    /\ ending' = [ending EXCEPT ![c] = IF c \in registered THEN "complete"
                                        ELSE "error"]

(* doOnComplete unregisters the receiver.  When onPause did so already the *)
(* exception becomes an error, whose doOnError forgets the download id.    *)
StreamComplete(c) ==
    IF c \in registered
      THEN /\ registered' = registered \ {c}
           /\ ending' = [ending EXCEPT ![c] = "complete"]
           /\ UNCHANGED pref
      ELSE /\ pref' = None
           /\ ending' = [ending EXCEPT ![c] = "error"]
           /\ UNCHANGED registered

-----------------------------------------------------------------------------
(* The call of downloadFace68Model, on an io thread *)

(* FAULT: onResume does not wait for the chain of the previous one to go.  *)
ResumeBesideOthers(c) ==
    /\ start[c] = "unused"
    /\ start' = [start EXCEPT ![c] = "read"]
    /\ UNCHANGED <<id, download, receivers, check, stream, work, native, disk,
                   crashed>>

(* onResume, once the chain of the previous resume is disposed or ended,   *)
(* and the permissions are granted.                                        *)
Resume(c) ==
    /\ start[c] = "unused"
    /\ \A d \in Chains : start[d] = "unused" \/ d \in disposed \cup ended
    /\ start' = [start EXCEPT ![c] = "read"]
    /\ UNCHANGED <<id, download, receivers, check, stream, work, native, disk,
                   crashed>>

ReadId(c) ==
    /\ start[c] = "read"
    /\ id' = [id EXCEPT ![c] = pref]
    /\ start' = [start EXCEPT ![c] = IF pref = None THEN "enqueue"
                                     ELSE "register"]
    /\ UNCHANGED <<download, receivers, check, stream, work, native, disk,
                   crashed>>

Enqueue(c) ==
    \E t \in Tasks :
        /\ start[c] = "enqueue" /\ task[t] = "none"
        /\ task' = [task EXCEPT ![t] = "running"]
        /\ id' = [id EXCEPT ![c] = t]
        /\ start' = [start EXCEPT ![c] = "store"]
        /\ UNCHANGED <<pref, prefDisk, receivers, check, stream, work, native,
                       disk, crashed>>

(* FAULT: the receiver is only registered for an id found in preferences.  *)
StoreIdSkipsRegister(c) ==
    /\ start[c] = "store"
    /\ pref' = id[c]
    /\ start' = [start EXCEPT ![c] = "schedule"]
    /\ UNCHANGED <<id, prefDisk, task, receivers, check, stream, work, native,
                   disk, crashed>>

StoreId(c) ==
    /\ start[c] = "store"
    /\ pref' = id[c]
    /\ start' = [start EXCEPT ![c] = "register"]
    /\ UNCHANGED <<id, prefDisk, task, receivers, check, stream, work, native,
                   disk, crashed>>

Register(c) ==
    /\ start[c] = "register"
    /\ registered' = registered \cup {c}
    /\ start' = [start EXCEPT ![c] = "schedule"]
    /\ UNCHANGED <<id, download, broadcast, check, stream, work, native, disk,
                   crashed>>

ScheduleCheck(c) ==
    /\ start[c] = "schedule"
    /\ check' = [check EXCEPT ![c]["initial"] = "query"]
    /\ start' = [start EXCEPT ![c] = "subscribe"]
    /\ UNCHANGED <<id, download, receivers, stream, work, native, disk, crashed>>

(* flatMap subscribes the observable it was given, unless it is disposed.  *)
(* A subject that terminated replays the terminal event, not the file.     *)
Subscribe(c) ==
    /\ start[c] = "subscribe"
    /\ start' = [start EXCEPT ![c] = "done"]
    /\ IF c \in disposed
         THEN UNCHANGED <<subscribed, ending, registered, pref>>
         ELSE /\ subscribed' = subscribed \cup {c}
              /\ CASE subject[c] = "open" ->
                        UNCHANGED <<ending, registered, pref>>
                   [] subject[c] = "completed" -> StreamComplete(c)
                   [] subject[c] = "error" ->
                        /\ pref' = None
                        /\ ending' = [ending EXCEPT ![c] = "error"]
                        /\ UNCHANGED registered
    /\ UNCHANGED <<id, prefDisk, task, broadcast, check, subject, leaving,
                   disposed, inbox, ended, work, native, disk, crashed>>

-----------------------------------------------------------------------------
(* checkDownloadTask, on an io thread: query, then onNext, then onComplete *)

Query(c, k) ==
    LET status == task[id[c]] IN
    /\ check[c][k] = "query"
    /\ \/ /\ status = "successful"
          /\ check' = [check EXCEPT ![c][k] = "emit"]
          /\ UNCHANGED <<task, subject, ending, pref, crashed>>
       \/ /\ status \in {"running", "failed"}
          /\ check' = [check EXCEPT ![c][k] = "none"]
          /\ UNCHANGED <<task, subject, ending, pref, crashed>>
       \/ /\ status \in {"removed", "successful"}     \* no row, or an unreadable one
          /\ task' = [task EXCEPT ![id[c]] = "removed"]
          /\ check' = [check EXCEPT ![c][k] = "none"]
          /\ SubjectError(c)
    /\ UNCHANGED <<start, id, prefDisk, receivers, subscribed, leaving, disposed,
                   inbox, ended, work, native, disk>>

(* FAULT: onNext is not followed by onComplete.                            *)
EmitFileOnly(c, k) ==
    /\ check[c][k] = "emit"
    /\ check' = [check EXCEPT ![c][k] = "none"]
    /\ inbox' = IF Listening(c) /\ subject[c] = "open"
                  THEN [inbox EXCEPT ![c] = @ + 1] ELSE inbox
    /\ UNCHANGED <<start, id, download, receivers, subject, subscribed, leaving,
                   disposed, ending, ended, work, native, disk, crashed>>

EmitFile(c, k) ==
    /\ check[c][k] = "emit"
    /\ check' = [check EXCEPT ![c][k] = "complete"]
    /\ inbox' = IF Listening(c) /\ subject[c] = "open"
                  THEN [inbox EXCEPT ![c] = @ + 1] ELSE inbox
    /\ UNCHANGED <<start, id, download, receivers, subject, subscribed, leaving,
                   disposed, ending, ended, work, native, disk, crashed>>

CompleteSubject(c, k) ==
    /\ check[c][k] = "complete"
    /\ check' = [check EXCEPT ![c][k] = "none"]
    /\ subject' = [subject EXCEPT ![c] = IF @ = "open" THEN "completed" ELSE @]
    /\ IF subject[c] = "open" /\ Listening(c)
         THEN StreamComplete(c)
         ELSE UNCHANGED <<registered, ending, pref>>
    /\ UNCHANGED <<start, id, prefDisk, task, broadcast, subscribed, leaving,
                   disposed, inbox, ended, work, native, disk, crashed>>

(* DownloadStatusReceiver.onReceive, for the id of the chain.              *)
OnReceive(c) ==
    /\ c \in broadcast
    /\ broadcast' = broadcast \ {c}
    /\ check' = IF c \in registered
                  THEN [check EXCEPT ![c]["received"] = "query"] ELSE check
    /\ UNCHANGED <<start, id, download, registered, stream, work, native, disk,
                   crashed>>

-----------------------------------------------------------------------------
(* The io threads downstream: unpack the archive, load the model *)

(* map throws: it disposes what is above it, so doOnDispose runs, and      *)
(* reports the error downstream.                                           *)
MapThrows(c) ==
    /\ Unregister(c)
    /\ ended' = ended \cup {c}

(* The mapper that unpacks throws: the chain hears of it unless disposed.  *)
MapFails(c) ==
    /\ work' = [work EXCEPT ![c] = "idle"]
    /\ IF Attached(c) THEN MapThrows(c)
                       ELSE UNCHANGED <<registered, ended, crashed>>

(* FAULT: a worker that runs without an emission.                          *)
TakeFileUnqueued(c) ==
    /\ work[c] = "idle" /\ Attached(c)
    /\ inbox' = [inbox EXCEPT ![c] = @ - 1]
    /\ work' = [work EXCEPT ![c] = "exists"]
    /\ UNCHANGED <<start, id, download, receivers, check, subject, subscribed,
                   leaving, disposed, ending, ended, native, disk, crashed>>

TakeFile(c) ==
    /\ work[c] = "idle" /\ inbox[c] > 0 /\ Attached(c)
    /\ inbox' = [inbox EXCEPT ![c] = @ - 1]
    /\ work' = [work EXCEPT ![c] = "exists"]
    /\ UNCHANGED <<start, id, download, receivers, check, subject, subscribed,
                   leaving, disposed, ending, ended, native, disk, crashed>>

(* What a worker continues with: a chain disposed meanwhile drops the file. *)
Unpacked(c) ==
    work' = [work EXCEPT ![c] = IF Attached(c) THEN "load" ELSE "idle"]

CheckExists(c) ==
    /\ work[c] = "exists"
    /\ IF file = "absent" THEN work' = [work EXCEPT ![c] = "create"]
                          ELSE Unpacked(c)
    /\ UNCHANGED <<start, id, download, receivers, check, stream, native, disk,
                   crashed>>

(* The archive cannot be opened or is none, or new FileOutputStream creates *)
(* or truncates the model.                                                  *)
CreateFile(c) ==
    /\ work[c] = "create"
    /\ \/ MapFails(c) /\ UNCHANGED disk
       \/ /\ work' = [work EXCEPT ![c] = "copy"]
          /\ file' = "partial" /\ writer' = c
          /\ UNCHANGED <<registered, ended, crashed>>
    /\ UNCHANGED <<start, id, download, broadcast, check, subject, subscribed,
                   leaving, disposed, inbox, ending, native>>

(* FileUtil.copy and addCompletedDownload: either may throw, the second one *)
(* when the model is complete.                                              *)
CopyFile(c) ==
    LET copied == IF writer = c THEN "complete" ELSE file IN
    /\ work[c] = "copy"
    /\ \/ /\ file' = copied
          /\ Unpacked(c)
          /\ UNCHANGED <<registered, ended, crashed>>
       \/ MapFails(c) /\ file' \in {file, copied}
    /\ UNCHANGED <<start, id, download, broadcast, check, subject, subscribed,
                   leaving, disposed, inbox, ending, native, writer>>

(* initFaceLandmarksDetector: a predictor that has parts is ready, else the *)
(* file, which only has to exist, is deserialized.  The C++ exception of a  *)
(* file that ends too early leaves a JNI function: the process aborts.      *)
OpenCamera(c) == loaded' = IF Attached(c) THEN loaded \cup {c} ELSE loaded

LoadModel(c) ==
    /\ work[c] = "load"
    /\ IF Attached(c) /\ model = "none"
         THEN /\ work' = [work EXCEPT ![c] = "loading"]
              /\ model' = "half"
              /\ crashed' \in {FALSE, file = "partial"}
              /\ UNCHANGED loaded
         ELSE /\ work' = [work EXCEPT ![c] = "idle"]
              /\ OpenCamera(c)
              /\ UNCHANGED <<model, crashed>>
    /\ UNCHANGED <<start, id, download, receivers, check, stream, disk>>

FinishLoad(c) ==
    /\ work[c] = "loading"
    /\ IF file = "complete"
         THEN /\ work' = [work EXCEPT ![c] = "idle"]
              /\ model' = "whole"
              /\ OpenCamera(c)
              /\ UNCHANGED crashed
         ELSE crashed' = TRUE /\ UNCHANGED <<work, model, loaded>>
    /\ UNCHANGED <<start, id, download, receivers, check, stream, disk>>

(* The terminal event reaches the activity.  An error makes flatMap dispose *)
(* the inner chain, which unregisters the receiver.                        *)
Terminate(c) ==
    /\ Attached(c) /\ work[c] = "idle"
    /\ \/ /\ ending[c] = "complete" /\ inbox[c] = 0
          /\ UNCHANGED <<registered, crashed>>
       \/ ending[c] = "error" /\ Unregister(c)
    /\ ended' = ended \cup {c}
    /\ UNCHANGED <<start, id, download, broadcast, check, subject, subscribed,
                   leaving, disposed, inbox, ending, work, native, disk>>

-----------------------------------------------------------------------------
(* onPause: mDisposables.clear().  A chain that ended is disposed already. *)
(* doOnDispose runs first, then the subject loses its observer.            *)
Pause(c) ==
    /\ start[c] # "unused" /\ c \notin disposed \cup ended \cup leaving
    /\ IF c \in subscribed
         THEN Unregister(c) /\ leaving' = leaving \cup {c} /\ UNCHANGED disposed
         ELSE disposed' = disposed \cup {c}
              /\ UNCHANGED <<registered, crashed, leaving>>
    /\ UNCHANGED <<start, id, download, broadcast, check, subject, subscribed,
                   inbox, ending, ended, work, native, disk>>

Detach(c) ==
    /\ c \in leaving
    /\ leaving' = leaving \ {c} /\ disposed' = disposed \cup {c}
    /\ UNCHANGED <<start, id, download, receivers, check, subject, subscribed,
                   inbox, ending, ended, work, native, disk, crashed>>

-----------------------------------------------------------------------------
(* The DownloadManager, the preferences' writer, and the end of the process *)

DownloadEnds(t) ==
    /\ task[t] = "running"
    /\ \E s \in {"successful", "failed"} : task' = [task EXCEPT ![t] = s]
    /\ broadcast' = broadcast \cup {c \in registered : id[c] = t}
    /\ UNCHANGED <<start, id, pref, prefDisk, registered, check, stream, work,
                   native, disk, crashed>>

(* The user removes the download, with its row.                            *)
DownloadRemoved(t) ==
    /\ task[t] \in {"running", "successful", "failed"}
    /\ task' = [task EXCEPT ![t] = "removed"]
    /\ UNCHANGED <<start, id, pref, prefDisk, receivers, check, stream, work,
                   native, disk, crashed>>

FlushPreferences ==
    /\ prefDisk # pref
    /\ prefDisk' = pref
    /\ UNCHANGED <<start, id, pref, task, receivers, check, stream, work, native,
                   disk, crashed>>

(* The process dies, of an uncaught exception or at the system's will, and  *)
(* starts over: the disk and the DownloadManager keep what they have.       *)
ProcessDies ==
    LET used == {c \in Chains : start[c] # "unused"} IN
    /\ used # {}
    /\ start' = [c \in Chains |-> IF c \in used THEN "done" ELSE "unused"]
    /\ id' = [c \in Chains |-> None]
    /\ pref' = prefDisk
    /\ registered' = {} /\ broadcast' = {}
    /\ check' = [c \in Chains |-> [k \in Checks |-> "none"]]
    /\ subject' = [c \in Chains |-> "open"]
    /\ subscribed' = {} /\ leaving' = {} /\ disposed' = used /\ ended' = {}
    /\ inbox' = [c \in Chains |-> 0]
    /\ ending' = [c \in Chains |-> "no"]
    /\ work' = [c \in Chains |-> "idle"]
    /\ model' = "none" /\ loaded' = {} /\ writer' = None
    /\ crashed' = FALSE
    /\ UNCHANGED <<prefDisk, task, file>>

-----------------------------------------------------------------------------
CallStep(c) ==
    \/ ReadId(c) \/ Enqueue(c) \/ StoreId(c) \/ Register(c)
    \/ ScheduleCheck(c) \/ Subscribe(c)

CheckStep(c) ==
    \/ OnReceive(c)
    \/ \E k \in Checks : Query(c, k) \/ EmitFile(c, k) \/ CompleteSubject(c, k)

StreamStep(c) ==
    \/ TakeFile(c) \/ CheckExists(c) \/ CreateFile(c) \/ CopyFile(c)
    \/ LoadModel(c) \/ FinishLoad(c) \/ Terminate(c) \/ Detach(c)

Next ==
    \/ /\ ~crashed
       /\ \/ \E c \in Chains :
                \/ Resume(c) \/ Pause(c)
                \/ CallStep(c) \/ CheckStep(c) \/ StreamStep(c)
          \/ \E t \in Tasks : DownloadEnds(t) \/ DownloadRemoved(t)
          \/ FlushPreferences
    \/ ProcessDies

Spec == Init /\ [][Next]_vars

(* The threads of a process that does not die go on; nothing is asked of    *)
(* the user, the DownloadManager or the system.                             *)
FairSpec ==
    /\ Spec
    /\ \A c \in Chains :
          /\ WF_vars(~crashed /\ CallStep(c))
          /\ WF_vars(~crashed /\ CheckStep(c))
          /\ WF_vars(~crashed /\ StreamStep(c))

-----------------------------------------------------------------------------
(* Correctness *)

(* Registering the receiver before the check leaves no gap: a subscribed    *)
(* chain whose download is on the disk has heard of it, or a check or the   *)
(* broadcast is on its way (registerReceiver before checkDownloadTask).     *)
NoMissedCompletion ==
    \A c \in Chains :
        Attached(c) /\ task[id[c]] = "successful" /\ subject[c] = "open" =>
        c \in broadcast \/ \E k \in Checks : check[c][k] # "none"

(* The process is only killed by unregistering the receiver of a chain that *)
(* completed once more, by a check of a subject that ended that finds the   *)
(* download gone, or by a native load of a file that is not a whole model:  *)
(* what fails before the download completed is reported in the activity.    *)
FatalCauses ==
    crashed => \E c \in Chains :
        \/ subject[c] = "completed" /\ c \notin registered
        \/ subject[c] # "open" /\ task[id[c]] = "removed"
        \/ work[c] = "loading" /\ file = "partial"

(* However a chain that was subscribed goes away (completed, failed in the  *)
(* download, the unpacking or the loading, or paused), its receiver is      *)
(* unregistered: doOnDispose and doOnComplete cover the error paths too.    *)
ReceiverReleased ==
    (ended \cup (subscribed \cap disposed)) \cap registered = {}

(* A saved download id is forgotten only for a chain whose doOnError runs: *)
(* its subject has an error, or its subject completes between the two      *)
(* steps of onPause, so that doOnComplete unregisters once more what       *)
(* doOnDispose has unregistered, and throws.                               *)
ForgetsOnlyOnError ==
    [][pref # None /\ prefDisk # None /\ pref' = None =>
           \E c \in Chains :
               /\ ending[c] = "no" /\ ending'[c] = "error"
               /\ \/ subject'[c] = "error"
                  \/ /\ subject[c] = "open" /\ subject'[c] = "completed"
                     /\ c \in leaving /\ c \notin registered]_vars

(* Chains whose subscriber is gone: their io threads may still run.         *)
Gone == disposed \cup ended

(* A download that is saved already is enqueued once more only if the call  *)
(* of another chain saved it after this one read -1, and one of the two was *)
(* gone by then: two calls overlapped across a pause.                       *)
SecondDownloadNeedsOverlap ==
    \A c \in Chains : start[c] = "enqueue" /\ pref # None =>
        \E d \in Chains \ {c} :
            /\ id[d] = pref
            /\ start[d] \notin {"unused", "read", "enqueue", "store"}
            /\ {c, d} \cap Gone # {}

(* A model file that is there is truncated only under two chains that both  *)
(* found none, of which one is gone: not by the same chain, and not after   *)
(* the process starts over.                                                 *)
TruncationNeedsOverlap ==
    \A c \in Chains : work[c] = "create" /\ file # "absent" =>
        writer \in Chains \ {c} /\ {c, writer} \cap Gone # {}

(* A resumed chain whose download is on the disk does not hang: it reaches  *)
(* the activity, unless it is paused, the download is removed, or the       *)
(* process dies.                                                            *)
DownloadedIsDelivered ==
    \A c \in Chains :
        (c \in subscribed /\ task[id[c]] = "successful") ~>
            \/ c \in ended \cup disposed \/ crashed
            \/ id[c] # None /\ task[id[c]] = "removed"

(* What is deserialized is the model: "@param path The model (serialized    *)
(* graph) file." (IDLibFaceDetector.java:49).  An unpacking that breaks off *)
(* (an IOException, the end of the process) leaves a part of it under the   *)
(* final name, and the next resume tests nothing but exists().              *)
OnlyWholeModelsLoaded ==
    [][\A c \in Chains : work[c] = "load" /\ work'[c] = "loading" =>
           file = "complete"]_vars

(* "Calling this function make the subject emit the result": the check at   *)
(* the end of the call delivers a download that is complete already.        *)
CompletedIsEmitted ==
    \A c \in Chains : c \in ended /\ ending[c] = "complete" => c \in loaded
=============================================================================
