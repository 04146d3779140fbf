------------------------- MODULE ModelDownload_proof -------------------------
(***************************************************************************)
(* Proofs about ModelDownload for any number of resumes and downloads.     *)
(* CallInv says what a chain cannot have before its call is that far,      *)
(* TaskInv that a download is announced to a chain at most once, InboxInv  *)
(* that a subject that is open has emitted no more files than it has       *)
(* checks about to complete it, StreamInv who unregisters the receiver.    *)
(* OInv is about two chains: all but one are gone, so what they do to each *)
(* other's id and file takes an overlap across a pause.                    *)
(***************************************************************************)
EXTENDS ModelDownload, TLAPS

(* What is not there before the call of a chain made it.                   *)
CallInv ==
    \A c \in Chains :
        /\ start[c] \in {"unused", "read", "enqueue", "store", "register"} =>
              /\ c \notin registered /\ c \notin broadcast
              /\ \A k \in Checks : check[c][k] = "none"
        /\ start[c] \in {"schedule", "subscribe"} => c \in registered
        /\ start[c] = "schedule" => check[c]["initial"] = "none"
        /\ start[c] # "done" => c \notin subscribed
        /\ c \notin subscribed =>
              c \notin leaving /\ c \notin ended /\ ending[c] = "no"

(* Whoever asks for the download of a chain finds an id.                   *)
IdInv ==
    \A c \in Chains :
        \/ start[c] \in {"store", "register", "schedule", "subscribe"}
        \/ c \in registered \/ c \in broadcast \/ c \in subscribed
        \/ \E k \in Checks : check[c][k] # "none"
        => id[c] \in Tasks

(* An id is one of a download that was enqueued.                           *)
Enqueued(t) == t \in Tasks => task[t] # "none"

(* The broadcast of a download comes once, to a chain that waits for it.   *)
TaskInv ==
    /\ Enqueued(pref) /\ Enqueued(prefDisk)
    /\ \A c \in Chains :
        /\ Enqueued(id[c])
        /\ c \in broadcast => check[c]["received"] = "none"
        /\ id[c] \in Tasks /\ task[id[c]] = "running" =>
              c \notin broadcast /\ check[c]["received"] = "none"

(* The files in the inbox of an open subject come from checks that are     *)
(* about to complete it.                                                   *)
Completing(c, k) == IF check[c][k] = "complete" THEN 1 ELSE 0

InboxInv ==
    \A c \in Chains :
        subject[c] = "open" =>
            inbox[c] <= Completing(c, "initial") + Completing(c, "received")

(* The receiver of a chain, along its end.                                 *)
StreamInv ==
    \A c \in Chains :
        /\ subject[c] = "open" => ending[c] = "no"
        /\ ending[c] = "complete" => c \notin registered
        /\ c \in leaving => c \notin registered
        /\ c \in ended => c \notin registered
        /\ c \in subscribed /\ c \in disposed => c \notin registered
        /\ Attached(c) /\ c \notin registered => subject[c] = "completed"

(* A file that is copied or loaded exists.                                 *)
FileInv ==
    \A c \in Chains : work[c] \in {"copy", "load", "loading"} => file # "absent"

(* NoMissedCompletion, from the end of the call on.                        *)
HeardInv ==
    \A c \in Chains :
        /\ start[c] = "subscribe" \/ Attached(c)
        /\ task[id[c]] = "successful" /\ subject[c] = "open"
        => c \in broadcast \/ \E k \in Checks : check[c][k] # "none"

IInv == TypeOK /\ CallInv /\ IdInv /\ TaskInv /\ InboxInv /\ StreamInv
        /\ FileInv /\ HeardInv /\ FatalCauses

(* What a step that forgets an id does to its chain.                       *)
Forgets ==
    \E c \in Chains :
        /\ ending[c] = "no" /\ ending'[c] = "error"
        /\ \/ subject'[c] = "error"
           \/ /\ subject[c] = "open" /\ subject'[c] = "completed"
              /\ c \in leaving /\ c \notin registered

-----------------------------------------------------------------------------
(* The initial state satisfies the invariant.                              *)
LEMMA InitInv == Init => IInv
<1> SUFFICES ASSUME Init PROVE IInv
  OBVIOUS
<1> USE DEF Init
<1>1. check \in [Chains -> [Checks -> CheckStates]]
  BY DEF CheckStates
<1>2. crashed \in BOOLEAN
  OBVIOUS
<1>3. TypeOK
  BY <1>1, <1>2 DEF TypeOK, StartStates, TaskStates, WorkStates
<1>4. CallInv /\ IdInv /\ TaskInv
  BY NoneAssumption DEF CallInv, IdInv, TaskInv, Enqueued
<1>5. InboxInv /\ StreamInv /\ FileInv
  BY DEF InboxInv, Completing, StreamInv, FileInv, Attached, Listening
<1>6. HeardInv /\ FatalCauses
  BY DEF HeardInv, FatalCauses, Attached, Listening
<1> QED  BY <1>3, <1>4, <1>5, <1>6 DEF IInv

(* Every step keeps the types.                                             *)
LEMMA TypeStep ==
    ASSUME TypeOK, IdInv, InboxInv, [Next]_vars
    PROVE  TypeOK'
<1> USE DEF download, receivers, stream, disk, native
<1>1. CASE UNCHANGED vars
  BY <1>1
     DEF vars, TypeOK, StartStates, Checks, CheckStates, TaskStates, WorkStates
<1>2. ASSUME NEW c \in Chains, Resume(c) PROVE TypeOK'
  BY <1>2
     DEF Resume, TypeOK, StartStates, Checks, CheckStates, TaskStates,
         WorkStates
<1>3. ASSUME NEW c \in Chains, ReadId(c) PROVE TypeOK'
  BY <1>3
     DEF ReadId, TypeOK, StartStates, Checks, CheckStates, TaskStates,
         WorkStates
<1>4. ASSUME NEW c \in Chains, Enqueue(c) PROVE TypeOK'
  BY <1>4
     DEF Enqueue, TypeOK, StartStates, Checks, CheckStates, TaskStates,
         WorkStates
<1>5. ASSUME NEW c \in Chains, StoreId(c) PROVE TypeOK'
  BY <1>5
     DEF StoreId, TypeOK, StartStates, Checks, CheckStates, TaskStates,
         WorkStates
<1>6. ASSUME NEW c \in Chains, Register(c) PROVE TypeOK'
  BY <1>6
     DEF Register, TypeOK, StartStates, Checks, CheckStates, TaskStates,
         WorkStates
<1>7. ASSUME NEW c \in Chains, ScheduleCheck(c) PROVE TypeOK'
  BY <1>7
     DEF ScheduleCheck, TypeOK, StartStates, Checks, CheckStates, TaskStates,
         WorkStates
<1>8. ASSUME NEW c \in Chains, Subscribe(c) PROVE TypeOK'
  BY <1>8
     DEF Subscribe, StreamComplete, TypeOK, StartStates, Checks, CheckStates,
         TaskStates, WorkStates
<1>9. ASSUME NEW c \in Chains, NEW k \in Checks, Query(c, k) PROVE TypeOK'
  <2>1. id[c] \in Tasks
    BY <1>9 DEF Query, IdInv
  <2>2. check' \in [Chains -> [Checks -> CheckStates]]
    <3>1. \/ check' = [check EXCEPT ![c][k] = "emit"]
          \/ check' = [check EXCEPT ![c][k] = "none"]
      BY <1>9 DEF Query
    <3> QED  BY <3>1 DEF TypeOK, CheckStates
  <2>3. crashed' \in BOOLEAN
    <3>1. crashed \in BOOLEAN
      BY DEF TypeOK
    <3>2. \/ crashed' = crashed
          \/ crashed' = (crashed \/ subject[c] # "open")
      BY <1>9, Zenon DEF Query, SubjectError
    <3> QED  BY <3>1, <3>2, Zenon
  <2>4. task' \in [Tasks -> TaskStates]
    BY <1>9, <2>1 DEF Query, TypeOK, TaskStates
  <2>5. /\ subject' \in [Chains -> {"open", "completed", "error"}]
        /\ ending' \in [Chains -> {"no", "complete", "error"}]
        /\ pref' \in Tasks \cup {None}
    BY <1>9 DEF Query, SubjectError, TypeOK
  <2> QED  BY <1>9, <2>2, <2>3, <2>4, <2>5 DEF Query, TypeOK
<1>10. ASSUME NEW c \in Chains, NEW k \in Checks, EmitFile(c, k) PROVE TypeOK'
  <2>1. subject[c] = "open" => inbox[c] \in 0..1
    <3>1. Completing(c, k) = 0 /\ \A j \in Checks : Completing(c, j) \in 0..1
      BY <1>10 DEF EmitFile, Completing
    <3>2. inbox[c] \in 0..2
      BY DEF TypeOK
    <3> QED  BY <3>1, <3>2 DEF InboxInv, Checks
  <2>2. inbox' \in [Chains -> 0..2]
    BY <1>10, <2>1 DEF EmitFile, TypeOK
  <2>3. check' \in [Chains -> [Checks -> CheckStates]]
    BY <1>10 DEF EmitFile, TypeOK, CheckStates
  <2> QED  BY <1>10, <2>2, <2>3 DEF EmitFile, TypeOK
<1>11. ASSUME NEW c \in Chains, NEW k \in Checks, CompleteSubject(c, k)
       PROVE  TypeOK'
  BY <1>11
     DEF CompleteSubject, StreamComplete, Listening, TypeOK, StartStates,
         Checks, CheckStates, TaskStates, WorkStates
<1>12. ASSUME NEW c \in Chains, OnReceive(c) PROVE TypeOK'
  BY <1>12
     DEF OnReceive, TypeOK, StartStates, Checks, CheckStates, TaskStates,
         WorkStates
<1>13. ASSUME NEW c \in Chains, TakeFile(c) PROVE TypeOK'
  <2>1. inbox[c] - 1 \in 0..2
    BY <1>13 DEF TakeFile, TypeOK
  <2> QED  BY <1>13, <2>1 DEF TakeFile, TypeOK, WorkStates
<1>14. ASSUME NEW c \in Chains, CheckExists(c) PROVE TypeOK'
  BY <1>14
     DEF CheckExists, Unpacked, TypeOK, StartStates, Checks, CheckStates,
         TaskStates, WorkStates
<1>15. ASSUME NEW c \in Chains, CreateFile(c) PROVE TypeOK'
  <2>1. crashed' \in BOOLEAN
    BY <1>15, Zenon DEF CreateFile, TypeOK, MapFails, MapThrows, Unregister
  <2>2. work' \in [Chains -> WorkStates]
    BY <1>15 DEF CreateFile, MapFails, TypeOK, WorkStates
  <2> QED  BY <1>15, <2>1, <2>2
     DEF CreateFile, MapFails, MapThrows, Unregister, TypeOK
<1>16. ASSUME NEW c \in Chains, CopyFile(c) PROVE TypeOK'
  <2>1. crashed' \in BOOLEAN
    BY <1>16, Zenon DEF CopyFile, TypeOK, MapFails, MapThrows, Unregister
  <2>2. work' \in [Chains -> WorkStates]
    BY <1>16 DEF CopyFile, Unpacked, MapFails, TypeOK, WorkStates
  <2> QED  BY <1>16, <2>1, <2>2
     DEF CopyFile, Unpacked, MapFails, MapThrows, Unregister, TypeOK
<1>17. ASSUME NEW c \in Chains, LoadModel(c) PROVE TypeOK'
  <2>1. crashed' \in BOOLEAN
    BY <1>17, Zenon DEF LoadModel, TypeOK
  <2>2. work' \in [Chains -> WorkStates]
    BY <1>17 DEF LoadModel, TypeOK, WorkStates
  <2> QED  BY <1>17, <2>1, <2>2 DEF LoadModel, OpenCamera, TypeOK
<1>18. ASSUME NEW c \in Chains, FinishLoad(c) PROVE TypeOK'
  <2>1. crashed' \in BOOLEAN
    BY <1>18, Zenon DEF FinishLoad, TypeOK
  <2>2. work' \in [Chains -> WorkStates]
    BY <1>18 DEF FinishLoad, TypeOK, WorkStates
  <2> QED  BY <1>18, <2>1, <2>2 DEF FinishLoad, OpenCamera, TypeOK
<1>19. ASSUME NEW c \in Chains, Terminate(c) PROVE TypeOK'
  <2>1. crashed' \in BOOLEAN
    BY <1>19, Zenon DEF Terminate, TypeOK, Unregister
  <2> QED  BY <1>19, <2>1 DEF Terminate, Unregister, TypeOK
<1>20. ASSUME NEW c \in Chains, Pause(c) PROVE TypeOK'
  <2>1. crashed' \in BOOLEAN
    BY <1>20, Zenon DEF Pause, TypeOK, Unregister
  <2> QED  BY <1>20, <2>1 DEF Pause, Unregister, TypeOK
<1>21. ASSUME NEW c \in Chains, Detach(c) PROVE TypeOK'
  BY <1>21
     DEF Detach, TypeOK, StartStates, Checks, CheckStates, TaskStates,
         WorkStates
<1>22. ASSUME NEW t \in Tasks, DownloadEnds(t) PROVE TypeOK'
  BY <1>22
     DEF DownloadEnds, TypeOK, StartStates, Checks, CheckStates, TaskStates,
         WorkStates
<1>23. ASSUME NEW t \in Tasks, DownloadRemoved(t) PROVE TypeOK'
  BY <1>23
     DEF DownloadRemoved, TypeOK, StartStates, Checks, CheckStates, TaskStates,
         WorkStates
<1>24. ASSUME FlushPreferences PROVE TypeOK'
  BY <1>24
     DEF FlushPreferences, TypeOK, StartStates, Checks, CheckStates,
         TaskStates, WorkStates
<1>25. ASSUME ProcessDies PROVE TypeOK'
  <2>1. check' \in [Chains -> [Checks -> CheckStates]]
    BY <1>25 DEF ProcessDies, CheckStates
  <2>2. crashed' \in BOOLEAN
    BY <1>25 DEF ProcessDies
  <2>3. start' \in [Chains -> StartStates]
    BY <1>25 DEF ProcessDies, StartStates
  <2>4. /\ disposed' \subseteq Chains
        /\ work' \in [Chains -> WorkStates]
    BY <1>25 DEF ProcessDies, WorkStates
  <2> QED  BY <1>25, <2>1, <2>2, <2>3, <2>4 DEF ProcessDies, TypeOK
<1> QED
  BY <1>1, <1>2, <1>3, <1>4, <1>5, <1>6, <1>7, <1>8, <1>9, <1>10, <1>11, <1>12,
     <1>13, <1>14, <1>15, <1>16, <1>17, <1>18, <1>19, <1>20, <1>21, <1>22,
     <1>23, <1>24, <1>25
  DEF Next, CallStep, CheckStep, StreamStep

(* A call goes through its steps in order.                                 *)
LEMMA CallStepInv ==
    ASSUME TypeOK, CallInv, [Next]_vars
    PROVE  CallInv'
<1> USE DEF download, receivers, stream, disk, native
<1>1. CASE UNCHANGED vars
  BY <1>1 DEF vars, CallInv, TypeOK, Checks, Attached, Listening
<1>2. ASSUME NEW c \in Chains, Resume(c) PROVE CallInv'
  BY <1>2 DEF Resume, CallInv, TypeOK, Checks, Attached, Listening
<1>3. ASSUME NEW c \in Chains, ReadId(c) PROVE CallInv'
  BY <1>3 DEF ReadId, CallInv, TypeOK, Checks, Attached, Listening
<1>4. ASSUME NEW c \in Chains, Enqueue(c) PROVE CallInv'
  BY <1>4 DEF Enqueue, CallInv, TypeOK, Checks, Attached, Listening
<1>5. ASSUME NEW c \in Chains, StoreId(c) PROVE CallInv'
  BY <1>5 DEF StoreId, CallInv, TypeOK, Checks, Attached, Listening
<1>6. ASSUME NEW c \in Chains, Register(c) PROVE CallInv'
  BY <1>6 DEF Register, CallInv, TypeOK, Checks, Attached, Listening
<1>7. ASSUME NEW c \in Chains, ScheduleCheck(c) PROVE CallInv'
  BY <1>7 DEF ScheduleCheck, CallInv, TypeOK, Checks, Attached, Listening
<1>8. ASSUME NEW c \in Chains, Subscribe(c) PROVE CallInv'
  BY <1>8
     DEF Subscribe, StreamComplete, CallInv, TypeOK, Checks, Attached,
         Listening
<1>9. ASSUME NEW c \in Chains, NEW k \in Checks, Query(c, k) PROVE CallInv'
  <2>1. /\ check[c][k] # "none" /\ UNCHANGED <<start, registered, broadcast, subscribed, leaving, ended>>
        /\ \A d \in Chains \ {c} : check'[d] = check[d]
        /\ \A j \in Checks \ {k} : check'[c][j] = check[c][j]
    BY <1>9 DEF Query, TypeOK
  <2>2. \A d \in Chains : d \notin subscribed => ending'[d] = ending[d]
    BY <1>9 DEF Query, SubjectError, Listening, TypeOK
  <2>3. start[c] = "schedule" => k # "initial"
    BY <2>1 DEF CallInv
  <2> QED  BY <2>1, <2>2, <2>3 DEF CallInv, Checks
<1>10. ASSUME NEW c \in Chains, NEW k \in Checks, EmitFile(c, k) PROVE CallInv'
  BY <1>10
     DEF EmitFile, Listening, CallInv, TypeOK, Checks, Attached, Listening
<1>11. ASSUME NEW c \in Chains, NEW k \in Checks, CompleteSubject(c, k)
       PROVE  CallInv'
  BY <1>11
     DEF CompleteSubject, StreamComplete, Listening, CallInv, TypeOK, Checks,
         Attached, Listening
<1>12. ASSUME NEW c \in Chains, OnReceive(c) PROVE CallInv'
  BY <1>12 DEF OnReceive, CallInv, TypeOK, Checks, Attached, Listening
<1>13. ASSUME NEW c \in Chains, TakeFile(c) PROVE CallInv'
  BY <1>13
     DEF TakeFile, Attached, Listening, CallInv, TypeOK, Checks, Attached,
         Listening
<1>14. ASSUME NEW c \in Chains, CheckExists(c) PROVE CallInv'
  BY <1>14
     DEF CheckExists, Unpacked, CallInv, TypeOK, Checks, Attached, Listening
<1>15. ASSUME NEW c \in Chains, CreateFile(c) PROVE CallInv'
  BY <1>15
     DEF CreateFile, MapFails, MapThrows, Unregister, CallInv, TypeOK, Checks,
         Attached, Listening
<1>16. ASSUME NEW c \in Chains, CopyFile(c) PROVE CallInv'
  BY <1>16
     DEF CopyFile, Unpacked, MapFails, MapThrows, Unregister, CallInv, TypeOK,
         Checks, Attached, Listening
<1>17. ASSUME NEW c \in Chains, LoadModel(c) PROVE CallInv'
  BY <1>17
     DEF LoadModel, OpenCamera, CallInv, TypeOK, Checks, Attached, Listening
<1>18. ASSUME NEW c \in Chains, FinishLoad(c) PROVE CallInv'
  BY <1>18
     DEF FinishLoad, OpenCamera, CallInv, TypeOK, Checks, Attached, Listening
<1>19. ASSUME NEW c \in Chains, Terminate(c) PROVE CallInv'
  BY <1>19
     DEF Terminate, Unregister, CallInv, TypeOK, Checks, Attached, Listening
<1>20. ASSUME NEW c \in Chains, Pause(c) PROVE CallInv'
  BY <1>20 DEF Pause, Unregister, CallInv, TypeOK, Checks, Attached, Listening
<1>21. ASSUME NEW c \in Chains, Detach(c) PROVE CallInv'
  BY <1>21 DEF Detach, CallInv, TypeOK, Checks, Attached, Listening
<1>22. ASSUME NEW t \in Tasks, DownloadEnds(t) PROVE CallInv'
  BY <1>22 DEF DownloadEnds, CallInv, TypeOK, Checks, Attached, Listening
<1>23. ASSUME NEW t \in Tasks, DownloadRemoved(t) PROVE CallInv'
  BY <1>23 DEF DownloadRemoved, CallInv, TypeOK, Checks, Attached, Listening
<1>24. ASSUME FlushPreferences PROVE CallInv'
  BY <1>24 DEF FlushPreferences, CallInv, TypeOK, Checks, Attached, Listening
<1>25. ASSUME ProcessDies PROVE CallInv'
  BY <1>25 DEF ProcessDies, CallInv, TypeOK, Checks, Attached, Listening
<1> QED
  BY <1>1, <1>2, <1>3, <1>4, <1>5, <1>6, <1>7, <1>8, <1>9, <1>10, <1>11, <1>12,
     <1>13, <1>14, <1>15, <1>16, <1>17, <1>18, <1>19, <1>20, <1>21, <1>22,
     <1>23, <1>24, <1>25
  DEF Next, CallStep, CheckStep, StreamStep

(* An id, once there, stays.                                               *)
LEMMA IdStep ==
    ASSUME TypeOK, CallInv, IdInv, [Next]_vars
    PROVE  IdInv'
<1> USE DEF download, receivers, stream, disk, native
<1>1. CASE UNCHANGED vars
  BY <1>1 DEF vars, IdInv, CallInv, TypeOK, Checks, Attached, Listening
<1>2. ASSUME NEW c \in Chains, Resume(c) PROVE IdInv'
  BY <1>2 DEF Resume, IdInv, CallInv, TypeOK, Checks, Attached, Listening
<1>3. ASSUME NEW c \in Chains, ReadId(c) PROVE IdInv'
  BY <1>3 DEF ReadId, IdInv, CallInv, TypeOK, Checks, Attached, Listening
<1>4. ASSUME NEW c \in Chains, Enqueue(c) PROVE IdInv'
  BY <1>4 DEF Enqueue, IdInv, CallInv, TypeOK, Checks, Attached, Listening
<1>5. ASSUME NEW c \in Chains, StoreId(c) PROVE IdInv'
  BY <1>5 DEF StoreId, IdInv, CallInv, TypeOK, Checks, Attached, Listening
<1>6. ASSUME NEW c \in Chains, Register(c) PROVE IdInv'
  BY <1>6 DEF Register, IdInv, CallInv, TypeOK, Checks, Attached, Listening
<1>7. ASSUME NEW c \in Chains, ScheduleCheck(c) PROVE IdInv'
  BY <1>7
     DEF ScheduleCheck, IdInv, CallInv, TypeOK, Checks, Attached, Listening
<1>8. ASSUME NEW c \in Chains, Subscribe(c) PROVE IdInv'
  BY <1>8
     DEF Subscribe, StreamComplete, IdInv, CallInv, TypeOK, Checks, Attached,
         Listening
<1>9. ASSUME NEW c \in Chains, NEW k \in Checks, Query(c, k) PROVE IdInv'
  BY <1>9
     DEF Query, SubjectError, Listening, IdInv, CallInv, TypeOK, Checks,
         Attached, Listening
<1>10. ASSUME NEW c \in Chains, NEW k \in Checks, EmitFile(c, k) PROVE IdInv'
  BY <1>10
     DEF EmitFile, Listening, IdInv, CallInv, TypeOK, Checks, Attached,
         Listening
<1>11. ASSUME NEW c \in Chains, NEW k \in Checks, CompleteSubject(c, k)
       PROVE  IdInv'
  BY <1>11
     DEF CompleteSubject, StreamComplete, Listening, IdInv, CallInv, TypeOK,
         Checks, Attached, Listening
<1>12. ASSUME NEW c \in Chains, OnReceive(c) PROVE IdInv'
  BY <1>12 DEF OnReceive, IdInv, CallInv, TypeOK, Checks, Attached, Listening
<1>13. ASSUME NEW c \in Chains, TakeFile(c) PROVE IdInv'
  BY <1>13
     DEF TakeFile, Attached, Listening, IdInv, CallInv, TypeOK, Checks,
         Attached, Listening
<1>14. ASSUME NEW c \in Chains, CheckExists(c) PROVE IdInv'
  BY <1>14
     DEF CheckExists, Unpacked, IdInv, CallInv, TypeOK, Checks, Attached,
         Listening
<1>15. ASSUME NEW c \in Chains, CreateFile(c) PROVE IdInv'
  BY <1>15
     DEF CreateFile, MapFails, MapThrows, Unregister, IdInv, CallInv, TypeOK,
         Checks, Attached, Listening
<1>16. ASSUME NEW c \in Chains, CopyFile(c) PROVE IdInv'
  BY <1>16
     DEF CopyFile, Unpacked, MapFails, MapThrows, Unregister, IdInv, CallInv,
         TypeOK, Checks, Attached, Listening
<1>17. ASSUME NEW c \in Chains, LoadModel(c) PROVE IdInv'
  BY <1>17
     DEF LoadModel, OpenCamera, IdInv, CallInv, TypeOK, Checks, Attached,
         Listening
<1>18. ASSUME NEW c \in Chains, FinishLoad(c) PROVE IdInv'
  BY <1>18
     DEF FinishLoad, OpenCamera, IdInv, CallInv, TypeOK, Checks, Attached,
         Listening
<1>19. ASSUME NEW c \in Chains, Terminate(c) PROVE IdInv'
  BY <1>19
     DEF Terminate, Unregister, IdInv, CallInv, TypeOK, Checks, Attached,
         Listening
<1>20. ASSUME NEW c \in Chains, Pause(c) PROVE IdInv'
  BY <1>20
     DEF Pause, Unregister, IdInv, CallInv, TypeOK, Checks, Attached, Listening
<1>21. ASSUME NEW c \in Chains, Detach(c) PROVE IdInv'
  BY <1>21 DEF Detach, IdInv, CallInv, TypeOK, Checks, Attached, Listening
<1>22. ASSUME NEW t \in Tasks, DownloadEnds(t) PROVE IdInv'
  BY <1>22
     DEF DownloadEnds, IdInv, CallInv, TypeOK, Checks, Attached, Listening
<1>23. ASSUME NEW t \in Tasks, DownloadRemoved(t) PROVE IdInv'
  BY <1>23
     DEF DownloadRemoved, IdInv, CallInv, TypeOK, Checks, Attached, Listening
<1>24. ASSUME FlushPreferences PROVE IdInv'
  BY <1>24
     DEF FlushPreferences, IdInv, CallInv, TypeOK, Checks, Attached, Listening
<1>25. ASSUME ProcessDies PROVE IdInv'
  BY <1>25 DEF ProcessDies, IdInv, CallInv, TypeOK, Checks, Attached, Listening
<1> QED
  BY <1>1, <1>2, <1>3, <1>4, <1>5, <1>6, <1>7, <1>8, <1>9, <1>10, <1>11, <1>12,
     <1>13, <1>14, <1>15, <1>16, <1>17, <1>18, <1>19, <1>20, <1>21, <1>22,
     <1>23, <1>24, <1>25
  DEF Next, CallStep, CheckStep, StreamStep

(* A download ends once.                                                   *)
LEMMA TaskStep ==
    ASSUME TypeOK, CallInv, IdInv, TaskInv, [Next]_vars
    PROVE  TaskInv'
<1> USE DEF download, receivers, stream, disk, native
<1>1. CASE UNCHANGED vars
  BY <1>1 DEF vars, TaskInv, Enqueued, CallInv, IdInv, TypeOK, Checks
<1>2. ASSUME NEW c \in Chains, Resume(c) PROVE TaskInv'
  BY <1>2 DEF Resume, TaskInv, Enqueued, CallInv, IdInv, TypeOK, Checks
<1>3. ASSUME NEW c \in Chains, ReadId(c) PROVE TaskInv'
  BY <1>3 DEF ReadId, TaskInv, Enqueued, CallInv, IdInv, TypeOK, Checks
<1>4. ASSUME NEW c \in Chains, Enqueue(c) PROVE TaskInv'
  BY <1>4 DEF Enqueue, TaskInv, Enqueued, CallInv, IdInv, TypeOK, Checks
<1>5. ASSUME NEW c \in Chains, StoreId(c) PROVE TaskInv'
  BY <1>5 DEF StoreId, TaskInv, Enqueued, CallInv, IdInv, TypeOK, Checks
<1>6. ASSUME NEW c \in Chains, Register(c) PROVE TaskInv'
  BY <1>6 DEF Register, TaskInv, Enqueued, CallInv, IdInv, TypeOK, Checks
<1>7. ASSUME NEW c \in Chains, ScheduleCheck(c) PROVE TaskInv'
  BY <1>7 DEF ScheduleCheck, TaskInv, Enqueued, CallInv, IdInv, TypeOK, Checks
<1>8. ASSUME NEW c \in Chains, Subscribe(c) PROVE TaskInv'
  <2>1. /\ UNCHANGED <<id, task, prefDisk, check, broadcast>>
        /\ pref' \in {pref, None}
    BY <1>8 DEF Subscribe, StreamComplete, TypeOK
  <2> QED  BY <2>1, NoneAssumption DEF TaskInv, Enqueued, TypeOK
<1>9. ASSUME NEW c \in Chains, NEW k \in Checks, Query(c, k) PROVE TaskInv'
  <2>1. /\ id[c] \in Tasks /\ UNCHANGED <<id, broadcast, prefDisk>>
        /\ pref' \in {pref, None}
        /\ check'[c]["received"] = check[c]["received"] \/ check[c]["received"] # "none"
        /\ \A d \in Chains \ {c} : check'[d] = check[d]
    BY <1>9 DEF Query, SubjectError, IdInv, TypeOK, Checks
  <2>2. \/ task' = task
        \/ task' = [task EXCEPT ![id[c]] = "removed"]
    BY <1>9 DEF Query
  <2> QED  BY <2>1, <2>2, NoneAssumption DEF TaskInv, Enqueued, TypeOK
<1>10. ASSUME NEW c \in Chains, NEW k \in Checks, EmitFile(c, k) PROVE TaskInv'
  BY <1>10
     DEF EmitFile, Listening, TaskInv, Enqueued, CallInv, IdInv, TypeOK, Checks
<1>11. ASSUME NEW c \in Chains, NEW k \in Checks, CompleteSubject(c, k)
       PROVE  TaskInv'
  <2>1. /\ UNCHANGED <<id, task, prefDisk, broadcast>>
        /\ pref' \in {pref, None}
        /\ \A d \in Chains : check'[d]["received"] \in {check[d]["received"], "none"}
    BY <1>11 DEF CompleteSubject, StreamComplete, TypeOK, Checks
  <2> QED  BY <2>1, NoneAssumption DEF TaskInv, Enqueued, TypeOK
<1>12. ASSUME NEW c \in Chains, OnReceive(c) PROVE TaskInv'
  BY <1>12 DEF OnReceive, TaskInv, Enqueued, CallInv, IdInv, TypeOK, Checks
<1>13. ASSUME NEW c \in Chains, TakeFile(c) PROVE TaskInv'
  BY <1>13
     DEF TakeFile, Attached, Listening, TaskInv, Enqueued, CallInv, IdInv,
         TypeOK, Checks
<1>14. ASSUME NEW c \in Chains, CheckExists(c) PROVE TaskInv'
  BY <1>14
     DEF CheckExists, Unpacked, TaskInv, Enqueued, CallInv, IdInv, TypeOK,
         Checks
<1>15. ASSUME NEW c \in Chains, CreateFile(c) PROVE TaskInv'
  BY <1>15
     DEF CreateFile, MapFails, MapThrows, Unregister, TaskInv, Enqueued,
         CallInv, IdInv, TypeOK, Checks
<1>16. ASSUME NEW c \in Chains, CopyFile(c) PROVE TaskInv'
  BY <1>16
     DEF CopyFile, Unpacked, MapFails, MapThrows, Unregister, TaskInv,
         Enqueued, CallInv, IdInv, TypeOK, Checks
<1>17. ASSUME NEW c \in Chains, LoadModel(c) PROVE TaskInv'
  BY <1>17
     DEF LoadModel, OpenCamera, TaskInv, Enqueued, CallInv, IdInv, TypeOK,
         Checks
<1>18. ASSUME NEW c \in Chains, FinishLoad(c) PROVE TaskInv'
  BY <1>18
     DEF FinishLoad, OpenCamera, TaskInv, Enqueued, CallInv, IdInv, TypeOK,
         Checks
<1>19. ASSUME NEW c \in Chains, Terminate(c) PROVE TaskInv'
  BY <1>19
     DEF Terminate, Unregister, TaskInv, Enqueued, CallInv, IdInv, TypeOK,
         Checks
<1>20. ASSUME NEW c \in Chains, Pause(c) PROVE TaskInv'
  BY <1>20
     DEF Pause, Unregister, TaskInv, Enqueued, CallInv, IdInv, TypeOK, Checks
<1>21. ASSUME NEW c \in Chains, Detach(c) PROVE TaskInv'
  BY <1>21 DEF Detach, TaskInv, Enqueued, CallInv, IdInv, TypeOK, Checks
<1>22. ASSUME NEW t \in Tasks, DownloadEnds(t) PROVE TaskInv'
  BY <1>22 DEF DownloadEnds, TaskInv, Enqueued, CallInv, IdInv, TypeOK, Checks
<1>23. ASSUME NEW t \in Tasks, DownloadRemoved(t) PROVE TaskInv'
  BY <1>23
     DEF DownloadRemoved, TaskInv, Enqueued, CallInv, IdInv, TypeOK, Checks
<1>24. ASSUME FlushPreferences PROVE TaskInv'
  BY <1>24
     DEF FlushPreferences, TaskInv, Enqueued, CallInv, IdInv, TypeOK, Checks
<1>25. ASSUME ProcessDies PROVE TaskInv'
  <2>1. /\ \A d \in Chains : id'[d] = None
        /\ pref' = prefDisk /\ UNCHANGED <<prefDisk, task>> /\ broadcast' = {}
    BY <1>25 DEF ProcessDies
  <2> QED  BY <2>1, NoneAssumption DEF TaskInv, Enqueued, TypeOK
<1> QED
  BY <1>1, <1>2, <1>3, <1>4, <1>5, <1>6, <1>7, <1>8, <1>9, <1>10, <1>11, <1>12,
     <1>13, <1>14, <1>15, <1>16, <1>17, <1>18, <1>19, <1>20, <1>21, <1>22,
     <1>23, <1>24, <1>25
  DEF Next, CallStep, CheckStep, StreamStep

(* An emission is followed by the completion.                              *)
LEMMA InboxStep ==
    ASSUME TypeOK, CallInv, TaskInv, InboxInv, [Next]_vars
    PROVE  InboxInv'
<1> USE DEF download, receivers, stream, disk, native
<1>1. CASE UNCHANGED vars
  BY <1>1 DEF vars, InboxInv, Completing, CallInv, TaskInv, TypeOK, Checks
<1>2. ASSUME NEW c \in Chains, Resume(c) PROVE InboxInv'
  BY <1>2 DEF Resume, InboxInv, Completing, CallInv, TaskInv, TypeOK, Checks
<1>3. ASSUME NEW c \in Chains, ReadId(c) PROVE InboxInv'
  BY <1>3 DEF ReadId, InboxInv, Completing, CallInv, TaskInv, TypeOK, Checks
<1>4. ASSUME NEW c \in Chains, Enqueue(c) PROVE InboxInv'
  BY <1>4 DEF Enqueue, InboxInv, Completing, CallInv, TaskInv, TypeOK, Checks
<1>5. ASSUME NEW c \in Chains, StoreId(c) PROVE InboxInv'
  BY <1>5 DEF StoreId, InboxInv, Completing, CallInv, TaskInv, TypeOK, Checks
<1>6. ASSUME NEW c \in Chains, Register(c) PROVE InboxInv'
  BY <1>6 DEF Register, InboxInv, Completing, CallInv, TaskInv, TypeOK, Checks
<1>7. ASSUME NEW c \in Chains, ScheduleCheck(c) PROVE InboxInv'
  BY <1>7
     DEF ScheduleCheck, InboxInv, Completing, CallInv, TaskInv, TypeOK, Checks
<1>8. ASSUME NEW c \in Chains, Subscribe(c) PROVE InboxInv'
  BY <1>8
     DEF Subscribe, StreamComplete, InboxInv, Completing, CallInv, TaskInv,
         TypeOK, Checks
<1>9. ASSUME NEW c \in Chains, NEW k \in Checks, Query(c, k) PROVE InboxInv'
  BY <1>9
     DEF Query, SubjectError, Listening, InboxInv, Completing, CallInv,
         TaskInv, TypeOK, Checks
<1>10. ASSUME NEW c \in Chains, NEW k \in Checks, EmitFile(c, k) PROVE InboxInv'
  BY <1>10
     DEF EmitFile, Listening, InboxInv, Completing, CallInv, TaskInv, TypeOK,
         Checks
<1>11. ASSUME NEW c \in Chains, NEW k \in Checks, CompleteSubject(c, k)
       PROVE  InboxInv'
  BY <1>11
     DEF CompleteSubject, StreamComplete, Listening, InboxInv, Completing,
         CallInv, TaskInv, TypeOK, Checks
<1>12. ASSUME NEW c \in Chains, OnReceive(c) PROVE InboxInv'
  BY <1>12
     DEF OnReceive, InboxInv, Completing, CallInv, TaskInv, TypeOK, Checks
<1>13. ASSUME NEW c \in Chains, TakeFile(c) PROVE InboxInv'
  BY <1>13
     DEF TakeFile, Attached, Listening, InboxInv, Completing, CallInv, TaskInv,
         TypeOK, Checks
<1>14. ASSUME NEW c \in Chains, CheckExists(c) PROVE InboxInv'
  BY <1>14
     DEF CheckExists, Unpacked, InboxInv, Completing, CallInv, TaskInv, TypeOK,
         Checks
<1>15. ASSUME NEW c \in Chains, CreateFile(c) PROVE InboxInv'
  BY <1>15
     DEF CreateFile, MapFails, MapThrows, Unregister, InboxInv, Completing,
         CallInv, TaskInv, TypeOK, Checks
<1>16. ASSUME NEW c \in Chains, CopyFile(c) PROVE InboxInv'
  BY <1>16
     DEF CopyFile, Unpacked, MapFails, MapThrows, Unregister, InboxInv,
         Completing, CallInv, TaskInv, TypeOK, Checks
<1>17. ASSUME NEW c \in Chains, LoadModel(c) PROVE InboxInv'
  BY <1>17
     DEF LoadModel, OpenCamera, InboxInv, Completing, CallInv, TaskInv, TypeOK,
         Checks
<1>18. ASSUME NEW c \in Chains, FinishLoad(c) PROVE InboxInv'
  BY <1>18
     DEF FinishLoad, OpenCamera, InboxInv, Completing, CallInv, TaskInv,
         TypeOK, Checks
<1>19. ASSUME NEW c \in Chains, Terminate(c) PROVE InboxInv'
  BY <1>19
     DEF Terminate, Unregister, InboxInv, Completing, CallInv, TaskInv, TypeOK,
         Checks
<1>20. ASSUME NEW c \in Chains, Pause(c) PROVE InboxInv'
  BY <1>20
     DEF Pause, Unregister, InboxInv, Completing, CallInv, TaskInv, TypeOK,
         Checks
<1>21. ASSUME NEW c \in Chains, Detach(c) PROVE InboxInv'
  BY <1>21 DEF Detach, InboxInv, Completing, CallInv, TaskInv, TypeOK, Checks
<1>22. ASSUME NEW t \in Tasks, DownloadEnds(t) PROVE InboxInv'
  BY <1>22
     DEF DownloadEnds, InboxInv, Completing, CallInv, TaskInv, TypeOK, Checks
<1>23. ASSUME NEW t \in Tasks, DownloadRemoved(t) PROVE InboxInv'
  BY <1>23
     DEF DownloadRemoved, InboxInv, Completing, CallInv, TaskInv, TypeOK,
         Checks
<1>24. ASSUME FlushPreferences PROVE InboxInv'
  BY <1>24
     DEF FlushPreferences, InboxInv, Completing, CallInv, TaskInv, TypeOK,
         Checks
<1>25. ASSUME ProcessDies PROVE InboxInv'
  BY <1>25
     DEF ProcessDies, InboxInv, Completing, CallInv, TaskInv, TypeOK, Checks
<1> QED
  BY <1>1, <1>2, <1>3, <1>4, <1>5, <1>6, <1>7, <1>8, <1>9, <1>10, <1>11, <1>12,
     <1>13, <1>14, <1>15, <1>16, <1>17, <1>18, <1>19, <1>20, <1>21, <1>22,
     <1>23, <1>24, <1>25
  DEF Next, CallStep, CheckStep, StreamStep

(* Every end of a chain unregisters its receiver.                          *)
LEMMA StreamStepInv ==
    ASSUME TypeOK, CallInv, StreamInv, [Next]_vars
    PROVE  StreamInv'
<1> USE DEF download, receivers, stream, disk, native
<1>1. CASE UNCHANGED vars
  BY <1>1 DEF vars, StreamInv, CallInv, TypeOK, Checks, Attached, Listening
<1>2. ASSUME NEW c \in Chains, Resume(c) PROVE StreamInv'
  BY <1>2 DEF Resume, StreamInv, CallInv, TypeOK, Checks, Attached, Listening
<1>3. ASSUME NEW c \in Chains, ReadId(c) PROVE StreamInv'
  BY <1>3 DEF ReadId, StreamInv, CallInv, TypeOK, Checks, Attached, Listening
<1>4. ASSUME NEW c \in Chains, Enqueue(c) PROVE StreamInv'
  BY <1>4 DEF Enqueue, StreamInv, CallInv, TypeOK, Checks, Attached, Listening
<1>5. ASSUME NEW c \in Chains, StoreId(c) PROVE StreamInv'
  BY <1>5 DEF StoreId, StreamInv, CallInv, TypeOK, Checks, Attached, Listening
<1>6. ASSUME NEW c \in Chains, Register(c) PROVE StreamInv'
  BY <1>6 DEF Register, StreamInv, CallInv, TypeOK, Checks, Attached, Listening
<1>7. ASSUME NEW c \in Chains, ScheduleCheck(c) PROVE StreamInv'
  BY <1>7
     DEF ScheduleCheck, StreamInv, CallInv, TypeOK, Checks, Attached, Listening
<1>8. ASSUME NEW c \in Chains, Subscribe(c) PROVE StreamInv'
  <2>1. CASE c \in disposed
    BY <1>8, <2>1
       DEF Subscribe, StreamInv, CallInv, TypeOK, Attached, Listening
  <2>2. CASE c \notin disposed /\ subject[c] = "open"
    BY <1>8, <2>2
       DEF Subscribe, StreamInv, CallInv, TypeOK, Attached, Listening
  <2>3. CASE c \notin disposed /\ subject[c] = "completed"
    BY <1>8, <2>3
       DEF Subscribe, StreamComplete, StreamInv, CallInv, TypeOK, Attached,
           Listening
  <2>4. CASE c \notin disposed /\ subject[c] = "error"
    BY <1>8, <2>4
       DEF Subscribe, StreamInv, CallInv, TypeOK, Attached, Listening
  <2> QED  BY <2>1, <2>2, <2>3, <2>4 DEF TypeOK
<1>9. ASSUME NEW c \in Chains, NEW k \in Checks, Query(c, k) PROVE StreamInv'
  BY <1>9
     DEF Query, SubjectError, Listening, StreamInv, CallInv, TypeOK, Checks,
         Attached, Listening
<1>10. ASSUME NEW c \in Chains, NEW k \in Checks, EmitFile(c, k)
       PROVE  StreamInv'
  BY <1>10
     DEF EmitFile, Listening, StreamInv, CallInv, TypeOK, Checks, Attached,
         Listening
<1>11. ASSUME NEW c \in Chains, NEW k \in Checks, CompleteSubject(c, k)
       PROVE  StreamInv'
  BY <1>11
     DEF CompleteSubject, StreamComplete, Listening, StreamInv, CallInv,
         TypeOK, Checks, Attached, Listening
<1>12. ASSUME NEW c \in Chains, OnReceive(c) PROVE StreamInv'
  BY <1>12
     DEF OnReceive, StreamInv, CallInv, TypeOK, Checks, Attached, Listening
<1>13. ASSUME NEW c \in Chains, TakeFile(c) PROVE StreamInv'
  BY <1>13
     DEF TakeFile, Attached, Listening, StreamInv, CallInv, TypeOK, Checks,
         Attached, Listening
<1>14. ASSUME NEW c \in Chains, CheckExists(c) PROVE StreamInv'
  BY <1>14
     DEF CheckExists, Unpacked, StreamInv, CallInv, TypeOK, Checks, Attached,
         Listening
<1>15. ASSUME NEW c \in Chains, CreateFile(c) PROVE StreamInv'
  BY <1>15
     DEF CreateFile, MapFails, MapThrows, Unregister, StreamInv, CallInv,
         TypeOK, Checks, Attached, Listening
<1>16. ASSUME NEW c \in Chains, CopyFile(c) PROVE StreamInv'
  BY <1>16
     DEF CopyFile, Unpacked, MapFails, MapThrows, Unregister, StreamInv,
         CallInv, TypeOK, Checks, Attached, Listening
<1>17. ASSUME NEW c \in Chains, LoadModel(c) PROVE StreamInv'
  BY <1>17
     DEF LoadModel, OpenCamera, StreamInv, CallInv, TypeOK, Checks, Attached,
         Listening
<1>18. ASSUME NEW c \in Chains, FinishLoad(c) PROVE StreamInv'
  BY <1>18
     DEF FinishLoad, OpenCamera, StreamInv, CallInv, TypeOK, Checks, Attached,
         Listening
<1>19. ASSUME NEW c \in Chains, Terminate(c) PROVE StreamInv'
  BY <1>19
     DEF Terminate, Unregister, StreamInv, CallInv, TypeOK, Checks, Attached,
         Listening
<1>20. ASSUME NEW c \in Chains, Pause(c) PROVE StreamInv'
  BY <1>20
     DEF Pause, Unregister, StreamInv, CallInv, TypeOK, Checks, Attached,
         Listening
<1>21. ASSUME NEW c \in Chains, Detach(c) PROVE StreamInv'
  BY <1>21 DEF Detach, StreamInv, CallInv, TypeOK, Checks, Attached, Listening
<1>22. ASSUME NEW t \in Tasks, DownloadEnds(t) PROVE StreamInv'
  BY <1>22
     DEF DownloadEnds, StreamInv, CallInv, TypeOK, Checks, Attached, Listening
<1>23. ASSUME NEW t \in Tasks, DownloadRemoved(t) PROVE StreamInv'
  BY <1>23
     DEF DownloadRemoved, StreamInv, CallInv, TypeOK, Checks, Attached,
         Listening
<1>24. ASSUME FlushPreferences PROVE StreamInv'
  BY <1>24
     DEF FlushPreferences, StreamInv, CallInv, TypeOK, Checks, Attached,
         Listening
<1>25. ASSUME ProcessDies PROVE StreamInv'
  BY <1>25
     DEF ProcessDies, StreamInv, CallInv, TypeOK, Checks, Attached, Listening
<1> QED
  BY <1>1, <1>2, <1>3, <1>4, <1>5, <1>6, <1>7, <1>8, <1>9, <1>10, <1>11, <1>12,
     <1>13, <1>14, <1>15, <1>16, <1>17, <1>18, <1>19, <1>20, <1>21, <1>22,
     <1>23, <1>24, <1>25
  DEF Next, CallStep, CheckStep, StreamStep

(* The file is never removed.                                              *)
LEMMA FileStep ==
    ASSUME TypeOK, FileInv, [Next]_vars
    PROVE  FileInv'
<1> USE DEF download, receivers, stream, disk, native
<1>1. CASE UNCHANGED vars
  BY <1>1 DEF vars, FileInv, TypeOK
<1>2. ASSUME NEW c \in Chains, Resume(c) PROVE FileInv'
  BY <1>2 DEF Resume, FileInv, TypeOK
<1>3. ASSUME NEW c \in Chains, ReadId(c) PROVE FileInv'
  BY <1>3 DEF ReadId, FileInv, TypeOK
<1>4. ASSUME NEW c \in Chains, Enqueue(c) PROVE FileInv'
  BY <1>4 DEF Enqueue, FileInv, TypeOK
<1>5. ASSUME NEW c \in Chains, StoreId(c) PROVE FileInv'
  BY <1>5 DEF StoreId, FileInv, TypeOK
<1>6. ASSUME NEW c \in Chains, Register(c) PROVE FileInv'
  BY <1>6 DEF Register, FileInv, TypeOK
<1>7. ASSUME NEW c \in Chains, ScheduleCheck(c) PROVE FileInv'
  BY <1>7 DEF ScheduleCheck, FileInv, TypeOK
<1>8. ASSUME NEW c \in Chains, Subscribe(c) PROVE FileInv'
  BY <1>8 DEF Subscribe, StreamComplete, FileInv, TypeOK
<1>9. ASSUME NEW c \in Chains, NEW k \in Checks, Query(c, k) PROVE FileInv'
  BY <1>9 DEF Query, SubjectError, Listening, FileInv, TypeOK
<1>10. ASSUME NEW c \in Chains, NEW k \in Checks, EmitFile(c, k) PROVE FileInv'
  BY <1>10 DEF EmitFile, Listening, FileInv, TypeOK
<1>11. ASSUME NEW c \in Chains, NEW k \in Checks, CompleteSubject(c, k)
       PROVE  FileInv'
  BY <1>11 DEF CompleteSubject, StreamComplete, Listening, FileInv, TypeOK
<1>12. ASSUME NEW c \in Chains, OnReceive(c) PROVE FileInv'
  BY <1>12 DEF OnReceive, FileInv, TypeOK
<1>13. ASSUME NEW c \in Chains, TakeFile(c) PROVE FileInv'
  BY <1>13 DEF TakeFile, Attached, Listening, FileInv, TypeOK
<1>14. ASSUME NEW c \in Chains, CheckExists(c) PROVE FileInv'
  BY <1>14 DEF CheckExists, Unpacked, FileInv, TypeOK
<1>15. ASSUME NEW c \in Chains, CreateFile(c) PROVE FileInv'
  BY <1>15 DEF CreateFile, MapFails, MapThrows, Unregister, FileInv, TypeOK
<1>16. ASSUME NEW c \in Chains, CopyFile(c) PROVE FileInv'
  BY <1>16
     DEF CopyFile, Unpacked, MapFails, MapThrows, Unregister, FileInv, TypeOK
<1>17. ASSUME NEW c \in Chains, LoadModel(c) PROVE FileInv'
  BY <1>17 DEF LoadModel, OpenCamera, FileInv, TypeOK
<1>18. ASSUME NEW c \in Chains, FinishLoad(c) PROVE FileInv'
  BY <1>18 DEF FinishLoad, OpenCamera, FileInv, TypeOK
<1>19. ASSUME NEW c \in Chains, Terminate(c) PROVE FileInv'
  BY <1>19 DEF Terminate, Unregister, FileInv, TypeOK
<1>20. ASSUME NEW c \in Chains, Pause(c) PROVE FileInv'
  BY <1>20 DEF Pause, Unregister, FileInv, TypeOK
<1>21. ASSUME NEW c \in Chains, Detach(c) PROVE FileInv'
  BY <1>21 DEF Detach, FileInv, TypeOK
<1>22. ASSUME NEW t \in Tasks, DownloadEnds(t) PROVE FileInv'
  BY <1>22 DEF DownloadEnds, FileInv, TypeOK
<1>23. ASSUME NEW t \in Tasks, DownloadRemoved(t) PROVE FileInv'
  BY <1>23 DEF DownloadRemoved, FileInv, TypeOK
<1>24. ASSUME FlushPreferences PROVE FileInv'
  BY <1>24 DEF FlushPreferences, FileInv, TypeOK
<1>25. ASSUME ProcessDies PROVE FileInv'
  BY <1>25 DEF ProcessDies, FileInv, TypeOK
<1> QED
  BY <1>1, <1>2, <1>3, <1>4, <1>5, <1>6, <1>7, <1>8, <1>9, <1>10, <1>11, <1>12,
     <1>13, <1>14, <1>15, <1>16, <1>17, <1>18, <1>19, <1>20, <1>21, <1>22,
     <1>23, <1>24, <1>25
  DEF Next, CallStep, CheckStep, StreamStep

(* A check or the broadcast follows the download.                          *)
LEMMA HeardStep ==
    ASSUME TypeOK, CallInv, IdInv, StreamInv, HeardInv, [Next]_vars
    PROVE  HeardInv'
<1> USE DEF download, receivers, stream, disk, native
<1>1. CASE UNCHANGED vars
  BY <1>1
     DEF vars, HeardInv, CallInv, IdInv, StreamInv, TypeOK, Checks, Attached,
         Listening
<1>2. ASSUME NEW c \in Chains, Resume(c) PROVE HeardInv'
  BY <1>2
     DEF Resume, HeardInv, CallInv, IdInv, StreamInv, TypeOK, Checks, Attached,
         Listening
<1>3. ASSUME NEW c \in Chains, ReadId(c) PROVE HeardInv'
  BY <1>3
     DEF ReadId, HeardInv, CallInv, IdInv, StreamInv, TypeOK, Checks, Attached,
         Listening
<1>4. ASSUME NEW c \in Chains, Enqueue(c) PROVE HeardInv'
  BY <1>4
     DEF Enqueue, HeardInv, CallInv, IdInv, StreamInv, TypeOK, Checks,
         Attached, Listening
<1>5. ASSUME NEW c \in Chains, StoreId(c) PROVE HeardInv'
  BY <1>5
     DEF StoreId, HeardInv, CallInv, IdInv, StreamInv, TypeOK, Checks,
         Attached, Listening
<1>6. ASSUME NEW c \in Chains, Register(c) PROVE HeardInv'
  BY <1>6
     DEF Register, HeardInv, CallInv, IdInv, StreamInv, TypeOK, Checks,
         Attached, Listening
<1>7. ASSUME NEW c \in Chains, ScheduleCheck(c) PROVE HeardInv'
  BY <1>7
     DEF ScheduleCheck, HeardInv, CallInv, IdInv, StreamInv, TypeOK, Checks,
         Attached, Listening
<1>8. ASSUME NEW c \in Chains, Subscribe(c) PROVE HeardInv'
  <2>1. /\ UNCHANGED <<id, task, broadcast, check, subject, leaving, disposed, ended>>
        /\ start[c] = "subscribe" /\ subscribed' \in {subscribed, subscribed \cup {c}}
        /\ \A d \in Chains \ {c} : start'[d] = start[d]
        /\ start'[c] = "done"
    BY <1>8 DEF Subscribe, TypeOK
  <2> QED  BY <2>1 DEF HeardInv, Attached, Listening
<1>9. ASSUME NEW c \in Chains, NEW k \in Checks, Query(c, k) PROVE HeardInv'
  BY <1>9
     DEF Query, SubjectError, Listening, HeardInv, CallInv, IdInv, StreamInv,
         TypeOK, Checks, Attached, Listening
<1>10. ASSUME NEW c \in Chains, NEW k \in Checks, EmitFile(c, k) PROVE HeardInv'
  BY <1>10
     DEF EmitFile, Listening, HeardInv, CallInv, IdInv, StreamInv, TypeOK,
         Checks, Attached, Listening
<1>11. ASSUME NEW c \in Chains, NEW k \in Checks, CompleteSubject(c, k)
       PROVE  HeardInv'
  BY <1>11
     DEF CompleteSubject, StreamComplete, Listening, HeardInv, CallInv, IdInv,
         StreamInv, TypeOK, Checks, Attached, Listening
<1>12. ASSUME NEW c \in Chains, OnReceive(c) PROVE HeardInv'
  BY <1>12
     DEF OnReceive, HeardInv, CallInv, IdInv, StreamInv, TypeOK, Checks,
         Attached, Listening
<1>13. ASSUME NEW c \in Chains, TakeFile(c) PROVE HeardInv'
  BY <1>13
     DEF TakeFile, Attached, Listening, HeardInv, CallInv, IdInv, StreamInv,
         TypeOK, Checks, Attached, Listening
<1>14. ASSUME NEW c \in Chains, CheckExists(c) PROVE HeardInv'
  BY <1>14
     DEF CheckExists, Unpacked, HeardInv, CallInv, IdInv, StreamInv, TypeOK,
         Checks, Attached, Listening
<1>15. ASSUME NEW c \in Chains, CreateFile(c) PROVE HeardInv'
  BY <1>15
     DEF CreateFile, MapFails, MapThrows, Unregister, HeardInv, CallInv, IdInv,
         StreamInv, TypeOK, Checks, Attached, Listening
<1>16. ASSUME NEW c \in Chains, CopyFile(c) PROVE HeardInv'
  BY <1>16
     DEF CopyFile, Unpacked, MapFails, MapThrows, Unregister, HeardInv,
         CallInv, IdInv, StreamInv, TypeOK, Checks, Attached, Listening
<1>17. ASSUME NEW c \in Chains, LoadModel(c) PROVE HeardInv'
  BY <1>17
     DEF LoadModel, OpenCamera, HeardInv, CallInv, IdInv, StreamInv, TypeOK,
         Checks, Attached, Listening
<1>18. ASSUME NEW c \in Chains, FinishLoad(c) PROVE HeardInv'
  BY <1>18
     DEF FinishLoad, OpenCamera, HeardInv, CallInv, IdInv, StreamInv, TypeOK,
         Checks, Attached, Listening
<1>19. ASSUME NEW c \in Chains, Terminate(c) PROVE HeardInv'
  BY <1>19
     DEF Terminate, Unregister, HeardInv, CallInv, IdInv, StreamInv, TypeOK,
         Checks, Attached, Listening
<1>20. ASSUME NEW c \in Chains, Pause(c) PROVE HeardInv'
  BY <1>20
     DEF Pause, Unregister, HeardInv, CallInv, IdInv, StreamInv, TypeOK,
         Checks, Attached, Listening
<1>21. ASSUME NEW c \in Chains, Detach(c) PROVE HeardInv'
  BY <1>21
     DEF Detach, HeardInv, CallInv, IdInv, StreamInv, TypeOK, Checks, Attached,
         Listening
<1>22. ASSUME NEW t \in Tasks, DownloadEnds(t) PROVE HeardInv'
  BY <1>22
     DEF DownloadEnds, HeardInv, CallInv, IdInv, StreamInv, TypeOK, Checks,
         Attached, Listening
<1>23. ASSUME NEW t \in Tasks, DownloadRemoved(t) PROVE HeardInv'
  BY <1>23
     DEF DownloadRemoved, HeardInv, CallInv, IdInv, StreamInv, TypeOK, Checks,
         Attached, Listening
<1>24. ASSUME FlushPreferences PROVE HeardInv'
  BY <1>24
     DEF FlushPreferences, HeardInv, CallInv, IdInv, StreamInv, TypeOK, Checks,
         Attached, Listening
<1>25. ASSUME ProcessDies PROVE HeardInv'
  BY <1>25
     DEF ProcessDies, HeardInv, CallInv, IdInv, StreamInv, TypeOK, Checks,
         Attached, Listening
<1> QED
  BY <1>1, <1>2, <1>3, <1>4, <1>5, <1>6, <1>7, <1>8, <1>9, <1>10, <1>11, <1>12,
     <1>13, <1>14, <1>15, <1>16, <1>17, <1>18, <1>19, <1>20, <1>21, <1>22,
     <1>23, <1>24, <1>25
  DEF Next, CallStep, CheckStep, StreamStep

(* What kills the process leaves its cause behind.                         *)
LEMMA FatalStep ==
    ASSUME TypeOK, IdInv, StreamInv, FileInv, FatalCauses, [Next]_vars
    PROVE  FatalCauses'
<1> USE DEF download, receivers, stream, disk, native
<1>1. CASE UNCHANGED vars
  BY <1>1
     DEF vars, FatalCauses, IdInv, StreamInv, FileInv, TypeOK, Attached,
         Listening
<1>2. ASSUME NEW c \in Chains, ~crashed, Resume(c) PROVE FatalCauses'
  BY <1>2
     DEF Resume, FatalCauses, IdInv, StreamInv, FileInv, TypeOK, Attached,
         Listening
<1>3. ASSUME NEW c \in Chains, ~crashed, ReadId(c) PROVE FatalCauses'
  BY <1>3
     DEF ReadId, FatalCauses, IdInv, StreamInv, FileInv, TypeOK, Attached,
         Listening
<1>4. ASSUME NEW c \in Chains, ~crashed, Enqueue(c) PROVE FatalCauses'
  BY <1>4
     DEF Enqueue, FatalCauses, IdInv, StreamInv, FileInv, TypeOK, Attached,
         Listening
<1>5. ASSUME NEW c \in Chains, ~crashed, StoreId(c) PROVE FatalCauses'
  BY <1>5
     DEF StoreId, FatalCauses, IdInv, StreamInv, FileInv, TypeOK, Attached,
         Listening
<1>6. ASSUME NEW c \in Chains, ~crashed, Register(c) PROVE FatalCauses'
  BY <1>6
     DEF Register, FatalCauses, IdInv, StreamInv, FileInv, TypeOK, Attached,
         Listening
<1>7. ASSUME NEW c \in Chains, ~crashed, ScheduleCheck(c) PROVE FatalCauses'
  BY <1>7
     DEF ScheduleCheck, FatalCauses, IdInv, StreamInv, FileInv, TypeOK,
         Attached, Listening
<1>8. ASSUME NEW c \in Chains, ~crashed, Subscribe(c) PROVE FatalCauses'
  BY <1>8
     DEF Subscribe, StreamComplete, FatalCauses, IdInv, StreamInv, FileInv,
         TypeOK, Attached, Listening
<1>9. ASSUME NEW c \in Chains, NEW k \in Checks, ~crashed, Query(c, k)
      PROVE  FatalCauses'
  BY <1>9
     DEF Query, SubjectError, Listening, FatalCauses, IdInv, StreamInv,
         FileInv, TypeOK, Attached, Listening
<1>10. ASSUME NEW c \in Chains, NEW k \in Checks, ~crashed, EmitFile(c, k)
       PROVE  FatalCauses'
  BY <1>10
     DEF EmitFile, Listening, FatalCauses, IdInv, StreamInv, FileInv, TypeOK,
         Attached, Listening
<1>11. ASSUME NEW c \in Chains, NEW k \in Checks, ~crashed, CompleteSubject(c, k)
       PROVE  FatalCauses'
  BY <1>11
     DEF CompleteSubject, StreamComplete, Listening, FatalCauses, IdInv,
         StreamInv, FileInv, TypeOK, Attached, Listening
<1>12. ASSUME NEW c \in Chains, ~crashed, OnReceive(c) PROVE FatalCauses'
  BY <1>12
     DEF OnReceive, FatalCauses, IdInv, StreamInv, FileInv, TypeOK, Attached,
         Listening
<1>13. ASSUME NEW c \in Chains, ~crashed, TakeFile(c) PROVE FatalCauses'
  BY <1>13
     DEF TakeFile, Attached, Listening, FatalCauses, IdInv, StreamInv, FileInv,
         TypeOK, Attached, Listening
<1>14. ASSUME NEW c \in Chains, ~crashed, CheckExists(c) PROVE FatalCauses'
  BY <1>14
     DEF CheckExists, Unpacked, FatalCauses, IdInv, StreamInv, FileInv, TypeOK,
         Attached, Listening
<1>15. ASSUME NEW c \in Chains, ~crashed, CreateFile(c) PROVE FatalCauses'
  BY <1>15
     DEF CreateFile, MapFails, MapThrows, Unregister, FatalCauses, IdInv,
         StreamInv, FileInv, TypeOK, Attached, Listening
<1>16. ASSUME NEW c \in Chains, ~crashed, CopyFile(c) PROVE FatalCauses'
  BY <1>16
     DEF CopyFile, Unpacked, MapFails, MapThrows, Unregister, FatalCauses,
         IdInv, StreamInv, FileInv, TypeOK, Attached, Listening
<1>17. ASSUME NEW c \in Chains, ~crashed, LoadModel(c) PROVE FatalCauses'
  BY <1>17
     DEF LoadModel, OpenCamera, FatalCauses, IdInv, StreamInv, FileInv, TypeOK,
         Attached, Listening
<1>18. ASSUME NEW c \in Chains, ~crashed, FinishLoad(c) PROVE FatalCauses'
  BY <1>18
     DEF FinishLoad, OpenCamera, FatalCauses, IdInv, StreamInv, FileInv,
         TypeOK, Attached, Listening
<1>19. ASSUME NEW c \in Chains, ~crashed, Terminate(c) PROVE FatalCauses'
  BY <1>19
     DEF Terminate, Unregister, FatalCauses, IdInv, StreamInv, FileInv, TypeOK,
         Attached, Listening
<1>20. ASSUME NEW c \in Chains, ~crashed, Pause(c) PROVE FatalCauses'
  BY <1>20
     DEF Pause, Unregister, FatalCauses, IdInv, StreamInv, FileInv, TypeOK,
         Attached, Listening
<1>21. ASSUME NEW c \in Chains, ~crashed, Detach(c) PROVE FatalCauses'
  BY <1>21
     DEF Detach, FatalCauses, IdInv, StreamInv, FileInv, TypeOK, Attached,
         Listening
<1>22. ASSUME NEW t \in Tasks, ~crashed, DownloadEnds(t) PROVE FatalCauses'
  BY <1>22
     DEF DownloadEnds, FatalCauses, IdInv, StreamInv, FileInv, TypeOK,
         Attached, Listening
<1>23. ASSUME NEW t \in Tasks, ~crashed, DownloadRemoved(t) PROVE FatalCauses'
  BY <1>23
     DEF DownloadRemoved, FatalCauses, IdInv, StreamInv, FileInv, TypeOK,
         Attached, Listening
<1>24. ASSUME ~crashed, FlushPreferences PROVE FatalCauses'
  BY <1>24
     DEF FlushPreferences, FatalCauses, IdInv, StreamInv, FileInv, TypeOK,
         Attached, Listening
<1>25. ASSUME ProcessDies PROVE FatalCauses'
  BY <1>25
     DEF ProcessDies, FatalCauses, IdInv, StreamInv, FileInv, TypeOK, Attached,
         Listening
<1> QED
  BY <1>1, <1>2, <1>3, <1>4, <1>5, <1>6, <1>7, <1>8, <1>9, <1>10, <1>11, <1>12,
     <1>13, <1>14, <1>15, <1>16, <1>17, <1>18, <1>19, <1>20, <1>21, <1>22,
     <1>23, <1>24, <1>25
  DEF Next, CallStep, CheckStep, StreamStep

(* An id that the disk knows is only forgotten with an error of its chain:  *)
(* a chain that completes is registered until it is leaving.                *)
LEMMA ForgetStep ==
    ASSUME IInv, pref # None, prefDisk # None, pref' = None, [Next]_vars
    PROVE  Forgets
<1> USE DEF download, receivers, stream, disk, native
<1> USE DEF Forgets, IInv
<1>1. CASE UNCHANGED vars
  BY <1>1 DEF vars, TypeOK
<1>2. ASSUME NEW c \in Chains, Resume(c) PROVE Forgets
  BY <1>2 DEF Resume, TypeOK
<1>3. ASSUME NEW c \in Chains, ReadId(c) PROVE Forgets
  BY <1>3 DEF ReadId, TypeOK
<1>4. ASSUME NEW c \in Chains, Enqueue(c) PROVE Forgets
  BY <1>4 DEF Enqueue, TypeOK
<1>5. ASSUME NEW c \in Chains, StoreId(c) PROVE Forgets
  <2>1. id[c] \in Tasks /\ pref' = id[c]
    BY <1>5 DEF StoreId, IdInv
  <2> QED  BY <2>1, NoneAssumption
<1>6. ASSUME NEW c \in Chains, Register(c) PROVE Forgets
  BY <1>6 DEF Register, TypeOK
<1>7. ASSUME NEW c \in Chains, ScheduleCheck(c) PROVE Forgets
  BY <1>7 DEF ScheduleCheck, TypeOK
<1>8. ASSUME NEW c \in Chains, Subscribe(c) PROVE Forgets
  <2>1. c \in registered /\ ending[c] = "no"
    BY <1>8 DEF Subscribe, CallInv
  <2>2. CASE subject[c] = "open" \/ subject[c] = "completed" \/ c \in disposed
    BY <1>8, <2>1, <2>2 DEF Subscribe, StreamComplete
  <2>3. CASE subject[c] = "error" /\ c \notin disposed
    BY <1>8, <2>1, <2>3 DEF Subscribe, TypeOK
  <2> QED  BY <2>2, <2>3 DEF TypeOK
<1>9. ASSUME NEW c \in Chains, NEW k \in Checks, Query(c, k) PROVE Forgets
  <2>1. pref' # pref
    OBVIOUS
  <2>2. SubjectError(c) /\ subject[c] = "open" /\ Listening(c)
    BY <1>9, <2>1 DEF Query, SubjectError
  <2>3. ending[c] = "no" /\ ending'[c] = "error" /\ subject'[c] = "error"
    BY <2>2 DEF SubjectError, StreamInv, TypeOK
  <2> QED  BY <2>3
<1>10. ASSUME NEW c \in Chains, NEW k \in Checks, EmitFile(c, k) PROVE Forgets
  BY <1>10 DEF EmitFile, Listening, TypeOK
<1>11. ASSUME NEW c \in Chains, NEW k \in Checks, CompleteSubject(c, k)
       PROVE  Forgets
  <2>1. pref' # pref
    OBVIOUS
  <2>2. subject[c] = "open" /\ Listening(c) /\ c \notin registered
    BY <1>11, <2>1 DEF CompleteSubject, StreamComplete
  <2>3. ending[c] = "no" /\ ending'[c] = "error"
    BY <1>11, <2>2 DEF CompleteSubject, StreamComplete, StreamInv, TypeOK
  <2>4. subject'[c] = "completed"
    BY <1>11, <2>2 DEF CompleteSubject, TypeOK
  <2>5. c \in leaving
    BY <2>2 DEF StreamInv, Attached
  <2> QED  BY <2>2, <2>3, <2>4, <2>5
<1>12. ASSUME NEW c \in Chains, OnReceive(c) PROVE Forgets
  BY <1>12 DEF OnReceive, TypeOK
<1>13. ASSUME NEW c \in Chains, TakeFile(c) PROVE Forgets
  BY <1>13 DEF TakeFile, Attached, Listening, TypeOK
<1>14. ASSUME NEW c \in Chains, CheckExists(c) PROVE Forgets
  BY <1>14 DEF CheckExists, Unpacked, TypeOK
<1>15. ASSUME NEW c \in Chains, CreateFile(c) PROVE Forgets
  BY <1>15 DEF CreateFile, MapFails, MapThrows, Unregister, TypeOK
<1>16. ASSUME NEW c \in Chains, CopyFile(c) PROVE Forgets
  BY <1>16 DEF CopyFile, Unpacked, MapFails, MapThrows, Unregister, TypeOK
<1>17. ASSUME NEW c \in Chains, LoadModel(c) PROVE Forgets
  BY <1>17 DEF LoadModel, OpenCamera, TypeOK
<1>18. ASSUME NEW c \in Chains, FinishLoad(c) PROVE Forgets
  BY <1>18 DEF FinishLoad, OpenCamera, TypeOK
<1>19. ASSUME NEW c \in Chains, Terminate(c) PROVE Forgets
  BY <1>19 DEF Terminate, Unregister, TypeOK
<1>20. ASSUME NEW c \in Chains, Pause(c) PROVE Forgets
  BY <1>20 DEF Pause, Unregister, TypeOK
<1>21. ASSUME NEW c \in Chains, Detach(c) PROVE Forgets
  BY <1>21 DEF Detach, TypeOK
<1>22. ASSUME NEW t \in Tasks, DownloadEnds(t) PROVE Forgets
  BY <1>22 DEF DownloadEnds, TypeOK
<1>23. ASSUME NEW t \in Tasks, DownloadRemoved(t) PROVE Forgets
  BY <1>23 DEF DownloadRemoved, TypeOK
<1>24. ASSUME FlushPreferences PROVE Forgets
  BY <1>24 DEF FlushPreferences, TypeOK
<1>25. ASSUME ProcessDies PROVE Forgets
  BY <1>25 DEF ProcessDies, TypeOK
<1> QED
  BY <1>1, <1>2, <1>3, <1>4, <1>5, <1>6, <1>7, <1>8, <1>9, <1>10, <1>11, <1>12,
     <1>13, <1>14, <1>15, <1>16, <1>17, <1>18, <1>19, <1>20, <1>21, <1>22,
     <1>23, <1>24, <1>25
  DEF Next, CallStep, CheckStep, StreamStep

-----------------------------------------------------------------------------
(* Two chains that both work overlap across a pause.                       *)

ActiveInv ==
    \A c, d \in Chains :
        c # d /\ start[c] # "unused" /\ start[d] # "unused"
          => {c, d} \cap Gone # {}

(* Who works, or truncated the file, was resumed; a file that was created   *)
(* never goes away.                                                        *)
WriterInv ==
    /\ writer # None => start[writer] # "unused"
    /\ file = "absent" => writer = None
    /\ \A c \in Chains : work[c] # "idle" => start[c] # "unused"

OInv == ActiveInv /\ WriterInv /\ SecondDownloadNeedsOverlap
        /\ TruncationNeedsOverlap

(* A resume waits until every earlier chain is gone, for good.             *)
LEMMA ActiveStep ==
    ASSUME TypeOK, ActiveInv, [Next]_vars
    PROVE  ActiveInv'
<1> USE DEF download, receivers, stream, disk, native
<1>1. CASE UNCHANGED vars
  BY <1>1 DEF vars, ActiveInv, Gone, TypeOK
<1>2. ASSUME NEW c \in Chains, Resume(c) PROVE ActiveInv'
  BY <1>2 DEF Resume, ActiveInv, Gone, TypeOK
<1>3. ASSUME NEW c \in Chains, ReadId(c) PROVE ActiveInv'
  BY <1>3 DEF ReadId, ActiveInv, Gone, TypeOK
<1>4. ASSUME NEW c \in Chains, Enqueue(c) PROVE ActiveInv'
  BY <1>4 DEF Enqueue, ActiveInv, Gone, TypeOK
<1>5. ASSUME NEW c \in Chains, StoreId(c) PROVE ActiveInv'
  BY <1>5 DEF StoreId, ActiveInv, Gone, TypeOK
<1>6. ASSUME NEW c \in Chains, Register(c) PROVE ActiveInv'
  BY <1>6 DEF Register, ActiveInv, Gone, TypeOK
<1>7. ASSUME NEW c \in Chains, ScheduleCheck(c) PROVE ActiveInv'
  BY <1>7 DEF ScheduleCheck, ActiveInv, Gone, TypeOK
<1>8. ASSUME NEW c \in Chains, Subscribe(c) PROVE ActiveInv'
  BY <1>8 DEF Subscribe, StreamComplete, ActiveInv, Gone, TypeOK
<1>9. ASSUME NEW c \in Chains, NEW k \in Checks, Query(c, k) PROVE ActiveInv'
  BY <1>9 DEF Query, SubjectError, Listening, ActiveInv, Gone, TypeOK
<1>10. ASSUME NEW c \in Chains, NEW k \in Checks, EmitFile(c, k)
       PROVE  ActiveInv'
  BY <1>10 DEF EmitFile, Listening, ActiveInv, Gone, TypeOK
<1>11. ASSUME NEW c \in Chains, NEW k \in Checks, CompleteSubject(c, k)
       PROVE  ActiveInv'
  BY <1>11
     DEF CompleteSubject, StreamComplete, Listening, ActiveInv, Gone, TypeOK
<1>12. ASSUME NEW c \in Chains, OnReceive(c) PROVE ActiveInv'
  BY <1>12 DEF OnReceive, ActiveInv, Gone, TypeOK
<1>13. ASSUME NEW c \in Chains, TakeFile(c) PROVE ActiveInv'
  BY <1>13 DEF TakeFile, Attached, Listening, ActiveInv, Gone, TypeOK
<1>14. ASSUME NEW c \in Chains, CheckExists(c) PROVE ActiveInv'
  BY <1>14 DEF CheckExists, Unpacked, ActiveInv, Gone, TypeOK
<1>15. ASSUME NEW c \in Chains, CreateFile(c) PROVE ActiveInv'
  BY <1>15
     DEF CreateFile, MapFails, MapThrows, Unregister, ActiveInv, Gone, TypeOK
<1>16. ASSUME NEW c \in Chains, CopyFile(c) PROVE ActiveInv'
  BY <1>16
     DEF CopyFile, Unpacked, MapFails, MapThrows, Unregister, ActiveInv, Gone,
         TypeOK
<1>17. ASSUME NEW c \in Chains, LoadModel(c) PROVE ActiveInv'
  BY <1>17 DEF LoadModel, OpenCamera, ActiveInv, Gone, TypeOK
<1>18. ASSUME NEW c \in Chains, FinishLoad(c) PROVE ActiveInv'
  BY <1>18 DEF FinishLoad, OpenCamera, ActiveInv, Gone, TypeOK
<1>19. ASSUME NEW c \in Chains, Terminate(c) PROVE ActiveInv'
  BY <1>19 DEF Terminate, Unregister, ActiveInv, Gone, TypeOK
<1>20. ASSUME NEW c \in Chains, Pause(c) PROVE ActiveInv'
  BY <1>20 DEF Pause, Unregister, ActiveInv, Gone, TypeOK
<1>21. ASSUME NEW c \in Chains, Detach(c) PROVE ActiveInv'
  BY <1>21 DEF Detach, ActiveInv, Gone, TypeOK
<1>22. ASSUME NEW t \in Tasks, DownloadEnds(t) PROVE ActiveInv'
  BY <1>22 DEF DownloadEnds, ActiveInv, Gone, TypeOK
<1>23. ASSUME NEW t \in Tasks, DownloadRemoved(t) PROVE ActiveInv'
  BY <1>23 DEF DownloadRemoved, ActiveInv, Gone, TypeOK
<1>24. ASSUME FlushPreferences PROVE ActiveInv'
  BY <1>24 DEF FlushPreferences, ActiveInv, Gone, TypeOK
<1>25. ASSUME ProcessDies PROVE ActiveInv'
  BY <1>25 DEF ProcessDies, ActiveInv, Gone, TypeOK
<1> QED
  BY <1>1, <1>2, <1>3, <1>4, <1>5, <1>6, <1>7, <1>8, <1>9, <1>10, <1>11, <1>12,
     <1>13, <1>14, <1>15, <1>16, <1>17, <1>18, <1>19, <1>20, <1>21, <1>22,
     <1>23, <1>24, <1>25
  DEF Next, CallStep, CheckStep, StreamStep

(* Only a chain that was subscribed works on the file.                     *)
LEMMA WriterStep ==
    ASSUME TypeOK, CallInv, WriterInv, [Next]_vars
    PROVE  WriterInv'
<1> USE DEF download, receivers, stream, disk, native
<1>1. CASE UNCHANGED vars
  BY <1>1 DEF vars, WriterInv, CallInv, TypeOK
<1>2. ASSUME NEW c \in Chains, Resume(c) PROVE WriterInv'
  BY <1>2 DEF Resume, WriterInv, CallInv, TypeOK
<1>3. ASSUME NEW c \in Chains, ReadId(c) PROVE WriterInv'
  BY <1>3 DEF ReadId, WriterInv, CallInv, TypeOK
<1>4. ASSUME NEW c \in Chains, Enqueue(c) PROVE WriterInv'
  BY <1>4 DEF Enqueue, WriterInv, CallInv, TypeOK
<1>5. ASSUME NEW c \in Chains, StoreId(c) PROVE WriterInv'
  BY <1>5 DEF StoreId, WriterInv, CallInv, TypeOK
<1>6. ASSUME NEW c \in Chains, Register(c) PROVE WriterInv'
  BY <1>6 DEF Register, WriterInv, CallInv, TypeOK
<1>7. ASSUME NEW c \in Chains, ScheduleCheck(c) PROVE WriterInv'
  BY <1>7 DEF ScheduleCheck, WriterInv, CallInv, TypeOK
<1>8. ASSUME NEW c \in Chains, Subscribe(c) PROVE WriterInv'
  BY <1>8 DEF Subscribe, StreamComplete, WriterInv, CallInv, TypeOK
<1>9. ASSUME NEW c \in Chains, NEW k \in Checks, Query(c, k) PROVE WriterInv'
  BY <1>9 DEF Query, SubjectError, Listening, WriterInv, CallInv, TypeOK
<1>10. ASSUME NEW c \in Chains, NEW k \in Checks, EmitFile(c, k)
       PROVE  WriterInv'
  BY <1>10 DEF EmitFile, Listening, WriterInv, CallInv, TypeOK
<1>11. ASSUME NEW c \in Chains, NEW k \in Checks, CompleteSubject(c, k)
       PROVE  WriterInv'
  BY <1>11
     DEF CompleteSubject, StreamComplete, Listening, WriterInv, CallInv, TypeOK
<1>12. ASSUME NEW c \in Chains, OnReceive(c) PROVE WriterInv'
  BY <1>12 DEF OnReceive, WriterInv, CallInv, TypeOK
<1>13. ASSUME NEW c \in Chains, TakeFile(c) PROVE WriterInv'
  BY <1>13 DEF TakeFile, Attached, Listening, WriterInv, CallInv, TypeOK
<1>14. ASSUME NEW c \in Chains, CheckExists(c) PROVE WriterInv'
  BY <1>14 DEF CheckExists, Unpacked, WriterInv, CallInv, TypeOK
<1>15. ASSUME NEW c \in Chains, CreateFile(c) PROVE WriterInv'
  BY <1>15
     DEF CreateFile, MapFails, MapThrows, Unregister, WriterInv, CallInv,
         TypeOK
<1>16. ASSUME NEW c \in Chains, CopyFile(c) PROVE WriterInv'
  BY <1>16
     DEF CopyFile, Unpacked, MapFails, MapThrows, Unregister, WriterInv,
         CallInv, TypeOK
<1>17. ASSUME NEW c \in Chains, LoadModel(c) PROVE WriterInv'
  <2>1. /\ UNCHANGED <<start, disk>> /\ work[c] = "load"
        /\ \A d \in Chains \ {c} : work'[d] = work[d]
    BY <1>17 DEF LoadModel, TypeOK
  <2> QED  BY <2>1 DEF WriterInv
<1>18. ASSUME NEW c \in Chains, FinishLoad(c) PROVE WriterInv'
  BY <1>18 DEF FinishLoad, OpenCamera, WriterInv, CallInv, TypeOK
<1>19. ASSUME NEW c \in Chains, Terminate(c) PROVE WriterInv'
  BY <1>19 DEF Terminate, Unregister, WriterInv, CallInv, TypeOK
<1>20. ASSUME NEW c \in Chains, Pause(c) PROVE WriterInv'
  BY <1>20 DEF Pause, Unregister, WriterInv, CallInv, TypeOK
<1>21. ASSUME NEW c \in Chains, Detach(c) PROVE WriterInv'
  BY <1>21 DEF Detach, WriterInv, CallInv, TypeOK
<1>22. ASSUME NEW t \in Tasks, DownloadEnds(t) PROVE WriterInv'
  BY <1>22 DEF DownloadEnds, WriterInv, CallInv, TypeOK
<1>23. ASSUME NEW t \in Tasks, DownloadRemoved(t) PROVE WriterInv'
  BY <1>23 DEF DownloadRemoved, WriterInv, CallInv, TypeOK
<1>24. ASSUME FlushPreferences PROVE WriterInv'
  BY <1>24 DEF FlushPreferences, WriterInv, CallInv, TypeOK
<1>25. ASSUME ProcessDies PROVE WriterInv'
  BY <1>25 DEF ProcessDies, WriterInv, CallInv, TypeOK
<1> QED
  BY <1>1, <1>2, <1>3, <1>4, <1>5, <1>6, <1>7, <1>8, <1>9, <1>10, <1>11, <1>12,
     <1>13, <1>14, <1>15, <1>16, <1>17, <1>18, <1>19, <1>20, <1>21, <1>22,
     <1>23, <1>24, <1>25
  DEF Next, CallStep, CheckStep, StreamStep

(* A chain that saves an id while another one has read -1 overlaps it.     *)
LEMMA SecondStep ==
    ASSUME TypeOK, CallInv, ActiveInv, SecondDownloadNeedsOverlap, [Next]_vars
    PROVE  SecondDownloadNeedsOverlap'
<1> USE DEF download, receivers, stream, disk, native
<1>1. CASE UNCHANGED vars
  BY <1>1 DEF vars, SecondDownloadNeedsOverlap, Gone, TypeOK
<1>2. ASSUME NEW c \in Chains, Resume(c) PROVE SecondDownloadNeedsOverlap'
  BY <1>2 DEF Resume, SecondDownloadNeedsOverlap, Gone, TypeOK
<1>3. ASSUME NEW c \in Chains, ReadId(c) PROVE SecondDownloadNeedsOverlap'
  BY <1>3 DEF ReadId, SecondDownloadNeedsOverlap, Gone, TypeOK
<1>4. ASSUME NEW c \in Chains, Enqueue(c) PROVE SecondDownloadNeedsOverlap'
  BY <1>4 DEF Enqueue, SecondDownloadNeedsOverlap, Gone, TypeOK
<1>5. ASSUME NEW c \in Chains, StoreId(c) PROVE SecondDownloadNeedsOverlap'
  <2>1. ASSUME NEW d \in Chains, start'[d] = "enqueue"
        PROVE  /\ d # c /\ {d, c} \cap Gone # {}
               /\ id'[c] = pref' /\ start'[c] = "register"
    BY <1>5, <2>1 DEF StoreId, ActiveInv, TypeOK
  <2>2. Gone' = Gone
    BY <1>5 DEF StoreId, Gone
  <2> QED  BY <2>1, <2>2 DEF SecondDownloadNeedsOverlap
<1>6. ASSUME NEW c \in Chains, Register(c) PROVE SecondDownloadNeedsOverlap'
  BY <1>6 DEF Register, SecondDownloadNeedsOverlap, Gone, TypeOK
<1>7. ASSUME NEW c \in Chains, ScheduleCheck(c)
      PROVE  SecondDownloadNeedsOverlap'
  BY <1>7 DEF ScheduleCheck, SecondDownloadNeedsOverlap, Gone, TypeOK
<1>8. ASSUME NEW c \in Chains, Subscribe(c) PROVE SecondDownloadNeedsOverlap'
  BY <1>8
     DEF Subscribe, StreamComplete, SecondDownloadNeedsOverlap, Gone, TypeOK
<1>9. ASSUME NEW c \in Chains, NEW k \in Checks, Query(c, k)
      PROVE  SecondDownloadNeedsOverlap'
  BY <1>9
     DEF Query, SubjectError, Listening, SecondDownloadNeedsOverlap, Gone,
         TypeOK
<1>10. ASSUME NEW c \in Chains, NEW k \in Checks, EmitFile(c, k)
       PROVE  SecondDownloadNeedsOverlap'
  BY <1>10 DEF EmitFile, Listening, SecondDownloadNeedsOverlap, Gone, TypeOK
<1>11. ASSUME NEW c \in Chains, NEW k \in Checks, CompleteSubject(c, k)
       PROVE  SecondDownloadNeedsOverlap'
  BY <1>11
     DEF CompleteSubject, StreamComplete, Listening,
         SecondDownloadNeedsOverlap, Gone, TypeOK
<1>12. ASSUME NEW c \in Chains, OnReceive(c) PROVE SecondDownloadNeedsOverlap'
  BY <1>12 DEF OnReceive, SecondDownloadNeedsOverlap, Gone, TypeOK
<1>13. ASSUME NEW c \in Chains, TakeFile(c) PROVE SecondDownloadNeedsOverlap'
  BY <1>13
     DEF TakeFile, Attached, Listening, SecondDownloadNeedsOverlap, Gone,
         TypeOK
<1>14. ASSUME NEW c \in Chains, CheckExists(c)
       PROVE  SecondDownloadNeedsOverlap'
  BY <1>14 DEF CheckExists, Unpacked, SecondDownloadNeedsOverlap, Gone, TypeOK
<1>15. ASSUME NEW c \in Chains, CreateFile(c) PROVE SecondDownloadNeedsOverlap'
  BY <1>15
     DEF CreateFile, MapFails, MapThrows, Unregister,
         SecondDownloadNeedsOverlap, Gone, TypeOK
<1>16. ASSUME NEW c \in Chains, CopyFile(c) PROVE SecondDownloadNeedsOverlap'
  BY <1>16
     DEF CopyFile, Unpacked, MapFails, MapThrows, Unregister,
         SecondDownloadNeedsOverlap, Gone, TypeOK
<1>17. ASSUME NEW c \in Chains, LoadModel(c) PROVE SecondDownloadNeedsOverlap'
  BY <1>17 DEF LoadModel, OpenCamera, SecondDownloadNeedsOverlap, Gone, TypeOK
<1>18. ASSUME NEW c \in Chains, FinishLoad(c) PROVE SecondDownloadNeedsOverlap'
  BY <1>18 DEF FinishLoad, OpenCamera, SecondDownloadNeedsOverlap, Gone, TypeOK
<1>19. ASSUME NEW c \in Chains, Terminate(c) PROVE SecondDownloadNeedsOverlap'
  BY <1>19 DEF Terminate, Unregister, SecondDownloadNeedsOverlap, Gone, TypeOK
<1>20. ASSUME NEW c \in Chains, Pause(c) PROVE SecondDownloadNeedsOverlap'
  BY <1>20 DEF Pause, Unregister, SecondDownloadNeedsOverlap, Gone, TypeOK
<1>21. ASSUME NEW c \in Chains, Detach(c) PROVE SecondDownloadNeedsOverlap'
  BY <1>21 DEF Detach, SecondDownloadNeedsOverlap, Gone, TypeOK
<1>22. ASSUME NEW t \in Tasks, DownloadEnds(t)
       PROVE  SecondDownloadNeedsOverlap'
  BY <1>22 DEF DownloadEnds, SecondDownloadNeedsOverlap, Gone, TypeOK
<1>23. ASSUME NEW t \in Tasks, DownloadRemoved(t)
       PROVE  SecondDownloadNeedsOverlap'
  BY <1>23 DEF DownloadRemoved, SecondDownloadNeedsOverlap, Gone, TypeOK
<1>24. ASSUME FlushPreferences PROVE SecondDownloadNeedsOverlap'
  BY <1>24 DEF FlushPreferences, SecondDownloadNeedsOverlap, Gone, TypeOK
<1>25. ASSUME ProcessDies PROVE SecondDownloadNeedsOverlap'
  BY <1>25 DEF ProcessDies, SecondDownloadNeedsOverlap, Gone, TypeOK
<1> QED
  BY <1>1, <1>2, <1>3, <1>4, <1>5, <1>6, <1>7, <1>8, <1>9, <1>10, <1>11, <1>12,
     <1>13, <1>14, <1>15, <1>16, <1>17, <1>18, <1>19, <1>20, <1>21, <1>22,
     <1>23, <1>24, <1>25
  DEF Next, CallStep, CheckStep, StreamStep

(* So does a chain that creates the file while another one is about to.    *)
LEMMA TruncStep ==
    ASSUME TypeOK, ActiveInv, WriterInv, TruncationNeedsOverlap, [Next]_vars
    PROVE  TruncationNeedsOverlap'
<1> USE DEF download, receivers, stream, disk, native
<1>1. CASE UNCHANGED vars
  BY <1>1 DEF vars, TruncationNeedsOverlap, Gone, TypeOK
<1>2. ASSUME NEW c \in Chains, Resume(c) PROVE TruncationNeedsOverlap'
  BY <1>2 DEF Resume, TruncationNeedsOverlap, Gone, TypeOK
<1>3. ASSUME NEW c \in Chains, ReadId(c) PROVE TruncationNeedsOverlap'
  BY <1>3 DEF ReadId, TruncationNeedsOverlap, Gone, TypeOK
<1>4. ASSUME NEW c \in Chains, Enqueue(c) PROVE TruncationNeedsOverlap'
  BY <1>4 DEF Enqueue, TruncationNeedsOverlap, Gone, TypeOK
<1>5. ASSUME NEW c \in Chains, StoreId(c) PROVE TruncationNeedsOverlap'
  BY <1>5 DEF StoreId, TruncationNeedsOverlap, Gone, TypeOK
<1>6. ASSUME NEW c \in Chains, Register(c) PROVE TruncationNeedsOverlap'
  BY <1>6 DEF Register, TruncationNeedsOverlap, Gone, TypeOK
<1>7. ASSUME NEW c \in Chains, ScheduleCheck(c) PROVE TruncationNeedsOverlap'
  BY <1>7 DEF ScheduleCheck, TruncationNeedsOverlap, Gone, TypeOK
<1>8. ASSUME NEW c \in Chains, Subscribe(c) PROVE TruncationNeedsOverlap'
  BY <1>8 DEF Subscribe, StreamComplete, TruncationNeedsOverlap, Gone, TypeOK
<1>9. ASSUME NEW c \in Chains, NEW k \in Checks, Query(c, k)
      PROVE  TruncationNeedsOverlap'
  BY <1>9
     DEF Query, SubjectError, Listening, TruncationNeedsOverlap, Gone, TypeOK
<1>10. ASSUME NEW c \in Chains, NEW k \in Checks, EmitFile(c, k)
       PROVE  TruncationNeedsOverlap'
  BY <1>10 DEF EmitFile, Listening, TruncationNeedsOverlap, Gone, TypeOK
<1>11. ASSUME NEW c \in Chains, NEW k \in Checks, CompleteSubject(c, k)
       PROVE  TruncationNeedsOverlap'
  BY <1>11
     DEF CompleteSubject, StreamComplete, Listening, TruncationNeedsOverlap,
         Gone, TypeOK
<1>12. ASSUME NEW c \in Chains, OnReceive(c) PROVE TruncationNeedsOverlap'
  BY <1>12 DEF OnReceive, TruncationNeedsOverlap, Gone, TypeOK
<1>13. ASSUME NEW c \in Chains, TakeFile(c) PROVE TruncationNeedsOverlap'
  BY <1>13
     DEF TakeFile, Attached, Listening, TruncationNeedsOverlap, Gone, TypeOK
<1>14. ASSUME NEW c \in Chains, CheckExists(c) PROVE TruncationNeedsOverlap'
  BY <1>14 DEF CheckExists, Unpacked, TruncationNeedsOverlap, Gone, TypeOK
<1>15. ASSUME NEW c \in Chains, CreateFile(c) PROVE TruncationNeedsOverlap'
  <2>1. CASE writer' = c
    <3>1. ASSUME NEW d \in Chains, work'[d] = "create"
          PROVE  d # c /\ {d, c} \cap Gone # {}
      BY <1>15, <3>1
         DEF CreateFile, MapFails, ActiveInv, WriterInv, TypeOK
    <3>2. Gone \subseteq Gone'
      BY <1>15 DEF CreateFile, MapFails, MapThrows, Gone
    <3> QED  BY <2>1, <3>1, <3>2 DEF TruncationNeedsOverlap
  <2>2. CASE UNCHANGED <<file, writer>>
    <3>1. \A d \in Chains : work'[d] = "create" => work[d] = "create"
      BY <1>15 DEF CreateFile, MapFails, TypeOK
    <3>2. Gone \subseteq Gone'
      BY <1>15 DEF CreateFile, MapFails, MapThrows, Gone
    <3> QED  BY <2>2, <3>1, <3>2 DEF TruncationNeedsOverlap
  <2> QED  BY <1>15, <2>1, <2>2 DEF CreateFile
<1>16. ASSUME NEW c \in Chains, CopyFile(c) PROVE TruncationNeedsOverlap'
  <2>1. \A d \in Chains : work'[d] = "create" => work[d] = "create"
    BY <1>16 DEF CopyFile, Unpacked, MapFails, TypeOK
  <2>2. writer' = writer /\ Gone \subseteq Gone'
    BY <1>16 DEF CopyFile, MapFails, MapThrows, Gone
  <2>3. file' # "absent" => file # "absent"
    BY <1>16, NoneAssumption DEF CopyFile, WriterInv
  <2> QED  BY <2>1, <2>2, <2>3 DEF TruncationNeedsOverlap
<1>17. ASSUME NEW c \in Chains, LoadModel(c) PROVE TruncationNeedsOverlap'
  BY <1>17 DEF LoadModel, OpenCamera, TruncationNeedsOverlap, Gone, TypeOK
<1>18. ASSUME NEW c \in Chains, FinishLoad(c) PROVE TruncationNeedsOverlap'
  BY <1>18 DEF FinishLoad, OpenCamera, TruncationNeedsOverlap, Gone, TypeOK
<1>19. ASSUME NEW c \in Chains, Terminate(c) PROVE TruncationNeedsOverlap'
  BY <1>19 DEF Terminate, Unregister, TruncationNeedsOverlap, Gone, TypeOK
<1>20. ASSUME NEW c \in Chains, Pause(c) PROVE TruncationNeedsOverlap'
  BY <1>20 DEF Pause, Unregister, TruncationNeedsOverlap, Gone, TypeOK
<1>21. ASSUME NEW c \in Chains, Detach(c) PROVE TruncationNeedsOverlap'
  BY <1>21 DEF Detach, TruncationNeedsOverlap, Gone, TypeOK
<1>22. ASSUME NEW t \in Tasks, DownloadEnds(t) PROVE TruncationNeedsOverlap'
  BY <1>22 DEF DownloadEnds, TruncationNeedsOverlap, Gone, TypeOK
<1>23. ASSUME NEW t \in Tasks, DownloadRemoved(t) PROVE TruncationNeedsOverlap'
  BY <1>23 DEF DownloadRemoved, TruncationNeedsOverlap, Gone, TypeOK
<1>24. ASSUME FlushPreferences PROVE TruncationNeedsOverlap'
  BY <1>24 DEF FlushPreferences, TruncationNeedsOverlap, Gone, TypeOK
<1>25. ASSUME ProcessDies PROVE TruncationNeedsOverlap'
  BY <1>25 DEF ProcessDies, TruncationNeedsOverlap, Gone, TypeOK
<1> QED
  BY <1>1, <1>2, <1>3, <1>4, <1>5, <1>6, <1>7, <1>8, <1>9, <1>10, <1>11, <1>12,
     <1>13, <1>14, <1>15, <1>16, <1>17, <1>18, <1>19, <1>20, <1>21, <1>22,
     <1>23, <1>24, <1>25
  DEF Next, CallStep, CheckStep, StreamStep

-----------------------------------------------------------------------------
(* The invariant that the theorems below rest on holds in every run.       *)
THEOREM DownloadInvariance == Spec => []IInv
<1>1. Init => IInv
  BY InitInv
<1>2. IInv /\ [Next]_vars => IInv'
  <2> SUFFICES ASSUME IInv, [Next]_vars PROVE IInv'
    OBVIOUS
  <2>1. TypeOK' /\ CallInv' /\ IdInv'
    BY TypeStep, CallStepInv, IdStep DEF IInv
  <2>2. TaskInv' /\ InboxInv' /\ StreamInv'
    BY TaskStep, InboxStep, StreamStepInv DEF IInv
  <2>3. FileInv' /\ HeardInv' /\ FatalCauses'
    BY FileStep, HeardStep, FatalStep DEF IInv
  <2> QED  BY <2>1, <2>2, <2>3 DEF IInv
<1> QED  BY <1>1, <1>2, PTL DEF Spec

(* The variables keep their types: ids are ids, at most two files wait for  *)
(* a chain.                                                                *)
THEOREM DownloadTypeCorrect == Spec => []TypeOK
<1>1. IInv => TypeOK
  BY DEF IInv
<1> QED  BY <1>1, DownloadInvariance, PTL

(* However many chains and downloads there are, no chain misses that its    *)
(* download is complete: the receiver is registered before the check.       *)
THEOREM CompletionsAreHeard == Spec => []NoMissedCompletion
<1>1. IInv => NoMissedCompletion
  BY DEF IInv, HeardInv, NoMissedCompletion
<1> QED  BY <1>1, DownloadInvariance, PTL

(* Nothing but the three causes named by FatalCauses kills the process.     *)
THEOREM DeathsHaveCauses == Spec => []FatalCauses
<1>1. IInv => FatalCauses
  BY DEF IInv
<1> QED  BY <1>1, DownloadInvariance, PTL

(* A chain that ended, and one that was disposed after it subscribed, has   *)
(* no receiver left.  (The receiver of a chain that is disposed before it   *)
(* subscribes stays registered: nothing is said of it.)                     *)
THEOREM ReceiversAreReleased == Spec => []ReceiverReleased
<1>1. IInv => ReceiverReleased
  BY DEF IInv, StreamInv, CallInv, TypeOK, ReceiverReleased
<1> QED  BY <1>1, DownloadInvariance, PTL

(* An id that the disk holds is forgotten only by an error of the subject, *)
(* or by a subject that completes between the two steps of onPause, whose  *)
(* doOnComplete finds the receiver unregistered.                           *)
THEOREM IdsAreKept == Spec => ForgetsOnlyOnError
<1>1. IInv /\ [Next]_vars =>
        [pref # None /\ prefDisk # None /\ pref' = None =>
           \E c \in Chains :
               /\ ending[c] = "no" /\ ending'[c] = "error"
               /\ \/ subject'[c] = "error"
                  \/ /\ subject[c] = "open" /\ subject'[c] = "completed"
                     /\ c \in leaving /\ c \notin registered]_vars
  BY ForgetStep DEF Forgets
<1> QED  BY <1>1, DownloadInvariance, PTL DEF Spec, ForgetsOnlyOnError

(* What overlapping chains do to each other, as an invariant.              *)
THEOREM OverlapInvariance == Spec => []OInv
<1>1. Init => OInv
  BY DEF Init, OInv, ActiveInv, WriterInv, SecondDownloadNeedsOverlap,
         TruncationNeedsOverlap
<1>2. IInv /\ OInv /\ [Next]_vars => OInv'
  BY ActiveStep, WriterStep, SecondStep, TruncStep DEF IInv, OInv
<1> QED  BY <1>1, <1>2, DownloadInvariance, PTL DEF Spec

(* While an id is in the preferences, another download is enqueued only by  *)
(* a call that overlaps, across a pause, the one that stored it.           *)
THEOREM SecondDownloadsOverlap == Spec => []SecondDownloadNeedsOverlap
<1>1. OInv => SecondDownloadNeedsOverlap
  BY DEF OInv
<1> QED  BY <1>1, OverlapInvariance, PTL

(* A model file is truncated under the feet of its reader only by a chain   *)
(* that overlaps the one that wrote it.                                    *)
THEOREM TruncationsOverlap == Spec => []TruncationNeedsOverlap
<1>1. OInv => TruncationNeedsOverlap
  BY DEF OInv
<1> QED  BY <1>1, OverlapInvariance, PTL
=============================================================================
