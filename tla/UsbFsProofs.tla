----------------------------- MODULE UsbFsProofs ------------------------------
(***************************************************************************)
(* What holds of the C API's locks and pointers for any threads, drives    *)
(* and calls, and for any number of calls.                                 *)
(***************************************************************************)
EXTENDS UsbFs, TLAPS

\* The locks whose guards are in scope at each step.
Holds(t) == CASE pc[t] \in {"isHs", "exStore", "exFs", "opFs", "useHandle"} -> {"id"}
              [] pc[t] = "isFs" -> {"id", "hs"}
              [] pc[t] \in {"mount", "inFs"} -> {"hs"}
              [] pc[t] = "inId" -> {"hs", "fs"}
              [] pc[t] = "exHs" -> {"id", "fs"}
              [] pc[t] = "use" -> CASE call[t] = "StatFilesystem" -> {"fs"}
                                    [] call[t] = "StatPath" -> {"id"}
                                    [] OTHER -> {"id", "fs"}
              [] OTHER -> {}

\* A call holds the locks its step is written to be under, and no guard outlives
\* the call.
LocksMatchSteps == \A t \in Thread, l \in Lock : lock[l] = t <=> l \in Holds(t)

\* The calls that lead to a step, where the step asks for it.
CallMatchesStep == \A t \in Thread :
    /\ pc[t] \in {"opId", "useHandle"} => call[t] \in {"Path", "StatPath", "Handle"}
    /\ pc[t] = "opFs" => call[t] \in {"Path", "StatPath"}
    /\ pc[t] = "sfFs" => call[t] = "StatFilesystem"

\* The steps that are about a drive or the file system on it.
HasObject == \A t \in Thread :
    pc[t] \in {"parse", "inHs", "mount", "inFs", "inId", "use", "useHandle"} => obj[t] \in Drive

\* usbFsInitialize from the drive it has acquired to publishing the file system on it.
SettingUp(t) == pc[t] \in {"parse", "inHs", "mount", "inFs"}

\* Such a drive is the call's alone, with no file system until open_partition made
\* one; the one that is published is another, and has not been dropped.
OwnsDrive ==
    /\ fs_ptr \in live \cup {Null}
    /\ \A t \in Thread : SettingUp(t) => /\ plug[obj[t]] \in {"acquired", "gone"}
                                         /\ obj[t] # fs_ptr
                                         /\ obj[t] \in live <=> pc[t] = "inFs"
    /\ \A t, u \in Thread : SettingUp(t) /\ SettingUp(u) /\ t # u => obj[t] # obj[u]

\* What a step knows of the pointers whose locks it holds.
PointersMatchSteps == \A t \in Thread :
    /\ pc[t] \in {"mount", "inFs", "inId"} => usb_hs_ctx_ptr = obj[t]
    /\ pc[t] = "inId" => fs_ptr = obj[t]
    /\ pc[t] = "exFs" => ~id_store_ptr /\ handles = {}
    /\ pc[t] = "exHs" => fs_ptr = Null

\* The pointers to the store and to the file system differ only in the middle of
\* usbFsInitialize or usbFsExit; a file system always has its context.
Published ==
    /\ \/ id_store_ptr <=> fs_ptr # Null
       \/ \E t \in Thread : pc[t] \in {"exFs", "inId"}
    /\ fs_ptr # Null => usb_hs_ctx_ptr # Null

-------------------------------------------------------------------------------
(* Types and ownership *)

\* A thread's step leaves the other threads where they are.
LEMMA OthersStay ==
  ASSUME TypeOK, NEW t \in Thread, Step(t) \/ \E c \in Calls : Call(t, c),
         NEW u \in Thread \ {t}
  PROVE  pc'[u] = pc[u] /\ call'[u] = call[u] /\ obj'[u] = obj[u]
BY DEF TypeOK, Step, Call, At, Goto, Keep, Return, IsInitialized, IsReady, wait_for_usb_drive,
       parse_drive, open_partition, Initialize, Exit, DropStore, DropFilesystem, DropContext,
       get_id_store, UseHandle, HandleUsed, get_filesystem, FilesystemUsed

\* What the steps are made of keeps the types.
LEMMA PartsType ==
  ASSUME TypeOK, NEW t \in Thread
  PROVE  /\ \A l \in Lock : Take(t, l) => lock' \in [Lock -> Thread \cup {Null}]
         /\ Unlocked(t) \in [Lock -> Thread \cup {Null}]
         /\ \A step \in Steps : Goto(t, step) => pc' \in [Thread -> Steps]
         /\ \A r : Return(t, r) => /\ pc' \in [Thread -> Steps]
                                   /\ obj' \in [Thread -> Drive \cup {Null}]
         /\ Keep(t) => obj' \in [Thread -> Drive \cup {Null}]
BY DEF TypeOK, Take, Unlocked, Goto, Return, Keep, Steps

\* What a thread's step does to the locks and the threads' own variables.
LEMMA ThreadsType ==
  ASSUME TypeOK, NEW t \in Thread, Step(t)
  PROVE  /\ pc' \in [Thread -> Steps]
         /\ obj' \in [Thread -> Drive \cup {Null}]
         /\ lock' \in [Lock -> Thread \cup {Null}]
         /\ UNCHANGED <<call, ncalls>>
<1> DEFINE Typed == /\ pc' \in [Thread -> Steps]
                    /\ obj' \in [Thread -> Drive \cup {Null}]
                    /\ lock' \in [Lock -> Thread \cup {Null}]
<1>1. UNCHANGED <<call, ncalls>>
  BY DEF Step, At, IsInitialized, IsReady, wait_for_usb_drive, parse_drive, open_partition,
         Initialize, Exit, DropStore, DropFilesystem, DropContext, get_id_store,
         HandleUsed, get_filesystem, FilesystemUsed
<1>2. {"hs", "fs", "id"} \subseteq Lock
  BY DEF Lock
<1>3. /\ \A l \in Lock : Take(t, l) => lock' \in [Lock -> Thread \cup {Null}]
      /\ Unlocked(t) \in [Lock -> Thread \cup {Null}]
      /\ \A step \in Steps : Goto(t, step) => pc' \in [Thread -> Steps]
      /\ \A r : Return(t, r) => /\ pc' \in [Thread -> Steps]
                                /\ obj' \in [Thread -> Drive \cup {Null}]
      /\ Keep(t) => obj' \in [Thread -> Drive \cup {Null}]
      /\ {"idle", "isHs", "isFs", "rdHs", "acquire", "parse", "inHs", "mount", "inFs", "inId",
          "exStore", "exFs", "exHs", "opFs", "use", "useHandle"} \subseteq Steps
  BY PartsType DEF Steps
<1>4. lock \in [Lock -> Thread \cup {Null}] /\ obj \in [Thread -> Drive \cup {Null}]
      /\ handles \subseteq Drive /\ fs_ptr \in Drive \cup {Null}
  BY DEF TypeOK
<1> SUFFICES Typed
  BY <1>1
<1> HIDE DEF Typed
<1>5. CASE IsInitialized(t)
  BY <1>2, <1>3, <1>4, <1>5 DEF IsInitialized, Typed
<1>6. CASE IsReady(t)
  BY <1>3, <1>4, <1>6 DEF IsReady, Typed
<1>7. CASE wait_for_usb_drive(t)
  BY <1>3, <1>4, <1>7 DEF wait_for_usb_drive, Typed
<1>8. CASE parse_drive(t)
  BY <1>3, <1>4, <1>8 DEF parse_drive, Typed
<1>9. CASE Initialize(t)
  BY <1>2, <1>3, <1>4, <1>9 DEF Initialize, open_partition, Typed
<1>10. CASE Exit(t)
  BY <1>2, <1>3, <1>4, <1>10 DEF Exit, DropStore, DropFilesystem, DropContext, Typed
<1>11. CASE get_id_store(t)
  BY <1>2, <1>3, <1>4, <1>11 DEF get_id_store, UseHandle, Typed
<1>12. CASE HandleUsed(t)
  BY <1>3, <1>4, <1>12 DEF HandleUsed, Typed
<1>13. CASE get_filesystem(t)
  BY <1>2, <1>3, <1>4, <1>13 DEF get_filesystem, Typed
<1>14. CASE FilesystemUsed(t)
  BY <1>3, <1>4, <1>14 DEF FilesystemUsed, Typed
<1> QED
  BY <1>5, <1>6, <1>7, <1>8, <1>9, <1>10, <1>11, <1>12, <1>13, <1>14 DEF Step

\* A step about an object has one: a drive that was acquired, a file system that was
\* behind the pointer or under a handle.
LEMMA ObjectStep ==
  ASSUME TypeOK, HasObject, NEW t \in Thread, Step(t)
  PROVE  pc'[t] \in {"parse", "inHs", "mount", "inFs", "inId", "use", "useHandle"} => obj'[t] \in Drive
<1> USE DEF TypeOK, HasObject, At, Goto, Keep, Return
<1>1. CASE IsInitialized(t) \/ IsReady(t)
  BY <1>1 DEF IsInitialized, IsReady
<1>2. CASE wait_for_usb_drive(t) \/ parse_drive(t) \/ Initialize(t)
  BY <1>2 DEF wait_for_usb_drive, parse_drive, Initialize, open_partition
<1>3. CASE Exit(t)
  BY <1>3 DEF Exit, DropStore, DropFilesystem, DropContext
<1>4. CASE get_id_store(t) \/ HandleUsed(t)
  BY <1>4 DEF get_id_store, UseHandle, HandleUsed
<1>5. CASE get_filesystem(t) \/ FilesystemUsed(t)
  BY <1>5 DEF get_filesystem, FilesystemUsed
<1> QED
  BY <1>1, <1>2, <1>3, <1>4, <1>5 DEF Step

\* Only five steps of a thread touch the drives and the pointer to the file system;
\* the others neither begin nor end setting a drive up.
LEMMA DriveSteps ==
  ASSUME TypeOK, NEW t \in Thread, Step(t)
  PROVE  \/ wait_for_usb_drive(t) \/ parse_drive(t) \/ open_partition(t) \/ DropFilesystem(t)
         \/ /\ pc[t] = "inFs" /\ pc'[t] = "inId"
            /\ fs_ptr' = obj[t] /\ UNCHANGED <<live, plug>>
         \/ /\ UNCHANGED <<live, plug, fs_ptr>>
            /\ SettingUp(t)' <=> SettingUp(t)
            /\ SettingUp(t) => obj'[t] = obj[t] /\ (pc'[t] = "inFs" <=> pc[t] = "inFs")
<1> USE DEF TypeOK, At, Goto, Keep, Return, SettingUp, ptrs, objects
<1>1. CASE IsInitialized(t) \/ IsReady(t)
  BY <1>1 DEF IsInitialized, IsReady
<1>2. CASE Initialize(t)
  BY <1>2 DEF Initialize
<1>3. CASE Exit(t)
  BY <1>3 DEF Exit, DropStore, DropContext
<1>4. CASE get_id_store(t) \/ HandleUsed(t)
  BY <1>4 DEF get_id_store, UseHandle, HandleUsed
<1>5. CASE get_filesystem(t) \/ FilesystemUsed(t)
  BY <1>5 DEF get_filesystem, FilesystemUsed
<1> QED
  BY <1>1, <1>2, <1>3, <1>4, <1>5 DEF Step


\* What becomes of the drives in a step of a thread.
LEMMA DrivesKept ==
  ASSUME TypeOK, HasObject, OwnsDrive, NEW t \in Thread, Step(t)
  PROVE  /\ live' \subseteq Drive
         /\ plug' \in [Drive -> {"away", "free", "acquired", "gone"}]
         /\ \A f \in live' : plug'[f] \in {"acquired", "gone"}
         /\ OwnsDrive'
<1>1. \A u \in Thread \ {t} : pc'[u] = pc[u] /\ obj'[u] = obj[u]
  BY OthersStay
<1>2. /\ pc \in [Thread -> Steps] /\ obj \in [Thread -> Drive \cup {Null}]
      /\ live \subseteq Drive /\ plug \in [Drive -> {"away", "free", "acquired", "gone"}]
      /\ \A f \in live : plug[f] \in {"acquired", "gone"}
      /\ fs_ptr \in Drive \cup {Null}
  BY DEF TypeOK
<1>3. Null \notin Drive
  BY ThreadAssumption
<1> USE DEF At, Goto, Keep, Return, SettingUp, HasObject, OwnsDrive
<1>4. CASE wait_for_usb_drive(t)
  <2>1. CASE Return(t, "FAILED") /\ UNCHANGED <<plug, live, fs_ptr>>
    BY <1>1, <1>2, <2>1
  <2>2. ASSUME NEW d \in Drive, plug[d] = "free", plug' = [plug EXCEPT ![d] = "acquired"],
               obj' = [obj EXCEPT ![t] = d], Goto(t, "parse"), live' = live
        PROVE  /\ plug' \in [Drive -> {"away", "free", "acquired", "gone"}]
               /\ \A f \in live' : plug'[f] \in {"acquired", "gone"}
               /\ OwnsDrive'
    <3>1. d \notin live /\ d # fs_ptr /\ \A u \in Thread : SettingUp(u) => obj[u] # d
      BY <1>2, <1>3, <2>2
    <3> QED
      BY <1>1, <1>2, <1>4, <2>2, <3>1 DEF wait_for_usb_drive, ptrs
  <2> QED
    BY <1>1, <1>2, <1>4, <2>1, <2>2 DEF wait_for_usb_drive, ptrs
<1>5. CASE parse_drive(t)
  BY <1>1, <1>2, <1>5 DEF parse_drive, Released, ptrs
<1>6. CASE open_partition(t)
  <2>1. /\ obj[t] \in Drive \ live /\ plug[obj[t]] \in {"acquired", "gone"}
        /\ \A u \in Thread \ {t} : SettingUp(u) => obj[u] # obj[t]
        /\ fs_ptr' = fs_ptr /\ fs_ptr # obj[t]
    BY <1>6 DEF open_partition, ptrs
  <2>2. CASE live' = live \cup {obj[t]} /\ plug' = plug /\ obj' = obj /\ Goto(t, "inFs")
    BY <1>1, <1>2, <2>1, <2>2
  <2>3. CASE live' = live /\ plug' = Released(obj[t]) /\ Return(t, "FAILED")
    <3>1. /\ plug' \in [Drive -> {"away", "free", "acquired", "gone"}]
          /\ \A d \in Drive : d # obj[t] => plug'[d] = plug[d]
      BY <1>2, <2>3 DEF Released
    <3> QED
      BY <1>1, <1>2, <2>1, <2>3, <3>1
  <2> QED
    BY <1>6, <2>2, <2>3 DEF open_partition
<1>7. CASE DropFilesystem(t)
  <2>1. /\ fs_ptr' = Null /\ live' = live \ {fs_ptr}
        /\ pc'[t] = "exHs" /\ obj' = obj
    BY <1>2, <1>7 DEF DropFilesystem
  <2>2. /\ plug' \in [Drive -> {"away", "free", "acquired", "gone"}]
        /\ \A d \in Drive : d # fs_ptr => plug'[d] = plug[d]
    BY <1>2, <1>3, <1>7 DEF DropFilesystem, Released
  <2>3. \A u \in Thread : SettingUp(u)' => SettingUp(u) /\ pc'[u] = pc[u]
    BY <1>1, <2>1
  <2> QED
    BY <1>2, <1>3, <2>1, <2>2, <2>3
<1>8. CASE /\ pc[t] = "inFs" /\ pc'[t] = "inId"
           /\ fs_ptr' = obj[t] /\ UNCHANGED <<live, plug>>
  BY <1>1, <1>2, <1>8
<1>9. CASE /\ UNCHANGED <<live, plug, fs_ptr>>
           /\ SettingUp(t)' <=> SettingUp(t)
           /\ SettingUp(t) => obj'[t] = obj[t] /\ (pc'[t] = "inFs" <=> pc[t] = "inFs")
  BY <1>1, <1>2, <1>9
<1> QED
  BY <1>4, <1>5, <1>6, <1>7, <1>8, <1>9, DriveSteps

\* The pointers and the handles in a step of a thread.
LEMMA PointersType ==
  ASSUME TypeOK, HasObject, NEW t \in Thread, Step(t)
  PROVE  /\ usb_hs_ctx_ptr' \in Drive \cup {Null} /\ fs_ptr' \in Drive \cup {Null}
         /\ id_store_ptr' \in BOOLEAN /\ handles' \subseteq Drive
<1> USE DEF TypeOK, HasObject, At, ptrs, objects
<1>1. CASE IsInitialized(t) \/ IsReady(t)
  BY <1>1 DEF IsInitialized, IsReady
<1>2. CASE wait_for_usb_drive(t) \/ parse_drive(t) \/ Initialize(t)
  BY <1>2 DEF wait_for_usb_drive, parse_drive, Initialize, open_partition
<1>3. CASE Exit(t)
  BY <1>3 DEF Exit, DropStore, DropFilesystem, DropContext
<1>4. CASE get_id_store(t) \/ HandleUsed(t)
  BY <1>4 DEF get_id_store, UseHandle, HandleUsed
<1>5. CASE get_filesystem(t) \/ FilesystemUsed(t)
  BY <1>5 DEF get_filesystem, FilesystemUsed
<1> QED
  BY <1>1, <1>2, <1>3, <1>4, <1>5 DEF Step


OwnershipInv == TypeOK /\ HasObject /\ OwnsDrive

\* The invariant in a step of a thread.
LEMMA OwnershipStep ==
  ASSUME OwnershipInv, NEW t \in Thread, Step(t)
  PROVE  OwnershipInv'
<1>1. TypeOK /\ HasObject /\ OwnsDrive
  BY DEF OwnershipInv
<1>2. TypeOK'
  <2>1. /\ lock' \in [Lock -> Thread \cup {Null}]
        /\ pc' \in [Thread -> Steps]
        /\ obj' \in [Thread -> Drive \cup {Null}]
        /\ UNCHANGED <<call, ncalls>>
    BY <1>1, ThreadsType
  <2>2. /\ usb_hs_ctx_ptr' \in Drive \cup {Null} /\ fs_ptr' \in Drive \cup {Null}
        /\ id_store_ptr' \in BOOLEAN /\ handles' \subseteq Drive
    BY <1>1, PointersType
  <2>3. /\ live' \subseteq Drive
        /\ plug' \in [Drive -> {"away", "free", "acquired", "gone"}]
        /\ \A f \in live' : plug'[f] \in {"acquired", "gone"}
    BY <1>1, DrivesKept
  <2> QED
    BY <1>1, <2>1, <2>2, <2>3 DEF TypeOK
<1>3. HasObject'
  <2>1. \A u \in Thread \ {t} : pc'[u] = pc[u] /\ obj'[u] = obj[u]
    BY <1>1, OthersStay
  <2>2. pc'[t] \in {"parse", "inHs", "mount", "inFs", "inId", "use", "useHandle"} => obj'[t] \in Drive
    BY <1>1, ObjectStep
  <2> QED
    BY <1>1, <2>1, <2>2 DEF HasObject
<1>4. OwnsDrive'
  BY <1>1, DrivesKept
<1> QED
  BY <1>2, <1>3, <1>4 DEF OwnershipInv

\* The drives come and go, and every drive that a call or a file system has stays its.
LEMMA OwnershipInvariant == Spec => []OwnershipInv
<1>1. Init => OwnershipInv
  <2>1. Init => TypeOK
    <3>1. Init => /\ lock \in [Lock -> Thread \cup {Null}]
                  /\ call \in [Thread -> AllCalls \cup {"none"}]
                  /\ pc \in [Thread -> Steps]
                  /\ obj \in [Thread -> Drive \cup {Null}]
      BY DEF Init, Steps
    <3>2. Init => ncalls \in 0 .. MaxCalls
      BY CallsAssumption DEF Init
    <3>3. Init => plug \in [Drive -> {"away", "free", "acquired", "gone"}]
      BY DEF Init
    <3> QED
      BY <3>1, <3>2, <3>3 DEF Init, TypeOK
  <2>2. Init => HasObject /\ OwnsDrive
    BY DEF Init, HasObject, OwnsDrive, SettingUp
  <2> QED
    BY <2>1, <2>2 DEF OwnershipInv
<1>2. ASSUME OwnershipInv, [Next]_vars
      PROVE  OwnershipInv'
  <2> USE DEF OwnershipInv
  <2>1. ASSUME NEW t \in Thread, Step(t)
        PROVE  OwnershipInv'
    BY <1>2, <2>1, OwnershipStep
  <2>2. ASSUME NEW t \in Thread, NEW c \in Calls, Call(t, c)
        PROVE  OwnershipInv'
    <3>1. /\ UNCHANGED <<lock, usb_hs_ctx_ptr, fs_ptr, id_store_ptr, handles, live, plug, obj>>
          /\ ncalls' \in 0 .. MaxCalls
      BY <1>2, <2>2, CallsAssumption DEF Call, TypeOK, ptrs, objects
    <3>2. /\ pc' \in [Thread -> Steps] /\ call' \in [Thread -> AllCalls \cup {"none"}]
      BY <1>2, <2>2, CallsAssumption DEF Call, Goto, FirstStep, TypeOK, Steps, AllCalls
    <3>3. \A u \in Thread : pc'[u] # pc[u] => pc'[u] \in {"isId", "exId", "opId", "sfFs"}
      BY <1>2, <2>2, CallsAssumption DEF Call, Goto, FirstStep, TypeOK, AllCalls
    <3> QED
      BY <1>2, <3>1, <3>2, <3>3 DEF TypeOK, HasObject, OwnsDrive, SettingUp
  <2>3. ASSUME NEW d \in Drive, Plug(d) \/ Unplug(d)
        PROVE  OwnershipInv'
    <3>1. /\ plug' \in [Drive -> {"away", "free", "acquired", "gone"}]
          /\ \A e \in Drive : plug[e] \in {"acquired", "gone"} => plug'[e] \in {"acquired", "gone"}
          /\ UNCHANGED <<lock, ptrs, handles, live, call, pc, obj, ret, ncalls>>
      BY <1>2, <2>3 DEF Plug, Unplug, TypeOK
    <3> QED
      BY <1>2, <3>1 DEF ptrs, TypeOK, HasObject, OwnsDrive, SettingUp
  <2>4. CASE UNCHANGED vars
    BY <1>2, <2>4 DEF vars, ptrs, objects, TypeOK, HasObject, OwnsDrive, SettingUp
  <2> QED
    BY <1>2, <2>1, <2>2, <2>3, <2>4 DEF Next
<1> QED
  BY <1>1, <1>2, PTL DEF Spec

\* A FileSystem exists only on a drive it still owns, and every pointer is null or
\* to a drive.
THEOREM TypeCorrect == Spec => []TypeOK
BY OwnershipInvariant, PTL DEF OwnershipInv


-------------------------------------------------------------------------------
(* Locks *)

\* A thread's step changes only what the thread itself holds.
LEMMA OthersLocks ==
  ASSUME TypeOK, NEW t \in Thread, Step(t), NEW u \in Thread \ {t}, NEW l \in Lock
  PROVE  lock'[l] = u <=> lock[l] = u
<1>1. UNCHANGED lock \/ lock' = Unlocked(t) \/ \E k \in Lock : Take(t, k)
  BY DEF Lock, Step, IsInitialized, IsReady, wait_for_usb_drive, parse_drive, open_partition,
         Initialize, Exit, DropStore, DropFilesystem, DropContext, get_id_store, UseHandle,
         HandleUsed, get_filesystem, FilesystemUsed, Goto, Return, Keep
<1> QED
  BY <1>1, ThreadAssumption DEF TypeOK, Unlocked, Take

\* After a thread's step its locks are those of the step it has come to.
LEMMA OwnLocks ==
  ASSUME TypeOK, LocksMatchSteps, CallMatchesStep, NEW t \in Thread, Step(t), NEW l \in Lock
  PROVE  /\ lock'[l] = t <=> l \in Holds(t)'
         /\ pc'[t] \in {"opId", "useHandle"} => call[t] \in {"Path", "StatPath", "Handle"}
         /\ pc'[t] = "opFs" => call[t] \in {"Path", "StatPath"}
         /\ pc'[t] = "sfFs" => call[t] = "StatFilesystem"
<1>1. t # Null
  BY ThreadAssumption
<1>2. lock \in [Lock -> Thread \cup {Null}] /\ pc \in [Thread -> Steps]
  BY DEF TypeOK
<1>3. \A k \in Lock : lock[k] = t <=> k \in Holds(t)
  BY DEF LocksMatchSteps
<1>4. /\ pc[t] \in {"opId", "useHandle"} => call[t] \in {"Path", "StatPath", "Handle"}
      /\ pc[t] = "opFs" => call[t] \in {"Path", "StatPath"}
      /\ pc[t] = "sfFs" => call[t] = "StatFilesystem"
  BY DEF CallMatchesStep
<1> USE <1>1, <1>2, <1>3, <1>4 DEF At, Goto, Take, Unlocked, Return, Holds, Lock
<1>5. CASE IsInitialized(t)
  BY <1>5 DEF IsInitialized
<1>6. CASE IsReady(t)
  BY <1>6 DEF IsReady
<1>7. CASE wait_for_usb_drive(t)
  BY <1>7 DEF wait_for_usb_drive
<1>8. CASE parse_drive(t)
  BY <1>8 DEF parse_drive
<1>9. CASE Initialize(t)
  BY <1>9 DEF Initialize, open_partition
<1>10. CASE Exit(t)
  BY <1>10 DEF Exit, DropStore, DropFilesystem, DropContext
<1>11. CASE get_id_store(t)
  BY <1>11 DEF get_id_store, UseHandle
<1>12. CASE HandleUsed(t)
  BY <1>12 DEF HandleUsed
<1>13. CASE get_filesystem(t)
  BY <1>13 DEF get_filesystem
<1>14. CASE FilesystemUsed(t)
  BY <1>14 DEF FilesystemUsed
<1> QED
  BY <1>5, <1>6, <1>7, <1>8, <1>9, <1>10, <1>11, <1>12, <1>13, <1>14 DEF Step


LocksInv == LocksMatchSteps /\ CallMatchesStep

\* A call begins at a step before which it holds nothing.
LEMMA CallStep ==
  ASSUME TypeOK, NEW t \in Thread, NEW c \in Calls, Call(t, c)
  PROVE  /\ pc[t] = "idle" /\ call'[t] = c
         /\ pc'[t] \in {"isId", "exId", "opId", "sfFs"}
         /\ pc'[t] = "opId" => c \in {"Path", "StatPath", "Handle"}
         /\ pc'[t] = "sfFs" => c = "StatFilesystem"
         /\ \A u \in Thread \ {t} : pc'[u] = pc[u] /\ call'[u] = call[u]
         /\ UNCHANGED <<lock, ptrs, objects, obj>>
BY CallsAssumption DEF TypeOK, Call, Goto, FirstStep, AllCalls

\* Locks are held step by step, by whoever calls.
LEMMA LocksInvariant == Spec => []LocksInv
<1>1. Init => LocksInv
  BY ThreadAssumption DEF Init, LocksInv, LocksMatchSteps, CallMatchesStep, Holds
<1>2. ASSUME TypeOK, LocksInv, [Next]_vars
      PROVE  LocksInv'
  <2>1. ASSUME NEW t \in Thread, Step(t)
        PROVE  LocksInv'
    <3>1. \A u \in Thread \ {t} : pc'[u] = pc[u] /\ call'[u] = call[u]
      BY <1>2, <2>1, OthersStay
    <3>2. \A u \in Thread \ {t}, l \in Lock : lock'[l] = u <=> lock[l] = u
      BY <1>2, <2>1, OthersLocks
    <3>3. /\ \A l \in Lock : lock'[l] = t <=> l \in Holds(t)'
          /\ pc'[t] \in {"opId", "useHandle"} => call[t] \in {"Path", "StatPath", "Handle"}
          /\ pc'[t] = "opFs" => call[t] \in {"Path", "StatPath"}
          /\ pc'[t] = "sfFs" => call[t] = "StatFilesystem"
      BY <1>2, <2>1, OwnLocks DEF LocksInv, Lock
    <3>4. call' = call
      BY <1>2, <2>1, ThreadsType
    <3>5. \A u \in Thread \ {t} : Holds(u)' = Holds(u)
      BY <3>1 DEF Holds
    <3>6. LocksMatchSteps'
      BY <1>2, <3>2, <3>3, <3>5 DEF LocksInv, LocksMatchSteps
    <3>7. CallMatchesStep'
      BY <1>2, <3>1, <3>3, <3>4 DEF LocksInv, CallMatchesStep
    <3> QED
      BY <3>6, <3>7 DEF LocksInv
  <2>2. ASSUME NEW t \in Thread, NEW c \in Calls, Call(t, c)
        PROVE  LocksInv'
    <3>1. /\ pc[t] = "idle" /\ call'[t] = c
          /\ pc'[t] \in {"isId", "exId", "opId", "sfFs"}
          /\ pc'[t] = "opId" => c \in {"Path", "StatPath", "Handle"}
          /\ pc'[t] = "sfFs" => c = "StatFilesystem"
          /\ \A u \in Thread \ {t} : pc'[u] = pc[u] /\ call'[u] = call[u]
          /\ UNCHANGED lock
      BY <1>2, <2>2, CallStep
    <3>2. \A u \in Thread : Holds(u)' = Holds(u)
      BY <3>1 DEF Holds
    <3> QED
      BY <1>2, <3>1, <3>2 DEF LocksInv, LocksMatchSteps, CallMatchesStep
  <2>3. CASE UNCHANGED <<lock, call, pc>>
    BY <1>2, <2>3 DEF LocksInv, LocksMatchSteps, CallMatchesStep, Holds
  <2> QED
    BY <1>2, <2>1, <2>2, <2>3 DEF Next, Plug, Unplug, vars
<1> QED
  BY <1>1, <1>2, TypeCorrect, PTL DEF Spec

\* A call holds exactly the locks its step is written to be under, so two calls never
\* run under one lock, and no guard is held between calls.
LEMMA LocksHeld == Spec => []LocksMatchSteps
BY LocksInvariant, PTL DEF LocksInv

\* usbFsInitialize takes the locks the other way round from all other calls, and no
\* deadlock is without one that has the context's lock, however many threads call.
THEOREM DeadlocksNeedInitialize == Spec => []DeadlockNeedsInitialize
<1>1. ASSUME TypeOK, LocksMatchSteps, NEW S \in SUBSET Thread, WaitCycle(S),
             \A t \in S : pc[t] \notin {"inFs", "inId"}
      PROVE  FALSE
  <2>1. \A t \in S : \E l \in Lock, u \in S : l \in WaitsFor(t) /\ l \in Holds(u) /\ lock[l] = u
    <3>1. SUFFICES ASSUME NEW t \in S
                   PROVE  \E l \in Lock, u \in S : l \in WaitsFor(t) /\ l \in Holds(u) /\ lock[l] = u
      OBVIOUS
    <3>2. PICK l \in WaitsFor(t) : lock[l] \in S
      BY <1>1 DEF WaitCycle
    <3>3. l \in Lock
      BY <3>2 DEF WaitsFor, Lock
    <3>4. l \in Holds(lock[l])
      BY <1>1, <3>2, <3>3 DEF LocksMatchSteps
    <3> QED
      BY <3>2, <3>3, <3>4
  <2>2. \A t \in S : WaitsFor(t) # {} /\ (Holds(t) # {} => "id" \in Holds(t))
    BY <1>1, <2>1 DEF WaitsFor, Holds
  <2>3. PICK t \in S : lock["id"] = t /\ "id" \in Holds(t)
    BY <1>1, <2>1, <2>2 DEF WaitCycle, LocksMatchSteps, Lock
  <2>4. PICK l \in Lock : l \in WaitsFor(t) /\ \E u \in S : l \in Holds(u) /\ lock[l] = u
    BY <2>1
  <2>5. \A u \in S : Holds(u) # {} => u = t
    BY <1>1, <2>2, <2>3 DEF LocksMatchSteps, Lock
  <2>6. l \in Holds(t)
    BY <2>4, <2>5
  <2> QED
    BY <1>1, <2>4, <2>6 DEF WaitsFor, Holds
<1>2. TypeOK /\ LocksMatchSteps => DeadlockNeedsInitialize
  BY <1>1 DEF DeadlockNeedsInitialize
<1> QED
  BY <1>2, TypeCorrect, LocksHeld, PTL

\* Two calls touch one FileSystem at once only if one of them is usbFsStatFilesystem:
\* all others that use it hold the store's lock, whether or not they hold its own.
THEOREM OverlapsKnown == Spec => []OverlapOnlyWithStatFilesystem
<1>1. ASSUME LocksMatchSteps, NEW t \in Thread, NEW u \in Thread, t # u,
             Uses(t) # {}, Uses(u) # {}
      PROVE  "StatFilesystem" \in {call[t], call[u]}
  BY <1>1 DEF LocksMatchSteps, Uses, Holds, Lock
<1>2. LocksMatchSteps => OverlapOnlyWithStatFilesystem
  BY <1>1 DEF OverlapOnlyWithStatFilesystem
<1> QED
  BY <1>2, LocksHeld, PTL


-------------------------------------------------------------------------------
(* Pointers *)

\* What is behind a lock changes only in a step that takes the lock or holds it.
LEMMA ChangesUnderLock ==
  ASSUME TypeOK, LocksInv, NEW t \in Thread, Step(t)
  PROVE  /\ usb_hs_ctx_ptr' # usb_hs_ctx_ptr => lock["hs"] = Null
         /\ fs_ptr' # fs_ptr => lock["fs"] = Null
         /\ <<id_store_ptr, handles>>' # <<id_store_ptr, handles>> => lock["id"] \in {Null, t}
         /\ live \subseteq live' \/ (lock["fs"] = Null /\ lock["id"] = t)
<1>1. \A l \in Lock : l \in Holds(t) => lock[l] = t
  BY DEF LocksInv, LocksMatchSteps
<1> USE <1>1 DEF At, Take, Holds, Lock, ptrs, objects
<1>2. CASE IsInitialized(t) \/ IsReady(t)
  BY <1>2 DEF IsInitialized, IsReady
<1>3. CASE wait_for_usb_drive(t) \/ parse_drive(t) \/ Initialize(t)
  BY <1>3 DEF wait_for_usb_drive, parse_drive, Initialize, open_partition
<1>4. CASE Exit(t)
  BY <1>4 DEF Exit, DropStore, DropFilesystem, DropContext
<1>5. CASE get_id_store(t) \/ HandleUsed(t)
  BY <1>5 DEF get_id_store, HandleUsed
<1>6. CASE get_filesystem(t)
  BY <1>6 DEF get_filesystem
<1>7. CASE FilesystemUsed(t)
  BY <1>7 DEF FilesystemUsed
<1> QED
  BY <1>2, <1>3, <1>4, <1>5, <1>6, <1>7 DEF Step

\* What the pointers are to the step a thread has come to.
LEMMA OwnPointers ==
  ASSUME OwnershipInv, LocksInv, PointersMatchSteps, NoUseAfterFree, NEW t \in Thread, Step(t)
  PROVE  /\ pc'[t] \in {"mount", "inFs", "inId"} => usb_hs_ctx_ptr' = obj'[t]
         /\ pc'[t] = "inId" => fs_ptr' = obj'[t]
         /\ pc'[t] = "exFs" => ~id_store_ptr' /\ handles' = {}
         /\ pc'[t] = "exHs" => fs_ptr' = Null
         /\ pc'[t] \in {"use", "useHandle"} => obj'[t] \in live'
         /\ handles' \subseteq live'
<1>1. /\ pc \in [Thread -> Steps] /\ obj \in [Thread -> Drive \cup {Null}]
      /\ live \subseteq Drive
  BY DEF OwnershipInv, TypeOK
<1>2. /\ pc[t] \in {"mount", "inFs", "inId"} => usb_hs_ctx_ptr = obj[t]
      /\ pc[t] = "inId" => fs_ptr = obj[t]
      /\ pc[t] = "exFs" => ~id_store_ptr /\ handles = {}
      /\ pc[t] = "exHs" => fs_ptr = Null
  BY DEF PointersMatchSteps
<1>3. /\ pc[t] \in {"use", "useHandle"} => obj[t] \in live
      /\ handles \subseteq live /\ fs_ptr \in live \cup {Null}
  BY DEF NoUseAfterFree, Uses
<1> USE <1>1, <1>2, <1>3 DEF At, Goto, Keep, Return, ptrs, objects
<1>4. CASE IsInitialized(t) \/ IsReady(t)
  BY <1>4 DEF IsInitialized, IsReady
<1>5. CASE wait_for_usb_drive(t) \/ parse_drive(t)
  BY <1>5 DEF wait_for_usb_drive, parse_drive
<1>6. CASE Initialize(t)
  BY <1>6 DEF Initialize, open_partition
<1>7. CASE Exit(t)
  BY <1>7 DEF Exit, DropStore, DropFilesystem, DropContext
<1>8. CASE get_id_store(t) \/ HandleUsed(t)
  BY <1>8 DEF get_id_store, UseHandle, HandleUsed
<1>9. CASE get_filesystem(t) \/ FilesystemUsed(t)
  BY <1>9 DEF get_filesystem, FilesystemUsed
<1> QED
  BY <1>4, <1>5, <1>6, <1>7, <1>8, <1>9 DEF Step

PointersInv == PointersMatchSteps /\ NoUseAfterFree

\* What a call looks at was set when it took the lock, and stays while it holds it.
LEMMA PointersInvariant == Spec => []PointersInv
<1>1. Init => PointersInv
  BY DEF Init, PointersInv, PointersMatchSteps, NoUseAfterFree, Uses
<1>2. ASSUME OwnershipInv, OwnershipInv', LocksInv, PointersInv, [Next]_vars
      PROVE  PointersInv'
  <2>1. fs_ptr' \in live' \cup {Null}
    BY <1>2 DEF OwnershipInv, OwnsDrive
  <2>2. ASSUME NEW t \in Thread, Step(t)
        PROVE  PointersInv'
    <3>1. /\ pc'[t] \in {"mount", "inFs", "inId"} => usb_hs_ctx_ptr' = obj'[t]
          /\ pc'[t] = "inId" => fs_ptr' = obj'[t]
          /\ pc'[t] = "exFs" => ~id_store_ptr' /\ handles' = {}
          /\ pc'[t] = "exHs" => fs_ptr' = Null
          /\ pc'[t] \in {"use", "useHandle"} => obj'[t] \in live'
          /\ handles' \subseteq live'
      BY <1>2, <2>2, OwnPointers DEF PointersInv
    <3>2. ASSUME NEW u \in Thread \ {t}
          PROVE  /\ pc'[u] \in {"mount", "inFs", "inId"} => usb_hs_ctx_ptr' = obj'[u]
                 /\ pc'[u] = "inId" => fs_ptr' = obj'[u]
                 /\ pc'[u] = "exFs" => ~id_store_ptr' /\ handles' = {}
                 /\ pc'[u] = "exHs" => fs_ptr' = Null
                 /\ pc'[u] \in {"use", "useHandle"} => obj'[u] \in live'
      <4>1. pc'[u] = pc[u] /\ call'[u] = call[u] /\ obj'[u] = obj[u]
        BY <1>2, <2>2, OthersStay DEF OwnershipInv
      <4>2. /\ usb_hs_ctx_ptr' # usb_hs_ctx_ptr => lock["hs"] = Null
            /\ fs_ptr' # fs_ptr => lock["fs"] = Null
            /\ <<id_store_ptr, handles>>' # <<id_store_ptr, handles>> => lock["id"] \in {Null, t}
            /\ live \subseteq live' \/ (lock["fs"] = Null /\ lock["id"] = t)
        BY <1>2, <2>2, ChangesUnderLock DEF OwnershipInv
      <4>3. u # Null /\ \A l \in Lock : l \in Holds(u) => lock[l] = u
        BY <1>2, ThreadAssumption DEF LocksInv, LocksMatchSteps
      <4>4. /\ pc[u] \in {"mount", "inFs", "inId"} => usb_hs_ctx_ptr' = usb_hs_ctx_ptr
            /\ pc[u] = "inId" => fs_ptr' = fs_ptr
            /\ pc[u] = "exFs" => id_store_ptr' = id_store_ptr /\ handles' = handles
            /\ pc[u] = "exHs" => fs_ptr' = fs_ptr
            /\ pc[u] \in {"use", "useHandle"} => live \subseteq live'
        BY <4>2, <4>3 DEF Holds, Lock
      <4> QED
        BY <1>2, <4>1, <4>4 DEF PointersInv, PointersMatchSteps, NoUseAfterFree, Uses
    <3> QED
      BY <2>1, <3>1, <3>2 DEF PointersInv, PointersMatchSteps, NoUseAfterFree, Uses
  <2>3. ASSUME NEW t \in Thread, NEW c \in Calls, Call(t, c)
        PROVE  PointersInv'
    <3>1. /\ pc[t] = "idle" /\ pc'[t] \in {"isId", "exId", "opId", "sfFs"}
          /\ \A u \in Thread \ {t} : pc'[u] = pc[u]
          /\ UNCHANGED <<ptrs, objects, obj>>
      BY <1>2, <2>3, CallStep DEF OwnershipInv
    <3> QED
      BY <1>2, <3>1 DEF PointersInv, PointersMatchSteps, NoUseAfterFree, Uses, ptrs, objects
  <2>4. CASE UNCHANGED <<ptrs, handles, live, pc, obj>>
    BY <1>2, <2>4 DEF PointersInv, PointersMatchSteps, NoUseAfterFree, Uses, ptrs
  <2> QED
    BY <1>2, <2>2, <2>3, <2>4 DEF Next, Plug, Unplug, vars, objects
<1> QED
  BY <1>1, <1>2, OwnershipInvariant, LocksInvariant, PTL DEF Spec

\* No call touches a FileSystem that usbFsExit has dropped, though handles and
\* usbFsStatPath use it without its lock.
THEOREM NothingUsedAfterFree == Spec => []NoUseAfterFree
BY PointersInvariant, PTL DEF PointersInv


\* The steps that publish a pointer or take one back.
LEMMA PublishingSteps ==
  ASSUME OwnershipInv, NEW t \in Thread, Step(t)
  PROVE  \/ /\ pc[t] = "inHs" /\ usb_hs_ctx_ptr' = obj[t]
            /\ UNCHANGED <<fs_ptr, id_store_ptr>>
         \/ /\ pc[t] = "inFs" /\ fs_ptr' = obj[t] /\ pc'[t] = "inId"
            /\ UNCHANGED <<usb_hs_ctx_ptr, id_store_ptr>>
         \/ /\ pc[t] = "inId" /\ id_store_ptr' = TRUE /\ UNCHANGED <<usb_hs_ctx_ptr, fs_ptr>>
         \/ /\ id_store_ptr' = FALSE /\ pc'[t] = "exFs" /\ UNCHANGED <<usb_hs_ctx_ptr, fs_ptr>>
         \/ /\ pc[t] = "exFs" /\ fs_ptr' = Null /\ UNCHANGED <<usb_hs_ctx_ptr, id_store_ptr>>
         \/ /\ pc[t] = "exHs" /\ usb_hs_ctx_ptr' = Null /\ UNCHANGED <<fs_ptr, id_store_ptr>>
         \/ pc[t] \notin {"exFs", "inId"} /\ UNCHANGED ptrs
<1> USE DEF OwnershipInv, TypeOK, At, Goto
<1>1. CASE IsInitialized(t) \/ IsReady(t)
  BY <1>1 DEF IsInitialized, IsReady
<1>2. CASE wait_for_usb_drive(t) \/ parse_drive(t) \/ Initialize(t)
  BY <1>2 DEF wait_for_usb_drive, parse_drive, Initialize, open_partition
<1>3. CASE Exit(t)
  BY <1>3 DEF Exit, DropStore, DropFilesystem, DropContext
<1>4. CASE get_id_store(t) \/ HandleUsed(t)
  BY <1>4 DEF get_id_store, HandleUsed
<1>5. CASE get_filesystem(t) \/ FilesystemUsed(t)
  BY <1>5 DEF get_filesystem, FilesystemUsed
<1> QED
  BY <1>1, <1>2, <1>3, <1>4, <1>5 DEF Step

\* What a call publishes or takes back is whole when its locks are given up.
LEMMA PublishedInvariant == Spec => []Published
<1>1. Init => Published
  BY DEF Init, Published
<1>2. ASSUME OwnershipInv, PointersMatchSteps, Published, [Next]_vars
      PROVE  Published'
  <2>1. ASSUME NEW t \in Thread, Step(t)
        PROVE  Published'
    <3>1. \A u \in Thread \ {t} : pc'[u] = pc[u]
      BY <1>2, <2>1, OthersStay DEF OwnershipInv
    <3>2. /\ pc[t] \in {"inHs", "inFs", "inId"} => obj[t] # Null
          /\ pc[t] = "inFs" => usb_hs_ctx_ptr = obj[t]
          /\ pc[t] = "inId" => fs_ptr = obj[t]
          /\ pc[t] = "exFs" => ~id_store_ptr
          /\ pc[t] = "exHs" => fs_ptr = Null
      BY <1>2, ThreadAssumption DEF PointersMatchSteps, OwnershipInv, HasObject
    <3>3. (fs_ptr # Null => usb_hs_ctx_ptr # Null)'
      BY <1>2, <2>1, <3>2, PublishingSteps DEF Published, ptrs
    <3>4. (\/ id_store_ptr <=> fs_ptr # Null
           \/ \E u \in Thread : pc[u] \in {"exFs", "inId"})'
      BY <1>2, <2>1, <3>1, <3>2, PublishingSteps DEF Published, ptrs
    <3> QED
      BY <3>3, <3>4 DEF Published
  <2>2. ASSUME NEW t \in Thread, NEW c \in Calls, Call(t, c)
        PROVE  Published'
    <3>1. /\ pc[t] = "idle" /\ \A u \in Thread \ {t} : pc'[u] = pc[u]
          /\ UNCHANGED ptrs
      BY <1>2, <2>2, CallStep DEF OwnershipInv
    <3> QED
      BY <1>2, <3>1 DEF Published, ptrs
  <2>3. CASE UNCHANGED <<ptrs, pc>>
    BY <1>2, <2>3 DEF Published, ptrs
  <2> QED
    BY <1>2, <2>1, <2>2, <2>3 DEF Next, Plug, Unplug, vars
<1>3. PointersInv => PointersMatchSteps
  BY DEF PointersInv
<1> QED
  BY <1>1, <1>2, <1>3, OwnershipInvariant, PointersInvariant, PTL DEF Spec

\* Whoever has, or can have, the store's and the file system's locks finds both
\* pointers set or neither, in every state of the calls around it, but for the two
\* steps that set or clear one after the other.
THEOREM SetTogether == Spec => []PublishedTogether
<1>1. Published /\ LocksMatchSteps => PublishedTogether
  BY ThreadAssumption DEF Published, LocksMatchSteps, PublishedTogether, Holds, Lock
<1> QED
  BY <1>1, PublishedInvariant, LocksHeld, PTL

-------------------------------------------------------------------------------
(* Drives *)

\* A thread's step loses a drive only if it overwrites the pointer to it.
LEMMA StepLoses ==
  ASSUME OwnershipInv, NEW t \in Thread, Step(t), NEW d \in Drive, Lost(d)', ~Lost(d)
  PROVE  pc[t] = "inFs" /\ pc'[t] = "inId" /\ fs_ptr = d /\ obj[t] # d
<1>1. \A u \in Thread \ {t} : pc'[u] = pc[u] /\ obj'[u] = obj[u]
  BY OthersStay DEF OwnershipInv
<1>2. /\ pc \in [Thread -> Steps] /\ obj \in [Thread -> Drive \cup {Null}]
      /\ plug \in [Drive -> {"away", "free", "acquired", "gone"}]
  BY DEF OwnershipInv, TypeOK
<1>3. SettingUp(t) => obj[t] \in Drive /\ obj[t] # fs_ptr /\ (obj[t] \in live <=> pc[t] = "inFs")
  BY DEF OwnershipInv, HasObject, OwnsDrive, SettingUp
<1>4. /\ plug'[d] = "acquired" \/ d \in live'
      /\ fs_ptr' # d
      /\ \A u \in Thread : SettingUp(u)' => obj'[u] # d
  BY DEF Lost, Owned, SettingUp
<1>5. \/ plug[d] # "acquired" /\ d \notin live
      \/ fs_ptr = d
      \/ \E u \in Thread : SettingUp(u) /\ obj[u] = d
  BY DEF Lost, Owned, SettingUp
<1>6. \A u \in Thread \ {t} : SettingUp(u) => obj[u] # d
  BY <1>1, <1>4 DEF SettingUp
<1> USE DEF At, Goto, Keep, Return
<1>7. CASE wait_for_usb_drive(t)
  <2>1. fs_ptr' = fs_ptr /\ live' = live /\ ~SettingUp(t)
    BY <1>7 DEF wait_for_usb_drive, ptrs, SettingUp
  <2>2. plug'[d] = "acquired" /\ plug[d] # "acquired"
    BY <1>4, <1>5, <1>6, <2>1
  <2>3. obj'[t] = d /\ pc'[t] = "parse"
    BY <1>2, <1>7, <2>2 DEF wait_for_usb_drive
  <2> QED
    BY <1>4, <2>3 DEF SettingUp
<1>8. CASE parse_drive(t) \/ open_partition(t)
  <2>1. fs_ptr' = fs_ptr /\ SettingUp(t) /\ pc[t] # "inFs"
    BY <1>8 DEF parse_drive, open_partition, ptrs, SettingUp
  <2>2. CASE obj'[t] = obj[t] /\ SettingUp(t)' /\ plug' = plug /\ live' \subseteq live \cup {obj[t]}
    <3>1. obj[t] # d
      BY <1>4, <2>2
    <3> QED
      BY <1>4, <1>5, <1>6, <2>1, <2>2, <3>1
  <2>3. CASE plug' = Released(obj[t]) /\ live' = live
    <3>1. CASE d = obj[t]
      BY <1>2, <1>3, <1>4, <2>1, <2>3, <3>1 DEF Released
    <3>2. CASE d # obj[t]
      BY <1>2, <1>3, <1>4, <1>5, <1>6, <2>1, <2>3, <3>2 DEF Released
    <3> QED
      BY <3>1, <3>2
  <2> QED
    BY <1>2, <1>8, <2>2, <2>3 DEF parse_drive, open_partition, SettingUp
<1>9. CASE DropFilesystem(t)
  <2>1. pc[t] = "exFs" /\ ~SettingUp(t) /\ live' = live \ {fs_ptr}
    BY <1>9 DEF DropFilesystem, SettingUp
  <2>2. /\ d = fs_ptr => plug'[d] # "acquired"
        /\ d # fs_ptr => plug'[d] = plug[d]
    BY <1>2, <1>9, ThreadAssumption DEF DropFilesystem, Released
  <2> QED
    BY <1>4, <1>5, <1>6, <2>1, <2>2
<1>10. CASE /\ pc[t] = "inFs" /\ pc'[t] = "inId"
            /\ fs_ptr' = obj[t] /\ UNCHANGED <<live, plug>>
  <2>1. obj[t] # d
    BY <1>4, <1>10
  <2> QED
    BY <1>4, <1>5, <1>6, <1>10, <2>1
<1>11. CASE /\ UNCHANGED <<live, plug, fs_ptr>>
            /\ SettingUp(t)' <=> SettingUp(t)
            /\ SettingUp(t) => obj'[t] = obj[t] /\ (pc'[t] = "inFs" <=> pc[t] = "inFs")
  BY <1>4, <1>5, <1>6, <1>11
<1> QED
  BY <1>7, <1>8, <1>9, <1>10, <1>11, DriveSteps DEF OwnershipInv

\* A drive is lost in one way only: a second usbFsInitialize, which asked whether it
\* was needed before the first one had published anything, overwrites fs_ptr.
THEOREM DrivesLostByOverwrite == Spec => LostOnlyByOverwrite
<1> DEFINE OnlyOverwritten ==
      \A d \in Drive : Lost(d)' /\ ~Lost(d) =>
        fs_ptr = d /\ \E t \in Thread : pc[t] = "inFs" /\ pc'[t] = "inId" /\ obj[t] # d
<1>1. OwnershipInv /\ [Next]_vars => [OnlyOverwritten]_vars
  <2> SUFFICES ASSUME OwnershipInv, [Next]_vars, NEW d \in Drive, Lost(d)', ~Lost(d)
               PROVE  fs_ptr = d /\ \E t \in Thread : pc[t] = "inFs" /\ pc'[t] = "inId" /\ obj[t] # d
    OBVIOUS
  <2>1. ASSUME NEW t \in Thread, Step(t)
        PROVE  fs_ptr = d /\ \E u \in Thread : pc[u] = "inFs" /\ pc'[u] = "inId" /\ obj[u] # d
    BY <2>1, StepLoses
  <2>2. ASSUME NEW t \in Thread, NEW c \in Calls, Call(t, c)
        PROVE  FALSE
    <3>1. /\ pc[t] = "idle" /\ \A u \in Thread \ {t} : pc'[u] = pc[u]
          /\ UNCHANGED <<live, plug, obj, fs_ptr>>
      BY <2>2, CallStep DEF OwnershipInv, objects, ptrs
    <3> QED
      BY <3>1 DEF Lost, Owned
  <2>3. ASSUME NEW e \in Drive, Plug(e) \/ Unplug(e)
        PROVE  FALSE
    <3>1. /\ UNCHANGED <<live, fs_ptr, pc, obj>>
          /\ plug'[d] = "acquired" => plug[d] = "acquired"
      BY <2>3 DEF Plug, Unplug, ptrs, OwnershipInv, TypeOK
    <3> QED
      BY <3>1 DEF Lost, Owned
  <2>4. CASE UNCHANGED vars
    BY <2>4 DEF vars, objects, ptrs, Lost, Owned
  <2> QED
    BY <2>1, <2>2, <2>3, <2>4 DEF Next
<1> QED
  BY <1>1, OwnershipInvariant, PTL DEF Spec, LostOnlyByOverwrite
===============================================================================
