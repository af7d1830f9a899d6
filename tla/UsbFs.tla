-------------------------------- MODULE UsbFs ---------------------------------
(***************************************************************************)
(* The C API of usbfs.rs as threads see it: three mutexes, each over a     *)
(* pointer (the USB context, the file system, the id store), taken one at  *)
(* a time by every call, and the life of the objects behind the pointers.  *)
(*                                                                         *)
(* A lock is taken in one step and what the code does under it, up to the  *)
(* next lock, is part of that step, except a use of the file system, which *)
(* lasts (the pcs "use..." and "exStore") so that two of them can overlap. *)
(* A FileSystem is named by the drive it is on.                            *)
(*                                                                         *)
(* A definition with a suffix (Unlocked_notId) is the one of that name as a  *)
(* plausible mistake would leave it; nothing refers to it.                 *)
(***************************************************************************)
EXTENDS Integers

CONSTANTS Thread,    \* threads that call the library
          Drive,     \* drives plugged in: one that comes back counts as another
          Null,      \* a null pointer, a free lock, no object
          Calls,     \* the calls made: a subset of AllCalls
          MaxCalls   \* bound: calls the threads make in all

Lock == {"hs", "fs", "id"}
AllCalls == {"IsInitialized", "Initialize", "Exit", "Update", "MountStatus",
             "Path", "StatPath", "Handle", "StatFilesystem"}

ASSUME ThreadAssumption == Null \notin Thread \cup Drive
ASSUME CallsAssumption == Calls \subseteq AllCalls /\ MaxCalls \in Nat

VARIABLES lock,      \* who holds each mutex
          usb_hs_ctx_ptr, fs_ptr, id_store_ptr,
          handles,   \* the file systems of the store's open handles
          live,      \* the file systems not dropped
          plug,      \* where each drive stands
          call, pc,  \* the call of each thread, and the step it is to take
          obj,       \* the drive or file system the step is about
          ret,       \* what the thread's last call returned
          ncalls

ptrs == <<usb_hs_ctx_ptr, fs_ptr, id_store_ptr>>
objects == <<handles, live, plug>>
vars == <<lock, ptrs, objects, call, pc, obj, ret, ncalls>>

Init == /\ lock = [l \in Lock |-> Null]
        /\ usb_hs_ctx_ptr = Null /\ fs_ptr = Null /\ id_store_ptr = FALSE
        /\ handles = {} /\ live = {}
        /\ plug \in [Drive -> {"away", "free"}]
        /\ call = [t \in Thread |-> "none"]
        /\ pc = [t \in Thread |-> "idle"]
        /\ obj = [t \in Thread |-> Null]
        /\ ret = [t \in Thread |-> "none"]
        /\ ncalls = 0

-------------------------------------------------------------------------------
(* Steps of a thread *)

At(t, step) == pc[t] = step /\ UNCHANGED <<call, ncalls>>
Goto(t, step) == pc' = [pc EXCEPT ![t] = step]
Take(t, l) == lock[l] = Null /\ lock' = [lock EXCEPT ![l] = t]
Keep(t) == UNCHANGED <<obj, ret>>

\* Every guard goes out of scope when a call returns.
Return(t, r) == /\ pc' = [pc EXCEPT ![t] = "idle"]
                /\ obj' = [obj EXCEPT ![t] = Null]
                /\ ret' = [ret EXCEPT ![t] = r]
Unlocked_notId(t) == [l \in Lock |-> IF lock[l] = t /\ l # "id" THEN Null ELSE lock[l]]
Unlocked(t) == [l \in Lock |-> IF lock[l] = t THEN Null ELSE lock[l]]

FirstStep(c) == CASE c \in {"IsInitialized", "Initialize", "Update", "MountStatus"} -> "isId"
                  [] c = "Exit" -> "exId"
                  [] c \in {"Path", "StatPath", "Handle"} -> "opId"
                  [] c = "StatFilesystem" -> "sfFs"

Call(t, c) == /\ pc[t] = "idle" /\ ncalls < MaxCalls
              /\ call' = [call EXCEPT ![t] = c]
              /\ ncalls' = ncalls + 1
              /\ Goto(t, FirstStep(c))
              /\ UNCHANGED <<lock, ptrs, objects, obj, ret>>

-------------------------------------------------------------------------------
(* usbFsIsInitialized, by itself and at the head of the calls that ask it *)

\* usbFsDeviceUpdate returns usbFsIsReady's code, usbFsDeviceGetMountStatus 0 or 1.
Answer(t, code) == CASE call[t] # "MountStatus" -> code
                     [] code = "SUCCESS" -> "1"
                     [] OTHER -> "0"

IsInitialized(t) ==
    \/ /\ At(t, "isId") /\ Take(t, "id") /\ Goto(t, "isHs")
       /\ Keep(t) /\ UNCHANGED <<ptrs, objects>>
    \/ /\ At(t, "isHs") /\ Take(t, "hs") /\ Goto(t, "isFs")
       /\ Keep(t) /\ UNCHANGED <<ptrs, objects>>
    \/ /\ At(t, "isFs") /\ lock["fs"] = Null
       /\ lock' = Unlocked(t)
       /\ LET initialized == usb_hs_ctx_ptr # Null /\ fs_ptr # Null /\ id_store_ptr
          IN  CASE call[t] = "Initialize" /\ ~initialized -> Goto(t, "acquire") /\ Keep(t)
                [] call[t] \in {"Update", "MountStatus"} /\ initialized -> Goto(t, "rdHs") /\ Keep(t)
                [] OTHER -> Return(t, Answer(t, IF initialized THEN "SUCCESS"
                                                             ELSE "NOT_INITIALIZED"))
       /\ UNCHANGED <<ptrs, objects>>

\* The lock is free, and a context found behind it or not.
get_service_ctx(found) == lock["hs"] = Null /\ found = (usb_hs_ctx_ptr # Null)

\* usbFsIsReady goes on to ask whether the context's device is still there.
IsReady(t) ==
    /\ At(t, "rdHs")
    /\ \/ get_service_ctx(FALSE) /\ Return(t, Answer(t, "NOT_INITIALIZED"))
       \/ /\ get_service_ctx(TRUE)
          /\ \E code \in {"QUERY_FAILED", IF plug[usb_hs_ctx_ptr] = "acquired"
                                          THEN "SUCCESS" ELSE "DRIVE_DISCONNECTED"} :
                Return(t, Answer(t, code))
    /\ UNCHANGED <<lock, ptrs, objects>>

-------------------------------------------------------------------------------
(* usbFsInitialize *)

\* A drive nobody has acquired is acquired, or none is; no lock is held until the
\* drive has been looked at.
wait_for_usb_drive(t) ==
    /\ At(t, "acquire")
    /\ \/ \E d \in Drive : /\ plug[d] = "free"
                           /\ plug' = [plug EXCEPT ![d] = "acquired"]
                           /\ obj' = [obj EXCEPT ![t] = d]
                           /\ Goto(t, "parse") /\ UNCHANGED ret
       \/ Return(t, "FAILED") /\ UNCHANGED plug
    /\ UNCHANGED <<lock, ptrs, handles, live>>

\* Dropping the session makes a drive that is still there available again.
Released(d) == [plug EXCEPT ![d] = IF @ = "acquired" THEN "free" ELSE @]

\* The interface must have the endpoints, both must open, and the drive must answer
\* the first commands; otherwise the session goes with the call.
parse_drive_keepsSession(t) ==
    /\ At(t, "parse")
    /\ \/ plug[obj[t]] = "acquired" /\ Goto(t, "inHs") /\ Keep(t) /\ UNCHANGED plug
       \/ Return(t, "FAILED") /\ UNCHANGED plug
    /\ UNCHANGED <<lock, ptrs, handles, live>>

parse_drive(t) ==
    /\ At(t, "parse")
    /\ \/ plug[obj[t]] = "acquired" /\ Goto(t, "inHs") /\ Keep(t) /\ UNCHANGED plug
       \/ Return(t, "FAILED") /\ plug' = Released(obj[t])
    /\ UNCHANGED <<lock, ptrs, handles, live>>

\* The partition table is read and a file system opened, which needs the drive and
\* may fail with it; a failure drops the device, and the context stays published.
open_partition(t) ==
    /\ At(t, "mount")
    /\ \/ /\ plug[obj[t]] = "acquired"
          /\ live' = live \cup {obj[t]}
          /\ Goto(t, "inFs") /\ Keep(t) /\ UNCHANGED <<lock, plug>>
       \/ /\ plug' = Released(obj[t]) /\ lock' = Unlocked(t)
          /\ Return(t, "FAILED") /\ UNCHANGED live
    /\ UNCHANGED <<ptrs, handles>>

\* The context is published before the partition is known to be usable.
Initialize(t) ==
    \/ /\ At(t, "inHs") /\ Take(t, "hs") /\ Goto(t, "mount")
       /\ usb_hs_ctx_ptr' = obj[t]
       /\ Keep(t) /\ UNCHANGED <<fs_ptr, id_store_ptr, objects>>
    \/ open_partition(t)
    \/ /\ At(t, "inFs") /\ Take(t, "fs") /\ Goto(t, "inId")
       /\ fs_ptr' = obj[t]
       /\ Keep(t) /\ UNCHANGED <<usb_hs_ctx_ptr, id_store_ptr, objects>>
    \/ /\ At(t, "inId") /\ lock["id"] = Null
       /\ id_store_ptr' = TRUE /\ handles' = {}
       /\ lock' = Unlocked(t) /\ Return(t, "SUCCESS")
       /\ UNCHANGED <<usb_hs_ctx_ptr, fs_ptr, live, plug>>

-------------------------------------------------------------------------------
(* usbFsExit: the store, the file system, the context, keeping every lock. *)

\* Dropping the store drops its handles, each of which flushes itself.
DropStore_keepsHandles(t) ==
    /\ At(t, "exStore") /\ Goto(t, "exFs")
    /\ id_store_ptr' = FALSE
    /\ Keep(t) /\ UNCHANGED <<lock, usb_hs_ctx_ptr, fs_ptr, objects>>

DropStore_returns(t) ==
    /\ At(t, "exStore") /\ lock' = Unlocked(t) /\ Return(t, "SUCCESS")
    /\ id_store_ptr' = FALSE /\ handles' = {}
    /\ UNCHANGED <<usb_hs_ctx_ptr, fs_ptr, live, plug>>

DropStore(t) ==
    /\ At(t, "exStore") /\ Goto(t, "exFs")
    /\ id_store_ptr' = FALSE /\ handles' = {}
    /\ Keep(t) /\ UNCHANGED <<lock, usb_hs_ctx_ptr, fs_ptr, live, plug>>

DropFilesystem_sessionOnly(t) ==
    /\ At(t, "exFs") /\ Take(t, "fs") /\ Goto(t, "exHs")
    /\ fs_ptr' = Null /\ plug' = IF fs_ptr = Null THEN plug ELSE Released(fs_ptr)
    /\ Keep(t) /\ UNCHANGED <<usb_hs_ctx_ptr, id_store_ptr, handles, live>>

DropFilesystem(t) ==
    /\ At(t, "exFs") /\ Take(t, "fs") /\ Goto(t, "exHs")
    /\ fs_ptr' = Null /\ live' = live \ {fs_ptr}
    /\ plug' = IF fs_ptr = Null THEN plug ELSE Released(fs_ptr)
    /\ Keep(t) /\ UNCHANGED <<usb_hs_ctx_ptr, id_store_ptr, handles>>

DropContext(t) ==
    /\ At(t, "exHs") /\ lock["hs"] = Null
    /\ usb_hs_ctx_ptr' = Null
    /\ lock' = Unlocked(t) /\ Return(t, "SUCCESS")
    /\ UNCHANGED <<fs_ptr, id_store_ptr, objects>>

Exit(t) ==
    \/ /\ At(t, "exId") /\ Return(t, "no log file")
       /\ UNCHANGED <<lock, ptrs, objects>>
    \/ /\ At(t, "exId") /\ Take(t, "id") /\ Goto(t, "exStore")
       /\ Keep(t) /\ UNCHANGED <<ptrs, objects>>
    \/ DropStore(t) \/ DropFilesystem(t) \/ DropContext(t)

-------------------------------------------------------------------------------
(* The file calls.  A handle call has the store's lock only.  A path call may  *)
(* first close a handle of that name, then looks its entry up under both       *)
(* locks.  usbFsStatPath and usbFsStatFile walk a directory with the store's   *)
(* lock only: one that is open already, or one looked up under both.           *)

UseHandle_dropsGuard(t) == \E f \in handles : /\ obj' = [obj EXCEPT ![t] = f]
                                              /\ Goto(t, "useHandle")
                                              /\ UNCHANGED <<lock, ret>>

UseHandle(t) == \E f \in handles : /\ obj' = [obj EXCEPT ![t] = f]
                                   /\ Take(t, "id") /\ Goto(t, "useHandle")
                                   /\ UNCHANGED ret

get_id_store_underFs(t) ==
    /\ At(t, "opId") /\ lock["fs"] = Null
    /\ id_store_ptr /\ call[t] # "Handle" /\ Take(t, "fs") /\ Goto(t, "opFs") /\ Keep(t)
    /\ UNCHANGED <<ptrs, objects>>

get_id_store(t) ==
    /\ At(t, "opId") /\ lock["id"] = Null
    /\ \/ /\ ~id_store_ptr
          /\ Return(t, "NOT_INITIALIZED") /\ UNCHANGED lock
       \/ /\ id_store_ptr
          /\ \/ UseHandle(t)
             \/ call[t] = "Handle" /\ Return(t, "FILE_NOT_FOUND") /\ UNCHANGED lock
             \/ call[t] # "Handle" /\ Take(t, "id") /\ Goto(t, "opFs") /\ Keep(t)
    /\ UNCHANGED <<ptrs, objects>>

\* A handle call or an earlier handle's close may leave no handle on the file system.
HandleUsed(t) ==
    /\ At(t, "useHandle")
    /\ \/ UNCHANGED handles
       \/ call[t] # "StatPath" /\ handles' = handles \ {obj[t]}
    /\ \/ Return(t, "SUCCESS") /\ lock' = Unlocked(t)
       \/ call[t] = "Path" /\ Goto(t, "opFs") /\ Keep(t) /\ UNCHANGED lock
    /\ UNCHANGED <<ptrs, live, plug>>

get_filesystem(t) ==
    /\ \E step \in {"opFs", "sfFs"} : At(t, step)
    /\ lock["fs"] = Null
    /\ \/ /\ fs_ptr = Null
          /\ Return(t, "NOT_INITIALIZED") /\ lock' = Unlocked(t)
       \/ /\ fs_ptr # Null
          /\ obj' = [obj EXCEPT ![t] = fs_ptr]
          /\ IF call[t] = "StatPath" THEN UNCHANGED lock ELSE Take(t, "fs")
          /\ Goto(t, "use") /\ UNCHANGED ret
    /\ UNCHANGED <<ptrs, objects>>

FilesystemUsed(t) ==
    /\ At(t, "use")
    /\ \/ UNCHANGED handles
       \/ call[t] = "Path" /\ handles' = handles \cup {obj[t]}
    /\ lock' = Unlocked(t) /\ Return(t, "SUCCESS")
    /\ UNCHANGED <<ptrs, live, plug>>

-------------------------------------------------------------------------------

Plug(d) == /\ plug[d] = "away" /\ plug' = [plug EXCEPT ![d] = "free"]
           /\ UNCHANGED <<lock, ptrs, handles, live, call, pc, obj, ret, ncalls>>
Unplug(d) == /\ plug[d] \in {"free", "acquired"} /\ plug' = [plug EXCEPT ![d] = "gone"]
             /\ UNCHANGED <<lock, ptrs, handles, live, call, pc, obj, ret, ncalls>>

Step(t) == \/ IsInitialized(t) \/ IsReady(t) \/ wait_for_usb_drive(t) \/ parse_drive(t)
           \/ Initialize(t)
           \/ Exit(t) \/ get_id_store(t) \/ HandleUsed(t)
           \/ get_filesystem(t) \/ FilesystemUsed(t)

Next == \/ \E t \in Thread : Step(t) \/ \E c \in Calls : Call(t, c)
        \/ \E d \in Drive : Plug(d) \/ Unplug(d)

\* A thread that can take its next step in a call does so in the end; with
\* MaxCalls, that is also enough for a lock not to be taken by others for ever.
FairSpec == Init /\ [][Next]_vars /\ \A t \in Thread : WF_vars(Step(t))
Spec == Init /\ [][Next]_vars
-------------------------------------------------------------------------------
(* Properties *)

Steps == {"idle", "isId", "isHs", "isFs", "rdHs", "acquire", "parse", "inHs", "mount", "inFs", "inId",
          "exId", "exStore", "exFs", "exHs", "opId", "opFs", "sfFs", "use", "useHandle"}

\* The types, and that a FileSystem exists only on a drive it still owns.
TypeOK == /\ lock \in [Lock -> Thread \cup {Null}]
          /\ usb_hs_ctx_ptr \in Drive \cup {Null}
          /\ fs_ptr \in Drive \cup {Null}
          /\ id_store_ptr \in BOOLEAN
          /\ handles \subseteq Drive
          /\ live \subseteq Drive
          /\ plug \in [Drive -> {"away", "free", "acquired", "gone"}]
          /\ call \in [Thread -> AllCalls \cup {"none"}]
          /\ pc \in [Thread -> Steps]
          /\ obj \in [Thread -> Drive \cup {Null}]
          /\ ncalls \in 0 .. MaxCalls
          /\ \A f \in live : plug[f] \in {"acquired", "gone"}

\* The file systems a step touches.
Uses(t) == CASE pc[t] \in {"use", "useHandle"} -> {obj[t]}
             [] pc[t] = "exStore" -> handles
             [] OTHER -> {}

\* No call touches a FileSystem that usbFsExit has dropped, though handles and
\* usbFsStatPath use it without its lock.
NoUseAfterFree == /\ \A t \in Thread : Uses(t) \subseteq live
                  /\ handles \subseteq live
                  /\ fs_ptr \in live \cup {Null}

\* Two calls touch one FileSystem at once only if one of them is
\* usbFsStatFilesystem, the only one that does not take the store's lock.
OverlapOnlyWithStatFilesystem ==
    \A t, u \in Thread : t # u /\ Uses(t) \cap Uses(u) # {}
        => "StatFilesystem" \in {call[t], call[u]}

\* Whoever has, or can have, the store's and the file system's locks finds both
\* pointers set or neither, whatever other calls are doing, but for the two steps
\* that set or clear one after the other; and a file system never stands without the
\* context, though a failed usbFsInitialize may leave the context alone.
PublishedTogether ==
    /\ fs_ptr # Null => usb_hs_ctx_ptr # Null
    /\ \A t \in Thread :
         (\A l \in {"id", "fs"} : lock[l] \in {Null, t}) /\ pc[t] \notin {"inId", "exFs"}
            => (id_store_ptr <=> fs_ptr # Null)

\* A drive that is taken, or has a FileSystem, and that nothing leads to any more:
\* usbFsExit will not drop it, and nobody can acquire it again.
Owned(d) == fs_ptr = d \/ \E t \in Thread : pc[t] \in {"parse", "inHs", "mount", "inFs"} /\ obj[t] = d
Lost(d) == (plug[d] = "acquired" \/ d \in live) /\ ~Owned(d)

\* A drive is lost in one way only: a second usbFsInitialize, which asked whether it
\* was needed before the first one had published anything, overwrites fs_ptr.
\* Failures of whichever step, usbFsExit and drives pulled and plugged in lose none.
LostOnlyByOverwrite ==
    [][\A d \in Drive : Lost(d)' /\ ~Lost(d) =>
          fs_ptr = d /\ \E t \in Thread : pc[t] = "inFs" /\ pc'[t] = "inId" /\ obj[t] # d]_vars

\* The lock a step waits for.
WaitsFor(t) == CASE pc[t] \in {"isId", "inId", "exId", "opId"} -> {"id"}
                 [] pc[t] \in {"isHs", "rdHs", "inHs", "exHs"} -> {"hs"}
                 [] pc[t] \in {"isFs", "inFs", "exFs", "opFs", "sfFs"} -> {"fs"}
                 [] OTHER -> {}

\* Threads each of which waits for a lock that another of them holds.
WaitCycle(S) == S # {} /\ \A t \in S : \E l \in WaitsFor(t) : lock[l] \in S

\* usbFsInitialize takes the locks the other way round (hs, fs, id) from all
\* other calls: only around one that has the context's lock is there a deadlock.
DeadlockNeedsInitialize ==
    \A S \in SUBSET Thread : WaitCycle(S) => \E t \in S : pc[t] \in {"inFs", "inId"}

\* Every call returns, unless threads are in such a cycle.
ReturnsOrDeadlock ==
    \A t \in Thread : pc[t] # "idle" ~> (pc[t] = "idle" \/ \E S \in SUBSET Thread : WaitCycle(S))

\* "Keep calling update periodically to check USB drive ready" (usbfs.rs:530):
\* a thread that does so gets its answer.
UpdateReturns ==
    \A t \in Thread : pc[t] # "idle" /\ call[t] = "Update" ~> pc[t] = "idle"
===============================================================================
