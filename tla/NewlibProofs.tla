----------------------------- MODULE NewlibProofs -----------------------------
(***************************************************************************)
(* Newlib for any threads, drives and addresses: what newlib's entry leads *)
(* to, and what a handler or an unmount holds, is an open file system      *)
(* until an unmount drops it.                                              *)
(*                                                                         *)
(* The invariant is about the mounts under way: each works on a context of *)
(* its own, in the state its step expects, which newlib's entry leads to   *)
(* and a thread holds at most because an unmount has dropped it before at  *)
(* the same address; so one that fails drops nothing of anybody else's.    *)
(***************************************************************************)
EXTENDS Newlib, TLAPS

\* What a mount's step expects of its context.
Expected(t) == CASE pc[t] = "open" -> client_state[ctx[t]] = "Acquired" /\ iface[ctx[t]] \in Drive
                 [] pc[t] = "add"  -> client_state[ctx[t]] = "Opened" /\ iface[ctx[t]] \in Drive
                 [] OTHER -> TRUE

MountsOwn == \A t \in Thread : Mounting(t) =>
                 /\ ctx[t] \in live
                 /\ ctx[t] = usbfs => stale
                 /\ Expected(t)
                 /\ \A u \in Thread \ {t} : pc[u] # "idle" /\ u \notin dangling => ctx[u] # ctx[t]

Inv == /\ TypeOK
       /\ MountsOwn
       /\ EntryIsOpened
       /\ HeldIsOpened

LEMMA Initially == Init => Inv
<1> SUFFICES ASSUME Init PROVE Inv
  OBVIOUS
<1>1. TypeOK
  <2>1. ncalls \in 0 .. MaxCalls
    BY CallsAssumption DEF Init
  <2>2. client_state \in [Context -> {"Uninitialized", "Acquired", "Opened"}]
    BY DEF Init
  <2>3. /\ pc \in [Thread -> {"idle", "acquire", "open", "add", "use", "remove", "drop"}]
        /\ dangling \subseteq {t \in Thread : pc[t] \in {"use", "remove", "drop"}}
    BY DEF Init
  <2>4. iface \in [Context -> Drive \cup {Null}] /\ ctx \in [Thread -> Context \cup {Null}]
    BY DEF Init
  <2>5. live \subseteq Context /\ usbfs \in Context \cup {Null} /\ stale \in BOOLEAN
        /\ undefined \in BOOLEAN
    BY DEF Init
  <2>6. \A t \in Thread : pc[t] = "idle" <=> ctx[t] = Null
    BY DEF Init
  <2> QED  BY <2>1, <2>2, <2>3, <2>4, <2>5, <2>6 DEF TypeOK
<1>2. \A t \in Thread : pc[t] = "idle"
  BY DEF Init
<1>3. MountsOwn /\ HeldIsOpened
  BY <1>2 DEF MountsOwn, Mounting, HeldIsOpened, Holding
<1>4. EntryIsOpened
  BY DEF Init, EntryIsOpened
<1> QED  BY <1>1, <1>3, <1>4 DEF Inv

\* Every call starts with a count; the counter stays below its bound.
LEMMA CountStays ==
    ASSUME TypeOK, NEW t \in Thread, Call(t)
    PROVE  ncalls' \in 0 .. MaxCalls
  BY CallsAssumption DEF TypeOK, Call

\* The threads that work on a context nobody has dropped.
LEMMA HeldIsLive ==
    ASSUME Inv, NEW t \in Thread, pc[t] # "idle", t \notin dangling
    PROVE  ctx[t] \in live
BY DEF Inv, TypeOK, MountsOwn, Mounting, HeldIsOpened, Holding

LEMMA StartKeeps ==
    ASSUME Inv, NEW t \in Thread, init_usb_hs_ctx(t), UNCHANGED undefined
    PROVE  Inv'
<1> USE NullAssumption DEF Inv, table
<1>1. ncalls' \in 0 .. MaxCalls
  BY CountStays DEF init_usb_hs_ctx
<1>2. CASE UNCHANGED <<live, pc, ctx>>
  BY <1>1, <1>2 DEF init_usb_hs_ctx, Call, TypeOK, MountsOwn, Expected, Mounting,
     EntryIsOpened, HeldIsOpened, Holding
<1>3. ASSUME NEW c \in Context \ live, live' = live \cup {c},
             ctx' = [ctx EXCEPT ![t] = c], Goto(t, "acquire")
      PROVE  Inv'
  <2>1. UNCHANGED <<client_state, iface, table, dangling>> /\ pc[t] = "idle"
    BY DEF init_usb_hs_ctx, Call
  <2>2. TypeOK'
    BY <1>1, <1>3, <2>1 DEF TypeOK, Goto
  <2>3. EntryIsOpened' /\ HeldIsOpened'
    BY <1>3, <2>1 DEF TypeOK, Goto, EntryIsOpened, HeldIsOpened, Holding
  <2>4. MountsOwn'
    <3> SUFFICES ASSUME NEW u \in Thread, Mounting(u)'
                 PROVE  (/\ ctx[u] \in live
                         /\ ctx[u] = usbfs => stale
                         /\ Expected(u)
                         /\ \A v \in Thread \ {u} :
                               pc[v] # "idle" /\ v \notin dangling => ctx[v] # ctx[u])'
      BY DEF MountsOwn
    <3>1. CASE u = t
      BY <1>3, <2>1, <3>1, HeldIsLive DEF TypeOK, Goto, Expected, EntryIsOpened
    <3>2. CASE u # t
      BY <1>3, <2>1, <3>2 DEF TypeOK, Goto, Expected, MountsOwn, Mounting
    <3> QED  BY <3>1, <3>2
  <2> QED  BY <2>2, <2>3, <2>4
<1> QED  BY <1>2, <1>3 DEF init_usb_hs_ctx

LEMMA AcquireKeeps ==
    ASSUME Inv, NEW t \in Thread, wait_for_usb_drive(t), UNCHANGED undefined
    PROVE  Inv'
<1> USE NullAssumption DEF Inv, table
<1>1. PICK d \in Drive : iface' = [iface EXCEPT ![ctx[t]] = d]
  BY DEF wait_for_usb_drive, Available
<1>2. /\ Mounting(t) /\ t \notin dangling
      /\ ctx[t] \in live /\ ctx[t] \in Context
  BY DEF wait_for_usb_drive, Mounting, MountsOwn, TypeOK
<1>3. TypeOK'
  BY <1>1, <1>2 DEF wait_for_usb_drive, Goto, TypeOK
<1>4. EntryIsOpened' /\ HeldIsOpened'
  BY <1>1, <1>2 DEF wait_for_usb_drive, Goto, TypeOK, EntryIsOpened, HeldIsOpened, Holding, MountsOwn
<1>5. MountsOwn'
  BY <1>1, <1>2 DEF wait_for_usb_drive, Goto, TypeOK, MountsOwn, Mounting, Expected
<1> QED  BY <1>3, <1>4, <1>5

LEMMA OpenKeeps ==
    ASSUME Inv, NEW t \in Thread, open_partition(t), UNCHANGED undefined
    PROVE  Inv'
<1> USE NullAssumption DEF Inv, table
<1>1. /\ Mounting(t) /\ t \notin dangling
      /\ ctx[t] \in live /\ ctx[t] \in Context
  BY DEF open_partition, Mounting, MountsOwn, TypeOK
<1>2. TypeOK'
  BY <1>1 DEF open_partition, Goto, TypeOK
<1>3. EntryIsOpened' /\ HeldIsOpened'
  BY <1>1 DEF open_partition, Goto, TypeOK, EntryIsOpened, HeldIsOpened, Holding, MountsOwn
<1>4. MountsOwn'
  BY <1>1 DEF open_partition, Goto, TypeOK, MountsOwn, Mounting, Expected
<1> QED  BY <1>2, <1>3, <1>4

LEMMA FailureKeeps ==
    ASSUME Inv, NEW t \in Thread, MountFails(t), UNCHANGED undefined
    PROVE  Inv'
<1> USE NullAssumption DEF Inv, table
<1>1. /\ Mounting(t) /\ t \notin dangling
      /\ ctx[t] \in live /\ ctx[t] \in Context /\ (ctx[t] = usbfs => stale)
      /\ \A u \in Thread \ {t} : pc[u] # "idle" /\ u \notin dangling => ctx[u] # ctx[t]
  BY DEF MountFails, Mounting, MountsOwn, TypeOK
<1>2. TypeOK'
  BY <1>1 DEF MountFails, Dropped, Return, Goto, TypeOK
<1>3. EntryIsOpened' /\ HeldIsOpened'
  BY <1>1 DEF MountFails, Dropped, Return, Goto, TypeOK, EntryIsOpened, HeldIsOpened, Holding
<1>4. MountsOwn'
  BY <1>1 DEF MountFails, Dropped, Return, Goto, TypeOK, MountsOwn, Mounting, Expected
<1> QED  BY <1>2, <1>3, <1>4

LEMMA RegistrationKeeps ==
    ASSUME Inv, NEW t \in Thread, AddDevice(t), UNCHANGED undefined
    PROVE  Inv'
<1> USE NullAssumption DEF Inv, table
<1>1. /\ Mounting(t) /\ t \notin dangling
      /\ ctx[t] \in live /\ ctx[t] \in Context /\ Expected(t)
      /\ \A u \in Thread \ {t} : pc[u] # "idle" /\ u \notin dangling => ctx[u] # ctx[t]
  BY DEF AddDevice, Mounting, MountsOwn, TypeOK
<1>2. TypeOK'
  BY <1>1 DEF AddDevice, contexts, Return, Goto, TypeOK
<1>3. EntryIsOpened' /\ HeldIsOpened'
  BY <1>1 DEF AddDevice, contexts, Return, Goto, TypeOK, EntryIsOpened, HeldIsOpened, Holding, Expected
<1>4. MountsOwn'
  BY <1>1 DEF AddDevice, contexts, Return, Goto, TypeOK, MountsOwn, Mounting, Expected
<1> QED  BY <1>2, <1>3, <1>4

\* get_global and nxFatdriveUnmount hold what the entry leads to.
LEMMA LookupKeeps ==
    ASSUME Inv, NEW t \in Thread, NEW step \in {"use", "remove"},
           Call(t), usbfs # Null, Found(t, step), UNCHANGED <<contexts, table, undefined>>
    PROVE  Inv'
<1> USE NullAssumption DEF Inv, contexts, table
<1>1. ncalls' \in 0 .. MaxCalls
  BY CountStays
<1>2. TypeOK'
  BY <1>1 DEF Found, Call, Goto, TypeOK
<1>3. EntryIsOpened' /\ HeldIsOpened'
  BY DEF Found, Call, Goto, TypeOK, EntryIsOpened, HeldIsOpened, Holding
<1>4. MountsOwn'
  BY DEF Found, Call, Goto, TypeOK, MountsOwn, Mounting, Expected
<1> QED  BY <1>2, <1>3, <1>4

LEMMA HandlersKeep ==
    ASSUME Inv, NEW t \in Thread, Handler(t) \/ HandlerReturns(t), UNCHANGED undefined
    PROVE  Inv'
<1> USE NullAssumption DEF Inv, contexts, table
<1>1. CASE Handler(t) /\ usbfs # Null
  BY <1>1, LookupKeeps DEF Handler, get_global
<1>2. CASE Handler(t) /\ usbfs = Null
  <2>1. ncalls' \in 0 .. MaxCalls
    BY <1>2, CountStays DEF Handler
  <2> QED
    BY <1>2, <2>1 DEF Handler, get_global, TypeOK, EntryIsOpened, HeldIsOpened, Holding, MountsOwn,
       Mounting, Expected
<1>3. CASE HandlerReturns(t)
  <2>1. TypeOK'
    BY <1>3 DEF HandlerReturns, Return, Goto, TypeOK
  <2>2. EntryIsOpened' /\ HeldIsOpened'
    BY <1>3 DEF HandlerReturns, Return, Goto, TypeOK, EntryIsOpened, HeldIsOpened, Holding
  <2>3. MountsOwn'
    BY <1>3 DEF HandlerReturns, Return, Goto, TypeOK, MountsOwn, Mounting, Expected
  <2> QED  BY <2>1, <2>2, <2>3
<1> QED  BY <1>1, <1>2, <1>3

LEMMA RemovalKeeps ==
    ASSUME Inv, NEW t \in Thread, RemoveDevice(t), UNCHANGED undefined
    PROVE  Inv'
<1> USE NullAssumption DEF Inv, contexts, table
<1>1. TypeOK'
  BY DEF RemoveDevice, Goto, TypeOK
<1>2. EntryIsOpened' /\ HeldIsOpened'
  BY DEF RemoveDevice, Goto, TypeOK, EntryIsOpened, HeldIsOpened, Holding
<1>3. MountsOwn'
  BY DEF RemoveDevice, Goto, TypeOK, MountsOwn, Mounting, Expected
<1> QED  BY <1>1, <1>2, <1>3

\* Whoever else holds the context is left dangling, and the entry stale; no mount
\* under way has it.
LEMMA DropKeeps ==
    ASSUME Inv, NEW t \in Thread, DropBoxes(t), UNCHANGED undefined
    PROVE  Inv'
<1> USE NullAssumption DEF Inv
<1>1. /\ pc[t] = "drop" /\ t \notin dangling
      /\ ctx[t] \in live /\ ctx[t] \in Context
  BY DEF DropBoxes, HeldIsOpened, Holding, TypeOK
<1>2. \A u \in Thread : Mounting(u) => u # t /\ ctx[u] # ctx[t]
  BY <1>1 DEF MountsOwn, Mounting
<1>3. \A u \in Thread : ctx[u] = ctx[t] => pc[u] \in {"use", "remove", "drop"}
  BY <1>1, <1>2 DEF Mounting, TypeOK
<1>4. TypeOK'
  BY <1>1, <1>3 DEF DropBoxes, Dropped, Goto, TypeOK
<1>5. EntryIsOpened' /\ HeldIsOpened'
  BY <1>1 DEF DropBoxes, Dropped, Goto, TypeOK, EntryIsOpened, HeldIsOpened, Holding
<1>6. MountsOwn'
  BY <1>1, <1>2 DEF DropBoxes, Dropped, Goto, TypeOK, MountsOwn, Mounting, Expected
<1> QED  BY <1>4, <1>5, <1>6

LEMMA Inductive == Inv /\ [Next]_vars => Inv'
<1> SUFFICES ASSUME Inv, [Next]_vars PROVE Inv'
  OBVIOUS
<1> USE DEF contexts, table
<1>1. CASE UNCHANGED vars
  BY <1>1 DEF vars, Inv, TypeOK, MountsOwn, EntryIsOpened, HeldIsOpened, Holding, Mounting, Expected
<1>2. ASSUME NEW t \in Thread, Undefined(t)
      PROVE  Inv'
  BY <1>2 DEF Undefined, Inv, TypeOK, MountsOwn, EntryIsOpened, HeldIsOpened, Holding, Mounting, Expected
<1>3. ASSUME NEW t \in Thread, Defined(t)
      PROVE  Inv'
  <2>1. CASE nxFatdriveUnmount(t)
    BY <1>3, <2>1, LookupKeeps DEF Defined, nxFatdriveUnmount
  <2> QED
    BY <1>3, <2>1, StartKeeps, AcquireKeeps, OpenKeeps, FailureKeeps, RegistrationKeeps, HandlersKeep,
       RemovalKeeps, DropKeeps DEF Defined
<1> QED  BY <1>1, <1>2, <1>3 DEF Next

LEMMA Always == Spec => []Inv
  BY Initially, Inductive, PTL DEF Spec

\* The state of every mount stays well-typed (NewlibContext, iosupport.rs:23-42),
\* and only handlers and unmounts are ever left with a dropped one.
THEOREM TypeCorrect == Spec => []TypeOK
  BY Always, PTL DEF Inv

\* newlib's entry leads to an open file system (AddDevice comes last in
\* nxFatdriveMount), for any number of mounts that fail, overlap or replace it and
\* of unmounts next to them, until an unmount drops it under the entry.
THEOREM EntryStaysOpen == Spec => []EntryIsOpened
  BY Always, PTL DEF Inv

\* The file system that mkdir, rmdir and rename borrow from get_global, and the
\* context an unmount found, are dropped by nobody but an unmount.
THEOREM HeldStaysOpen == Spec => []HeldIsOpened
  BY Always, PTL DEF Inv

\* What a step that loses a context is.
LosingStep(t, c) ==
    \/ pc[t] = "add" /\ pc'[t] = "idle" /\ c \in {ctx[t], usbfs}
    \/ /\ pc[t] = "remove" /\ pc'[t] = "drop"
       /\ c = usbfs /\ (ctx[t] # c \/ t \in dangling)

LEMMA StepLosesOnlyThere ==
    ASSUME Inv, NEW t \in Thread, Defined(t) \/ Undefined(t),
           NEW c \in Context, ~Lost(c), Lost(c)'
    PROVE  LosingStep(t, c)
<1> USE NullAssumption DEF Inv, Lost, contexts, table
<1>1. CASE init_usb_hs_ctx(t)
  BY <1>1 DEF init_usb_hs_ctx, Call, Goto, TypeOK
<1>2. CASE wait_for_usb_drive(t) \/ open_partition(t)
  BY <1>2 DEF wait_for_usb_drive, open_partition, Goto, TypeOK
<1>3. CASE MountFails(t)
  BY <1>3 DEF MountFails, Dropped, Return, Goto, TypeOK
<1>4. CASE AddDevice(t)
  BY <1>4 DEF AddDevice, Return, Goto, TypeOK, LosingStep
<1>5. CASE Handler(t)
  BY <1>5 DEF Handler, get_global, Found, Call, Goto, TypeOK
<1>6. CASE HandlerReturns(t)
  BY <1>6 DEF HandlerReturns, Return, Goto, TypeOK
<1>7. CASE nxFatdriveUnmount(t)
  BY <1>7 DEF nxFatdriveUnmount, Found, Call, Goto, TypeOK
<1>8. CASE RemoveDevice(t)
  BY <1>8 DEF RemoveDevice, Goto, TypeOK, LosingStep
<1>9. CASE DropBoxes(t)
  BY <1>9 DEF DropBoxes, Dropped, Goto, TypeOK, EntryIsOpened
<1>10. CASE Undefined(t)
  BY <1>10 DEF Undefined
<1> QED
  BY <1>1, <1>2, <1>3, <1>4, <1>5, <1>6, <1>7, <1>8, <1>9, <1>10 DEF Defined

\* Whatever mounts, handlers and unmounts overlap, and wherever they fail, a context
\* is lost for good only where newlib's table loses it.
THEOREM LossIsNewlibs == Spec => LostOnlyInTable
<1>1. ASSUME Inv, [Next]_vars
      PROVE  [\A c \in Context : ~Lost(c) /\ Lost(c)' =>
                 \E t \in Thread :
                    \/ pc[t] = "add" /\ pc'[t] = "idle" /\ c \in {ctx[t], usbfs}
                    \/ /\ pc[t] = "remove" /\ pc'[t] = "drop"
                       /\ c = usbfs /\ (ctx[t] # c \/ t \in dangling)]_vars
  BY <1>1, StepLosesOnlyThere DEF Next, LosingStep
<1> QED  BY <1>1, Always, PTL DEF Spec, LostOnlyInTable
===============================================================================
