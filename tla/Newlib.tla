-------------------------------- MODULE Newlib --------------------------------
(***************************************************************************)
(* nxFatdriveMount, nxFatdriveUnmount and the handlers that newlib calls   *)
(* with a path (iosupport.rs): the boxed NewlibContext of each mount, the  *)
(* state of its drive, and the one entry "usbfs" of newlib's device table  *)
(* through which the handlers find it.  Nothing here takes a lock.         *)
(*                                                                         *)
(* The devoptab and the context behind it are boxed and dropped together,  *)
(* so one address stands for both; addresses are used again.  Every call   *)
(* to the driver may fail, which also covers a drive that is unplugged.    *)
(*                                                                         *)
(* nxFatdriveUnmount drops them whatever the others hold.  A thread then   *)
(* left with a dropped context is `dangling', an entry that leads to one   *)
(* is `stale': either goes on as before, or fails in a way the source does *)
(* not define, where a run ends.                                           *)
(*                                                                         *)
(* A definition with a suffix (Dropped_leaks) is the one of that name as a   *)
(* plausible mistake would leave it; nothing refers to it.                 *)
(***************************************************************************)
EXTENDS Integers

CONSTANTS Thread,    \* threads that mount, unmount and use paths
          Drive,     \* USB drives
          Context,   \* addresses a NewlibContext is boxed at
          Null,      \* no context, no drive
          MaxCalls   \* bound: calls the threads make in all

ASSUME NullAssumption == Null \notin Thread \cup Drive \cup Context
ASSUME CallsAssumption == MaxCalls \in Nat

VARIABLES live,          \* contexts boxed and not dropped
          client_state,  \* where the mount of each stands
          iface,         \* the drive whose interface each has acquired
          usbfs,         \* the context of newlib's entry "usbfs", or Null
          stale,         \* an unmount has dropped what the entry leads to
          dangling,      \* threads an unmount has dropped the context of
          undefined,     \* memory that was given back, or Null, has been used
          pc, ctx,       \* the step each thread is to take, and on which context
          ncalls

contexts == <<live, client_state, iface>>
table == <<usbfs, stale>>
vars == <<contexts, table, dangling, undefined, pc, ctx, ncalls>>

Init == /\ live = {}
        /\ client_state = [c \in Context |-> "Uninitialized"]
        /\ iface = [c \in Context |-> Null]
        /\ usbfs = Null
        /\ stale = FALSE
        /\ dangling = {}
        /\ undefined = FALSE
        /\ pc = [t \in Thread |-> "idle"]
        /\ ctx = [t \in Thread |-> Null]
        /\ ncalls = 0

Goto(t, step) == pc' = [pc EXCEPT ![t] = step]
Return(t) == /\ Goto(t, "idle")
             /\ ctx' = [ctx EXCEPT ![t] = Null]
             /\ dangling' = dangling \ {t}

Call(t) == /\ pc[t] = "idle"
           /\ ncalls < MaxCalls
           /\ ncalls' = ncalls + 1

Dropped_leaks(c) ==
    /\ client_state' = [client_state EXCEPT ![c] = "Uninitialized"]
    /\ UNCHANGED <<live, iface>>
\* The session goes with the client, and gives the drive back.
Dropped(c) == /\ live' = live \ {c}
              /\ client_state' = [client_state EXCEPT ![c] = "Uninitialized"]
              /\ iface' = [iface EXCEPT ![c] = Null]

-------------------------------------------------------------------------------
(* nxFatdriveMount *)

\* A first step that fails leaves as little as a call that never was.
init_usb_hs_ctx_registers(t) ==
    /\ Call(t)
    /\ \E c \in Context \ live : /\ live' = live \cup {c}
                                 /\ ctx' = [ctx EXCEPT ![t] = c]
                                 /\ usbfs' = c
    /\ Goto(t, "acquire")
    /\ UNCHANGED <<client_state, iface, stale, dangling>>
init_usb_hs_ctx(t) ==
    /\ Call(t)
    /\ \/ /\ \E c \in Context \ live : /\ live' = live \cup {c}
                                       /\ ctx' = [ctx EXCEPT ![t] = c]
          /\ Goto(t, "acquire")
       \/ UNCHANGED <<live, pc, ctx>>
    /\ UNCHANGED <<client_state, iface, table, dangling>>

\* query_available_interfaces leaves out the interfaces that are acquired.
Available == Drive \ {iface[c] : c \in live}

wait_for_usb_drive(t) ==
    /\ pc[t] = "acquire"
    /\ \E d \in Available : iface' = [iface EXCEPT ![ctx[t]] = d]
    /\ client_state' = [client_state EXCEPT ![ctx[t]] = "Acquired"]
    /\ Goto(t, "open")
    /\ UNCHANGED <<live, table, dangling, ctx, ncalls>>

\* The client moves out of client_state and, if all goes well, back into it.
open_partition(t) ==
    /\ pc[t] = "open" /\ client_state[ctx[t]] = "Acquired"
    /\ client_state' = [client_state EXCEPT ![ctx[t]] = "Opened"]
    /\ Goto(t, "add")
    /\ UNCHANGED <<live, iface, table, dangling, ctx, ncalls>>

\* err_wrap! returns, and the box goes out of scope.
MountFails(t) == /\ pc[t] \in {"acquire", "open"}
                 /\ Dropped(ctx[t])
                 /\ Return(t)
                 /\ UNCHANGED <<table, ncalls>>

\* newlib takes the device, in the place of one of that name, or has no room; the
\* box is a raw pointer by then, and nobody drops it.
AddDevice_dropsOld(t) ==
    /\ pc[t] = "add"
    /\ usbfs' = ctx[t]
    /\ Dropped(usbfs)
    /\ Return(t)
    /\ UNCHANGED <<stale, ncalls>>
AddDevice(t) == /\ pc[t] = "add"
                /\ \/ usbfs' = ctx[t] /\ stale' = FALSE
                   \/ UNCHANGED table
                /\ Return(t)
                /\ UNCHANGED <<contexts, ncalls>>

-------------------------------------------------------------------------------
(* GetDeviceOpTab: mkdir, rmdir and rename hold the context they find from       *)
(* get_global on, the handlers between them in the source refuse;                *)
(* nxFatdriveUnmount holds what it finds without a check.                        *)

Found(t, step) == /\ ctx' = [ctx EXCEPT ![t] = usbfs]
                  /\ dangling' = dangling \cup {u \in {t} : stale}
                  /\ Goto(t, step)

get_global_unchecked(t) == Found(t, "use")
get_global(t) == \/ usbfs # Null /\ Found(t, "use")
                 \/ usbfs = Null /\ UNCHANGED <<ctx, pc, dangling>>

Handler(t) == /\ Call(t)
              /\ get_global(t)
              /\ UNCHANGED <<contexts, table>>

HandlerReturns(t) == /\ pc[t] = "use"
                     /\ Return(t)
                     /\ UNCHANGED <<contexts, table, ncalls>>

-------------------------------------------------------------------------------
(* nxFatdriveUnmount *)

nxFatdriveUnmount(t) == /\ Call(t)
                        /\ usbfs # Null /\ Found(t, "remove")
                        /\ UNCHANGED <<contexts, table>>

\* By name, so whatever the entry leads to by then; newlib may refuse.
RemoveDevice(t) == /\ pc[t] = "remove"
                   /\ \/ usbfs' = Null /\ stale' = FALSE
                      \/ UNCHANGED table
                   /\ Goto(t, "drop")
                   /\ UNCHANGED <<contexts, dangling, ctx, ncalls>>

\* The boxes are dropped on both returns.
DropBoxes(t) ==
    /\ pc[t] = "drop" /\ t \notin dangling
    /\ Dropped(ctx[t])
    /\ stale' = (stale \/ usbfs = ctx[t])
    /\ dangling' = dangling \cup {u \in Thread \ {t} : ctx[u] = ctx[t]}
    /\ Goto(t, "idle")
    /\ ctx' = [ctx EXCEPT ![t] = Null]
    /\ UNCHANGED <<usbfs, ncalls>>

-------------------------------------------------------------------------------
\* newlib compares the names of all devices.
LooksUp(t) == pc[t] \in {"idle", "remove", "add"}

Undefined(t) == /\ \/ LooksUp(t) /\ stale
                   \/ t \in dangling
                   \/ pc[t] = "idle" /\ usbfs = Null  \* nxFatdriveUnmount
                /\ undefined' = TRUE
                /\ UNCHANGED <<contexts, table, dangling, pc, ctx, ncalls>>

Defined(t) == /\ \/ init_usb_hs_ctx(t)
                 \/ wait_for_usb_drive(t)
                 \/ open_partition(t)
                 \/ MountFails(t)
                 \/ AddDevice(t)
                 \/ Handler(t)
                 \/ HandlerReturns(t)
                 \/ nxFatdriveUnmount(t)
                 \/ RemoveDevice(t)
                 \/ DropBoxes(t)
              /\ UNCHANGED undefined

Next == /\ ~undefined
        /\ \E t \in Thread : Defined(t) \/ Undefined(t)

Spec == Init /\ [][Next]_vars

-------------------------------------------------------------------------------
TypeOK == /\ live \subseteq Context
          /\ client_state \in [Context -> {"Uninitialized", "Acquired", "Opened"}]
          /\ iface \in [Context -> Drive \cup {Null}]
          /\ usbfs \in Context \cup {Null}
          /\ stale \in BOOLEAN /\ undefined \in BOOLEAN
          /\ dangling \subseteq {t \in Thread : pc[t] \in {"use", "remove", "drop"}}
          /\ pc \in [Thread -> {"idle", "acquire", "open", "add", "use", "remove", "drop"}]
          /\ ctx \in [Thread -> Context \cup {Null}]
          /\ \A t \in Thread : pc[t] = "idle" <=> ctx[t] = Null
          /\ ncalls \in 0 .. MaxCalls

Mounting(t) == pc[t] \in {"acquire", "open", "add"}
Holding(t) == pc[t] \in {"use", "remove", "drop"}

\* AddDevice is the last step of a mount (iosupport.rs:736), so what newlib's entry
\* leads to is a context that has a file system, however mounts fail or overlap:
\* only an unmount that newlib refused the removal drops it under the entry.
EntryIsOpened ==
    usbfs # Null /\ ~stale =>
        usbfs \in live /\ client_state[usbfs] = "Opened" /\ iface[usbfs] \in Drive

\* The file system a handler borrows (iosupport.rs:629), and the context an unmount
\* is about to drop, are there until another unmount drops them: no mount that
\* fails, or takes the entry over, or is given the address next, harms them.
HeldIsOpened ==
    \A t \in Thread : Holding(t) /\ t \notin dangling =>
        ctx[t] \in live /\ client_state[ctx[t]] = "Opened"

\* get_global hands out a "&'static mut NewlibContext" (iosupport.rs:56): a handler
\* that works on one never finds it dropped.
GlobalIsStatic == \A t \in Thread : pc[t] = "use" => t \notin dangling

\* No mount and no unmount will ever reach this context again; its drive is taken.
Lost(c) == /\ c \in live
           /\ c # usbfs \/ stale
           /\ \A t \in Thread : ctx[t] = c => pc[t] = "use" \/ t \in dangling

\* A context gets lost only in newlib's table: refused there or replaced by another
\* mount's (iosupport.rs:736), or removed, being of the same name, by an unmount
\* that had found another one and drops that (iosupport.rs:746).  Every other
\* failure drops it and gives the drive back.
LostOnlyInTable ==
    [][\A c \in Context : ~Lost(c) /\ Lost(c)' =>
          \E t \in Thread :
             \/ pc[t] = "add" /\ pc'[t] = "idle" /\ c \in {ctx[t], usbfs}
             \/ /\ pc[t] = "remove" /\ pc'[t] = "drop"
                /\ c = usbfs /\ (ctx[t] # c \/ t \in dangling)]_vars
===============================================================================
