------------------------------- MODULE DirScan --------------------------------
(***************************************************************************)
(* Reading a directory through the C API (usbFsOpenDir, usbFsReadDir,      *)
(* usbFsCloseDir) while its entries come and go.  The store keeps, for     *)
(* each open directory, only the number of the entry to hand out next: a   *)
(* read walks the directory from its beginning and skips that many.        *)
(*                                                                         *)
(* One directory of the FAT driver, which is external: its entries in the  *)
(* order in which a walk finds them, and a walk that may fail at any of    *)
(* them and ends there.  Each call holds the store's lock throughout.      *)
(*                                                                         *)
(* A definition with a suffix (Advance_never) is the one of that name      *)
(* as a plausible mistake would leave it; nothing refers to it.            *)
(***************************************************************************)
EXTENDS Integers, Sequences, SequencesExt, FiniteSets

CONSTANTS Caller,      \* threads that read the directory
          Path,        \* spellings of its path: each gets an id of its own
          Name,        \* names its entries may have
          None,        \* what a map holds for an absent key, no id
          MaxId,       \* bound: directories opened, less one
          MaxChanges,  \* bound: entries created or removed in all
          MaxFaults    \* bound: walks that fail in all

Id == 0 .. MaxId

ASSUME BoundAssumption == MaxId \in Nat /\ MaxChanges \in Nat /\ MaxFaults \in Nat
ASSUME NoneAssumption == None \notin Path \cup Name \cup Nat
ASSUME NameAssumption == IsFiniteSet(Name) /\ Name \cap {"end", "err"} = {}

VARIABLES entries,                     \* the directory, in the order of a walk
          next_id, dir_name_map, dir_iter_map,
          reads,                       \* the id each caller reads from
          answer,                      \* what its last read said
          changes, faults,             \* what has happened to the directory so far
          past                         \* history of each id: see Fresh

store == <<next_id, dir_name_map, dir_iter_map>>
vars == <<entries, store, reads, answer, changes, faults, past>>

\* The history of a scan: how often each name was handed out; the names there at
\* its start and never removed since; how many entries were created; how many were
\* removed or read with an error; whether a fault was passed off as the end.
Fresh(names) == [seen |-> [n \in Name |-> 0], stayed |-> names,
                 came |-> 0, lost |-> 0, hushed |-> FALSE]

\* Bounds: an index past every entry is as good as any other, and so is a name
\* that was handed out more often than entries can have been created.
PastAll == Cardinality(Name) + 1
MaxSeen == MaxChanges + 2
Capped(n, bound) == IF n > bound THEN bound ELSE n

Open == {id \in Id : dir_name_map[id] # None}

\* Names are interchangeable: one order of them stands for all.
Init == /\ \E n \in 0 .. Cardinality(Name) : entries = SubSeq(SetToSeq(Name), 1, n)
        /\ next_id = 0
        /\ dir_name_map = [id \in Id |-> None]
        /\ dir_iter_map = [id \in Id |-> None]
        /\ reads = [c \in Caller |-> None]
        /\ answer = [c \in Caller |-> "more"]
        /\ changes = 0 /\ faults = 0
        /\ past = [id \in Id |-> Fresh({})]

-------------------------------------------------------------------------------
(* The calls *)

insert_dir_noIndex(path) ==
    /\ next_id \in Id
    /\ next_id' = next_id + 1
    /\ dir_name_map' = [dir_name_map EXCEPT ![next_id] = path]
    /\ UNCHANGED dir_iter_map

insert_dir(path) ==
    /\ next_id \in Id
    /\ next_id' = next_id + 1
    /\ dir_name_map' = [dir_name_map EXCEPT ![next_id] = path]
    /\ dir_iter_map' = [dir_iter_map EXCEPT ![next_id] = 0]

share_rewinds(c, id) == /\ reads' = [reads EXCEPT ![c] = id]
                        /\ dir_iter_map' = [dir_iter_map EXCEPT ![id] = 0]
                        /\ UNCHANGED <<next_id, dir_name_map, past>>

\* A directory that is open by that spelling is shared, its index with it.
share(c, id) == /\ reads' = [reads EXCEPT ![c] = id]
                /\ UNCHANGED <<store, past>>

OpenDir(c, path) ==
    /\ reads[c] = None
    /\ \/ \E id \in Open : dir_name_map[id] = path /\ share(c, id)
       \/ /\ \A id \in Open : dir_name_map[id] # path
          /\ insert_dir(path)
          /\ reads' = [reads EXCEPT ![c] = next_id]
          /\ past' = [past EXCEPT ![next_id] = Fresh(ToSet(entries))]
    /\ answer' = [answer EXCEPT ![c] = "more"]
    /\ UNCHANGED <<entries, changes, faults>>

\* iter().skip(idx).next(), when the walk breaks at entry "broken".  An iterator
\* that has failed is at its end: a failure among the skipped entries is lost.
Item_errorIsEnd(idx, broken) ==
    IF idx < Len(entries) /\ idx + 1 < broken THEN entries[idx + 1] ELSE "end"

Item(idx, broken) ==
    CASE broken = idx + 1 -> "err"
      [] broken > idx + 1 /\ idx < Len(entries) -> entries[idx + 1]
      [] OTHER -> "end"

\* The index moves on before the entry is looked up, whatever comes of it.
Advance_never(id) == UNCHANGED dir_iter_map
Advance(id) == dir_iter_map' = [dir_iter_map EXCEPT ![id] = Capped(@ + 1, PastAll)]

Answers(c, a) == answer' = [answer EXCEPT ![c] = a]

\* What a read adds to the history of its scan.
AddRead(scan, item, hushes) ==
    LET again == Capped(scan.seen[item] + 1, MaxSeen)
    IN  [scan EXCEPT !.seen = IF item \in Name THEN [@ EXCEPT ![item] = again] ELSE @,
                     !.lost = IF item = "err" THEN @ + 1 ELSE @,
                     !.hushed = @ \/ hushes]

\* The walk of a read sees every entry up to the one it wants, or breaks.
read_next_dirent(c, id, broken) ==
    LET idx == dir_iter_map[id]
        item == Item(idx, broken)
    IN  /\ Advance(id)
        /\ Answers(c, IF item \in Name THEN "more" ELSE item)
        /\ past' = [past EXCEPT ![id] = AddRead(@, item, broken <= idx)]

Unbroken == PastAll + 2

ReadDir(c) ==
    /\ reads[c] # None
    /\ \/ /\ reads[c] \notin Open
          /\ Answers(c, "err")
          /\ UNCHANGED <<dir_iter_map, faults, past>>
       \/ /\ reads[c] \in Open
          /\ \/ read_next_dirent(c, reads[c], Unbroken) /\ UNCHANGED faults
             \/ /\ faults < MaxFaults /\ faults' = faults + 1
                /\ \E broken \in 1 .. Len(entries) + 1 :
                      /\ broken <= dir_iter_map[reads[c]] + 1
                      /\ read_next_dirent(c, reads[c], broken)
    /\ UNCHANGED <<entries, next_id, dir_name_map, reads, changes>>

close_dir(id) == /\ dir_name_map' = [dir_name_map EXCEPT ![id] = None]
                 /\ dir_iter_map' = [dir_iter_map EXCEPT ![id] = None]
                 /\ past' = [past EXCEPT ![id] = Fresh({})]

\* Closes the id for all who share it; the second close finds nothing.
CloseDir(c) ==
    /\ reads[c] # None
    /\ IF reads[c] \in Open THEN close_dir(reads[c])
       ELSE UNCHANGED <<dir_name_map, dir_iter_map, past>>
    /\ reads' = [reads EXCEPT ![c] = None]
    /\ Answers(c, "more")
    /\ UNCHANGED <<entries, next_id, changes, faults>>

\* usbFsDeleteDir closes the directory first; the driver then refuses to remove
\* one that has entries.
DeleteDir(path) ==
    /\ entries # <<>>
    /\ \E id \in Open : dir_name_map[id] = path /\ close_dir(id)
    /\ UNCHANGED <<entries, next_id, reads, answer, changes, faults>>

-------------------------------------------------------------------------------
(* usbFsCreateFile, usbFsCreateDir, usbFsDeleteFile: a new entry takes any     *)
(* free place in the directory, and the place of a removed one is skipped.     *)

Change == changes < MaxChanges /\ changes' = changes + 1
          /\ UNCHANGED <<store, reads, answer, faults>>

CreateEntry(n) ==
    /\ Change /\ n \notin ToSet(entries)
    /\ \E place \in 1 .. Len(entries) + 1 : entries' = InsertAt(entries, place, n)
    /\ past' = [id \in Id |-> [past[id] EXCEPT !.came = IF id \in Open THEN @ + 1 ELSE @]]

RemoveEntry(n) ==
    /\ Change
    /\ \E place \in 1 .. Len(entries) :
          entries[place] = n /\ entries' = RemoveAt(entries, place)
    /\ past' = [id \in Id |-> [past[id] EXCEPT !.lost = IF id \in Open THEN @ + 1 ELSE @,
                                               !.stayed = @ \ {n}]]

Next == \/ \E c \in Caller : \/ ReadDir(c) \/ CloseDir(c)
                             \/ \E path \in Path : OpenDir(c, path)
        \/ \E path \in Path : DeleteDir(path)
        \/ \E n \in Name : CreateEntry(n) \/ RemoveEntry(n)

Spec == Init /\ [][Next]_vars

\* A caller that lists the directory reads until it is told to stop.
FairSpec == Spec /\ \A c \in Caller : WF_vars(answer[c] = "more" /\ ReadDir(c))
-------------------------------------------------------------------------------
(* Properties *)

\* The types of the maps and of the history; an id has an index while it has a
\* name, and is given out in order.
TypeOK == /\ entries \in SeqOf(Name, Cardinality(Name)) /\ IsInjective(entries)
          /\ next_id \in 0 .. MaxId + 1
          /\ dir_name_map \in [Id -> Path \cup {None}]
          /\ dir_iter_map \in [Id -> (0 .. PastAll) \cup {None}]
          /\ \A id \in Id : /\ id \in Open <=> dir_iter_map[id] # None
                            /\ id \in Open => id < next_id
          /\ reads \in [Caller -> (0 .. next_id - 1) \cup {None}]
          /\ answer \in [Caller -> {"more", "end", "err"}]
          /\ changes \in 0 .. MaxChanges /\ faults \in 0 .. MaxFaults

\* The times, but for the first, that a scan has handed out each name.
Repeats(id) == {r \in Name \X (1 .. MaxSeen) : r[2] < past[id].seen[r[1]]}

\* However reads of callers that share an id, creations and removals are mixed, a
\* scan hands out a name again at most once for each entry created meanwhile.
RepeatsNeedCreate == \A id \in Id : Cardinality(Repeats(id)) <= past[id].came

\* When a caller is told it has reached the end, those who share its id have
\* together been handed every entry that was there all the time, but for one for
\* each entry removed and each read that failed meanwhile; unless a fault among
\* the skipped entries was passed off as the end.
EndMeansAllRead ==
    \A c \in Caller : answer[c] = "end" /\ reads[c] \in Open /\ ~past[reads[c]].hushed =>
        LET scan == past[reads[c]]
        IN  Cardinality({n \in scan.stayed : scan.seen[n] = 0}) <= scan.lost

\* A caller that goes on reading is told to stop, whatever is created meanwhile:
\* the directory has fewer places than the index has values.
ScanEnds == \A c \in Caller : reads[c] # None ~> (reads[c] = None \/ answer[c] \in {"end", "err"})
===============================================================================
