------------------------------- MODULE IdStore --------------------------------
(***************************************************************************)
(* The table of open files and directories behind the C API (idstore.rs)   *)
(* and the calls of usbfs.rs that change it.  Each call holds the store's  *)
(* lock from beginning to end, so each is one action.                      *)
(*                                                                         *)
(* The FAT driver is external: tree says what its directory entries are,   *)
(* and any operation on them may fail.  Two paths may denote one entry,    *)
(* as paths that differ in case or in slashes do on FAT.                   *)
(*                                                                         *)
(* A definition with a suffix (TakeId_noWrap) is the one of that name as a *)
(* plausible mistake would leave it; nothing refers to it.                 *)
(***************************************************************************)
EXTENDS Integers

CONSTANTS Path,         \* the strings a caller may pass
          Entry,        \* the directory entries they can lead to
          Root,         \* the root directory
          Denotes,      \* the entry each path leads to
          MaxId,        \* u64::max_value(): the id after it is 0
          MaxIter,      \* bound: entries read from one directory handle
          None,         \* what a map holds for an absent key
          Careful       \* entries that callers delete as what they are, by one path

Id == 0 .. MaxId
Kind == {"absent", "file", "dir"}

ASSUME IdAssumption == MaxId \in Nat /\ MaxIter \in Nat
ASSUME PathAssumption == /\ Root \in Entry
                         /\ Denotes \in [Path -> Entry]
ASSUME NoneAssumption == None \notin Path \cup Entry \cup Nat
ASSUME CarefulAssumption == \A a, b \in Path :
          Denotes[a] = Denotes[b] /\ Denotes[a] \in Careful => a = b

VARIABLES next_id, dir_handle_map, dir_name_map, dir_iter_map,
          file_handle_map, file_name_map,  \* the fields of IdStore
          tree,                            \* the drive's entries
          ret,                             \* what the last call returned
          issued                           \* history: ids given out by this store

files == <<file_handle_map, file_name_map>>
dirs  == <<dir_handle_map, dir_name_map, dir_iter_map>>
vars  == <<next_id, files, dirs, tree, ret, issued>>

has_file_open(path) == {id \in Id : file_name_map[id] = path /\ file_handle_map[id] # None}
has_file_dirs(path) == {id \in Id : dir_name_map[id] = path}
has_file(path) == {id \in Id : file_name_map[id] = path}
has_dir(path)  == {id \in Id : dir_name_map[id] = path}

\* The name that usbFsStatFile looks up for an id of either kind.
get_path_for_id_dirFirst(id) == IF dir_name_map[id] # None THEN dir_name_map[id] ELSE file_name_map[id]
get_path_for_id(id) == IF file_name_map[id] # None THEN file_name_map[id] ELSE dir_name_map[id]

EmptyMap == [id \in Id |-> None]

Init == /\ next_id = 0 /\ issued = {}
        /\ file_handle_map = EmptyMap /\ file_name_map = EmptyMap
        /\ dir_handle_map = EmptyMap /\ dir_name_map = EmptyMap /\ dir_iter_map = EmptyMap
        /\ tree \in [Entry -> Kind] /\ tree[Root] = "dir"
        /\ ret = "ok"

-------------------------------------------------------------------------------
(* Operations of the store *)

TakeId_noWrap   == next_id' = next_id + 1 /\ issued' = issued \cup {next_id}
TakeId_stays    == next_id' = next_id /\ issued' = issued \cup {next_id}
TakeId_wrapsOneEarly ==
    /\ next_id' = IF next_id >= MaxId - 1 THEN 0 ELSE next_id + 1
    /\ issued' = issued \cup {next_id}

\* Takes the next id, whether or not it is in use.
TakeId == /\ next_id' = IF next_id = MaxId THEN 0 ELSE next_id + 1
          /\ issued' = issued \cup {next_id}

insert_file(path) ==
    /\ TakeId
    /\ file_handle_map' = [file_handle_map EXCEPT ![next_id] = Denotes[path]]
    /\ file_name_map'   = [file_name_map   EXCEPT ![next_id] = path]

insert_dir(path) ==
    /\ TakeId
    /\ dir_handle_map' = [dir_handle_map EXCEPT ![next_id] = Denotes[path]]
    /\ dir_name_map'   = [dir_name_map   EXCEPT ![next_id] = path]
    /\ dir_iter_map'   = [dir_iter_map   EXCEPT ![next_id] = 0]

close_file_keepsName(id, ok) ==
    IF file_handle_map[id] = None THEN ~ok /\ UNCHANGED files
    ELSE file_handle_map' = [file_handle_map EXCEPT ![id] = None] /\ UNCHANGED file_name_map

\* The handle goes first; a flush that fails returns before the name goes.
close_file(id, ok) ==
    \/ /\ file_handle_map[id] = None /\ ~ok
       /\ UNCHANGED files
    \/ /\ file_handle_map[id] # None
       /\ file_handle_map' = [file_handle_map EXCEPT ![id] = None]
       /\ file_name_map' = IF ok THEN [file_name_map EXCEPT ![id] = None] ELSE file_name_map

close_dir_keepsIndex(id, ok) ==
    IF dir_handle_map[id] = None
    THEN ~ok /\ UNCHANGED dirs
    ELSE /\ ok
         /\ dir_handle_map' = [dir_handle_map EXCEPT ![id] = None]
         /\ dir_name_map'   = [dir_name_map   EXCEPT ![id] = None]
         /\ UNCHANGED dir_iter_map

close_dir(id, ok) ==
    IF dir_handle_map[id] = None
    THEN ~ok /\ UNCHANGED dirs
    ELSE /\ ok
         /\ dir_handle_map' = [dir_handle_map EXCEPT ![id] = None]
         /\ dir_name_map'   = [dir_name_map   EXCEPT ![id] = None]
         /\ dir_iter_map'   = [dir_iter_map   EXCEPT ![id] = None]

-------------------------------------------------------------------------------
(* Operations of the FAT driver, each of which may fail *)

remove(path) ==
    \/ /\ Denotes[path] # Root /\ tree[Denotes[path]] # "absent"
       /\ tree' = [tree EXCEPT ![Denotes[path]] = "absent"]
       /\ ret' = "ok"
    \/ ret' = "err" /\ UNCHANGED tree

\* An entry of the wanted kind is opened as it is.
create(path, kind) ==
    \/ /\ tree[Denotes[path]] \in {"absent", kind}
       /\ tree' = [tree EXCEPT ![Denotes[path]] = kind]
       /\ ret' = "ok"
    \/ ret' = "err" /\ UNCHANGED tree

-------------------------------------------------------------------------------
(* The C API.  An open hands the caller the id that has the path's name. *)

open_file(path) ==
    \/ /\ has_file(path) # {}
       /\ ret' = "ok"
       /\ UNCHANGED <<next_id, issued, files>>
    \/ /\ has_file(path) = {} /\ tree[Denotes[path]] = "file"
       /\ insert_file(path)
       /\ ret' = "ok"
    \/ /\ has_file(path) = {}
       /\ ret' = "err"
       /\ UNCHANGED <<next_id, issued, files>>

OpenFile(path) == open_file(path) /\ UNCHANGED <<dirs, tree>>

\* The root needs no lookup, and so cannot fail.
open_dir(path) ==
    \/ /\ has_dir(path) # {}
       /\ ret' = "ok"
       /\ UNCHANGED <<next_id, issued, dirs>>
    \/ /\ has_dir(path) = {} /\ tree[Denotes[path]] = "dir"
       /\ insert_dir(path)
       /\ ret' = "ok"
    \/ /\ has_dir(path) = {} /\ Denotes[path] # Root
       /\ ret' = "err"
       /\ UNCHANGED <<next_id, issued, dirs>>

OpenDir(path) == open_dir(path) /\ UNCHANGED <<files, tree>>

CloseFile(id) ==
    /\ \E ok \in BOOLEAN : close_file(id, ok) /\ ret' = IF ok THEN "ok" ELSE "err"
    /\ UNCHANGED <<next_id, issued, dirs, tree>>

CloseDir(id) ==
    /\ \E ok \in BOOLEAN : close_dir(id, ok) /\ ret' = IF ok THEN "ok" ELSE "err"
    /\ UNCHANGED <<next_id, issued, files, tree>>

\* The index moves on whatever comes of the entry.
read_next_dirent(id) ==
    \/ /\ None \in {dir_handle_map[id], dir_iter_map[id]}
       /\ ret' = "err" /\ UNCHANGED dirs
    \/ /\ dir_handle_map[id] # None /\ dir_iter_map[id] \in 0 .. MaxIter - 1
       /\ dir_iter_map' = [dir_iter_map EXCEPT ![id] = @ + 1]
       /\ ret' \in {"ok", "err"} /\ UNCHANGED <<dir_handle_map, dir_name_map>>

ReadDir(id) == read_next_dirent(id) /\ UNCHANGED <<next_id, issued, files, tree>>

DeleteFile_leavesOpen(path) ==
    /\ Denotes[path] \in Careful => tree[Denotes[path]] # "dir"
    /\ remove(path)
    /\ UNCHANGED <<next_id, issued, files, dirs>>

\* A handle by that name is closed first; if that fails nothing is deleted.
DeleteFile(path) ==
    /\ Denotes[path] \in Careful => tree[Denotes[path]] # "dir"
    /\ \/ /\ has_file(path) = {}
          /\ remove(path) /\ UNCHANGED files
       \/ \E id \in has_file(path) :
             \/ close_file(id, TRUE) /\ remove(path)
             \/ close_file(id, FALSE) /\ ret' = "err" /\ UNCHANGED tree
    /\ UNCHANGED <<next_id, issued, dirs>>

DeleteDir(path) ==
    /\ Denotes[path] \in Careful => tree[Denotes[path]] # "file"
    /\ \/ /\ has_dir(path) = {}
          /\ remove(path) /\ UNCHANGED dirs
       \/ \E id \in has_dir(path) :
             \/ close_dir(id, TRUE) /\ remove(path)
             \/ close_dir(id, FALSE) /\ ret' = "err" /\ UNCHANGED tree
    /\ UNCHANGED <<next_id, issued, files>>

\* An open handle counts as proof that the file exists.
CreateFile(path) ==
    /\ IF has_file(path) # {} THEN ret' = "ok" /\ UNCHANGED tree
                              ELSE create(path, "file")
    /\ UNCHANGED <<next_id, issued, files, dirs>>

CreateDir(path) ==
    /\ IF has_dir(path) # {} THEN ret' = "ok" /\ UNCHANGED tree
                             ELSE create(path, "dir")
    /\ UNCHANGED <<next_id, issued, files, dirs>>

\* A walk of the directory that the path's entry is in, which may fail, and which finds
\* a name only as it is spelled there.  The root is in no directory.
stat_path(path) ==
    \/ /\ Denotes[path] # Root /\ tree[Denotes[path]] # "absent"
       /\ ret' = "ok"
    \/ ret' = "err"

StatPath(path) == stat_path(path) /\ UNCHANGED <<next_id, issued, files, dirs, tree>>

StatFile(id) ==
    /\ \/ get_path_for_id(id) = None /\ ret' = "err"
       \/ get_path_for_id(id) # None /\ stat_path(get_path_for_id(id))
    /\ UNCHANGED <<next_id, issued, files, dirs, tree>>

\* usbFsExit and usbFsInitialize: the ids start again at 0.
Restart == /\ next_id' = 0 /\ issued' = {}
           /\ file_handle_map' = EmptyMap /\ file_name_map' = EmptyMap
           /\ dir_handle_map' = EmptyMap /\ dir_name_map' = EmptyMap
           /\ dir_iter_map' = EmptyMap
           /\ ret' = "ok" /\ UNCHANGED tree

Next == \/ \E path \in Path : \/ OpenFile(path) \/ DeleteFile(path) \/ CreateFile(path)
                              \/ OpenDir(path)  \/ DeleteDir(path)  \/ CreateDir(path)
                              \/ StatPath(path)
        \/ \E id \in Id : CloseFile(id) \/ CloseDir(id) \/ ReadDir(id) \/ StatFile(id)
        \/ Restart

Spec == Init /\ [][Next]_vars
-------------------------------------------------------------------------------
(* Properties *)

\* The types of the maps and of the history.
TypeOK == /\ next_id \in Id
          /\ dir_handle_map \in [Id -> Entry \cup {None}]
          /\ dir_name_map \in [Id -> Path \cup {None}]
          /\ dir_iter_map \in [Id -> (0 .. MaxIter) \cup {None}]
          /\ file_handle_map \in [Id -> Entry \cup {None}]
          /\ file_name_map \in [Id -> Path \cup {None}]
          /\ tree \in [Entry -> Kind]
          /\ ret \in {"ok", "err"}
          /\ issued \subseteq Id

\* Every id has been given out once: from here on next_id is an id in the past,
\* and perhaps in use.
Wrapped == issued = Id

\* A name whose handle a failed flush took away (close_file).
Stale(id) == file_handle_map[id] = None /\ file_name_map[id] # None

\* No two ids have the same name, so has_file and has_dir find the same id
\* whatever the order in which the HashMap yields its keys, wrapped or not.
OneIdPerName ==
    \A i, j \in Id : i # j =>
        /\ file_name_map[i] = None \/ file_name_map[i] # file_name_map[j]
        /\ dir_name_map[i] = None \/ dir_name_map[i] # dir_name_map[j]

\* The maps of directories have the same keys, so read_next_dirent's second
\* lookup never fails; a file handle never lacks a name to be closed by.
MapsAgree ==
    \A id \in Id : /\ dir_handle_map[id] = None <=> dir_name_map[id] = None
                   /\ dir_handle_map[id] = None <=> dir_iter_map[id] = None
                   /\ file_name_map[id] = None => file_handle_map[id] = None

\* Files and directories share one sequence of ids: until it wraps no id names
\* both, and get_path_for_id has one answer.
OneKindPerId ==
    Wrapped \/ \A id \in Id : file_name_map[id] = None \/ dir_name_map[id] = None

\* What usbFsStatFile answers for an id is about the entry that its handle is of, a
\* file before a directory if the ids have wrapped onto one another; a stale name
\* answers for itself, although nothing can be read by that id.
StatIsOfHandle ==
    \A id \in Id :
        /\ file_handle_map[id] # None => Denotes[get_path_for_id(id)] = file_handle_map[id]
        /\ dir_handle_map[id] # None /\ file_name_map[id] = None =>
              Denotes[get_path_for_id(id)] = dir_handle_map[id]

\* Until the ids wrap, an id never comes to stand for a second handle: not while
\* it is open, and not after it is closed.
IdsNotReused ==
    [][\A id \in issued \cap issued' : Wrapped \/
          /\ file_handle_map'[id] \in {None, file_handle_map[id]}
          /\ dir_handle_map'[id] \in {None, dir_handle_map[id]}]_vars

\* A close that fails is the only way to a stale name, and the caller is told.
StaleOnlyOnError ==
    [][\A id \in Id : ~Stale(id) /\ Stale(id)' => ret' = "err"]_vars

\* As long as no name is stale, what an open returns can be used.
OpenGivesHandle ==
    [][\A path \in Path : OpenFile(path) /\ ret' = "ok" /\ (\A i \in Id : ~Stale(i)) =>
          \E id \in Id : file_name_map'[id] = path /\ file_handle_map'[id] = Denotes[path]]_vars

\* For an entry with one path, which callers delete as a file if it is a file and
\* as a directory if it is one, a name in the store, stale or not, shows that it
\* exists: DeleteFile and DeleteDir leave no handle on what they removed, and
\* CreateFile and CreateDir may take an open handle as proof.
NamesExist ==
    \A id \in Id, path \in Path : Denotes[path] \in Careful =>
        /\ file_name_map[id] = path => tree[Denotes[path]] = "file"
        /\ dir_name_map[id] = path => tree[Denotes[path]] = "dir"
===============================================================================
