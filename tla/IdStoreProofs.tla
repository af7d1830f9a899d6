----------------------------- MODULE IdStoreProofs ----------------------------
(***************************************************************************)
(* What holds of the id store for every set of paths and entries, whatever *)
(* the paths denote, however the FAT driver fails, and for every MaxId.    *)
(***************************************************************************)
EXTENDS IdStore, TLAPS

\* What a call may do to the maps of files.
FileStep ==
    \/ UNCHANGED files
    \/ \E path \in Path : has_file(path) = {} /\ insert_file(path)
    \/ \E id \in Id, ok \in BOOLEAN : close_file(id, ok)
    \/ file_handle_map' = EmptyMap /\ file_name_map' = EmptyMap

\* What a call may do to the maps of directories.
DirStep ==
    \/ UNCHANGED dirs
    \/ \E path \in Path : has_dir(path) = {} /\ insert_dir(path)
    \/ \E id \in Id, ok \in BOOLEAN : close_dir(id, ok)
    \/ \E id \in Id : /\ dir_iter_map[id] \in 0 .. MaxIter - 1
                      /\ dir_iter_map' = [dir_iter_map EXCEPT ![id] = @ + 1]
                      /\ UNCHANGED <<dir_handle_map, dir_name_map>>
    \/ dir_handle_map' = EmptyMap /\ dir_name_map' = EmptyMap /\ dir_iter_map' = EmptyMap

\* Every step of the store is one of those on each side.
LEMMA StepParts ==
  ASSUME [Next]_vars
  PROVE  FileStep /\ DirStep
<1>1. ASSUME NEW path \in Path, OpenFile(path)
      PROVE  FileStep /\ DirStep
  BY <1>1 DEF OpenFile, open_file, FileStep, DirStep
<1>2. ASSUME NEW path \in Path, OpenDir(path)
      PROVE  FileStep /\ DirStep
  BY <1>2 DEF OpenDir, open_dir, FileStep, DirStep
<1>3. ASSUME NEW path \in Path, DeleteFile(path)
      PROVE  FileStep /\ DirStep
  BY <1>3 DEF DeleteFile, has_file, FileStep, DirStep
<1>4. ASSUME NEW path \in Path, DeleteDir(path)
      PROVE  FileStep /\ DirStep
  BY <1>4 DEF DeleteDir, has_dir, FileStep, DirStep
<1>5. ASSUME NEW path \in Path, CreateFile(path) \/ CreateDir(path)
      PROVE  FileStep /\ DirStep
  BY <1>5 DEF CreateFile, CreateDir, FileStep, DirStep
<1>6. ASSUME NEW id \in Id, CloseFile(id)
      PROVE  FileStep /\ DirStep
  BY <1>6 DEF CloseFile, FileStep, DirStep
<1>7. ASSUME NEW id \in Id, CloseDir(id)
      PROVE  FileStep /\ DirStep
  BY <1>7 DEF CloseDir, FileStep, DirStep
<1>8. ASSUME NEW id \in Id, ReadDir(id)
      PROVE  FileStep /\ DirStep
  BY <1>8 DEF ReadDir, read_next_dirent, FileStep, DirStep
<1>9. CASE Restart
  BY <1>9 DEF Restart, FileStep, DirStep
<1>10. CASE UNCHANGED vars
  BY <1>10 DEF vars, FileStep, DirStep
<1>11. ASSUME NEW path \in Path, StatPath(path)
       PROVE  FileStep /\ DirStep
  BY <1>11 DEF StatPath, FileStep, DirStep
<1>12. ASSUME NEW id \in Id, StatFile(id)
       PROVE  FileStep /\ DirStep
  BY <1>12 DEF StatFile, FileStep, DirStep
<1> QED
  BY <1>1, <1>2, <1>3, <1>4, <1>5, <1>6, <1>7, <1>8, <1>9, <1>10, <1>11, <1>12 DEF Next

\* The ids move on by one, start again, or stay.
LEMMA IdStep ==
  ASSUME [Next]_vars
  PROVE  \/ UNCHANGED <<next_id, issued>>
         \/ TakeId
         \/ next_id' = 0 /\ issued' = {}
BY DEF Next, vars, OpenFile, OpenDir, open_file, open_dir, insert_file, insert_dir, CloseFile, CloseDir, ReadDir,
       read_next_dirent, DeleteFile, DeleteDir, CreateFile, CreateDir, StatPath, StatFile, Restart

LEMMA TakeIdType ==
  ASSUME next_id \in Id, issued \subseteq Id, TakeId
  PROVE  next_id' \in Id /\ issued' \subseteq Id
BY IdAssumption DEF TakeId, Id

\* The part of TypeOK about the maps.
LEMMA FilesType ==
  ASSUME TypeOK, FileStep
  PROVE  /\ file_handle_map' \in [Id -> Entry \cup {None}]
         /\ file_name_map' \in [Id -> Path \cup {None}]
BY PathAssumption DEF TypeOK, FileStep, files, insert_file, close_file, EmptyMap

LEMMA DirsType ==
  ASSUME TypeOK, DirStep
  PROVE  /\ dir_handle_map' \in [Id -> Entry \cup {None}]
         /\ dir_name_map' \in [Id -> Path \cup {None}]
         /\ dir_iter_map' \in [Id -> (0 .. MaxIter) \cup {None}]
<1>1. CASE UNCHANGED dirs
  BY <1>1 DEF TypeOK, dirs
<1>2. ASSUME NEW path \in Path, insert_dir(path)
      PROVE  /\ dir_handle_map' \in [Id -> Entry \cup {None}]
             /\ dir_name_map' \in [Id -> Path \cup {None}]
             /\ dir_iter_map' \in [Id -> (0 .. MaxIter) \cup {None}]
  BY <1>2, PathAssumption, IdAssumption DEF TypeOK, insert_dir
<1>3. ASSUME NEW id \in Id, NEW ok \in BOOLEAN, close_dir(id, ok)
      PROVE  /\ dir_handle_map' \in [Id -> Entry \cup {None}]
             /\ dir_name_map' \in [Id -> Path \cup {None}]
             /\ dir_iter_map' \in [Id -> (0 .. MaxIter) \cup {None}]
  BY <1>3 DEF TypeOK, close_dir, dirs
<1>4. ASSUME NEW id \in Id,
             dir_iter_map[id] \in 0 .. MaxIter - 1,
             dir_iter_map' = [dir_iter_map EXCEPT ![id] = @ + 1]
      PROVE  dir_iter_map' \in [Id -> (0 .. MaxIter) \cup {None}]
  BY <1>4, IdAssumption DEF TypeOK
<1>5. EmptyMap \in [Id -> Entry \cup {None}] /\ EmptyMap \in [Id -> Path \cup {None}]
      /\ EmptyMap \in [Id -> (0 .. MaxIter) \cup {None}]
  BY DEF EmptyMap
<1> QED
  BY <1>1, <1>2, <1>3, <1>4, <1>5 DEF DirStep, TypeOK

THEOREM TypeCorrect == Spec => []TypeOK
<1>1. Init => TypeOK
  BY IdAssumption DEF Init, TypeOK, EmptyMap, Id
<1>2. TypeOK /\ [Next]_vars => TypeOK'
  <2> SUFFICES ASSUME TypeOK, [Next]_vars PROVE TypeOK'
    OBVIOUS
  <2>1. next_id' \in Id /\ issued' \subseteq Id
    <3>1. next_id \in Id /\ issued \subseteq Id /\ 0 \in Id
      BY IdAssumption DEF TypeOK, Id
    <3> QED
      BY <3>1, IdStep, TakeIdType
  <2>2. tree' \in [Entry -> Kind]
    <3>1. \/ UNCHANGED tree
          \/ \E path \in Path : remove(path) \/ create(path, "file") \/ create(path, "dir")
      BY DEF Next, vars, OpenFile, OpenDir, CloseFile, CloseDir, ReadDir, DeleteFile,
             DeleteDir, CreateFile, CreateDir, StatPath, StatFile, Restart
    <3>2. {"absent", "file", "dir"} \subseteq Kind
      BY DEF Kind
    <3> QED
      BY <3>1, <3>2 DEF TypeOK, remove, create
  <2>3. ret' \in {"ok", "err"}
    BY DEF TypeOK, Next, vars, OpenFile, OpenDir, open_file, open_dir, CloseFile, CloseDir, ReadDir,
        read_next_dirent, DeleteFile, DeleteDir, CreateFile, CreateDir, remove, create,
        StatPath, StatFile, stat_path, Restart
  <2> QED
    BY <2>1, <2>2, <2>3, StepParts, FilesType, DirsType DEF TypeOK
<1> QED
  BY <1>1, <1>2, PTL DEF Spec

-------------------------------------------------------------------------------
\* The name under which a path is looked up is the name it is entered by, so no
\* two ids share one: has_file and has_dir have one answer, wrapped ids or not.
THEOREM NamesAreUnique == Spec => []OneIdPerName
<1>1. Init => OneIdPerName
  BY DEF Init, OneIdPerName, EmptyMap
<1>2. TypeOK /\ OneIdPerName /\ [Next]_vars => OneIdPerName'
  <2> SUFFICES ASSUME TypeOK, OneIdPerName, [Next]_vars,
                      NEW i \in Id, NEW j \in Id, i # j
               PROVE  /\ file_name_map'[i] = None \/ file_name_map'[i] # file_name_map'[j]
                      /\ dir_name_map'[i] = None \/ dir_name_map'[i] # dir_name_map'[j]
    BY DEF OneIdPerName
  <2>1. /\ file_name_map[i] = None \/ file_name_map[i] # file_name_map[j]
        /\ dir_name_map[i] = None \/ dir_name_map[i] # dir_name_map[j]
    BY DEF OneIdPerName
  <2>2. file_name_map'[i] = None \/ file_name_map'[i] # file_name_map'[j]
    BY <2>1, StepParts, NoneAssumption
    DEF TypeOK, FileStep, files, insert_file, close_file, has_file, EmptyMap
  <2>3. dir_name_map'[i] = None \/ dir_name_map'[i] # dir_name_map'[j]
    BY <2>1, StepParts, NoneAssumption
    DEF TypeOK, DirStep, dirs, insert_dir, close_dir, has_dir, EmptyMap
  <2> QED
    BY <2>2, <2>3
<1> QED
  BY <1>1, <1>2, TypeCorrect, PTL DEF Spec

\* The three maps of directories keep one set of keys, and every open file has
\* its name, through failed closes and wrapped ids.
THEOREM KeysAgree == Spec => []MapsAgree
<1>1. Init => MapsAgree
  BY DEF Init, MapsAgree, EmptyMap
<1>2. TypeOK /\ MapsAgree /\ [Next]_vars => MapsAgree'
  <2> SUFFICES ASSUME TypeOK, MapsAgree, [Next]_vars, NEW i \in Id
               PROVE  /\ dir_handle_map'[i] = None <=> dir_name_map'[i] = None
                      /\ dir_handle_map'[i] = None <=> dir_iter_map'[i] = None
                      /\ file_name_map'[i] = None => file_handle_map'[i] = None
    BY DEF MapsAgree
  <2>1. /\ dir_handle_map[i] = None <=> dir_name_map[i] = None
        /\ dir_handle_map[i] = None <=> dir_iter_map[i] = None
        /\ file_name_map[i] = None => file_handle_map[i] = None
    BY DEF MapsAgree
  <2>2. file_name_map'[i] = None => file_handle_map'[i] = None
    BY <2>1, StepParts, NoneAssumption
    DEF TypeOK, FileStep, files, insert_file, close_file, EmptyMap
  <2>3. /\ dir_handle_map'[i] = None <=> dir_name_map'[i] = None
        /\ dir_handle_map'[i] = None <=> dir_iter_map'[i] = None
    <3>1. CASE UNCHANGED dirs
      BY <2>1, <3>1 DEF dirs
    <3>2. ASSUME NEW path \in Path, insert_dir(path)
          PROVE  /\ dir_handle_map'[i] = None <=> dir_name_map'[i] = None
                 /\ dir_handle_map'[i] = None <=> dir_iter_map'[i] = None
      BY <2>1, <3>2, NoneAssumption, PathAssumption DEF TypeOK, insert_dir
    <3>3. ASSUME NEW id \in Id, NEW ok \in BOOLEAN, close_dir(id, ok)
          PROVE  /\ dir_handle_map'[i] = None <=> dir_name_map'[i] = None
                 /\ dir_handle_map'[i] = None <=> dir_iter_map'[i] = None
      BY <2>1, <3>3 DEF TypeOK, close_dir, dirs
    <3>4. ASSUME NEW id \in Id, dir_iter_map[id] \in 0 .. MaxIter - 1,
                 dir_iter_map' = [dir_iter_map EXCEPT ![id] = @ + 1],
                 UNCHANGED <<dir_handle_map, dir_name_map>>
          PROVE  /\ dir_handle_map'[i] = None <=> dir_name_map'[i] = None
                 /\ dir_handle_map'[i] = None <=> dir_iter_map'[i] = None
      <4>1. dir_iter_map[id] # None /\ dir_iter_map[id] + 1 # None
        BY <3>4, NoneAssumption, IdAssumption
      <4> QED
        BY <2>1, <3>4, <4>1 DEF TypeOK
    <3> QED
      BY <3>1, <3>2, <3>3, <3>4, StepParts DEF DirStep, EmptyMap
  <2> QED
    BY <2>2, <2>3
<1> QED
  BY <1>1, <1>2, TypeCorrect, PTL DEF Spec

\* A handle and the name beside it are put in and taken out together, but for the
\* close that leaves a stale name: a name leads to the entry its handle is of.
NamesLead == \A id \in Id :
    /\ file_handle_map[id] # None => Denotes[file_name_map[id]] = file_handle_map[id]
    /\ dir_handle_map[id] # None => Denotes[dir_name_map[id]] = dir_handle_map[id]

LEMMA NamesLeadHolds == Spec => []NamesLead
<1>1. Init => NamesLead
  BY DEF Init, NamesLead, EmptyMap
<1>2. TypeOK /\ NamesLead /\ [Next]_vars => NamesLead'
  <2> SUFFICES ASSUME TypeOK, NamesLead, [Next]_vars, NEW i \in Id
               PROVE  /\ file_handle_map'[i] # None => Denotes[file_name_map'[i]] = file_handle_map'[i]
                      /\ dir_handle_map'[i] # None => Denotes[dir_name_map'[i]] = dir_handle_map'[i]
    BY DEF NamesLead
  <2>1. /\ file_handle_map[i] # None => Denotes[file_name_map[i]] = file_handle_map[i]
        /\ dir_handle_map[i] # None => Denotes[dir_name_map[i]] = dir_handle_map[i]
    BY DEF NamesLead
  <2>2. file_handle_map'[i] # None => Denotes[file_name_map'[i]] = file_handle_map'[i]
    BY <2>1, StepParts DEF TypeOK, FileStep, files, insert_file, close_file, EmptyMap
  <2>3. dir_handle_map'[i] # None => Denotes[dir_name_map'[i]] = dir_handle_map'[i]
    BY <2>1, StepParts DEF TypeOK, DirStep, dirs, insert_dir, close_dir, EmptyMap
  <2> QED
    BY <2>2, <2>3
<1> QED
  BY <1>1, <1>2, TypeCorrect, PTL DEF Spec

\* usbFsStatFile asks about the entry that the id's handle is of, whatever has been
\* closed, deleted or wrapped before.
THEOREM StatAsksForHandle == Spec => []StatIsOfHandle
<1>1. MapsAgree /\ NamesLead => StatIsOfHandle
  BY DEF MapsAgree, NamesLead, StatIsOfHandle, get_path_for_id
<1> QED
  BY <1>1, KeysAgree, NamesLeadHolds, PTL

-------------------------------------------------------------------------------
(* Ids.  The history of the ids given out is the interval below next_id until *)
(* it is all of them, and nothing in the store has an id outside of it.       *)

IssuedBelowNext == issued = 0 .. next_id - 1 \/ Wrapped
KeysIssued == \A id \in Id \ issued : file_name_map[id] = None /\ dir_name_map[id] = None
IdInv == IssuedBelowNext /\ KeysIssued /\ OneKindPerId

\* An id is new until all have been given out.
LEMMA NextIdIsNew ==
  ASSUME TypeOK, IssuedBelowNext, ~Wrapped
  PROVE  next_id \notin issued
BY IdAssumption DEF TypeOK, IssuedBelowNext, Id

LEMMA IssuedStep ==
  ASSUME TypeOK, IssuedBelowNext, [Next]_vars
  PROVE  IssuedBelowNext'
<1>1. CASE UNCHANGED <<next_id, issued>>
  BY <1>1 DEF IssuedBelowNext, Wrapped
<1>2. CASE TakeId
  <2>1. CASE Wrapped
    BY <1>2, <2>1 DEF TypeOK, IssuedBelowNext, Wrapped, TakeId
  <2>2. CASE ~Wrapped /\ next_id = MaxId
    <3>1. issued' = 0 .. MaxId
      BY <1>2, <2>2, IdAssumption DEF IssuedBelowNext, TakeId
    <3> QED
      BY <3>1 DEF IssuedBelowNext, Wrapped, Id
  <2>3. CASE ~Wrapped /\ next_id # MaxId
    <3>1. issued' = 0 .. next_id' - 1
      BY <1>2, <2>3, IdAssumption DEF TypeOK, IssuedBelowNext, TakeId, Id
    <3> QED
      BY <3>1 DEF IssuedBelowNext
  <2> QED
    BY <2>1, <2>2, <2>3
<1>3. CASE next_id' = 0 /\ issued' = {}
  BY <1>3 DEF IssuedBelowNext
<1> QED
  BY <1>1, <1>2, <1>3, IdStep

\* Each step changes the ids and the maps together.
LEMMA IdMoves ==
  ASSUME [Next]_vars
  PROVE  \/ /\ UNCHANGED <<next_id, issued>>
            /\ \/ UNCHANGED file_name_map
               \/ \E id \in Id, ok \in BOOLEAN : close_file(id, ok)
            /\ \/ UNCHANGED dir_name_map
               \/ \E id \in Id, ok \in BOOLEAN : close_dir(id, ok)
         \/ /\ TakeId
            /\ \/ /\ UNCHANGED dirs
                  /\ \E path \in Path : insert_file(path)
               \/ /\ UNCHANGED files
                  /\ \E path \in Path : insert_dir(path)
         \/ Restart
BY DEF Next, vars, files, dirs, OpenFile, OpenDir, open_file, open_dir, insert_file, insert_dir,
       CloseFile, CloseDir, ReadDir, read_next_dirent, DeleteFile, DeleteDir, CreateFile, CreateDir, has_file, has_dir,
       StatPath, StatFile

\* A name enters the store under the id just issued, and no other.
LEMMA KeysStep ==
  ASSUME TypeOK, IdInv, [Next]_vars
  PROVE  KeysIssued' /\ OneKindPerId'
<1> USE DEF KeysIssued, OneKindPerId, Wrapped
<1>0. /\ \A id \in Id \ issued : file_name_map[id] = None /\ dir_name_map[id] = None
      /\ issued = Id \/ \A id \in Id : file_name_map[id] = None \/ dir_name_map[id] = None
  BY DEF IdInv
<1>1. CASE /\ UNCHANGED <<next_id, issued>>
           /\ \/ UNCHANGED file_name_map
              \/ \E id \in Id, ok \in BOOLEAN : close_file(id, ok)
           /\ \/ UNCHANGED dir_name_map
              \/ \E id \in Id, ok \in BOOLEAN : close_dir(id, ok)
  <2>1. \A i \in Id : file_name_map'[i] \in {None, file_name_map[i]}
    BY <1>1 DEF TypeOK, close_file, files
  <2>2. \A i \in Id : dir_name_map'[i] \in {None, dir_name_map[i]}
    BY <1>1 DEF TypeOK, close_dir, dirs
  <2> QED
    BY <1>0, <1>1, <2>1, <2>2
<1>2. ASSUME TakeId, UNCHANGED dirs, NEW path \in Path, insert_file(path)
      PROVE  KeysIssued' /\ OneKindPerId'
  <2>1. \A i \in Id \ {next_id} : file_name_map'[i] = file_name_map[i]
    BY <1>2 DEF TypeOK, insert_file
  <2>2. issued' = issued \cup {next_id} /\ dir_name_map' = dir_name_map
    BY <1>2 DEF TakeId, dirs
  <2>3. issued # Id => dir_name_map[next_id] = None
    BY <1>0, NextIdIsNew DEF IdInv, TypeOK
  <2>4. KeysIssued'
    BY <1>0, <2>1, <2>2
  <2>5. CASE issued = Id
    BY <2>2, <2>5 DEF TypeOK
  <2>6. CASE issued # Id
    BY <1>0, <2>1, <2>2, <2>3, <2>6
  <2> QED
    BY <2>4, <2>5, <2>6
<1>3. ASSUME TakeId, UNCHANGED files, NEW path \in Path, insert_dir(path)
      PROVE  KeysIssued' /\ OneKindPerId'
  <2>1. \A i \in Id \ {next_id} : dir_name_map'[i] = dir_name_map[i]
    BY <1>3 DEF TypeOK, insert_dir
  <2>2. issued' = issued \cup {next_id} /\ file_name_map' = file_name_map
    BY <1>3 DEF TakeId, files
  <2>3. issued # Id => file_name_map[next_id] = None
    BY <1>0, NextIdIsNew DEF IdInv, TypeOK
  <2>4. KeysIssued'
    BY <1>0, <2>1, <2>2
  <2>5. CASE issued = Id
    BY <2>2, <2>5 DEF TypeOK
  <2>6. CASE issued # Id
    BY <1>0, <2>1, <2>2, <2>3, <2>6
  <2> QED
    BY <2>4, <2>5, <2>6
<1>4. CASE Restart
  BY <1>4 DEF Restart, EmptyMap
<1> QED
  BY <1>1, <1>2, <1>3, <1>4, IdMoves

LEMMA IdInvHolds == Spec => []IdInv
<1>1. Init => IdInv
  BY DEF Init, IdInv, IssuedBelowNext, KeysIssued, OneKindPerId, EmptyMap
<1>2. TypeOK /\ IdInv /\ [Next]_vars => IdInv'
  BY IssuedStep, KeysStep DEF IdInv
<1> QED
  BY <1>1, <1>2, TypeCorrect, PTL DEF Spec

\* get_path_for_id looks among the files first: until the ids wrap it cannot be
\* wrong about a directory.
THEOREM FilesAndDirsApart == Spec => []OneKindPerId
BY IdInvHolds, PTL DEF IdInv

\* An id given out stands for one handle until all ids have been given out, so
\* a caller's id is never silently another file's before then.
THEOREM IdsStayUnique == Spec => IdsNotReused
<1>1. TypeOK /\ IdInv /\ [Next]_vars =>
        [\A id \in issued \cap issued' : Wrapped \/
            /\ file_handle_map'[id] \in {None, file_handle_map[id]}
            /\ dir_handle_map'[id] \in {None, dir_handle_map[id]}]_vars
  <2> SUFFICES ASSUME TypeOK, IdInv, [Next]_vars, ~Wrapped,
                      NEW i \in issued \cap issued'
               PROVE  /\ file_handle_map'[i] \in {None, file_handle_map[i]}
                      /\ dir_handle_map'[i] \in {None, dir_handle_map[i]}
    OBVIOUS
  <2>1. i # next_id /\ i \in Id
    BY NextIdIsNew DEF IdInv, TypeOK
  <2>2. file_handle_map'[i] \in {None, file_handle_map[i]}
    BY <2>1, StepParts DEF TypeOK, FileStep, files, insert_file, close_file, EmptyMap
  <2>3. dir_handle_map'[i] \in {None, dir_handle_map[i]}
    BY <2>1, StepParts DEF TypeOK, DirStep, dirs, insert_dir, close_dir, EmptyMap
  <2> QED
    BY <2>2, <2>3
<1> QED
  BY <1>1, TypeCorrect, IdInvHolds, PTL DEF Spec, IdsNotReused


-------------------------------------------------------------------------------
(* Names and the drive *)

\* Nothing but a Careful entry's own path leads to it, so a call on another path
\* leaves it as it is.
LEMMA CarefulAlone ==
  ASSUME TypeOK, NEW path \in Path, remove(path) \/ create(path, "file") \/ create(path, "dir"),
         NEW q \in Path, Denotes[q] \in Careful, q # path
  PROVE  tree'[Denotes[q]] = tree[Denotes[q]]
<1>1. Denotes[q] # Denotes[path]
  BY CarefulAssumption
<1> QED
  BY <1>1, PathAssumption DEF TypeOK, remove, create

\* A Careful entry with a name in the store exists: it is created before it is
\* opened, a delete takes the name out first, and no delete takes a file for a
\* directory.
THEOREM NamedEntriesExist == Spec => []NamesExist
<1>1. Init => NamesExist
  BY NoneAssumption DEF Init, NamesExist, EmptyMap
<1>2. TypeOK /\ OneIdPerName /\ NamesExist /\ [Next]_vars => NamesExist'
  <2> SUFFICES ASSUME TypeOK, OneIdPerName, NamesExist, [Next]_vars,
                      NEW i \in Id, NEW q \in Path, Denotes[q] \in Careful
               PROVE  /\ file_name_map'[i] = q => tree'[Denotes[q]] = "file"
                      /\ dir_name_map'[i] = q => tree'[Denotes[q]] = "dir"
    BY DEF NamesExist
  <2> DEFINE Goal == /\ file_name_map'[i] = q => tree'[Denotes[q]] = "file"
                     /\ dir_name_map'[i] = q => tree'[Denotes[q]] = "dir"
  <2>1. \A id \in Id : /\ file_name_map[id] = q => tree[Denotes[q]] = "file"
                       /\ dir_name_map[id] = q => tree[Denotes[q]] = "dir"
    BY DEF NamesExist
  <2>2. /\ file_name_map \in [Id -> Path \cup {None}] /\ dir_name_map \in [Id -> Path \cup {None}]
        /\ tree \in [Entry -> Kind] /\ Denotes[q] \in Entry /\ q # None
    BY PathAssumption, NoneAssumption DEF TypeOK
  <2>3. ASSUME NEW path \in Path, OpenFile(path)
        PROVE  Goal
    BY <2>1, <2>2, <2>3 DEF OpenFile, open_file, insert_file, files, dirs
  <2>4. ASSUME NEW path \in Path, OpenDir(path)
        PROVE  Goal
    BY <2>1, <2>2, <2>4 DEF OpenDir, open_dir, insert_dir, files, dirs
  <2>5. ASSUME UNCHANGED tree,
               file_name_map'[i] \in {None, file_name_map[i]},
               dir_name_map'[i] \in {None, dir_name_map[i]}
        PROVE  Goal
    BY <2>1, <2>2, <2>5
  <2>6. ASSUME NEW id \in Id, CloseFile(id) \/ CloseDir(id) \/ ReadDir(id) \/ StatFile(id)
        PROVE  Goal
    <3>1. /\ file_name_map'[i] \in {None, file_name_map[i]}
          /\ dir_name_map'[i] \in {None, dir_name_map[i]}
      BY <2>2, <2>6 DEF CloseFile, close_file, CloseDir, close_dir, ReadDir, read_next_dirent,
                        StatFile, files, dirs
    <3> QED
      BY <2>5, <2>6, <3>1 DEF CloseFile, CloseDir, ReadDir, StatFile
  <2>7. ASSUME NEW path \in Path, CreateFile(path) \/ CreateDir(path)
        PROVE  Goal
    <3>1. UNCHANGED <<file_name_map, dir_name_map>>
      BY <2>7 DEF CreateFile, CreateDir, files, dirs
    <3>2. CASE UNCHANGED tree
      BY <2>1, <3>1, <3>2
    <3>3. CASE create(path, "file") \/ create(path, "dir")
      <4>1. CASE q # path
        BY <2>1, <3>1, <3>3, <4>1, CarefulAlone
      <4>2. CASE q = path
        BY <2>1, <2>2, <3>1, <3>3, <4>2 DEF create
      <4> QED
        BY <4>1, <4>2
    <3> QED
      BY <2>7, <3>2, <3>3 DEF CreateFile, CreateDir
  <2>8. ASSUME NEW path \in Path, DeleteFile(path)
        PROVE  Goal
    <3>1. /\ file_name_map'[i] \in {None, file_name_map[i]}
          /\ dir_name_map' = dir_name_map
      BY <2>2, <2>8 DEF DeleteFile, close_file, has_file, files, dirs
    <3>2. CASE UNCHANGED tree
      BY <2>5, <3>1, <3>2
    <3>3. ASSUME remove(path), q # path
          PROVE  Goal
      BY <2>1, <2>2, <3>1, <3>3, CarefulAlone
    <3>4. ASSUME remove(path), q = path, tree' # tree
          PROVE  Goal
      <4>1. dir_name_map[i] # q
        BY <2>1, <2>8, <3>4 DEF DeleteFile
      <4>2. \/ has_file(q) = {} /\ UNCHANGED files
            \/ \E id \in has_file(q) : close_file(id, TRUE)
        BY <2>8, <3>4 DEF DeleteFile
      <4>3. file_name_map'[i] # q
        <5>1. CASE has_file(q) = {} /\ UNCHANGED files
          BY <5>1 DEF has_file, files
        <5>2. ASSUME NEW id \in has_file(q), close_file(id, TRUE)
              PROVE  file_name_map'[i] # q
          <6>1. id \in Id /\ file_name_map[id] = q
            BY <5>2 DEF has_file
          <6>2. file_name_map' = [file_name_map EXCEPT ![id] = None]
            BY <5>2 DEF close_file
          <6>3. i # id => file_name_map[i] # q
            BY <2>2, <6>1 DEF OneIdPerName
          <6> QED
            BY <2>2, <6>1, <6>2, <6>3
        <5> QED
          BY <4>2, <5>1, <5>2
      <4> QED
        BY <3>1, <4>1, <4>3
    <3> QED
      BY <2>8, <3>2, <3>3, <3>4 DEF DeleteFile
  <2>9. ASSUME NEW path \in Path, DeleteDir(path)
        PROVE  Goal
    <3>1. /\ dir_name_map'[i] \in {None, dir_name_map[i]}
          /\ file_name_map' = file_name_map
      BY <2>2, <2>9 DEF DeleteDir, close_dir, has_dir, files, dirs
    <3>2. CASE UNCHANGED tree
      BY <2>5, <3>1, <3>2
    <3>3. ASSUME remove(path), q # path
          PROVE  Goal
      BY <2>1, <2>2, <3>1, <3>3, CarefulAlone
    <3>4. ASSUME remove(path), q = path, tree' # tree
          PROVE  Goal
      <4>1. file_name_map[i] # q
        BY <2>1, <2>9, <3>4 DEF DeleteDir
      <4>2. \/ has_dir(q) = {} /\ UNCHANGED dirs
            \/ \E id \in has_dir(q) : close_dir(id, TRUE)
        BY <2>9, <3>4 DEF DeleteDir
      <4>3. dir_name_map'[i] # q
        <5>1. CASE has_dir(q) = {} /\ UNCHANGED dirs
          BY <5>1 DEF has_dir, dirs
        <5>2. ASSUME NEW id \in has_dir(q), close_dir(id, TRUE)
              PROVE  dir_name_map'[i] # q
          <6>1. id \in Id /\ dir_name_map[id] = q
            BY <5>2 DEF has_dir
          <6>2. dir_name_map' = [dir_name_map EXCEPT ![id] = None]
            BY <5>2 DEF close_dir
          <6>3. i # id => dir_name_map[i] # q
            BY <2>2, <6>1 DEF OneIdPerName
          <6> QED
            BY <2>2, <6>1, <6>2, <6>3
        <5> QED
          BY <4>2, <5>1, <5>2
      <4> QED
        BY <3>1, <4>1, <4>3
    <3> QED
      BY <2>9, <3>2, <3>3, <3>4 DEF DeleteDir
  <2>10. CASE Restart
    BY <2>2, <2>10 DEF Restart, EmptyMap
  <2>11. ASSUME NEW path \in Path, StatPath(path)
         PROVE  Goal
    BY <2>5, <2>11 DEF StatPath, files, dirs
  <2>12. CASE UNCHANGED vars
    BY <2>5, <2>12 DEF vars, files, dirs
  <2> QED
    BY <2>3, <2>4, <2>6, <2>7, <2>8, <2>9, <2>10, <2>11, <2>12 DEF Next
<1> QED
  BY <1>1, <1>2, TypeCorrect, NamesAreUnique, PTL DEF Spec


-------------------------------------------------------------------------------
(* Stale names *)

\* A name loses its handle in a close whose flush fails, and nowhere else, so some
\* caller was told.
THEOREM StaleIsReported == Spec => StaleOnlyOnError
<1>1. TypeOK /\ [Next]_vars =>
        [\A id \in Id : ~Stale(id) /\ Stale(id)' => ret' = "err"]_vars
  <2> SUFFICES ASSUME TypeOK, [Next]_vars, NEW i \in Id, ~Stale(i), Stale(i)'
               PROVE  ret' = "err"
    OBVIOUS
  <2> USE DEF Stale
  <2>1. ~ UNCHANGED files
    BY DEF files
  <2>2. ASSUME NEW path \in Path
        PROVE  ~insert_file(path)
    BY NoneAssumption, PathAssumption DEF insert_file, TypeOK
  <2>3. ASSUME NEW id \in Id
        PROVE  ~close_file(id, TRUE)
    BY DEF close_file, TypeOK, files
  <2>4. ASSUME NEW path \in Path, OpenFile(path)
        PROVE  FALSE
    BY <2>1, <2>2, <2>4 DEF OpenFile, open_file
  <2>5. ASSUME NEW path \in Path, DeleteFile(path)
        PROVE  ret' = "err"
    BY <2>1, <2>3, <2>5 DEF DeleteFile, has_file
  <2>6. ASSUME NEW id \in Id, CloseFile(id)
        PROVE  ret' = "err"
    BY <2>3, <2>6 DEF CloseFile
  <2>7. ~Restart
    BY DEF Restart, EmptyMap
  <2> QED
    BY <2>1, <2>4, <2>5, <2>6, <2>7
    DEF Next, vars, OpenDir, DeleteDir, CreateFile, CreateDir, StatPath, CloseDir, ReadDir, StatFile
<1> QED
  BY <1>1, TypeCorrect, PTL DEF Spec, StaleOnlyOnError

\* As long as no name is stale, an open that finds the name finds its handle too.
THEOREM OpensAreUsable == Spec => OpenGivesHandle
<1>1. TypeOK /\ NamesLead /\ [Next]_vars =>
        [\A path \in Path : OpenFile(path) /\ ret' = "ok" /\ (\A i \in Id : ~Stale(i)) =>
           \E id \in Id : file_name_map'[id] = path /\ file_handle_map'[id] = Denotes[path]]_vars
  <2> SUFFICES ASSUME TypeOK, NamesLead, NEW path \in Path, OpenFile(path), ret' = "ok",
                      \A i \in Id : ~Stale(i)
               PROVE  \E id \in Id : file_name_map'[id] = path /\ file_handle_map'[id] = Denotes[path]
    OBVIOUS
  <2>1. CASE has_file(path) # {} /\ UNCHANGED files
    <3>1. PICK id \in Id : file_name_map[id] = path
      BY <2>1 DEF has_file
    <3>2. file_handle_map[id] # None
      BY <3>1, NoneAssumption DEF Stale
    <3> QED
      BY <2>1, <3>1, <3>2 DEF NamesLead, files
  <2>2. CASE insert_file(path)
    BY <2>2 DEF insert_file, TypeOK
  <2> QED
    BY <2>1, <2>2 DEF OpenFile, open_file
<1> QED
  BY <1>1, TypeCorrect, NamesLeadHolds, PTL DEF Spec, OpenGivesHandle
===============================================================================
