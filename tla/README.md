# Verification project for nx-fatdrive

nx-fatdrive is a Rust library for the Nintendo Switch that gives homebrew access
to FAT-formatted USB drives: USB bulk transfers, the SCSI block device on top of
them, a one-block cache that makes bytes of a partition out of blocks, a FAT
driver (the `fatfs` crate), and a C API with integer handles. This directory
holds TLA+ models of its logic, TLC configurations that check them, and TLAPS
proofs. `tlc -config X.cfg M` runs a check, `tlapm M.tla` a proof module.

The library has no tests. The models are read from the code.

## Inventory

| Component | State | Operations | Hard parts |
|---|---|---|---|
| `buf_scsi.rs`, `OffsetScsiDevice` | one block's bytes, its number, a dirty flag, a cursor | `fill_buf`, `consume`, `read`, `write`, `flush`, `seek`, `new`, `Drop` | write-back after failed and short transfers, the `as u32` address cast, errors in the middle of a call |
| `usb_comm.rs`, `UsbClient` (with `vecwrapper.rs`, `aligned_slice.rs`) | the endpoints | `in_transfer`, `out_transfer`, `push_bytes`, `pull_bytes`, endpoint discovery | a transfer consumes the caller's buffer before it can fail, and may succeed with too few bytes |
| `capi_helpers/idstore.rs`, `IdStore` | five maps from ids to handles, names and directory indices; the next id | insert, open, close, `read_next_dirent`, `stat_path` | agreement of the maps after a failed close, ids that wrap, paths with several spellings |
| `capi_helpers/usbfs.rs`, life cycle | three mutexes over raw pointers | `usbFsInitialize`, `IsInitialized`, `Exit`, `IsReady`, `DeviceUpdate`, `DeviceGetMountStatus` | lock order, publication of half-built state, use after free |
| `capi_helpers/usbfs.rs`, files | none of its own | open, close, read, write, seek, sync, truncate, delete, stat, directories | several steps of which one fails; relative seeks |
| `capi_helpers/err.rs` | none | error tables | none with state |
| `capi_helpers/iosupport.rs` | a drive state machine, newlib's device table | mount, unmount, rename, mkdir, rmdir; the file handlers | half-done transitions, no lock, an unmount under a handler; most handlers are unreachable, because open, opendir and stat call `unimplemented!()` |
| `filesystem/fatfs_raw.rs` | a table of 15 drives behind the FatFs C library | disk callbacks, file and directory objects | slot search and indices at the table's limits |
| `filesystem/mod.rs`, `fatfs_rs.rs` | none | forwarding between the two back ends | none |
| `main.rs`, `lib.rs` | none | a demo script, the module list | none |

How they interact: a C call locks the id store, finds or opens a `fatfs` handle,
and works on the `FileSystem` behind a second mutex (or without it); the FAT
driver reads, writes and seeks an `OffsetScsiDevice`; that reads and writes whole
blocks through the `scsi` crate, which calls `UsbClient` for each phase of a
command. `usbFsInitialize` builds that stack from a drive, `usbFsExit` takes it
down. `scsi`, `fatfs`, `mbr-nostd` and `libnx-rs` are other repositories: they
are modelled by how this code uses them, with failures allowed wherever this
code handles one.

## Modules

### `BufScsi` and `ByteDevice`: the block cache

| Model | Code |
|---|---|
| `block_buffer`, `loaded_block_number`, `needs_flush`, `partition_idx` | the fields of `OffsetScsiDevice`; an empty buffer is `Drained` |
| `medium` | the drive's blocks |
| `op`, `at`, `left`, `byte`, `result` | the `read` or `write` call that runs, where in a turn of its loop it is, the bytes it still has to move, the last byte read, how the last call ended |
| `Evict`, `Load`, then `ReadByte` or `WriteByte` | one turn of the loops of `read` and `write`: the two halves of `fill_buf`, then the byte and `consume` |
| `flush`, `seek`, `drop`, `new` | the methods of those names |
| `out_transfer`, `in_transfer` | the transfer, the phases in which it may fail, and the bytes it may leave out when it succeeds (`Count`) |
| `Lba` | the block that a byte address cast `as u32` reaches (`AddrSpace` is 2^32) |
| `PartitionStart`, `partition_start` | the partition's first byte, and what the u32 product in `open_partition` makes of it |
| `faults` | what may go wrong in a transfer on this drive, one of the sets in `Drives`, fixed in `Init` |

A transfer can fail in its command phase (nothing has happened), in its data
phase (a read has brought nothing; a write has drained the buffer, and any part of
the block may have reached the medium) or in its status (the data has moved and the
call still fails); the status faults of reads and of writes are told apart because
their consequences are. It can also succeed with too few bytes ("short read",
"short write"): `in_transfer` completes the buffer with the zeros of its shim,
`out_transfer` answers with the count, and neither `fill_buf` nor `flush` looks at
that. That the `scsi` crate takes byte addresses and divides by the block size is
read off the calls (`buf_scsi.rs:76`, `usbfs.rs:46`). What a flush of an already
drained buffer returns is up to that crate: the model allows both. `Crash` is the
process or the console stopping: no flush.

`ByteDevice` is what a user of the cache is promised: bytes at positions, a
write that changes one byte of what readers see (`image`), write-back that makes
`durable` catch up, a sync after which nothing is left to lose, and failures
that are reported. `BufScsi` implements it under the refinement mapping
`image` = medium overlaid with the buffer, `durable` = medium, `pending` =
`needs_flush`, checked as the property `ImplementsByteDevice`. Its variable `flaws`
is mapped to those faults of the drive that show through the cache, and each allows
one thing only: "short write" and "data" that the rest of the block being written
back is lost, "short read" that the rest of the block being read is seen as zeros,
"read status" that after an error one block is seen in another's place. On a drive
without them nothing of the kind happens, and one run shows both.

### `IdStore`: open files and directories

The variables are the fields of the Rust struct, as functions from every id to a
value or `None`. Each C call holds the store's mutex throughout, so each is one
action, with the order of the code inside it (`close_file` removes the handle,
flushes, and only then removes the name). `tree` says what each directory entry
is; `Denotes` says which entry a path leads to, so that two spellings of one
file can be given. `remove` and `create` are the FAT driver, and may fail at any
time. `stat_path` walks a directory and may fail or not find a spelling.
`issued` is a history variable: the ids that this store has given out. `Careful`
names the entries whose callers use one spelling and delete files as files and
directories as directories; the others get any call.

### `DirScan`: reading a directory that changes

`IdStore` says which directory an id stands for; `DirScan` says what its readers
are told. The store keeps one index for each open directory, and
`read_next_dirent` walks the directory from its beginning, skips that many
entries and moves the index on. `entries` is the directory in the order of a
walk; `CreateEntry` uses any free place and `RemoveEntry` leaves none behind, as
the FAT driver does. `Caller`s that open one spelling share an id and its index
(`share`); another spelling gets an index of its own. A walk may break at any
entry (`broken`): at the wanted one the caller is told, at a skipped one
`iter().skip(idx)` drops the error and the caller is told the directory has ended.
`past` is a history variable, with one record for each id. Repetitions and misses
are counted as the sizes of sets (`Repeats`), which is also what can be proved
about.

### `UsbFs`: locks and life cycle

One program counter per thread; a step takes one lock and does what the code
does up to the next. `usbFsInitialize` first takes a drive
(`wait_for_usb_drive`), then finds its endpoints and reads its partition table
(`parse_drive`), and each of the two may fail. Uses of the file system last from one step to another, so
that uses overlap where the locks allow it. A `FileSystem` is named by the drive
it is on, since a drive has one owner at a time. `handles` are the file systems
that the open handles in the store borrow from, `live` those not dropped, `plug`
is where each drive stands. File calls are classed by their locks: `Handle`
(store only), `Path` (perhaps a close under the store's lock, then both locks),
`StatPath` (walks a directory under the store's lock only) and `StatFilesystem`
(file system only).

### `Newlib`: mount and unmount for newlib

A second way in: `nxFatdriveMount` builds its own stack in a boxed
`NewlibContext` and hands it to newlib's device table, whose handlers find it
through a raw pointer. `live`, `client_state` and `iface` are the boxed
contexts, `usbfs` is newlib's entry; `AddDevice`, `RemoveDevice` and the lookup
are newlib's, and may refuse. A mount takes four steps
(`init_usb_hs_ctx`, `wait_for_usb_drive`, `open_partition`, `AddDevice`), each
of which may fail; a path handler lasts from one step to another; an unmount takes
three (lookup, `RemoveDevice` by name, `DropBoxes`), with nothing between them and
anybody else. So an unmount can drop what a handler works on, or what another
unmount is about to drop, and leave newlib an entry that leads to nothing:
`dangling` are the threads that hold a context an unmount has dropped, `stale` says
that the entry leads to one. They go on as if nothing had happened, or end the run
(`Undefined`), as an unmount does with nothing mounted or with boxes that are
dropped already: what the freed memory does then is not modelled.
`wait_for_usb_drive` matches on `ref Uninitialized`, a name and not the variant, so
it never returns early; a mount calls it once on a fresh context, where that makes
no difference. `open`, `opendir` and `stat` reach `unimplemented!()`, so no file or
directory handle of newlib's exists and the handlers that take one are not modelled.

### `FileSeek`: the cursor of an open file

`offset` and `size` of one `fatfs` file under seek, read, write and truncate.
`rel` is the decoding of an unsigned argument in `usbFsSeekFile`; that the driver
refuses to go before the start and stops at the end is external.

### `UsbTransfer`: one bulk transfer

`out_transfer` and `in_transfer` byte by byte: `inner` is the buffer of the
`scsi` crate (a `VecNewtype`), `shim` the aligned one the endpoint needs, `idx`
the count of the loop, `wire` and `got` what the endpoint took and gave.
`BufScsi` takes a transfer as one step, and `TransferIsOneStep` has the steps it
takes one for, a success of too few bytes included. What
the caller sees (`held`) changes only when the call returns: an out transfer
leaves the buffer empty whether it fails or not, which is where the drained
buffer of `BufScsi` comes from; a short read fills the buffer with zeros, and only
the count returned tells. A shim of no bytes is undefined for the allocator;
whatever comes of it that returns at all is an error of the call.

Definitions with a suffix (`Loaded_numberFirst`, `TakeId_noWrap`) are plausible
mistakes in the definition they are named after. Nothing refers to them; put in
its place, each one breaks the property that `PROJECT.json` pairs it with.

## Runs

| Run | Question | Bounds |
|---|---|---|
| `cache` | Is the cache a byte device that misplaces, zeroes or loses only what its drive makes it, does a clean buffer hold what the drive has, and do its writes stay in the partition? | 3 blocks of 2 bytes, the partition from block 1 on, seeks over and one past the end, calls of up to 2 bytes; drives without faults, with each kind of flaw, with failing phases, and with everything |
| `cache_cast` | Does a drive larger than the cast keep its partition table? (It does not.) | cast at 4 bytes, no faults |
| `cache_status` | Does a read hand out the byte under the cursor when a load fails in its status? (It may not.) | that fault only |
| `store` | Do the store's maps, names and ids stay right through failed closes, aliases and the wrap of ids, and does a stat by id ask for the right entry? | 3 ids, so they wrap; 4 paths to 3 entries |
| `scan` | Is an entry handed out twice or never, and does a scan end, when entries come and go, readers share an index and a walk breaks? | 2 callers, 2 spellings, 2 names, 2 ids, 3 changes, 1 broken walk |
| `api_safety` | Can freed state be touched, who overlaps, what do others see of the pointers, who can deadlock, how can a drive be lost? | 3 threads, 2 drives that are pulled and plugged in again, 5 calls in all |
| `api_returns` | Does every call return or deadlock? | 2 threads, 1 drive, 4 calls, every call |
| `api_update_stuck` | Does a polling thread get its answers? (Not during an initialisation.) | 2 threads, 2 calls |
| `newlib_mount` | Is what newlib's entry leads to, and what handlers and unmounts hold, open until an unmount drops it, and where is a context leaked? | 3 threads, 3 drives, 4 addresses, 7 calls |
| `newlib_unmount` | Does a handler keep the context it was given as `'static`? (Not if another thread unmounts.) | 2 threads, 2 drives, 4 calls |
| `seek_back` | Does a backward seek go back as far as asked? (It does not.) | 3-bit positions, files of up to 4 bytes |
| `transfer` | Do the loops of a transfer keep the bytes and stay inside their buffers, and is a transfer one of the steps `BufScsi` takes it for? | buffers of up to 3 bytes, 3 values of a byte, one of them zero |

Why the bounds are enough. Cache: three blocks give a block below the partition,
two in it, and addresses past the drive; two bytes in each give a byte written
and one beside it; calls of two bytes cross a block's border. A drive may have any of its faults at
each transfer, so the drive that has all of them behaves in every way the others
do; those with fewer are there because less is allowed of them. The cast and the
start's product are exact in this run; `cache_cast` has the cast wrap. No run has
the product wrap; `StartBlock = 2` with `MaxIdx = 1` in `BufScsi_cast.cfg` does it, and
TLC then finds `PartitionTableSafe` violated before the cast is ever reached. Scan: two names are one entry
that shifts another, three changes create, remove and create again while two
callers share one index and a second spelling has its own; an index beyond
every entry and a count beyond every creation are capped, since no step tells
larger ones apart. `Init` lists the names in one order because they are
interchangeable. Store: the interesting cases need one id open, one
stale and one to wrap onto. API: a use after free or a lost pointer needs an
`Initialize`, a path call, an `Exit` and one more call; the fifth adds a second
`Initialize`. Newlib: two mounts that overlap, one of which takes the entry over
while a handler runs, an unmount and a mount at an address used before fit in
seven calls of three threads. Transfers: three bytes of three values give every
order of distinct bytes, and every partial read and write between none and all.
Drive and thread names, and the two spellings of one file, are
symmetric.

What short transfers do to the cache is in `cache`, as what `ByteDevice` admits for
a drive that has them: nobody looks at the counts that `in_transfer` and
`out_transfer` return (`buf_scsi.rs:78`, `:147`), so a read hands out zeros with
`Ok` and a flush calls a half-written block clean.

What the violation runs show:

* `cache_cast`: `raw_idx as u32` (`buf_scsi.rs:76`, `:149`) makes a block beyond
  the cast alias a low one. `partition_idx` is documented as "bytes from
  partition_start", and yet a flush changes a block below it.
* `cache_status`: `loaded_block_number` is set only when `device.read` returns
  `Ok`, but the buffer is already filled when a status fails.
* `newlib_unmount`: `get_global` hands out a `&'static mut NewlibContext`, and
  `nxFatdriveUnmount` drops it without asking who works on it. The same run reaches
  handlers that find the dropped context through the entry newlib refused to remove.
* `api_update_stuck`: `usbFsInitialize` locks context, file system, store and
  keeps them; `usbFsIsInitialized` starts with the store's lock. "Keep calling
  update periodically" is what deadlocks.
* `seek_back`: `-1 * (u64::max_value() - pos)` is one short of the two's
  complement that the comment on its line assumes: seeking by -1 stays where it
  is.

Read off the code without a run: the 2 that the comment on
`usbFsDeviceGetMountStatus` promises (`usbfs.rs:538`) is returned by no path, and
`usbFsDeviceUpdate` returns `usbFsIsReady`'s error codes where its comment says
"Returns 1 if status changed".

Fairness. `UsbFs!FairSpec` has weak fairness of
each thread's next step in a call: a thread that can run is scheduled.
`DirScan!FairSpec` has weak fairness of the next read of a caller that was not
yet told to stop: a caller that lists a directory goes on reading. Starting a
call, plugging and unplugging are never forced. Rust's mutexes are not fair, so
a thread could be overtaken for ever by callers that never stop; `MaxCalls`
excludes that case, and the liveness results are for finitely many calls. The
configurations of `UsbFs`, `Newlib` and `DirScan` switch the deadlock check off:
when the calls are used up there is nothing left to do, and the real deadlock is
what `ReturnsOrDeadlock` and `DeadlockNeedsInitialize` are about.

## Proofs

Every safety invariant, every action property and the refinement that the
passing runs check is also a theorem, for all values of the constants. Each
theorem is named in `PROJECT.json` beside the property it states.

### `BufScsiProofs` and `BufScsiRefines`: any geometry, address width and call

* `TypeCorrect`. `TypeOK` is inductive because it says that the loaded block
  number, through the cast, is a block of the drive; block 0, where a fresh
  object starts, always is (`LbaZero`).
* `CoherentCache` has no hypothesis about the drive: a clean buffer is `Cut` from a
  block, which may be another one's only on a drive whose reads fail in their
  status, and cut short only on one whose reads fall short. Inductive over
  `TypeOK`: a failed transfer leaves the buffer dirty, drained, or filled by a read.
* `DirtyStaysInPartition` and `PartitionTableKept`: if the drive and the largest
  seek fit the cast (`FitsAddrSpace`), no block below the partition is written,
  whatever fails. `PartitionTableSafe` alone is not inductive: the write goes to
  the loaded block, so one needs `DirtyInPartition`: dirty implies that the
  loaded block ends after `partition_start`, and every address reached is below
  the cast. The second needs the first byte past the drive to fit, hence `<` in
  `FitsAddrSpace`. The two start from different ends, the true start and the
  product in u32: `StartFits` shows that they are one when the drive fits.
* `Refinement`: `Spec => ImplementsByteDevice`. `RefinementInv` joins the
  invariants above with `InTurn` (where in a turn the buffer is filled, and with
  which block) and `NothingLeft` (between calls no byte is left to move, and
  a dropped object has no buffer). `FlawsAre` and `ImageIs` say what the mapping's
  `flaws` and `image` are, `WriteMaps` and `OutTransferMaps` what a write-back does
  to them, and then there is one lemma for
  each operation (`EvictMaps`, `LoadMaps`, `ReadByteMaps`, `WriteByteMaps`,
  `FlushMaps`, `CloseMaps`), which maps it to a step of `ByteDevice` or to a
  stutter. Its one hypothesis is `FitsAddrSpace`: without it two blocks share an
  address (`cache_cast`). Every fault of the drive is allowed; those that show are
  the `flaws` of the byte device.

### `IdStoreProofs`: any paths, entries, `Denotes`, ids and failures

`TypeCorrect`, `NamesAreUnique`, `KeysAgree`, `StatAsksForHandle`,
`FilesAndDirsApart`, `IdsStayUnique`, `NamedEntriesExist`, `StaleIsReported` and
`OpensAreUsable`. Each step is first
reduced to what it does to the file maps, the directory maps and the ids
(`StepParts`, `IdMoves`). `StatIsOfHandle` follows from `MapsAgree` and
`NamesLead`: a name beside a handle leads to that handle's entry; `OpenGivesHandle`
follows from the same. `OneKindPerId`
is not inductive without knowing that the next id is new: `IdInv` adds that the
ids given out are an interval below `next_id` until they are all of them, and
that the store has no name outside it. `NamesExist` is inductive together with
`OneIdPerName`: a delete closes the one id of its path before the entry goes, and
a `Careful` entry has no other path (`CarefulAssumption`).

### `DirScanProofs`: any callers, names, changes and failures

`TypeCorrect`, `RepeatsArePaid` and `EndIsTheEnd`. Neither property is inductive,
because an entry that was created or removed shows only when the index comes to
where it was. `Paid` counts ahead: a name that was handed out and is once more
ahead of the index already counts as repeated (`Due`), and one that nobody was
handed and that is behind it already counts as missed (`Missed`). Then a creation
adds at most one to the first, a removal or a reported error at most one to the
second (`InsertShifts` and `RemoveShifts` say that one place in a directory moves
one entry past an index), and a read adds nothing. `EndMeansAllRead` at the
moment of the answer is `Paid` with nothing ahead; afterwards it stays, because a
scan only ever gains (`Later`). The assumption `NameAssumption` says that a
directory has finitely many names and that an entry is told from the end.

### `UsbFsProofs`: any threads, drives and calls, any number of them

* `TypeCorrect`, from `OwnsDrive`: a call that sets a drive up
  has it alone, other calls' drives and the published file system are others, and
  a file system is on the drive exactly from `open_partition` on.
* `DrivesLostByOverwrite`, from the same and the locks: a step that gives up a drive
  without releasing it is the one of `usbFsInitialize` that publishes, over the file
  system of another. A drive pulled out is not lost, and one plugged in again is
  anybody's. How often it is lost is not bounded: two initialisations that race are
  enough, in `api_safety` too.
* `LocksHeld`, a lemma: a call holds the locks that its step is written to be under.
  Inductive with `CallMatchesStep`, since a step that several calls share goes on
  by the call.
* `DeadlocksNeedInitialize`: leave out initialisations that have the context's
  lock, and a thread that holds any lock while it waits for another holds the
  store's. So a cycle has one thread that holds anything, and it would have to wait
  for itself. `OverlapsKnown` follows from the same locks.
* `NothingUsedAfterFree`, from `PointersMatchSteps` (a call's knowledge of a
  pointer whose lock it holds stays true: `ChangesUnderLock`) and the locks.
  `SetTogether` from `Published`: the pointers differ only in an initialisation that
  still has the file system's lock or an exit that still has the store's. It says so
  of every thread that has these two locks or finds them free, while a third one may
  be anywhere, also in an initialisation under the context's lock.

### `NewlibProofs`: any threads, drives and addresses

`TypeCorrect`, `EntryStaysOpen`, `HeldStaysOpen` and `LossIsNewlibs`. Neither
`EntryIsOpened` nor `HeldIsOpened` is inductive: a failing mount drops its context,
which must not be newlib's, a handler's or an unmount's. `MountsOwn` says that a
mount works on a context in the state its step expects, which nobody else holds and
newlib's entry does not lead to, other than from before an unmount dropped it at
that address (`dangling`, `stale`). A second mount that takes the entry over leaves
the old context live, which is why a handler is safe from it and why the context is
lost. `LostOnlyInTable` names the other way to lose one: an unmount removes the
entry by name, which may by then lead to another context than the one it drops.

### `UsbTransferProofs`: any capacity and bytes

`TypeCorrect`, `ShimIsUsedUp`, `OrderIsKept` and `OneStep`, from the invariants of
the two loops. `Draining` and `Filling` compare buffer, shim and the caller's
bytes index by index, because the provers reason well about one index and badly
about concatenations; `DrainedInOrder` and `FilledInOrder` then turn them into the
statements about sequences. `NothingYet` says that nothing has moved before the
endpoint was asked. `OneStep` is what allows `BufScsi` to take a transfer as one
step: a success of too few bytes is among its cases, as it is in `BufScsi`.

The assumptions are those named in the modules: sizes and bounds are naturals,
`Drained` is not a block, a drive's faults are among those named, `None` and `Null` are none of the values they stand
beside, names are finitely many, and the entries in `Careful` have one path.

Only model-checked: the liveness properties `ReturnsOrDeadlock` and
`ScanEnds` (fairness is stated with `ENABLED`, of which TLAPS has no proof), and
the five violations, which are single traces.

## Not modelled, and the plan

Modelled: the cache and its abstract device, bulk transfers, the id store, scans
of a directory, the life cycle and locks of the C API, newlib's mounts and unmounts,
seeking. What could still be proved: the safety half of `ScanEnds` (an index never
falls while its id is open, and no entry lies past the last index).

Not modelled, because no call of the program reaches it:

* `fatfs_raw.rs`: nothing builds its context, and its `disk_ioctl` takes the
  command that adds a drive (0xAD) for one that sets the default disk, because it
  tests the bits of 0xD0 with `&`; its table stays empty.
* `filesystem/mod.rs` and `fatfs_rs.rs`: forwarding between that back end and
  `fatfs`; the C API calls `fatfs` itself.
* The handlers of `iosupport.rs` that take an open file or directory: `open`,
  `opendir` and `stat` end in `unimplemented!()` (`path_to_dirent`), so there is
  none to take.

Not modelled, because it keeps no state:

* `main.rs` is a linear demo. The generated bindings, the error tables of
  `err.rs` and the errno constants of `iosupport.rs` are data.
* Which endpoints `UsbClient::new` picks out of an interface; that it may find
  none is part of `parse_drive`.
* The lengths and attributes that the stat calls answer; `IdStore` has whether
  `stat_path` finds the entry. It splits a string at its last slash, looks the
  name up in the parent, and compares names by case where the FAT driver does
  not: that one spelling is found and another is not is left open. The root has
  no entry and is never found.
* The contents of files and the FAT structures, which belong to the `fatfs` crate.
