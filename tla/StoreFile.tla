--------------------------------- MODULE StoreFile ---------------------------------
(***************************************************************************)
(* The template store of a connection on disk (clustering/template-store): *)
(* saveTemplateStore as the file operations it is made of.  Several server *)
(* processes may run, one for each client, and share the directory; inside *)
(* a process a save runs from the load to the end without an await.        *)
(*                                                                         *)
(* The store is written to a file beside it, which then takes its place.   *)
(* A lock file keeps the others out; one that is older than LOCK_STALE_MS  *)
(* is taken for the lock of a dead process and is removed.                 *)
(***************************************************************************)
EXTENDS Naturals, FiniteSets

CONSTANTS Procs,       \* server processes
          Stores,      \* contents that a load understands
          Foreign,     \* model value: content of another store version
          Absent,      \* model value: there is no such file
          Blank, Torn, \* model values: an emptied file, and one with part of a store
          NoLock, NoStore,  \* model values
          MaxCrashes   \* bound: processes that die in a save

ASSUME ContentsAssumption ==
  /\ Foreign \notin Stores
  /\ Absent \notin Stores \union {Foreign} /\ Blank \notin Stores \union {Foreign, Absent}
  /\ Torn \notin Stores \union {Foreign, Absent, Blank}
  /\ NoStore \notin Stores /\ NoLock \notin [owner : Procs, stale : BOOLEAN]
ASSUME CrashesAssumption == MaxCrashes \in Nat

VARIABLES
  file,     \* ${connection}.json
  tmp,      \* ${connection}.json.tmp
  lock,     \* ${connection}.json.lock: its owner, and whether it is older than 30 s
  fd,       \* the file that a process has open for writing, by the name it has now
  pc,       \* the next file operation of a process
  mem,      \* the store that a process is saving
  aged,     \* history: a lock was 30 s old
  stolen,   \* history: a process removed the lock of another that was writing
  crashes   \* bound: processes that have died

fileVars == <<file, tmp, lock, fd, pc, mem, aged, stolen, crashes>>

Whole    == Stores \union {Foreign}
Contents == Whole \union {Absent, Blank, Torn}
\* Where a process holds the lock.
Holding  == {"open", "write", "rename", "release", "release_failed"}
Saving   == Holding \union {"acquire", "stat", "break"}
Holds(p) == pc[p] \in Holding

FileTypeOK ==
  /\ file \in Contents /\ tmp \in Contents
  /\ lock \in [owner : Procs, stale : BOOLEAN] \union {NoLock}
  /\ fd \in [Procs -> {"none", "tmp", "file", "gone"}]
  /\ pc \in [Procs -> {"idle"} \union Saving]
  /\ mem \in [Procs -> Stores \union {NoStore}]
  /\ \A p \in Procs : pc[p] \in Saving => mem[p] \in Stores
  /\ aged \in BOOLEAN /\ stolen \in BOOLEAN
  /\ crashes \in 0..MaxCrashes

\* Nobody is in a save; one that died in an earlier save may have left its lock and
\* what it had written.
NoSaves ==
  /\ tmp \in {Absent, Torn}
  /\ lock \in {NoLock} \union [owner : Procs, stale : {FALSE}]
  /\ fd = [p \in Procs |-> "none"]
  /\ pc = [p \in Procs |-> "idle"]
  /\ mem = [p \in Procs |-> NoStore]
  /\ aged = FALSE /\ stolen = FALSE
  /\ crashes = 0
FileInit == file \in Whole \union {Absent} /\ NoSaves

-----------------------------------------------------------------------------
\* saveTemplateStore is called with a store.
Save(p, store) ==
  /\ pc[p] = "idle"
  /\ pc' = [pc EXCEPT ![p] = "acquire"]
  /\ mem' = [mem EXCEPT ![p] = store]
  /\ UNCHANGED <<file, tmp, lock, fd, aged, stolen, crashes>>

\* The save goes on, or ends, without a change to a file.
Goto(p, label) ==
  /\ pc' = [pc EXCEPT ![p] = label]
  /\ mem' = IF label = "idle" THEN [mem EXCEPT ![p] = NoStore] ELSE mem
\* Mutant of OpenLock: the flag is "w", and an existing lock is no error.
OpenAnyLock(p) ==
  /\ pc[p] = "acquire"
  /\ lock' = [owner |-> p, stale |-> FALSE]
  /\ Goto(p, "open") /\ UNCHANGED <<file, tmp, fd, aged, stolen, crashes>>
\* openSync(lock, "wx")
OpenLock(p) ==
  /\ pc[p] = "acquire" /\ lock = NoLock
  /\ lock' = [owner |-> p, stale |-> FALSE]
  /\ Goto(p, "open") /\ UNCHANGED <<file, tmp, fd, aged, stolen, crashes>>
\* EEXIST
LockExists(p) ==
  /\ pc[p] = "acquire" /\ lock # NoLock
  /\ Goto(p, "stat") /\ UNCHANGED <<file, tmp, lock, fd, aged, stolen, crashes>>
LockIsStale == lock # NoLock /\ (lock # NoLock => lock.stale)
\* Mutant of AfterStat: a lock that is not stale is waited for.
AfterStatWaits == IF LockIsStale THEN "break" ELSE "acquire"
\* A lock that is not stale, or has vanished, is an error.
AfterStat == IF LockIsStale THEN "break" ELSE "idle"
StatLock(p) ==
  /\ pc[p] = "stat"
  /\ Goto(p, AfterStat) /\ UNCHANGED <<file, tmp, lock, fd, aged, stolen, crashes>>
\* unlinkSync(lock): whichever lock there is by now.  Without one it is an error, and
\* the lock has vanished; releaseLock swallows it.
Unlinked(p) ==
  /\ lock' = NoLock
  /\ stolen' = (stolen \/ \E q \in Procs \ {p} : lock # NoLock /\ lock.owner = q /\ Holds(q))
BreakLock(p) ==
  /\ pc[p] = "break"
  /\ IF lock = NoLock THEN Goto(p, "idle") ELSE Goto(p, "acquire")
  /\ Unlinked(p)
  /\ UNCHANGED <<file, tmp, fd, aged, crashes>>

-----------------------------------------------------------------------------
\* writeFileSync(tmp) empties the file, or makes it.
OpenTmp(p) ==
  /\ pc[p] = "open"
  /\ tmp' = Blank /\ fd' = [fd EXCEPT ![p] = "tmp"]
  /\ Goto(p, "write") /\ UNCHANGED <<file, lock, aged, stolen, crashes>>
\* It writes through the open file, whatever its name is by now.  On top of what
\* another has written the result may be neither.
Written(content, store) == IF content = Blank THEN {store} ELSE {store, Torn}
Write(p, label, onTmp, onFile) ==
  /\ pc[p] = "write"
  /\ tmp'  \in IF fd[p] = "tmp" THEN onTmp ELSE {tmp}
  /\ file' \in IF fd[p] = "file" THEN onFile ELSE {file}
  /\ fd' = [fd EXCEPT ![p] = "none"]
  /\ Goto(p, label) /\ UNCHANGED <<lock, aged, stolen, crashes>>
WriteTmp(p) == Write(p, "rename", Written(tmp, mem[p]), Written(file, mem[p]))
\* Mutant of AfterShortWrite: the error is swallowed.
AfterShortWriteGoOn == "rename"
AfterShortWrite == "release_failed"
\* The disk is full.
WriteFails(p) == Write(p, AfterShortWrite, {tmp, Torn}, {file, Torn})
\* renameSync(tmp, file): what others have open moves along.
Moved == [q \in Procs |-> CASE fd[q] = "tmp" -> "file" [] fd[q] = "file" -> "gone" [] OTHER -> fd[q]]
RenameTmp(p) ==
  /\ pc[p] = "rename" /\ tmp # Absent
  /\ file' = tmp /\ tmp' = Absent /\ fd' = Moved
  /\ Goto(p, "release") /\ UNCHANGED <<lock, aged, stolen, crashes>>
\* An operation fails without effect: permissions, or the file to rename is gone.
\* Mutant of AfterFailure: without the lock the save goes on.
AfterFailureGoOn(label) == IF label = "acquire" THEN "open" ELSE "release_failed"
AfterFailure(label) == IF label = "acquire" THEN "idle" ELSE "release_failed"
OperationFails(p) ==
  /\ pc[p] \in {"acquire", "open", "rename"}
  /\ Goto(p, AfterFailure(pc[p])) /\ UNCHANGED <<file, tmp, lock, fd, aged, stolen, crashes>>
\* releaseLock, in the finally: errors are ignored.
Release(p) ==
  /\ pc[p] \in {"release", "release_failed"}
  /\ \/ Unlinked(p)
     \/ UNCHANGED <<lock, stolen>>
  /\ Goto(p, "idle") /\ UNCHANGED <<file, tmp, fd, aged, crashes>>

\* The process dies in a save; another takes its place.
Crash(p) ==
  /\ pc[p] # "idle" /\ crashes < MaxCrashes
  /\ crashes' = crashes + 1
  /\ Goto(p, "idle") /\ fd' = [fd EXCEPT ![p] = "none"]
  /\ UNCHANGED <<file, tmp, lock, aged, stolen>>
\* The lock turns 30 s old, be its owner dead or suspended.
LockAges ==
  /\ lock # NoLock /\ (lock # NoLock => ~lock.stale)
  /\ lock' = [lock EXCEPT !.stale = TRUE]
  /\ aged' = TRUE
  /\ UNCHANGED <<file, tmp, fd, pc, mem, stolen, crashes>>

FileStep(p) ==
  \/ OpenLock(p) \/ LockExists(p) \/ StatLock(p) \/ BreakLock(p)
  \/ OpenTmp(p) \/ WriteTmp(p) \/ WriteFails(p) \/ RenameTmp(p) \/ OperationFails(p) \/ Release(p)
FileNext ==
  \/ \E p \in Procs : (\E store \in Stores : Save(p, store)) \/ FileStep(p) \/ Crash(p)
  \/ LockAges
FileSpec == FileInit /\ [][FileNext]_fileVars

-----------------------------------------------------------------------------
\* The lock keeps the others out as long as none turns 30 s old, whichever processes
\* die in a save or fail in one (template-store.js:47-66, 72-83).
LockKeepsOut == ~aged => \A p, q \in Procs : Holds(p) /\ Holds(q) => p = q

\* The store's file is whole at every instant, through crashes and full disks and
\* locks that are broken, unless the lock of a process that was writing has been
\* removed by another (template-store.js:68-83).
FileWhole == file \in {Blank, Torn} => stolen

\* A save that is about to report success has its own store in the file, under the
\* same exception (template-store.js:72-83).
SavedIsOurs == \A p \in Procs : pc[p] = "release" => stolen \/ file = mem[p]
=============================================================================
