--------------------------- MODULE ArtifactPublish ---------------------------
(***************************************************************************)
(* internal/artifact/publish.go: how PIACE puts one file in place while    *)
(* other PIACE processes publish to, and load from, the same path.         *)
(*                                                                         *)
(* A writer is one call of Write or WriteNew. It stages its bytes in a     *)
(* temporary file of its own (an inode, named here by the writer) and then *)
(* renames or links that file onto the path. Each system call is one step, *)
(* any of them may fail, the process may be killed between two of them,    *)
(* and the machine may lose power.                                         *)
(***************************************************************************)
EXTENDS Naturals

CONSTANTS Writers, Readers, Nothing, Original, Device,
          MaxOutages   \* bound: how often the machine may lose power

Torn == "torn"   \* what a reader has when it read an incomplete file

ASSUME DistinctContents ==
  /\ Nothing # Original
  /\ Nothing # Device
  /\ Original # Device
  /\ {Nothing, Original, Device} \cap Writers = {}
  /\ Torn \notin Writers \cup {Nothing, Original, Device}

ASSUME MaxOutagesNat == MaxOutages \in Nat

VARIABLES
  dest,       \* the inode the path names: a writer's, or one that was there
  survivors,  \* the inodes the path may name after a power failure
  temps,      \* writers whose temporary name is still in the directory
  file,       \* each writer's inode: bytes written, mode, fsynced or not
  pc,         \* the next system call of each writer
  call,       \* the function each writer is in
  res,        \* what the call will return, or returned
  dirSynced,  \* whether the writer's fsync of the directory succeeded
  stamp,      \* history: when each writer's file was put at the path
  clock,      \* history: number of publications so far
  handle,     \* the inode each reader has open
  got,        \* what each reader's last read returned
  outages     \* power failures so far

destVars   == <<dest, survivors, stamp, clock, outages>>
writerVars == <<temps, file, pc, call, res, dirSynced>>
readerVars == <<handle, got>>
vars == <<destVars, writerVars, readerVars>>

Inodes == Writers \cup {Original}
NoFile == [bytes |-> "none", mode |-> "absent", synced |-> FALSE]

Init ==
  /\ dest \in {Nothing, Original, Device}
  /\ survivors = {dest}
  /\ temps = {}
  /\ file = [w \in Writers |-> NoFile]
  /\ pc = [w \in Writers |-> "idle"]
  /\ call = [w \in Writers |-> "none"]
  /\ res = [w \in Writers |-> "none"]
  /\ dirSynced = [w \in Writers |-> FALSE]
  /\ stamp = [w \in Writers |-> 0]
  /\ clock = 0
  /\ handle = [r \in Readers |-> Nothing]
  /\ got = [r \in Readers |-> Nothing]
  /\ outages = 0

Goto(w, l)      == pc' = [pc EXCEPT ![w] = l]
SetResult(w, v) == res' = [res EXCEPT ![w] = v]

-----------------------------------------------------------------------------
(* The calls. Write looks at the destination first, WriteNew does not.     *)

CallWrite(w) ==
  /\ pc[w] = "idle"
  /\ call' = [call EXCEPT ![w] = "Write"]
  /\ Goto(w, "stat")
  /\ UNCHANGED <<temps, file, res, dirSynced, destVars, readerVars>>

CallWriteNew(w) ==
  /\ pc[w] = "idle"
  /\ call' = [call EXCEPT ![w] = "WriteNew"]
  /\ Goto(w, "create")
  /\ UNCHANGED <<temps, file, res, dirSynced, destVars, readerVars>>

\* writeInPlaceIfNonRegular: only a path that resolves to something other
\* than a regular file is written in place.
Stat(w) ==
  /\ pc[w] = "stat"
  /\ Goto(w, IF dest = Device THEN "inplace" ELSE "create")
  /\ UNCHANGED <<temps, file, call, res, dirSynced, destVars, readerVars>>

WriteInPlace(w) ==
  /\ pc[w] = "inplace"
  /\ \E outcome \in {"ok", "failed"} : SetResult(w, outcome)
  /\ Goto(w, "done")
  /\ UNCHANGED <<temps, file, call, dirSynced, destVars, readerVars>>

-----------------------------------------------------------------------------
(* stage: a temporary file beside the path, complete before it is named.   *)

CreateTemp(w) ==
  /\ pc[w] = "create"
  /\ \/ /\ temps' = temps \cup {w}
        /\ file' = [file EXCEPT ![w].mode = "private"]
        /\ Goto(w, "chmod")
        /\ UNCHANGED res
     \/ /\ SetResult(w, "failed")     \* MkdirAll or CreateTemp fails
        /\ Goto(w, "done")
        /\ UNCHANGED <<temps, file>>
  /\ UNCHANGED <<call, dirSynced, destVars, readerVars>>

Chmod(w) ==
  /\ pc[w] = "chmod"
  /\ file' = [file EXCEPT ![w].mode = "requested"]
  /\ Goto(w, "write")
  /\ UNCHANGED <<temps, call, res, dirSynced, destVars, readerVars>>

\* f.Write takes effect piecemeal; it ends with the last byte.
WriteBytes(w) ==
  /\ pc[w] = "write"
  /\ \/ /\ file[w].bytes = "none"
        /\ file' = [file EXCEPT ![w].bytes = "some"]
        /\ UNCHANGED pc
     \/ /\ file[w].bytes = "some"
        /\ file' = [file EXCEPT ![w].bytes = "all"]
        /\ Goto(w, "sync")
  /\ UNCHANGED <<temps, call, res, dirSynced, destVars, readerVars>>

\* Mutant: the file is not fsynced before it is published.
SyncFileSkipped(w) ==
  /\ pc[w] = "sync"
  /\ Goto(w, "publish")
  /\ UNCHANGED <<temps, file, call, res, dirSynced, destVars, readerVars>>

SyncFile(w) ==
  /\ pc[w] = "sync"
  /\ file' = [file EXCEPT ![w].synced = TRUE]
  /\ Goto(w, "publish")
  /\ UNCHANGED <<temps, call, res, dirSynced, destVars, readerVars>>

\* Mutant: stage returns its error without removing the file.
StageErrorKeepsTemp(w) ==
  /\ pc[w] \in {"chmod", "write", "sync"}
  /\ SetResult(w, "failed")
  /\ Goto(w, "done")
  /\ UNCHANGED <<temps, file, call, dirSynced, destVars, readerVars>>

\* Any of the four calls on the open file may fail: stage then removes it.
StageError(w) ==
  /\ pc[w] \in {"chmod", "write", "sync"}
  /\ SetResult(w, "failed")
  /\ Goto(w, "cleanup")
  /\ UNCHANGED <<temps, file, call, dirSynced, destVars, readerVars>>

-----------------------------------------------------------------------------
(* Publication: one rename, or one link the kernel refuses on a clash.     *)

PutAtPath(w) ==
  /\ dest' = w
  /\ survivors' = survivors \cup {w}
  /\ clock' = clock + 1
  /\ stamp' = [stamp EXCEPT ![w] = clock + 1]
  /\ UNCHANGED outages

Rename(w) ==
  /\ pc[w] = "publish"
  /\ call[w] = "Write"
  /\ PutAtPath(w)
  /\ temps' = temps \ {w}
  /\ SetResult(w, "ok")
  /\ Goto(w, "syncdir")
  /\ UNCHANGED <<file, call, dirSynced, readerVars>>

\* Mutant: a separate existence check followed by a rename.
LinkReplacing(w) ==
  /\ pc[w] = "publish"
  /\ call[w] = "WriteNew"
  /\ PutAtPath(w)
  /\ SetResult(w, "ok")
  /\ Goto(w, "syncdir")
  /\ UNCHANGED <<temps, file, call, dirSynced, readerVars>>

Link(w) ==
  /\ pc[w] = "publish"
  /\ call[w] = "WriteNew"
  /\ dest = Nothing
  /\ PutAtPath(w)
  /\ SetResult(w, "ok")
  /\ Goto(w, "syncdir")
  /\ UNCHANGED <<temps, file, call, dirSynced, readerVars>>

\* Mutant: a refused link is tried again with a new temporary file.
LinkRefusedRetries(w) ==
  /\ pc[w] = "publish"
  /\ call[w] = "WriteNew"
  /\ dest # Nothing
  /\ temps' = temps \ {w}
  /\ file' = [file EXCEPT ![w] = NoFile]
  /\ Goto(w, "create")
  /\ UNCHANGED <<call, res, dirSynced, destVars, readerVars>>

LinkRefused(w) ==
  /\ pc[w] = "publish"
  /\ call[w] = "WriteNew"
  /\ dest # Nothing
  /\ SetResult(w, "exists")
  /\ Goto(w, "cleanup")
  /\ UNCHANGED <<temps, file, call, dirSynced, destVars, readerVars>>

\* Mutant: an error after the rename took effect is returned as a failure.
PublishErrorLate(w) ==
  /\ pc[w] = "publish"
  /\ call[w] = "Write"
  /\ PutAtPath(w)
  /\ SetResult(w, "failed")
  /\ Goto(w, "cleanup")
  /\ UNCHANGED <<temps, file, call, dirSynced, readerVars>>

\* The rename or the link fails for another reason (no hard links, I/O).
PublishError(w) ==
  /\ pc[w] = "publish"
  /\ SetResult(w, "failed")
  /\ Goto(w, "cleanup")
  /\ UNCHANGED <<temps, file, call, dirSynced, destVars, readerVars>>

\* Mutant: another directory than the path's is fsynced.
SyncDirElsewhere(w) ==
  /\ pc[w] = "syncdir"
  /\ dirSynced' = [dirSynced EXCEPT ![w] = TRUE]
  /\ Goto(w, "cleanup")
  /\ UNCHANGED <<destVars, temps, file, call, res, readerVars>>

\* syncDirBestEffort ignores every failure.
SyncDir(w) ==
  /\ pc[w] = "syncdir"
  /\ \/ /\ survivors' = {dest}
        /\ dirSynced' = [dirSynced EXCEPT ![w] = TRUE]
     \/ UNCHANGED <<survivors, dirSynced>>
  /\ Goto(w, "cleanup")
  /\ UNCHANGED <<dest, stamp, clock, outages, temps, file, call, res, readerVars>>

\* The deferred os.Remove, and the one in stage's error path.
Cleanup(w) ==
  /\ pc[w] = "cleanup"
  /\ temps' = temps \ {w}
  /\ Goto(w, "done")
  /\ UNCHANGED <<file, call, res, dirSynced, destVars, readerVars>>

-----------------------------------------------------------------------------
(* What may happen to the processes and the machine.                       *)

InCall(w) == pc[w] \notin {"idle", "done", "crashed"}

Crash(w) ==
  /\ InCall(w)
  /\ Goto(w, "crashed")
  /\ UNCHANGED <<temps, file, call, res, dirSynced, destVars, readerVars>>

AtRisk == {w \in Writers : file[w].bytes # "none" /\ ~file[w].synced}

\* Every process stops. The path names one of the inodes it may still name;
\* an inode that was not fsynced keeps any part of its bytes; any temporary
\* name that was ever created may be in the directory.
PowerFailure ==
  /\ outages < MaxOutages
  /\ outages' = outages + 1
  /\ \E i \in survivors : dest' = i /\ survivors' = {i}
  /\ \E b \in [AtRisk -> {"none", "some", "all"}] :
       file' = [w \in Writers |->
                  IF w \in AtRisk THEN [file[w] EXCEPT !.bytes = b[w]] ELSE file[w]]
  /\ temps' \in SUBSET {w \in Writers : file[w].mode # "absent"}
  /\ pc' = [w \in Writers |-> IF InCall(w) THEN "crashed" ELSE pc[w]]
  /\ handle' = [r \in Readers |-> Nothing]
  /\ UNCHANGED <<call, res, dirSynced, stamp, clock, got>>

-----------------------------------------------------------------------------
(* snapshot.Load's readBounded: open the path, then read what was opened.  *)

Open(r) ==
  /\ handle[r] = Nothing
  /\ dest \in Inodes
  /\ handle' = [handle EXCEPT ![r] = dest]
  /\ UNCHANGED <<got, destVars, writerVars>>

Whole(i) == i \in Writers => file[i].bytes = "all"

ReadAll(r) ==
  /\ handle[r] # Nothing
  /\ got' = [got EXCEPT ![r] = IF Whole(handle[r]) THEN handle[r] ELSE Torn]
  /\ handle' = [handle EXCEPT ![r] = Nothing]
  /\ UNCHANGED <<destVars, writerVars>>

-----------------------------------------------------------------------------
CallStep(w) ==
  \/ Stat(w)
  \/ WriteInPlace(w)
  \/ CreateTemp(w)
  \/ Chmod(w)
  \/ WriteBytes(w)
  \/ SyncFile(w)
  \/ StageError(w)
  \/ Rename(w)
  \/ Link(w)
  \/ LinkRefused(w)
  \/ PublishError(w)
  \/ SyncDir(w)
  \/ Cleanup(w)

WriterStep(w) ==
  \/ CallWrite(w)
  \/ CallWriteNew(w)
  \/ CallStep(w)
  \/ Crash(w)

Next ==
  \/ \E w \in Writers : WriterStep(w)
  \/ \E r \in Readers : Open(r) \/ ReadAll(r)
  \/ PowerFailure

Spec == Init /\ [][Next]_vars

\* No step of a call waits for another process: one that is not killed runs on.
FairSpec == Spec /\ \A w \in Writers : WF_vars(CallStep(w))
-----------------------------------------------------------------------------
(* Properties.                                                             *)

Labels == {"idle", "stat", "inplace", "create", "chmod", "write", "sync",
           "publish", "syncdir", "cleanup", "done", "crashed"}

TypeOK ==
  /\ dest \in Inodes \cup {Nothing, Device}
  /\ survivors \in SUBSET (Inodes \cup {Nothing, Device})
  /\ temps \in SUBSET Writers
  /\ file \in [Writers -> [bytes : {"none", "some", "all"},
                           mode : {"absent", "private", "requested"},
                           synced : BOOLEAN]]
  /\ pc \in [Writers -> Labels]
  /\ call \in [Writers -> {"none", "Write", "WriteNew"}]
  /\ res \in [Writers -> {"none", "ok", "exists", "failed"}]
  /\ dirSynced \in [Writers -> BOOLEAN]
  /\ stamp \in [Writers -> Nat]
  /\ clock \in Nat
  /\ outages \in Nat
  /\ handle \in [Readers -> Inodes \cup {Nothing}]
  /\ got \in [Readers -> Inodes \cup {Nothing, Torn}]

\* Whatever inode the path names, or may name after a power failure, holds
\* every byte, was fsynced and has the requested mode: fsync comes before
\* rename and link in stage (publish.go, Write's doc comment).
PublishedWhole ==
  \A w \in Writers :
    (dest = w \/ w \in survivors) =>
      file[w] = [bytes |-> "all", mode |-> "requested", synced |-> TRUE]

\* A process that loads the path while others publish to it gets the previous
\* file or the complete new one, never part of one (package comment).
NoTornRead == \A r \in Readers : got[r] # Torn

\* No byte is in a file that does not have the requested mode yet, so content
\* is never readable under the wrong mode (Write's doc comment on perm).
ModeBeforeBytes ==
  \A w \in Writers : file[w].bytes # "none" => file[w].mode = "requested"

StampOf(i) == IF i \in Writers THEN stamp[i] ELSE 0

\* Once a call has returned nil and its fsync of the directory worked, no
\* power failure brings back anything older than what it published ("returns
\* only after the new content is durable").
DurableOnceReturned ==
  \A w \in Writers :
    (res[w] = "ok" /\ dirSynced[w]) =>
      \A i \in survivors : StampOf(i) >= stamp[w]

\* Of any number of WriteNew calls racing for a path at most one succeeds, even
\* across power failures, as long as its directory fsync worked ("two
\* concurrent writers therefore cannot both succeed").
OneNewWinner ==
  \A v, w \in Writers :
    (/\ call[v] = "WriteNew" /\ res[v] = "ok" /\ dirSynced[v]
     /\ call[w] = "WriteNew" /\ res[w] = "ok" /\ dirSynced[w]) => v = w

\* A call reports success only when its file was put at the path (or handed to
\* a device), and an error never hides a publication that took effect.
ResultTellsTruth ==
  \A w \in Writers :
    pc[w] \in {"cleanup", "done"} =>
      /\ stamp[w] > 0 => res[w] = "ok"
      /\ res[w] = "ok" => stamp[w] > 0 \/ (call[w] = "Write" /\ dest = Device)

\* No step of WriteNew takes away a file that is at the path.
NewNeverReplaces ==
  [][\A w \in Writers :
       (call[w] = "WriteNew" /\ stamp'[w] # stamp[w]) => dest = Nothing]_vars

\* A call that returns, successfully or not, leaves no temporary name behind;
\* only a killed process does.
ReturnLeavesNoTemp ==
  [][\A w \in Writers :
       (pc[w] # "done" /\ pc'[w] = "done") => w \notin temps']_vars

\* A call whose process is not killed returns: it never waits for another
\* writer, whatever fails on the way.
CallsReturn ==
  \A w \in Writers : InCall(w) ~> pc[w] \in {"done", "crashed"}

-----------------------------------------------------------------------------
(* The inductive invariant behind the properties above.                    *)

WholeFile == [bytes |-> "all", mode |-> "requested", synced |-> TRUE]

\* What each writer has done by the time it reaches a system call.
Progress ==
  \A w \in Writers :
    /\ pc[w] \in {"idle", "stat", "inplace", "create"} =>
         file[w] = NoFile /\ w \notin temps
    /\ pc[w] = "chmod" => file[w].bytes = "none" /\ ~file[w].synced
    /\ pc[w] = "write" => file[w].mode = "requested"
    /\ pc[w] = "sync" => file[w].bytes = "all" /\ file[w].mode = "requested"
    /\ pc[w] = "publish" => file[w] = WholeFile
    /\ pc[w] \in {"stat", "inplace"} => call[w] = "Write"
    /\ pc[w] \in {"cleanup", "done"} => res[w] # "none"

\* A file that was ever put at the path is whole, and only a call that is past
\* its publication has a stamp; that call's result is settled with it.
Published ==
  \A w \in Writers :
    /\ stamp[w] <= clock
    /\ stamp[w] > 0 =>
         /\ file[w] = WholeFile
         /\ res[w] = "ok"
         /\ call[w] \in {"Write", "WriteNew"}
         /\ pc[w] \in {"syncdir", "cleanup", "done", "crashed"}
    /\ pc[w] = "syncdir" => stamp[w] > 0 /\ StampOf(dest) >= stamp[w]
    /\ dirSynced[w] => stamp[w] > 0

\* Everything the path names, may name, or a reader has open was published.
Reachable ==
  /\ dest \in survivors
  /\ \A w \in Writers :
       (w \in survivors \/ \E r \in Readers : handle[r] = w) => stamp[w] > 0

\* A device is never replaced, and a writer that will rename did not see one.
DeviceStays ==
  /\ Device \in survivors => survivors = {Device}
  /\ \A w \in Writers :
       /\ pc[w] = "inplace" => dest = Device
       /\ (call[w] = "Write" /\ pc[w] \in {"create", "chmod", "write", "sync", "publish"})
            => dest # Device

\* A WriteNew whose publication is, or may still become, permanent is alone.
Holds(w) == call[w] = "WriteNew" /\ (dirSynced[w] \/ pc[w] = "syncdir")
OneHolder == \A v, w \in Writers : Holds(v) /\ Holds(w) => v = w

IInv ==
  /\ TypeOK
  /\ Progress
  /\ Published
  /\ Reachable
  /\ DeviceStays
  /\ OneHolder
  /\ ModeBeforeBytes
  /\ NoTornRead
  /\ DurableOnceReturned
  /\ ResultTellsTruth

-----------------------------------------------------------------------------
(* Refinement: the promise of AtomicFile, whose calls take effect at one   *)
(* step and whose readers get a whole content.                             *)

PhaseOf(w) ==
  CASE pc[w] = "idle" -> "idle"
    [] pc[w] = "crashed" -> "gone"
    [] pc[w] = "syncdir" -> "applied"
    [] pc[w] \in {"cleanup", "done"} -> res[w]
    [] OTHER -> "called"

Promise == INSTANCE AtomicFile WITH
  content <- dest,
  keep    <- survivors,
  phase   <- [w \in Writers |-> PhaseOf(w)],
  settled <- dirSynced,
  looking <- handle

ImplementsAtomicFile == Promise!Spec
=============================================================================
