------------------------ MODULE ArtifactPublishProofs ------------------------
(***************************************************************************)
(* Proofs about ArtifactPublish for any number of writers, readers and     *)
(* power failures. Each invariance proof has one step per action of the    *)
(* specification.                                                          *)
(***************************************************************************)
EXTENDS ArtifactPublish, TLAPS

\* No step takes a variable out of its type.
LEMMA TypeStep == TypeOK /\ [Next]_vars => TypeOK'
<1> SUFFICES ASSUME TypeOK, [Next]_vars PROVE TypeOK'
  OBVIOUS
<1> USE DEF TypeOK, Labels, Goto, SetResult, destVars, writerVars, readerVars
<1>1. ASSUME NEW w \in Writers, CallWrite(w) PROVE TypeOK'
  BY <1>1 DEF CallWrite
<1>2. ASSUME NEW w \in Writers, CallWriteNew(w) PROVE TypeOK'
  BY <1>2 DEF CallWriteNew
<1>3. ASSUME NEW w \in Writers, Stat(w) PROVE TypeOK'
  BY <1>3 DEF Stat
<1>4. ASSUME NEW w \in Writers, WriteInPlace(w) PROVE TypeOK'
  BY <1>4 DEF WriteInPlace
<1>5. ASSUME NEW w \in Writers, CreateTemp(w) PROVE TypeOK'
  <2>1. CASE res' = res /\ temps' = temps \cup {w}
             /\ file' = [file EXCEPT ![w].mode = "private"] /\ Goto(w, "chmod")
    BY <1>5, <2>1 DEF CreateTemp
  <2>2. CASE SetResult(w, "failed") /\ Goto(w, "done") /\ UNCHANGED <<temps, file>>
    BY <1>5, <2>2 DEF CreateTemp
  <2>3. QED
    BY <1>5, <2>1, <2>2 DEF CreateTemp
<1>6. ASSUME NEW w \in Writers, Chmod(w) PROVE TypeOK'
  BY <1>6 DEF Chmod
<1>7. ASSUME NEW w \in Writers, WriteBytes(w) PROVE TypeOK'
  <2>1. CASE file' = [file EXCEPT ![w].bytes = "some"] /\ pc' = pc
    BY SMTT(30), <1>7, <2>1 DEF WriteBytes
  <2>2. CASE file' = [file EXCEPT ![w].bytes = "all"] /\ Goto(w, "sync")
    BY SMTT(30), <1>7, <2>2 DEF WriteBytes
  <2>3. QED
    BY <1>7, <2>1, <2>2 DEF WriteBytes
<1>8. ASSUME NEW w \in Writers, SyncFile(w) PROVE TypeOK'
  <2> DEFINE F == [bytes : {"none", "some", "all"}, mode : {"absent", "private", "requested"},
                   synced : BOOLEAN]
  <2>1. file \in [Writers -> F] /\ file' = [file EXCEPT ![w] = [file[w] EXCEPT !.synced = TRUE]]
    BY <1>8 DEF SyncFile
  <2>2. [file[w] EXCEPT !.synced = TRUE] \in F
    <3>1. ASSUME NEW g \in F  PROVE [g EXCEPT !.synced = TRUE] \in F
      OBVIOUS
    <3>2. file[w] \in F  BY <2>1
    <3> HIDE DEF F
    <3> QED BY ONLY <3>1, <3>2
  <2> HIDE DEF F
  <2>3. file' \in [Writers -> F]
    BY ONLY <2>1, <2>2
  <2>4. pc' \in [Writers -> Labels]
    BY <1>8 DEF SyncFile
  <2>5. QED
    BY <1>8, <2>3, <2>4 DEF SyncFile, F
<1>9. ASSUME NEW w \in Writers, StageError(w) PROVE TypeOK'
  BY <1>9 DEF StageError
<1>10. ASSUME NEW w \in Writers, Rename(w) PROVE TypeOK'
  BY <1>10 DEF Rename, PutAtPath, Inodes
<1>11. ASSUME NEW w \in Writers, Link(w) PROVE TypeOK'
  BY <1>11 DEF Link, PutAtPath, Inodes
<1>12. ASSUME NEW w \in Writers, LinkRefused(w) PROVE TypeOK'
  BY <1>12 DEF LinkRefused
<1>13. ASSUME NEW w \in Writers, PublishError(w) PROVE TypeOK'
  BY <1>13 DEF PublishError
<1>14. ASSUME NEW w \in Writers, SyncDir(w) PROVE TypeOK'
  BY <1>14 DEF SyncDir
<1>15. ASSUME NEW w \in Writers, Cleanup(w) PROVE TypeOK'
  BY <1>15 DEF Cleanup
<1>16. ASSUME NEW w \in Writers, Crash(w) PROVE TypeOK'
  BY <1>16 DEF Crash
<1>17. CASE PowerFailure
  <2>1. dest' \in Inodes \cup {Nothing, Device}
        /\ survivors' \in SUBSET (Inodes \cup {Nothing, Device})
    BY <1>17 DEF PowerFailure
  <2>2. file' \in [Writers -> [bytes : {"none", "some", "all"},
                               mode : {"absent", "private", "requested"},
                               synced : BOOLEAN]]
    <3>1. PICK b \in [AtRisk -> {"none", "some", "all"}] :
            file' = [w \in Writers |->
                       IF w \in AtRisk THEN [file[w] EXCEPT !.bytes = b[w]] ELSE file[w]]
      BY <1>17 DEF PowerFailure
    <3>2. QED
      BY <3>1
  <2>3. pc' \in [Writers -> Labels]
    BY <1>17 DEF PowerFailure, InCall
  <2>4. temps' \in SUBSET Writers
    BY <1>17 DEF PowerFailure
  <2>5. handle' \in [Readers -> Inodes \cup {Nothing}] /\ outages' \in Nat
    BY <1>17 DEF PowerFailure
  <2>6. QED
    BY <1>17, <2>1, <2>2, <2>3, <2>4, <2>5 DEF PowerFailure
<1>18. ASSUME NEW r \in Readers, Open(r) PROVE TypeOK'
  BY <1>18 DEF Open
<1>19. ASSUME NEW r \in Readers, ReadAll(r) PROVE TypeOK'
  BY <1>19 DEF ReadAll
<1>20. CASE UNCHANGED vars
  BY <1>20 DEF vars
<1>21. QED
  BY <1>1, <1>2, <1>3, <1>4, <1>5, <1>6, <1>7, <1>8, <1>9, <1>10, <1>11, <1>12,
     <1>13, <1>14, <1>15, <1>16, <1>17, <1>18, <1>19, <1>20
     DEF Next, WriterStep, CallStep

\* Every variable keeps its type whatever the processes and the machine do.
THEOREM TypeCorrect == Spec => []TypeOK
<1>1. Init => TypeOK
  BY DEF Init, TypeOK, Inodes, Labels, NoFile
<1>2. QED
  BY <1>1, TypeStep, PTL DEF Spec

-----------------------------------------------------------------------------
(* The inductive invariant.                                                *)

\* The strengthened invariant holds initially.
LEMMA InitInv == Init => IInv
BY DistinctContents
   DEF Init, IInv, TypeOK, Inodes, Labels, NoFile, WholeFile, Progress, Published,
       Reachable, DeviceStays, OneHolder, Holds, ModeBeforeBytes, NoTornRead,
       DurableOnceReturned, ResultTellsTruth, StampOf

\* Every step preserves the strengthened invariant.
LEMMA NextInv == IInv /\ [Next]_vars => IInv'
<1> SUFFICES ASSUME IInv, [Next]_vars PROVE IInv'
  OBVIOUS
<1> USE DistinctContents
<1> USE DEF IInv, destVars, writerVars, readerVars, Goto, SetResult
<1>0. TypeOK'
  BY TypeStep
<1> DEFINE Rest == /\ Progress /\ Published /\ Reachable /\ DeviceStays /\ OneHolder
                   /\ ModeBeforeBytes /\ NoTornRead /\ DurableOnceReturned /\ ResultTellsTruth
<1> SUFFICES Rest'
  BY <1>0
<1>1. ASSUME NEW w \in Writers, CallWrite(w) PROVE Rest'
  BY <1>0, <1>1 DEF CallWrite, TypeOK, Inodes, Labels, Progress, Published, Reachable, DeviceStays, OneHolder, Holds,
     ModeBeforeBytes, NoTornRead, DurableOnceReturned, ResultTellsTruth, StampOf, NoFile, WholeFile
<1>2. ASSUME NEW w \in Writers, CallWriteNew(w) PROVE Rest'
  BY <1>0, <1>2 DEF CallWriteNew, TypeOK, Inodes, Labels, Progress, Published, Reachable, DeviceStays, OneHolder, Holds,
     ModeBeforeBytes, NoTornRead, DurableOnceReturned, ResultTellsTruth, StampOf, NoFile, WholeFile
<1>3. ASSUME NEW w \in Writers, Stat(w) PROVE Rest'
  BY <1>0, <1>3 DEF Stat, TypeOK, Inodes, Labels, Progress, Published, Reachable, DeviceStays, OneHolder, Holds,
     ModeBeforeBytes, NoTornRead, DurableOnceReturned, ResultTellsTruth, StampOf, NoFile, WholeFile
<1>4. ASSUME NEW w \in Writers, WriteInPlace(w) PROVE Rest'
  BY <1>0, <1>4 DEF WriteInPlace, TypeOK, Inodes, Labels, Progress, Published, Reachable, DeviceStays, OneHolder, Holds,
     ModeBeforeBytes, NoTornRead, DurableOnceReturned, ResultTellsTruth, StampOf, NoFile, WholeFile
<1>5. ASSUME NEW w \in Writers, CreateTemp(w) PROVE Rest'
  <2>1. CASE /\ file' = [file EXCEPT ![w].mode = "private"]
             /\ temps' = temps \cup {w} /\ Goto(w, "chmod") /\ res' = res
    <3>1. /\ file'[w].mode = "private" /\ file'[w].bytes = "none"
          /\ ~file'[w].synced /\ pc'[w] = "chmod" /\ res' = res
          /\ \A v \in Writers \ {w} : file'[v] = file[v] /\ pc'[v] = pc[v]
      BY <1>5, <2>1 DEF CreateTemp, TypeOK, Progress, NoFile
    <3>2. Progress' /\ stamp[w] = 0
      <4>1. stamp[w] = 0
        BY <1>5 DEF CreateTemp, TypeOK, Published
      <4>2. /\ call' = call /\ res' = res
            /\ \A v \in Writers \ {w} : v \in temps' <=> v \in temps
        BY <1>5, <2>1 DEF CreateTemp
      <4>3. Progress'
        BY <1>5, <3>1, <4>2 DEF CreateTemp, Progress, NoFile, WholeFile
      <4>4. QED
        BY <4>1, <4>3
    <3>3. Published' /\ Reachable'
      BY <1>0, <1>5, <3>1, <3>2 DEF CreateTemp, TypeOK, Inodes, Published, Reachable, StampOf
    <3>4. DeviceStays' /\ OneHolder'
      BY <1>0, <1>5, <3>1 DEF CreateTemp, TypeOK, DeviceStays, OneHolder, Holds
    <3>5. ModeBeforeBytes'
      BY <1>0, <1>5, <3>1 DEF CreateTemp, TypeOK, ModeBeforeBytes, Progress, NoFile
    <3>6. NoTornRead' /\ DurableOnceReturned' /\ ResultTellsTruth'
      BY <1>0, <1>5, <3>1 DEF CreateTemp, TypeOK, NoTornRead, DurableOnceReturned,
         ResultTellsTruth, StampOf
    <3>7. QED
      BY <3>2, <3>3, <3>4, <3>5, <3>6
  <2>2. CASE SetResult(w, "failed") /\ Goto(w, "done") /\ UNCHANGED <<temps, file>>
    BY <1>0, <1>5, <2>2 DEF CreateTemp, TypeOK, Inodes, Labels, Progress, Published,
       Reachable, DeviceStays, OneHolder, Holds, ModeBeforeBytes, NoTornRead,
       DurableOnceReturned, ResultTellsTruth, StampOf, NoFile, WholeFile
  <2>3. QED
    BY <1>5, <2>1, <2>2 DEF CreateTemp
<1>6. ASSUME NEW w \in Writers, Chmod(w) PROVE Rest'
  <2>1. /\ file'[w].mode = "requested" /\ file'[w].bytes = file[w].bytes /\ file'[w].synced = file[w].synced
        /\ \A v \in Writers \ {w} : file'[v] = file[v] /\ pc'[v] = pc[v]
        /\ pc'[w] = "write"
    BY <1>6 DEF Chmod, TypeOK
  <2>2. stamp[w] = 0
    BY SMTT(30), <1>6 DEF Chmod, Published, TypeOK
  <2>3. Progress'
    BY <1>0, <1>6, <2>1 DEF Chmod, TypeOK, Labels, Progress, NoFile, WholeFile
  <2>4. Published' /\ Reachable'
    BY <1>0, <1>6, <2>1, <2>2 DEF Chmod, TypeOK, Inodes, Published, Reachable, StampOf
  <2>5. DeviceStays' /\ OneHolder'
    BY <1>0, <1>6, <2>1 DEF Chmod, TypeOK, DeviceStays, OneHolder, Holds
  <2>6. ModeBeforeBytes'
    BY <1>0, <1>6, <2>1 DEF Chmod, TypeOK, ModeBeforeBytes, Progress, NoFile
  <2>7. NoTornRead' /\ DurableOnceReturned' /\ ResultTellsTruth'
    BY <1>0, <1>6, <2>1 DEF Chmod, TypeOK, NoTornRead, DurableOnceReturned,
       ResultTellsTruth, StampOf
  <2>8. QED
    BY <2>3, <2>4, <2>5, <2>6, <2>7
<1>7. ASSUME NEW w \in Writers, WriteBytes(w) PROVE Rest'
  <2>1. CASE file[w].bytes = "none" /\ file' = [file EXCEPT ![w].bytes = "some"] /\ pc' = pc
    <3>1. /\ file'[w].bytes = "some" /\ file'[w].mode = file[w].mode
          /\ file'[w].synced = file[w].synced /\ pc'[w] = "write"
          /\ \A v \in Writers \ {w} : file'[v] = file[v] /\ pc'[v] = pc[v]
      BY <1>7, <2>1 DEF WriteBytes, TypeOK
    <3>2. Progress' /\ stamp[w] = 0
      <4>1. stamp[w] = 0
        BY <1>7 DEF WriteBytes, TypeOK, Published
      <4>2. /\ call' = call /\ res' = res
            /\ \A v \in Writers \ {w} : v \in temps' <=> v \in temps
        BY <1>7 DEF WriteBytes
      <4>3. Progress'
        BY <1>7, <3>1, <4>2 DEF WriteBytes, Progress, NoFile, WholeFile
      <4>4. QED
        BY <4>1, <4>3
    <3>3. Published' /\ Reachable'
      BY <1>0, <1>7, <3>1, <3>2 DEF WriteBytes, TypeOK, Inodes, Published, Reachable, StampOf
    <3>4. DeviceStays' /\ OneHolder'
      BY <1>0, <1>7, <3>1 DEF WriteBytes, TypeOK, DeviceStays, OneHolder, Holds
    <3>5. ModeBeforeBytes'
      BY <1>0, <1>7, <3>1 DEF WriteBytes, TypeOK, ModeBeforeBytes, Progress, NoFile
    <3>6. NoTornRead' /\ DurableOnceReturned' /\ ResultTellsTruth'
      BY <1>0, <1>7, <3>1 DEF WriteBytes, TypeOK, NoTornRead, DurableOnceReturned,
         ResultTellsTruth, StampOf
    <3>7. QED
      BY <3>2, <3>3, <3>4, <3>5, <3>6
  <2>2. CASE file' = [file EXCEPT ![w].bytes = "all"] /\ Goto(w, "sync")
    <3>1. /\ file'[w].bytes = "all" /\ file'[w].mode = file[w].mode
          /\ file'[w].synced = file[w].synced /\ pc'[w] = "sync"
          /\ \A v \in Writers \ {w} : file'[v] = file[v] /\ pc'[v] = pc[v]
      BY <1>7, <2>2 DEF WriteBytes, TypeOK
    <3>2. Progress' /\ stamp[w] = 0
      <4>1. stamp[w] = 0
        BY <1>7 DEF WriteBytes, TypeOK, Published
      <4>2. /\ call' = call /\ res' = res
            /\ \A v \in Writers \ {w} : v \in temps' <=> v \in temps
        BY <1>7 DEF WriteBytes
      <4>3. Progress'
        BY <1>7, <3>1, <4>2 DEF WriteBytes, Progress, NoFile, WholeFile
      <4>4. QED
        BY <4>1, <4>3
    <3>3. Published' /\ Reachable'
      BY <1>0, <1>7, <3>1, <3>2 DEF WriteBytes, TypeOK, Inodes, Published, Reachable, StampOf
    <3>4. DeviceStays' /\ OneHolder'
      BY <1>0, <1>7, <3>1 DEF WriteBytes, TypeOK, DeviceStays, OneHolder, Holds
    <3>5. ModeBeforeBytes'
      BY <1>0, <1>7, <3>1 DEF WriteBytes, TypeOK, ModeBeforeBytes, Progress, NoFile
    <3>6. NoTornRead' /\ DurableOnceReturned' /\ ResultTellsTruth'
      BY <1>0, <1>7, <3>1 DEF WriteBytes, TypeOK, NoTornRead, DurableOnceReturned,
         ResultTellsTruth, StampOf
    <3>7. QED
      BY <3>2, <3>3, <3>4, <3>5, <3>6
  <2>3. QED
    BY <1>7, <2>1, <2>2 DEF WriteBytes
<1>8. ASSUME NEW w \in Writers, SyncFile(w) PROVE Rest'
  <2>1. /\ file'[w].synced = TRUE /\ file'[w].bytes = file[w].bytes /\ file'[w].mode = file[w].mode
        /\ \A v \in Writers \ {w} : file'[v] = file[v] /\ pc'[v] = pc[v]
        /\ pc'[w] = "publish"
    BY <1>8 DEF SyncFile, TypeOK
  <2>2. stamp[w] = 0
    BY <1>8 DEF SyncFile, Published, TypeOK
  <2>3. Progress'
    <3>1. file'[w] = WholeFile
      <4>1. file[w].bytes = "all" /\ file[w].mode = "requested"
        BY <1>8 DEF SyncFile, Progress
      <4>2. file'[w] = [file[w] EXCEPT !.synced = TRUE]
        BY <1>8 DEF SyncFile, TypeOK
      <4>3. file[w] = [bytes |-> file[w].bytes, mode |-> file[w].mode, synced |-> file[w].synced]
        BY DEF TypeOK
      <4> QED BY ONLY <4>1, <4>2, <4>3 DEF WholeFile
    <3>2. QED
      BY <1>0, <1>8, <2>1, <3>1 DEF SyncFile, TypeOK, Labels, Progress
  <2>4. Published' /\ Reachable'
    BY <1>0, <1>8, <2>1, <2>2 DEF SyncFile, TypeOK, Inodes, Published, Reachable, StampOf
  <2>5. DeviceStays' /\ OneHolder'
    BY <1>0, <1>8, <2>1 DEF SyncFile, TypeOK, DeviceStays, OneHolder, Holds
  <2>6. ModeBeforeBytes'
    BY <1>0, <1>8, <2>1 DEF SyncFile, TypeOK, ModeBeforeBytes, Progress, NoFile
  <2>7. NoTornRead' /\ DurableOnceReturned' /\ ResultTellsTruth'
    BY <1>0, <1>8, <2>1 DEF SyncFile, TypeOK, NoTornRead, DurableOnceReturned,
       ResultTellsTruth, StampOf
  <2>8. QED
    BY <2>3, <2>4, <2>5, <2>6, <2>7
<1>9. ASSUME NEW w \in Writers, StageError(w) PROVE Rest'
  BY <1>0, <1>9 DEF StageError, TypeOK, Inodes, Labels, Progress, Published, Reachable, DeviceStays, OneHolder, Holds,
     ModeBeforeBytes, NoTornRead, DurableOnceReturned, ResultTellsTruth, StampOf, NoFile, WholeFile
<1>10. ASSUME NEW w \in Writers, Rename(w) PROVE Rest'
  BY <1>0, <1>10 DEF Rename, PutAtPath, TypeOK, Inodes, Labels, Progress, Published, Reachable, DeviceStays, OneHolder, Holds,
     ModeBeforeBytes, NoTornRead, DurableOnceReturned, ResultTellsTruth, StampOf, NoFile, WholeFile
<1>11. ASSUME NEW w \in Writers, Link(w) PROVE Rest'
  BY <1>0, <1>11 DEF Link, PutAtPath, TypeOK, Inodes, Labels, Progress, Published, Reachable, DeviceStays, OneHolder, Holds,
     ModeBeforeBytes, NoTornRead, DurableOnceReturned, ResultTellsTruth, StampOf, NoFile, WholeFile
<1>12. ASSUME NEW w \in Writers, LinkRefused(w) PROVE Rest'
  BY <1>0, <1>12 DEF LinkRefused, TypeOK, Inodes, Labels, Progress, Published, Reachable, DeviceStays, OneHolder, Holds,
     ModeBeforeBytes, NoTornRead, DurableOnceReturned, ResultTellsTruth, StampOf, NoFile, WholeFile
<1>13. ASSUME NEW w \in Writers, PublishError(w) PROVE Rest'
  BY <1>0, <1>13 DEF PublishError, TypeOK, Inodes, Labels, Progress, Published, Reachable, DeviceStays, OneHolder, Holds,
     ModeBeforeBytes, NoTornRead, DurableOnceReturned, ResultTellsTruth, StampOf, NoFile, WholeFile
<1>14. ASSUME NEW w \in Writers, SyncDir(w) PROVE Rest'
  BY <1>0, <1>14 DEF SyncDir, TypeOK, Inodes, Labels, Progress, Published, Reachable, DeviceStays, OneHolder, Holds,
     ModeBeforeBytes, NoTornRead, DurableOnceReturned, ResultTellsTruth, StampOf, NoFile, WholeFile
<1>15. ASSUME NEW w \in Writers, Cleanup(w) PROVE Rest'
  BY <1>0, <1>15 DEF Cleanup, TypeOK, Inodes, Labels, Progress, Published, Reachable, DeviceStays, OneHolder, Holds,
     ModeBeforeBytes, NoTornRead, DurableOnceReturned, ResultTellsTruth, StampOf, NoFile, WholeFile
<1>16. ASSUME NEW w \in Writers, Crash(w) PROVE Rest'
  BY <1>0, <1>16 DEF Crash, InCall, TypeOK, Inodes, Labels, Progress, Published, Reachable, DeviceStays, OneHolder, Holds,
     ModeBeforeBytes, NoTornRead, DurableOnceReturned, ResultTellsTruth, StampOf, NoFile, WholeFile
<1>17. CASE PowerFailure
  <2>1. \A w \in Writers : /\ pc'[w] \in {"idle", "done", "crashed"}
                           /\ pc'[w] # "crashed" => pc'[w] = pc[w]
                           /\ pc[w] \in {"cleanup", "done", "syncdir", "crashed"}
                                => pc'[w] \in {"done", "crashed"}
    BY <1>17 DEF PowerFailure, InCall, TypeOK, Labels
  <2>2. dest' \in survivors /\ survivors' = {dest'}
    BY <1>17 DEF PowerFailure
  <2>3. /\ call' = call /\ res' = res /\ dirSynced' = dirSynced
        /\ stamp' = stamp /\ clock' = clock /\ got' = got
        /\ \A r \in Readers : handle'[r] = Nothing
    BY <1>17 DEF PowerFailure
  <2>4. \A w \in Writers : /\ file[w] = WholeFile => file'[w] = file[w]
                           /\ file[w] = NoFile => file'[w] = file[w]
                           /\ file[w].bytes = "none" => file'[w] = file[w]
                           /\ file'[w].mode = file[w].mode
    <3>1. PICK b \in [AtRisk -> {"none", "some", "all"}] :
            file' = [w \in Writers |->
                       IF w \in AtRisk THEN [file[w] EXCEPT !.bytes = b[w]] ELSE file[w]]
      BY <1>17 DEF PowerFailure
    <3>2. \A w \in Writers : w \in AtRisk => file[w] # WholeFile /\ file[w].bytes # "none"
      BY DEF AtRisk, WholeFile
    <3>3. QED
      BY <3>1, <3>2 DEF TypeOK, NoFile
  <2>5. Progress'
    <3>1. \A w \in temps' : file[w].mode # "absent"
      BY <1>17 DEF PowerFailure
    <3>2. QED
      BY <2>1, <2>3, <2>4, <3>1 DEF Progress, NoFile
  <2>6. Published'
    BY <2>1, <2>3, <2>4 DEF Published
  <2>7. Reachable'
    BY <2>2, <2>3, DistinctContents DEF Reachable
  <2>8. DeviceStays'
    BY <2>1, <2>2, <2>3 DEF DeviceStays
  <2>9. OneHolder'
    BY <2>1, <2>3 DEF OneHolder, Holds
  <2>10. ModeBeforeBytes'
    BY <2>4 DEF ModeBeforeBytes
  <2>11. NoTornRead'
    BY <2>3 DEF NoTornRead
  <2>12. DurableOnceReturned'
    BY <2>2, <2>3 DEF DurableOnceReturned, StampOf
  <2>13. ResultTellsTruth'
    BY <2>1, <2>2, <2>3 DEF ResultTellsTruth, DeviceStays, Reachable
  <2>14. QED
    BY <2>5, <2>6, <2>7, <2>8, <2>9, <2>10, <2>11, <2>12, <2>13
<1>18. ASSUME NEW r \in Readers, Open(r) PROVE Rest'
  BY <1>0, <1>18 DEF Open, TypeOK, Inodes, Progress, Published, Reachable, DeviceStays,
     OneHolder, Holds, ModeBeforeBytes, NoTornRead, DurableOnceReturned, ResultTellsTruth,
     StampOf
<1>19. ASSUME NEW r \in Readers, ReadAll(r) PROVE Rest'
  <2>1. Whole(handle[r])
    BY <1>19 DEF ReadAll, Whole, Reachable, Published, WholeFile
  <2>2. QED
    BY <1>0, <1>19, <2>1 DEF ReadAll, TypeOK, Inodes, Progress, Published, Reachable,
       DeviceStays, OneHolder, Holds, ModeBeforeBytes, NoTornRead, DurableOnceReturned,
       ResultTellsTruth, StampOf
<1>20. CASE UNCHANGED vars
  BY <1>20 DEF vars, Progress, Published, Reachable, DeviceStays, OneHolder, Holds,
     ModeBeforeBytes, NoTornRead, DurableOnceReturned, ResultTellsTruth, StampOf,
     NoFile, WholeFile, Torn
<1> HIDE DEF Rest
<1>21. QED
  BY <1>1, <1>2, <1>3, <1>4, <1>5, <1>6, <1>7, <1>8, <1>9, <1>10, <1>11, <1>12,
     <1>13, <1>14, <1>15, <1>16, <1>17, <1>18, <1>19, <1>20
     DEF Next, WriterStep, CallStep

\* The strengthened invariant holds in every reachable state.
THEOREM Invariance == Spec => []IInv
BY InitInv, NextInv, PTL DEF Spec

\* Whatever the path names, now or after a power failure, is a whole file.
THEOREM PublishedWholeHolds == Spec => []PublishedWhole
<1>1. IInv => PublishedWhole
  BY DEF IInv, PublishedWhole, Reachable, Published, WholeFile
<1>2. QED
  BY <1>1, Invariance, PTL

\* No load ever returns part of a file.
THEOREM NoTornReadHolds == Spec => []NoTornRead
<1>1. IInv => NoTornRead
  BY DEF IInv
<1>2. QED
  BY <1>1, Invariance, PTL

\* A successful call whose directory fsync worked survives power failures.
THEOREM DurableHolds == Spec => []DurableOnceReturned
<1>1. IInv => DurableOnceReturned
  BY DEF IInv
<1>2. QED
  BY <1>1, Invariance, PTL

\* Of the WriteNew calls on one path, at most one is permanently successful.
THEOREM OneNewWinnerHolds == Spec => []OneNewWinner
<1>1. IInv => OneNewWinner
  BY DEF IInv, OneHolder, Holds, OneNewWinner
<1>2. QED
  BY <1>1, Invariance, PTL

\* A call's result says whether its file was published.
THEOREM ResultHolds == Spec => []ResultTellsTruth
<1>1. IInv => ResultTellsTruth
  BY DEF IInv
<1>2. QED
  BY <1>1, Invariance, PTL

-----------------------------------------------------------------------------
(* What steps may not do.                                                  *)

\* WriteNew never takes away a file that is at the path.
THEOREM NewNeverReplacesHolds == Spec => NewNeverReplaces
<1>1. TypeOK /\ [Next]_vars =>
        [\A w \in Writers :
           (call[w] = "WriteNew" /\ stamp'[w] # stamp[w]) => dest = Nothing]_vars
  <2> SUFFICES ASSUME TypeOK, [Next]_vars, NEW w \in Writers,
                      call[w] = "WriteNew", stamp'[w] # stamp[w]
               PROVE  dest = Nothing
    OBVIOUS
  <2>1. PICK v \in Writers : Rename(v) \/ Link(v)
    BY DEF Next, WriterStep, CallStep, CallWrite, CallWriteNew, Stat, WriteInPlace,
       CreateTemp, Chmod, WriteBytes, SyncFile, StageError, LinkRefused, PublishError,
       SyncDir, Cleanup, Crash, PowerFailure, Open, ReadAll, vars, destVars
  <2>2. v = w
    BY <2>1 DEF Rename, Link, PutAtPath, TypeOK
  <2>3. QED
    BY <2>1, <2>2 DEF Rename, Link
<1>2. QED
  BY <1>1, TypeCorrect, PTL DEF Spec, NewNeverReplaces

\* A call that returns leaves no temporary name behind.
THEOREM ReturnLeavesNoTempHolds == Spec => ReturnLeavesNoTemp
<1>1. IInv /\ [Next]_vars =>
        [\A w \in Writers : (pc[w] # "done" /\ pc'[w] = "done") => w \notin temps']_vars
  <2> SUFFICES ASSUME IInv, [Next]_vars, NEW w \in Writers,
                      pc[w] # "done", pc'[w] = "done"
               PROVE  w \notin temps'
    OBVIOUS
  <2>1. PICK v \in Writers : WriteInPlace(v) \/ CreateTemp(v) \/ Cleanup(v)
    <3>1. ~UNCHANGED vars /\ ~PowerFailure
      BY DEF vars, writerVars, PowerFailure, IInv, TypeOK
    <3>2. ~\E r \in Readers : Open(r) \/ ReadAll(r)
      BY DEF Open, ReadAll, writerVars
    <3>3. PICK v \in Writers : WriterStep(v)
      BY <3>1, <3>2 DEF Next
    <3>4. QED
      BY <3>3 DEF WriterStep, CallStep, CallWrite, CallWriteNew, Stat, Chmod,
         WriteBytes, SyncFile, StageError, Rename, Link, LinkRefused, PublishError,
         SyncDir, Crash, Goto, IInv, TypeOK
  <2>2. v = w
    BY <2>1 DEF WriteInPlace, CreateTemp, Cleanup, Goto, IInv, TypeOK
  <2>3. QED
    BY <2>1, <2>2 DEF WriteInPlace, CreateTemp, Cleanup, Goto, IInv, TypeOK, Progress
<1>2. QED
  BY <1>1, Invariance, PTL DEF Spec, ReturnLeavesNoTemp

-----------------------------------------------------------------------------
(* ArtifactPublish implements AtomicFile.                                  *)

\* The initial states map to initial states of AtomicFile.
LEMMA InitRefines == Init => Promise!Init
BY DEF Init, Promise!Init, PhaseOf

\* Every step of a publication is a step of the register, or none of it.
LEMMA StepRefines == IInv /\ [Next]_vars => [Promise!Next]_(Promise!vars)
<1> SUFFICES ASSUME IInv, [Next]_vars PROVE [Promise!Next]_(Promise!vars)
  OBVIOUS
<1> USE DEF IInv, destVars, writerVars, readerVars, Goto, SetResult
<1> DEFINE phase == [w \in Writers |-> PhaseOf(w)]
<1> USE DEF PhaseOf
<1>1. ASSUME NEW w \in Writers, CallWrite(w) PROVE Promise!Next
  <2>1. phase[w] = "idle" /\ phase' = [phase EXCEPT ![w] = "called"]
    BY <1>1 DEF CallWrite, TypeOK
  <2>2. Promise!Call(w, "Write")
    BY <1>1, <2>1 DEF CallWrite, Promise!Call, Promise!SetPhase
  <2>3. QED
    BY <2>2 DEF Promise!Next, Promise!WriterStep
<1>2. ASSUME NEW w \in Writers, CallWriteNew(w) PROVE Promise!Next
  <2>1. phase[w] = "idle" /\ phase' = [phase EXCEPT ![w] = "called"]
    BY <1>2 DEF CallWriteNew, TypeOK
  <2>2. Promise!Call(w, "WriteNew")
    BY <1>2, <2>1 DEF CallWriteNew, Promise!Call, Promise!SetPhase
  <2>3. QED
    BY <2>2 DEF Promise!Next, Promise!WriterStep
<1>3. ASSUME NEW w \in Writers, Stat(w) \/ Chmod(w) \/ WriteBytes(w) \/ SyncFile(w)
      PROVE  UNCHANGED Promise!vars
  <2>1. pc[w] \in {"stat", "chmod", "write", "sync"}
        /\ pc'[w] \in {"inplace", "create", "write", "sync", "publish"}
        /\ \A v \in Writers \ {w} : pc'[v] = pc[v]
        /\ res' = res
    BY <1>3 DEF Stat, Chmod, WriteBytes, SyncFile, TypeOK
  <2>2. phase' = phase
    BY <2>1
  <2>3. QED
    BY <1>3, <2>2 DEF Stat, Chmod, WriteBytes, SyncFile, Promise!vars
<1>4. ASSUME NEW w \in Writers, WriteInPlace(w) PROVE Promise!Next
  <2>1. PICK o \in {"ok", "failed"} : res' = [res EXCEPT ![w] = o]
    BY <1>4 DEF WriteInPlace
  <2>2. phase[w] = "called" /\ phase' = [phase EXCEPT ![w] = o]
    BY <1>4, <2>1 DEF WriteInPlace, TypeOK
  <2>3. call[w] = "Write" /\ dest = Device
    BY <1>4 DEF WriteInPlace, Progress, DeviceStays
  <2>4. Promise!HandOver(w) \/ Promise!Fail(w)
    BY <1>4, <2>2, <2>3 DEF WriteInPlace, Promise!HandOver, Promise!Fail, Promise!SetPhase
  <2>5. QED
    BY <2>4 DEF Promise!Next, Promise!WriterStep
<1>5. ASSUME NEW w \in Writers, CreateTemp(w) PROVE [Promise!Next]_(Promise!vars)
  <2>1. CASE Goto(w, "chmod") /\ UNCHANGED res
    <3>1. phase' = phase
      BY <1>5, <2>1 DEF CreateTemp, TypeOK
    <3>2. QED
      BY <1>5, <3>1 DEF CreateTemp, Promise!vars
  <2>2. CASE SetResult(w, "failed") /\ Goto(w, "done")
    <3>1. phase[w] = "called" /\ phase' = [phase EXCEPT ![w] = "failed"]
      BY <1>5, <2>2 DEF CreateTemp, TypeOK
    <3>2. Promise!Fail(w)
      BY <1>5, <3>1 DEF CreateTemp, Promise!Fail, Promise!SetPhase
    <3>3. QED
      BY <3>2 DEF Promise!Next, Promise!WriterStep
  <2>3. QED
    BY <1>5, <2>1, <2>2 DEF CreateTemp
<1>6. ASSUME NEW w \in Writers, StageError(w) \/ PublishError(w) PROVE Promise!Next
  <2>1. phase[w] = "called" /\ phase' = [phase EXCEPT ![w] = "failed"]
    <3>1. /\ pc[w] \in {"chmod", "write", "sync", "publish"}
          /\ pc' = [pc EXCEPT ![w] = "cleanup"] /\ res' = [res EXCEPT ![w] = "failed"]
      BY <1>6 DEF StageError, PublishError
    <3>2. QED
      BY <3>1 DEF TypeOK
  <2>2. Promise!Fail(w)
    BY <1>6, <2>1 DEF StageError, PublishError, Promise!Fail, Promise!SetPhase
  <2>3. QED
    BY <2>2 DEF Promise!Next, Promise!WriterStep
<1>7. ASSUME NEW w \in Writers, Rename(w) \/ Link(w) PROVE Promise!Next
  <2>1. phase[w] = "called" /\ phase' = [phase EXCEPT ![w] = "applied"]
    <3>1. /\ pc[w] = "publish"
          /\ pc' = [pc EXCEPT ![w] = "syncdir"] /\ res' = [res EXCEPT ![w] = "ok"]
      BY <1>7 DEF Rename, Link
    <3>2. QED
      BY <3>1 DEF TypeOK
  <2>2. dest # Device /\ (call[w] = "WriteNew" => dest = Nothing)
    BY <1>7, DistinctContents DEF Rename, Link, DeviceStays
  <2>3. Promise!Apply(w)
    BY <1>7, <2>1, <2>2 DEF Rename, Link, PutAtPath, Promise!Apply, Promise!SetPhase
  <2>4. QED
    BY <2>3 DEF Promise!Next, Promise!WriterStep
<1>8. ASSUME NEW w \in Writers, LinkRefused(w) PROVE Promise!Next
  <2>1. phase[w] = "called" /\ phase' = [phase EXCEPT ![w] = "exists"]
    BY <1>8 DEF LinkRefused, TypeOK
  <2>2. Promise!Refuse(w)
    BY <1>8, <2>1 DEF LinkRefused, Promise!Refuse, Promise!SetPhase
  <2>3. QED
    BY <2>2 DEF Promise!Next, Promise!WriterStep
<1>9. ASSUME NEW w \in Writers, SyncDir(w) PROVE Promise!Next
  <2>1. res[w] = "ok"
    BY <1>9 DEF SyncDir, Published
  <2>2. phase[w] = "applied" /\ phase' = [phase EXCEPT ![w] = "ok"]
    BY <1>9, <2>1 DEF SyncDir, TypeOK
  <2>3. Promise!Settle(w)
    BY <1>9, <2>2 DEF SyncDir, Promise!Settle, Promise!SetPhase
  <2>4. QED
    BY <2>3 DEF Promise!Next, Promise!WriterStep
<1>10. ASSUME NEW w \in Writers, Cleanup(w) PROVE UNCHANGED Promise!vars
  <2>1. phase' = phase
    BY <1>10 DEF Cleanup, TypeOK
  <2>2. QED
    BY <1>10, <2>1 DEF Cleanup, Promise!vars
<1>11. ASSUME NEW w \in Writers, Crash(w) PROVE Promise!Next
  <2>1. phase[w] # "idle" /\ phase' = [phase EXCEPT ![w] = "gone"]
    BY <1>11 DEF Crash, InCall, TypeOK
  <2>2. Promise!Crash(w)
    BY <1>11, <2>1 DEF Crash, Promise!Crash, Promise!SetPhase
  <2>3. QED
    BY <2>2 DEF Promise!Next, Promise!WriterStep
<1>12. CASE PowerFailure
  <2>1. phase' = [w \in Writers |->
                    IF w \in {v \in Writers : InCall(v)} THEN "gone" ELSE phase[w]]
    BY <1>12 DEF PowerFailure, InCall, TypeOK
  <2>2. Promise!PowerFailure
    BY <1>12, <2>1 DEF PowerFailure, Promise!PowerFailure
  <2>3. QED
    BY <2>2 DEF Promise!Next
<1>13. ASSUME NEW r \in Readers, Open(r) PROVE Promise!Next
  <2>1. dest \notin {Nothing, Device}
    BY <1>13, DistinctContents DEF Open, Inodes
  <2>2. phase' = phase
    BY <1>13 DEF Open
  <2>3. Promise!Look(r)
    BY <1>13, <2>1, <2>2 DEF Open, Promise!Look
  <2>4. QED
    BY <2>3 DEF Promise!Next
<1>14. ASSUME NEW r \in Readers, ReadAll(r) PROVE Promise!Next
  <2>1. Whole(handle[r])
    BY <1>14 DEF ReadAll, Whole, Reachable, Published, WholeFile
  <2>2. phase' = phase
    BY <1>14 DEF ReadAll
  <2>3. Promise!Deliver(r)
    BY <1>14, <2>1, <2>2 DEF ReadAll, Promise!Deliver
  <2>4. QED
    BY <2>3 DEF Promise!Next
<1>15. CASE UNCHANGED vars
  BY <1>15 DEF vars, Promise!vars
<1>16. QED
  BY <1>1, <1>2, <1>3, <1>4, <1>5, <1>6, <1>7, <1>8, <1>9, <1>10, <1>11, <1>12,
     <1>13, <1>14, <1>15 DEF Next, WriterStep, CallStep

\* The code's publication protocol keeps the promise of an atomic file.
THEOREM Refinement == Spec => ImplementsAtomicFile
BY InitRefines, StepRefines, Invariance, PTL DEF Spec, ImplementsAtomicFile, Promise!Spec
=============================================================================
