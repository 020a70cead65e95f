---------------------------- MODULE KvStore_proofs ----------------------------
(***************************************************************************)
(* Proofs about KvStore, for any number of keys, values and readers.       *)
(*                                                                         *)
(* Everything rests on three invariants.  DataInv says which values a      *)
(* cache entry can hold when: it is torn only while it is being set.       *)
(* LoadInv says that the command line works on a loaded store, and that an *)
(* entry it writes is marked.  CommitInv says what the commit has done so  *)
(* far.  The last two need an operator who waits for the boot.             *)
(***************************************************************************)
EXTENDS KvStore, TLAPS

DataInv ==
  /\ TypeOK
  /\ \A k \in Keys : data[k] = Torn => cli = "copy" /\ target = k
  /\ \A k \in Keys : pending[k] => data[k] # NoValue
  /\ cli \in {"open", "write"} => arg \in Values

LoadInv ==
  /\ boot = "done" => next = NumKeys
  /\ boot # "done" => cli = "idle" /\ ~saved
  /\ cli \in {"copy", "open", "write", "remove"} => pending[target]
  /\ PendingCovers

CommitInv ==
  /\ saved => cli = "idle"
  /\ SavedIsStored
  /\ cli \in {"commit", "open", "write", "remove"} /\ ok =>
       \A k \in Keys \ unsynced : k < target /\ data[k] # NoValue => file[k] = data[k]
  /\ cli \in {"open", "write"} => arg = data[target]

(* A reader that nobody disturbs has a buffer for what the entry holds.    *)
ReadInv ==
  \A r \in Readers :
    reading[r] = "sized" =>
      /\ boot = "done" /\ got[r] = NoValue
      /\ ~disturbed[r] => room[r] = KVStore_getSize(wanted[r])

LEMMA KeysAre ==
  /\ 0 \in Keys /\ 0 \in 0 .. NumKeys /\ NumKeys \in Nat
  /\ \A k \in Keys : k \in 0 .. NumKeys /\ k + 1 \in 0 .. NumKeys /\ k < NumKeys
BY KvStoreAssumption DEF Keys

-----------------------------------------------------------------------------
(* Type correctness.                                                       *)

LEMMA DataInit == Init => DataInv
<1> SUFFICES ASSUME Init PROVE DataInv
  OBVIOUS
<1>1. TypeOK
  <2>1. /\ data \in [Keys -> Values \cup {NoValue, Torn}]
        /\ length \in [Keys -> 0 .. 2] /\ pending \in [Keys -> BOOLEAN]
        /\ file \in [Keys -> Values \cup {NoValue, Empty}]
    BY DEF Init
  <2>2. /\ reading \in [Readers -> {"idle", "sized"}]
        /\ wanted \in [Readers -> Keys] /\ room \in [Readers -> 1 .. 2]
        /\ got \in [Readers -> Values \cup {NoValue, Torn}]
        /\ disturbed \in [Readers -> BOOLEAN]
    BY KeysAre DEF Init
  <2> QED BY <2>1, <2>2, KeysAre DEF Init, TypeOK
<1>2. ASSUME NEW k \in Keys PROVE data[k] = NoValue /\ ~pending[k] /\ NoValue # Torn
  BY KvStoreAssumption DEF Init
<1> QED BY <1>1, <1>2 DEF DataInv, Init

LEMMA DataStep == DataInv /\ [Next]_vars => DataInv'
<1> SUFFICES ASSUME DataInv, [Next]_vars PROVE DataInv'
  OBVIOUS
<1> USE KvStoreAssumption, KeysAre DEF DataInv, TypeOK, cache, console, readers, nvm
<1>1. CASE FileSystemReady
  BY <1>1 DEF FileSystemReady
<1>2. CASE LoadEmptyFile
  BY <1>2 DEF LoadEmptyFile
<1>3. CASE LoadKey
  BY <1>3 DEF LoadKey, Success, Length
<1>4. ASSUME NEW k \in Keys, NEW v \in Values, ConfSet(k, v)
      PROVE  DataInv'
  <2>1. /\ data' \in [Keys -> Values \cup {NoValue, Torn}]
        /\ length' \in [Keys -> 0 .. 2]
        /\ disturbed' \in [Readers -> BOOLEAN]
    BY <1>4 DEF ConfSet, Length, Disturb
  <2>2. data'[k] # NoValue /\ \A j \in Keys \ {k} : data'[j] = data[j]
    BY <1>4 DEF ConfSet
  <2>3. \A j \in Keys : data[j] # Torn
    BY <1>4 DEF ConfSet
  <2> QED BY <1>4, <2>1, <2>2, <2>3 DEF ConfSet
<1>5. CASE ConfSetCopy
  BY <1>5 DEF ConfSetCopy, Disturb
<1>6. CASE ConfCommit
  BY <1>6 DEF ConfCommit
<1>7. CASE CommitKey
  BY <1>7 DEF CommitKey
<1>8. CASE SkipKey
  BY <1>8 DEF SkipKey
<1>9. CASE OpenFile
  BY <1>9 DEF OpenFile, Success, NextKey
<1>10. CASE WriteFile
  BY <1>10 DEF WriteFile, Success, NextKey
<1>11. CASE RemoveFile
  BY <1>11 DEF RemoveFile, Success, NextKey
<1>12. CASE CommitDone
  BY <1>12 DEF CommitDone
<1>13. CASE Reset
  <2>1. /\ data' \in [Keys -> Values \cup {NoValue, Torn}]
        /\ length' \in [Keys -> 0 .. 2] /\ pending' \in [Keys -> BOOLEAN]
        /\ file' = file
    BY <1>13 DEF Reset
  <2>2. /\ reading' \in [Readers -> {"idle", "sized"}]
        /\ wanted' \in [Readers -> Keys] /\ room' \in [Readers -> 1 .. 2]
        /\ got' \in [Readers -> Values \cup {NoValue, Torn}]
        /\ disturbed' \in [Readers -> BOOLEAN]
    BY <1>13 DEF Reset
  <2>3. \A k \in Keys : data'[k] = NoValue /\ ~pending'[k]
    BY <1>13 DEF Reset
  <2> QED BY <1>13, <2>1, <2>2, <2>3 DEF Reset
<1>14. ASSUME NEW r \in Readers, NEW k \in Keys, ReadSize(r, k)
       PROVE  DataInv'
  BY <1>14 DEF ReadSize, KVStore_getSize
<1>15. ASSUME NEW r \in Readers, ReadCopy(r)
       PROVE  DataInv'
  BY <1>15 DEF ReadCopy
<1>16. CASE UNCHANGED vars
  BY <1>16 DEF vars
<1> QED
  BY <1>1, <1>2, <1>3, <1>4, <1>5, <1>6, <1>7, <1>8, <1>9, <1>10, <1>11,
     <1>12, <1>13, <1>14, <1>15, <1>16 DEF Next, InitTask, Cli, Reader

LEMMA DataAlways == Spec => []DataInv
BY DataInit, DataStep, PTL DEF Spec

(* Every variable keeps its type, whatever fails and whenever the device   *)
(* is reset: a file never holds a torn value.                              *)
THEOREM TypeCorrect == Spec => []TypeOK
<1>1. DataInv => TypeOK
  BY DEF DataInv
<1> QED BY <1>1, DataAlways, PTL

-----------------------------------------------------------------------------
(* What is changed is marked.                                              *)

LEMMA LoadInit == Init => LoadInv
BY KvStoreAssumption, KeysAre DEF Init, LoadInv, PendingCovers, Keys

LEMMA LoadStep ==
  ASSUME ~EarlyCli, DataInv, LoadInv, [Next]_vars
  PROVE  LoadInv'
<1> USE KvStoreAssumption, KeysAre
    DEF DataInv, TypeOK, LoadInv, PendingCovers, cache, console, readers, nvm, CliReady
<1>1. CASE FileSystemReady
  BY <1>1 DEF FileSystemReady
<1>2. CASE LoadEmptyFile
  BY <1>2 DEF LoadEmptyFile
<1>3. CASE LoadKey
  <2>1. /\ boot = "load" /\ next \in Keys /\ next' = next + 1
        /\ boot' = IF next + 1 = NumKeys THEN "done" ELSE boot
        /\ UNCHANGED <<file, cli, saved>> /\ cli = "idle" /\ ~saved
    BY <1>3 DEF LoadKey
  <2>2. data'[next] \in {file[next], NoValue}
    BY <1>3 DEF LoadKey, Success
  <2>3. \A k \in Keys \ {next} : data'[k] = data[k] /\ pending'[k] = pending[k]
    BY <1>3 DEF LoadKey
  <2>4. \A k \in Keys : k < next + 1 => k < next \/ k = next
    BY <2>1 DEF Keys
  <2>5. PendingCovers'
    BY <2>1, <2>2, <2>3, <2>4
  <2> QED BY <2>1, <2>5
<1>4. ASSUME NEW k \in Keys, NEW v \in Values, ConfSet(k, v)
      PROVE  LoadInv'
  <2>1. /\ pending'[k] /\ \A j \in Keys \ {k} : data'[j] = data[j] /\ pending'[j] = pending[j]
        /\ UNCHANGED <<boot, next, file>> /\ target' = k /\ boot = "done" /\ ~saved'
    BY <1>4 DEF ConfSet
  <2>2. PendingCovers'
    BY <2>1
  <2> QED BY <2>1, <2>2
<1>5. CASE ConfSetCopy
  BY <1>5 DEF ConfSetCopy
<1>6. CASE ConfCommit
  BY <1>6 DEF ConfCommit
<1>7. CASE CommitKey
  BY <1>7 DEF CommitKey
<1>8. CASE SkipKey
  BY <1>8 DEF SkipKey
<1>9. CASE OpenFile
  BY <1>9 DEF OpenFile, Success, NextKey
<1>10. CASE WriteFile
  BY <1>10 DEF WriteFile, Success, NextKey
<1>11. CASE RemoveFile
  BY <1>11 DEF RemoveFile, Success, NextKey
<1>12. CASE CommitDone
  BY <1>12 DEF CommitDone
<1>13. CASE Reset
  <2>1. \A k \in Keys : data'[k] = NoValue
    BY <1>13 DEF Reset
  <2> QED BY <1>13, <2>1 DEF Reset
<1>14. ASSUME NEW r \in Readers, NEW k \in Keys, ReadSize(r, k)
       PROVE  LoadInv'
  BY <1>14 DEF ReadSize
<1>15. ASSUME NEW r \in Readers, ReadCopy(r)
       PROVE  LoadInv'
  BY <1>15 DEF ReadCopy
<1>16. CASE UNCHANGED vars
  BY <1>16 DEF vars
<1> QED
  BY <1>1, <1>2, <1>3, <1>4, <1>5, <1>6, <1>7, <1>8, <1>9, <1>10, <1>11,
     <1>12, <1>13, <1>14, <1>15, <1>16 DEF Next, InitTask, Cli, Reader

(* Whatever fails, an entry that is not marked is the same in the cache    *)
(* and in the file, as long as nobody sets it before the store is loaded.  *)
THEOREM ChangesAreMarked ==
  ASSUME ~EarlyCli
  PROVE  Spec => []PendingCovers
<1>1. DataInv /\ LoadInv /\ [Next]_vars => LoadInv'
  BY LoadStep
<1>2. LoadInv => PendingCovers
  BY DEF LoadInv
<1> QED BY LoadInit, <1>1, <1>2, DataAlways, PTL DEF Spec

-----------------------------------------------------------------------------
(* What is said to be saved is saved.                                      *)

LEMMA CommitInit == Init => CommitInv
BY DEF Init, CommitInv, SavedIsStored

LEMMA CommitStep ==
  ASSUME ~EarlyCli, DataInv, LoadInv, CommitInv, [Next]_vars
  PROVE  CommitInv'
<1> USE KvStoreAssumption, KeysAre
    DEF DataInv, TypeOK, LoadInv, PendingCovers, CommitInv, SavedIsStored,
        cache, console, readers, nvm, CliReady
<1>1. CASE FileSystemReady
  BY <1>1 DEF FileSystemReady
<1>2. CASE LoadEmptyFile
  BY <1>2 DEF LoadEmptyFile
<1>3. CASE LoadKey
  BY <1>3 DEF LoadKey
<1>4. ASSUME NEW k \in Keys, NEW v \in Values, ConfSet(k, v)
      PROVE  CommitInv'
  BY <1>4 DEF ConfSet
<1>5. CASE ConfSetCopy
  BY <1>5 DEF ConfSetCopy
<1>6. CASE ConfCommit
  BY <1>6 DEF ConfCommit, Keys
<1>7. CASE CommitKey
  BY <1>7 DEF CommitKey
<1>8. CASE SkipKey
  <2>1. /\ target \in Keys /\ ~pending[target] /\ target < next
        /\ target' = target + 1 /\ cli = "commit"
        /\ UNCHANGED <<data, file, unsynced, cli, ok, saved>>
    BY <1>8 DEF SkipKey
  <2>2. \A k \in Keys : k < target' => k < target \/ k = target
    BY <2>1 DEF Keys
  <2> QED BY <2>1, <2>2
<1>9. CASE OpenFile
  <2>1. \A k \in Keys : k # target => file'[k] = file[k]
    BY <1>9 DEF OpenFile, Success
  <2>2. \A k \in Keys : k < target => k # target
    BY DEF Keys
  <2>3. UNCHANGED <<data, unsynced, arg, saved>> /\ ~saved
    BY <1>9 DEF OpenFile
  <2>4. \/ cli' = "write" /\ UNCHANGED <<target, ok>> /\ arg = data[target]
        \/ cli' = "commit" /\ ~ok'
    BY <1>9 DEF OpenFile, Success, NextKey
  <2> QED BY <2>1, <2>2, <2>3, <2>4, <1>9 DEF OpenFile
<1>10. CASE WriteFile
  <2>1. UNCHANGED <<data, saved>> /\ ~saved /\ target \in Keys /\ cli = "write"
    BY <1>10 DEF WriteFile
  <2>2. \/ /\ cli' = "commit" /\ ok' = ok /\ target' = target + 1
           /\ \/ /\ file' = [file EXCEPT ![target] = data[target]]
                 /\ unsynced' = unsynced \ {target}
              \/ file' = file /\ unsynced' = unsynced \cup {target}
        \/ cli' = "remove" /\ UNCHANGED <<file, unsynced, target, ok>>
    <3>1. arg = data[target]
      BY <1>10 DEF WriteFile
    <3> QED BY <1>10, <3>1 DEF WriteFile, Success, NextKey
  <2>3. \A k \in Keys : k < target + 1 => k < target \/ k = target
    BY <2>1 DEF Keys
  <2>4. CASE cli' = "remove"
    BY <2>1, <2>2, <2>4
  <2>5. CASE cli' = "commit"
    <3>1. \/ file'[target] = data[target]
          \/ target \in unsynced'
      BY <2>1, <2>2, <2>5
    <3>2. \A k \in Keys \ {target} :
            file'[k] = file[k] /\ (k \in unsynced' <=> k \in unsynced)
      BY <2>1, <2>2, <2>5
    <3>3. ok' = ok /\ target' = target + 1
      BY <2>2, <2>5
    <3>4. ASSUME NEW k \in Keys \ unsynced', ok', k < target', data'[k] # NoValue
          PROVE  file'[k] = data'[k]
      <4>1. CASE k = target
        BY <2>1, <3>1, <3>4, <4>1
      <4>2. CASE k # target
        BY <2>1, <2>3, <3>2, <3>3, <3>4, <4>2
      <4> QED BY <4>1, <4>2
    <3> QED BY <2>1, <2>5, <3>4
  <2> QED BY <2>2, <2>4, <2>5
<1>11. CASE RemoveFile
  BY <1>11 DEF RemoveFile, Success, NextKey
<1>12. CASE CommitDone
  BY <1>12 DEF CommitDone
<1>13. CASE Reset
  BY <1>13 DEF Reset
<1>14. ASSUME NEW r \in Readers, NEW k \in Keys, ReadSize(r, k)
       PROVE  CommitInv'
  BY <1>14 DEF ReadSize
<1>15. ASSUME NEW r \in Readers, ReadCopy(r)
       PROVE  CommitInv'
  BY <1>15 DEF ReadCopy
<1>16. CASE UNCHANGED vars
  BY <1>16 DEF vars
<1> QED
  BY <1>1, <1>2, <1>3, <1>4, <1>5, <1>6, <1>7, <1>8, <1>9, <1>10, <1>11,
     <1>12, <1>13, <1>14, <1>15, <1>16 DEF Next, InitTask, Cli, Reader

LEMMA CommitAlways ==
  ASSUME ~EarlyCli
  PROVE  Spec => [](DataInv /\ LoadInv /\ CommitInv)
<1>1. DataInv /\ LoadInv /\ [Next]_vars => LoadInv'
  BY LoadStep
<1>2. DataInv /\ LoadInv /\ CommitInv /\ [Next]_vars => CommitInv'
  BY CommitStep
<1> QED BY LoadInit, CommitInit, <1>1, <1>2, DataAlways, PTL DEF Spec

(* When the commit has said "Configuration saved to NVM", the file of      *)
(* every key that is set holds its value, whichever writes failed before,  *)
(* but for keys whose sync failed unnoticed.                               *)
THEOREM SavedIsTrue ==
  ASSUME ~EarlyCli
  PROVE  Spec => []SavedIsStored
<1>1. CommitInv => SavedIsStored
  BY DEF CommitInv
<1> QED BY <1>1, CommitAlways, PTL

-----------------------------------------------------------------------------
(* Readers.                                                                *)

LEMMA ReadInit == Init => ReadInv
BY DEF Init, ReadInv

LEMMA ReadStep == DataInv /\ ReadInv /\ [Next]_vars => ReadInv'
<1> SUFFICES ASSUME DataInv, ReadInv, [Next]_vars PROVE ReadInv'
  OBVIOUS
<1> USE DEF DataInv, TypeOK, ReadInv, KVStore_getSize, cache, console, readers, nvm
<1>1. CASE InitTask \/ Reset
  BY <1>1 DEF InitTask, FileSystemReady, LoadEmptyFile, LoadKey, Reset
<1>2. ASSUME NEW k \in Keys, NEW v \in Values, ConfSet(k, v)
      PROVE  ReadInv'
  <2>1. /\ UNCHANGED <<boot, reading, wanted, room, got>>
        /\ \A j \in Keys \ {k} : length'[j] = length[j]
        /\ \A r \in Readers : ~disturbed'[r] =>
             ~disturbed[r] /\ (reading[r] = "sized" => wanted[r] # k)
    BY <1>2 DEF ConfSet, Disturb
  <2> QED BY <2>1
<1>3. CASE ConfSetCopy
  BY <1>3 DEF ConfSetCopy, Disturb
<1>4. CASE ConfCommit \/ CommitKey \/ SkipKey \/ OpenFile \/ WriteFile
           \/ RemoveFile \/ CommitDone
  BY <1>4 DEF ConfCommit, CommitKey, SkipKey, OpenFile, WriteFile, RemoveFile,
              CommitDone
<1>5. ASSUME NEW r \in Readers, NEW k \in Keys, ReadSize(r, k)
      PROVE  ReadInv'
  <2>1. \A q \in Readers \ {r} :
          /\ reading'[q] = reading[q] /\ wanted'[q] = wanted[q]
          /\ room'[q] = room[q] /\ got'[q] = got[q] /\ disturbed'[q] = disturbed[q]
    BY <1>5 DEF ReadSize
  <2>2. /\ boot = "done" /\ UNCHANGED <<boot, length>>
        /\ got'[r] = NoValue /\ wanted'[r] = k /\ room'[r] = KVStore_getSize(k)
    BY <1>5 DEF ReadSize
  <2> QED BY <2>1, <2>2
<1>6. ASSUME NEW r \in Readers, ReadCopy(r)
      PROVE  ReadInv'
  BY <1>6 DEF ReadCopy
<1>7. CASE UNCHANGED vars
  BY <1>7 DEF vars
<1> QED BY <1>1, <1>2, <1>3, <1>4, <1>5, <1>6, <1>7 DEF Next, Cli, Reader

(* A read whose key nobody sets meanwhile returns the whole value that is  *)
(* configured.                                                             *)
THEOREM UndisturbedReadsAreWhole == Spec => ReadsUndisturbed
<1> DEFINE Whole ==
      \A r \in Readers :
        reading[r] = "sized" /\ got'[r] # got[r] /\ ~disturbed[r]
          => got'[r] = Configured(wanted[r])
<1>1. DataInv /\ ReadInv /\ [Next]_vars => Whole \/ UNCHANGED vars
  <2> SUFFICES ASSUME DataInv, ReadInv, [Next]_vars,
                      NEW r \in Readers,
                      reading[r] = "sized", got'[r] # got[r], ~disturbed[r]
               PROVE  got'[r] = Configured(wanted[r])
    OBVIOUS
  <2> USE DEF DataInv, TypeOK, ReadInv, cache, console, readers, nvm
  <2>1. CASE InitTask \/ Cli
    BY <2>1 DEF InitTask, FileSystemReady, LoadEmptyFile, LoadKey, Cli, ConfSet,
         ConfSetCopy, ConfCommit, CommitKey, SkipKey, OpenFile, WriteFile,
         RemoveFile, CommitDone
  <2>2. CASE Reset
    BY <2>2 DEF Reset
  <2>3. ASSUME NEW q \in Readers, NEW k \in Keys, ReadSize(q, k)
        PROVE  FALSE
    BY <2>3 DEF ReadSize
  <2>4. ASSUME NEW q \in Readers, ReadCopy(q)
        PROVE  got'[r] = Configured(wanted[r])
    BY <2>4 DEF ReadCopy, Configured, KVStore_getSize
  <2>5. CASE UNCHANGED vars
    BY <2>5 DEF vars
  <2> QED BY <2>1, <2>2, <2>3, <2>4, <2>5 DEF Next, Reader
<1>2. Spec => [](DataInv /\ ReadInv)
  BY ReadInit, ReadStep, DataAlways, PTL DEF Spec
<1> QED BY <1>1, <1>2, PTL DEF Spec, ReadsUndisturbed

-----------------------------------------------------------------------------
(* The store implements its promise.                                       *)

LEMMA PromiseInit == Init => Promise!PInit
BY KvStoreAssumption, KeysAre DEF Init, Promise!PInit, Staged, InFile, Keys

LEMMA PromiseStep ==
  ASSUME ~EarlyCli, DataInv, LoadInv, CommitInv, [Next]_vars
  PROVE  [Promise!PNext]_(Promise!pvars)
<1> DEFINE staged == [k \in Keys |-> Staged(k)]
           stored == [k \in Keys |-> InFile(k)]
<1> USE KvStoreAssumption, KeysAre
    DEF DataInv, TypeOK, LoadInv, cache, console, readers, nvm, CliReady
<1>0. ASSUME UNCHANGED <<staged, stored, saved, unsynced>>
      PROVE  [Promise!PNext]_(Promise!pvars)
  BY <1>0 DEF Promise!pvars
<1>1. CASE FileSystemReady \/ LoadEmptyFile
  BY <1>0, <1>1 DEF FileSystemReady, LoadEmptyFile, Staged, InFile
<1>2. CASE LoadKey
  <2>1. PICK n \in Keys : n = next
    BY <1>2 DEF LoadKey
  <2>2. /\ next' = n + 1 /\ ~saved /\ cli = "idle"
        /\ UNCHANGED <<file, unsynced, cli, target, arg, saved>>
        /\ data'[n] \in {InFile(n), NoValue}
        /\ \A k \in Keys \ {n} : data'[k] = data[k]
    BY <1>2, <2>1 DEF LoadKey, Success, InFile
  <2>3. /\ ~(n < next) /\ n < next'
        /\ \A k \in Keys \ {n} : k < next' <=> k < next
    BY <2>1, <2>2 DEF Keys
  <2>4. Staged(n) = InFile(n) /\ (Staged(n))' \in {InFile(n), NoValue}
    BY <2>2, <2>3 DEF Staged
  <2>5. \A k \in Keys \ {n} : (Staged(k))' = Staged(k)
    BY <2>2, <2>3 DEF Staged, InFile
  <2>6. stored' = stored
    BY <2>2 DEF InFile
  <2>7. CASE (Staged(n))' = InFile(n)
    BY <1>0, <2>2, <2>4, <2>5, <2>6, <2>7
  <2>8. CASE (Staged(n))' = NoValue
    <3>1. staged' = [staged EXCEPT ![n] = NoValue]
      BY <2>5, <2>8
    <3>2. Promise!Forget(n)
      BY <2>2, <2>4, <2>6, <3>1 DEF Promise!Forget
    <3> QED BY <3>2 DEF Promise!PNext
  <2> QED BY <2>4, <2>7, <2>8
<1>3. ASSUME NEW k \in Keys, NEW v \in Values, ConfSet(k, v)
      PROVE  [Promise!PNext]_(Promise!pvars)
  <2>1. /\ cli = "idle" /\ cli' = "copy" /\ target' = k /\ arg' = v /\ ~saved'
        /\ next = NumKeys /\ UNCHANGED <<next, file, unsynced>>
        /\ \A j \in Keys \ {k} : data'[j] = data[j]
    BY <1>3 DEF ConfSet
  <2>2. staged' = [staged EXCEPT ![k] = v] /\ stored' = stored
    BY <2>1 DEF Staged, InFile
  <2>3. Promise!Stage(k, v)
    BY <2>1, <2>2 DEF Promise!Stage
  <2> QED BY <2>3 DEF Promise!PNext
<1>4. CASE ConfSetCopy
  <2>1. /\ cli = "copy" /\ cli' = "idle" /\ target \in Keys /\ next = NumKeys
        /\ UNCHANGED <<next, file, unsynced, target, arg, saved>>
        /\ data' = [data EXCEPT ![target] = arg]
    BY <1>4 DEF ConfSetCopy
  <2>2. \A k \in Keys : Staged(k)' = Staged(k)
    BY <2>1 DEF Staged, InFile
  <2> QED BY <1>0, <2>1, <2>2 DEF InFile
<1>5. CASE ConfCommit
  <2>1. staged' = staged /\ stored' = stored /\ ~saved' /\ unsynced' = unsynced
    BY <1>5 DEF ConfCommit, Staged, InFile
  <2> QED BY <2>1 DEF Promise!PNext, Promise!Commit
<1>6. CASE CommitKey \/ SkipKey
  BY <1>0, <1>6 DEF CommitKey, SkipKey, Staged, InFile
<1>7. CASE OpenFile
  <2>1. /\ UNCHANGED <<data, next, saved, unsynced>> /\ cli = "open" /\ cli' # "copy"
        /\ next = NumKeys
        /\ \A k \in Keys : file'[k] = file[k] \/ {file'[k], file[k]} = {Empty, NoValue}
    BY <1>7 DEF OpenFile, Success, NextKey
  <2>2. \A k \in Keys : InFile(k)' = InFile(k)
    BY <2>1 DEF InFile
  <2>3. \A k \in Keys : Staged(k)' = Staged(k)
    BY <2>1, <2>2 DEF Staged
  <2> QED BY <1>0, <2>1, <2>2, <2>3
<1>8. CASE WriteFile \/ RemoveFile
  <2>1. /\ UNCHANGED <<data, next, saved>> /\ ~saved /\ target \in Keys
        /\ cli \in {"write", "remove"} /\ cli' # "copy" /\ next = NumKeys
        /\ pending[target]
    BY <1>8 DEF WriteFile, RemoveFile, Success, NextKey, CommitInv
  <2>2. staged' = staged /\ staged[target] = data[target] /\ data[target] # NoValue
    BY <2>1 DEF Staged
  <2>3. \/ file' = file /\ unsynced' = unsynced
        \/ file' = file /\ unsynced' = unsynced \cup {target}
        \/ /\ file' = [file EXCEPT ![target] = data[target]] /\ data[target] \in Values
           /\ unsynced' = unsynced \ {target}
        \/ file' = [file EXCEPT ![target] = NoValue] /\ unsynced' = unsynced
    <3>1. CASE WriteFile
      <4>1. arg = data[target] /\ arg \in Values
        BY <3>1 DEF WriteFile, CommitInv
      <4>2. \/ UNCHANGED <<file, unsynced>>
            \/ /\ file' = [file EXCEPT ![target] = arg]
               /\ unsynced' = unsynced \ {target}
            \/ /\ file' = [file EXCEPT ![target] = @]
               /\ unsynced' = unsynced \cup {target}
        <5>1. PICK written \in BOOLEAN, synced \in BOOLEAN :
                IF written
                THEN /\ file' = [file EXCEPT ![target] = IF synced THEN arg ELSE @]
                     /\ unsynced' = IF synced THEN unsynced \ {target}
                                    ELSE unsynced \cup {target}
                ELSE UNCHANGED nvm
          BY <3>1 DEF WriteFile, Success
        <5> QED BY <5>1
      <4>3. [file EXCEPT ![target] = @] = file
        BY DEF TypeOK
      <4> QED BY <4>1, <4>2, <4>3
    <3>2. CASE RemoveFile
      BY <3>2 DEF RemoveFile, Success
    <3> QED BY <1>8, <3>1, <3>2
  <2>4. CASE file' = file /\ unsynced' = unsynced
    BY <1>0, <2>1, <2>2, <2>4 DEF InFile
  <2>5. CASE file' = file /\ unsynced' = unsynced \cup {target}
    <3>1. stored' = stored
      BY <2>5 DEF InFile
    <3>2. Promise!Store(target)
      BY <2>1, <2>2, <2>5, <3>1 DEF Promise!Store
    <3> QED BY <2>1, <3>2 DEF Promise!PNext
  <2>6. CASE /\ file' = [file EXCEPT ![target] = data[target]] /\ data[target] \in Values
             /\ unsynced' = unsynced \ {target}
    <3>1. stored' = [stored EXCEPT ![target] = staged[target]]
      BY <2>1, <2>2, <2>6 DEF InFile
    <3>2. Promise!Store(target)
      BY <2>1, <2>2, <2>6, <3>1 DEF Promise!Store
    <3> QED BY <2>1, <3>2 DEF Promise!PNext
  <2>7. CASE file' = [file EXCEPT ![target] = NoValue] /\ unsynced' = unsynced
    <3>1. stored' = [stored EXCEPT ![target] = NoValue]
      BY <2>1, <2>7 DEF InFile
    <3>2. Promise!Store(target)
      BY <2>1, <2>2, <2>7, <3>1 DEF Promise!Store
    <3> QED BY <2>1, <3>2 DEF Promise!PNext
  <2> QED BY <2>3, <2>4, <2>5, <2>6, <2>7
<1>9. CASE CommitDone
  <2>1. /\ UNCHANGED <<data, next, file, unsynced>> /\ cli = "commit" /\ cli' = "idle"
        /\ next = NumKeys /\ target = NumKeys /\ saved' = ok
    BY <1>9 DEF CommitDone
  <2>2. staged' = staged /\ stored' = stored
    BY <2>1 DEF Staged, InFile
  <2>3. CASE ok
    <3>1. \A k \in Keys \ unsynced :
            data[k] # NoValue => file[k] = data[k] /\ data[k] # Empty
      BY <2>1, <2>3 DEF CommitInv
    <3>2. \A k \in Keys \ unsynced : staged[k] # NoValue => stored[k] = staged[k]
      BY <2>1, <3>1 DEF Staged, InFile
    <3>3. Promise!Report
      BY <2>1, <2>2, <2>3, <3>2 DEF Promise!Report
    <3> QED BY <3>3 DEF Promise!PNext
  <2>4. CASE ~ok
    BY <2>1, <2>2, <2>4 DEF Promise!PNext, Promise!Commit
  <2> QED BY <2>3, <2>4
<1>10. CASE Reset
  <2>1. next' = 0 /\ cli' = "idle" /\ ~saved' /\ file' = file /\ unsynced' = {}
    BY <1>10 DEF Reset
  <2>2. \A k \in Keys : Staged(k)' = InFile(k)
    BY <2>1 DEF Staged, InFile, Keys
  <2>3. staged' = stored /\ stored' = stored
    BY <2>1, <2>2 DEF InFile
  <2> QED BY <2>1, <2>3 DEF Promise!PNext, Promise!Restart
<1>11. ASSUME NEW r \in Readers, Reader(r)
       PROVE  [Promise!PNext]_(Promise!pvars)
  BY <1>0, <1>11 DEF Reader, ReadSize, ReadCopy, Staged, InFile
<1>12. CASE UNCHANGED vars
  BY <1>0, <1>12 DEF vars, Staged, InFile
<1> QED
  BY <1>1, <1>2, <1>3, <1>4, <1>5, <1>6, <1>7, <1>8, <1>9, <1>10, <1>11,
     <1>12 DEF Next, InitTask, Cli

(* A commit stores what was staged, and nothing else is ever stored; a     *)
(* reset goes back to what is stored.                                      *)
THEOREM StoreKeepsItsPromise ==
  ASSUME ~EarlyCli
  PROVE  Spec => ImplementsPromise
<1>1. DataInv /\ LoadInv /\ CommitInv /\ [Next]_vars
        => [Promise!PNext]_(Promise!pvars)
  BY PromiseStep
<1> QED
  BY PromiseInit, <1>1, CommitAlways, PTL
  DEF Spec, ImplementsPromise, Promise!PromiseSpec
=============================================================================
