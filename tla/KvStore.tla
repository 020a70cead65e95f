------------------------------- MODULE KvStore -------------------------------
(***************************************************************************)
(* The key-value store of the configuration, Common/kvstore: a cache in    *)
(* RAM over one littlefs file per key.                                     *)
(*                                                                         *)
(* Three kinds of task meet here: vInitTask loads the files into the cache *)
(* at boot, the command line sets and commits (cli_conf.c), and the other  *)
(* tasks read.  Getters and the loading take xKvMutex, setters and the     *)
(* commit do not.                                                          *)
(*                                                                         *)
(* littlefs is external: creating a file is committed at once, what is     *)
(* written to it only by a sync, and a file whose write failed is left as  *)
(* it was.  A string is longer than a pointer, so it is on the heap, and   *)
(* the default of every key is the empty string.                           *)
(***************************************************************************)
EXTENDS Naturals

CONSTANTS
  NumKeys,   \* CS_NUM_KEYS
  Values,    \* what the operator may configure
  Longer,    \* those of the values that take more room
  NoValue,   \* KV_TYPE_NONE in the cache, no file in the file system
  Empty,     \* a file that was created and holds nothing
  Torn,      \* bytes that are no value
  Readers,   \* tasks that call KVStore_getStringHeap
  Faults,    \* what may go wrong
  EarlyCli   \* the operator may type before the store is loaded

FaultKinds == {"openFails", "writeFails", "syncFails", "removeFails", "statFails",
               "readFails"}

Keys == 0 .. NumKeys - 1

ASSUME KvStoreAssumption ==
  /\ NumKeys \in Nat \ {0}
  /\ Longer \subseteq Values
  /\ {NoValue, Empty, Torn} \cap Values = {}
  /\ NoValue # Empty /\ NoValue # Torn
  /\ Faults \subseteq FaultKinds
  /\ EarlyCli \in BOOLEAN

VARIABLES
  boot,      \* how far vInitTask is
  next,      \* the key vprvCacheInit is at
  data,      \* what the cache holds for each key
  length,    \* kvStoreCache[key].length
  pending,   \* kvStoreCache[key].xChangePending
  file,      \* what the file system holds for each key
  unsynced,  \* history: keys whose last write seemed to go well, but not its sync
  cli,       \* where the command line stands
  target,    \* the key it sets, or the commit is at
  arg,       \* the value it sets or writes
  ok,        \* xSuccess of the commit
  saved,     \* the operator was told that what he set is saved
  reading,   \* where each reader stands
  wanted,    \* the key it reads
  room,      \* the size of its buffer
  got,       \* what it read
  disturbed  \* history: its key was set while it was reading

cache   == <<data, length, pending>>
console == <<cli, target, arg, ok, saved>>
readers == <<reading, wanted, room, got, disturbed>>
nvm     == <<file, unsynced>>
vars    == <<boot, next, data, length, pending, file, unsynced, cli, target, arg, ok,
             saved, reading, wanted, room, got, disturbed>>

TypeOK ==
  /\ boot \in {"mount", "load", "done", "halted"}
  /\ next \in 0 .. NumKeys
  /\ data \in [Keys -> Values \cup {NoValue, Torn}]
  /\ length \in [Keys -> 0 .. 2]
  /\ pending \in [Keys -> BOOLEAN]
  /\ file \in [Keys -> Values \cup {NoValue, Empty}]
  /\ unsynced \subseteq Keys
  /\ cli \in {"idle", "copy", "commit", "open", "write", "remove"}
  /\ target \in 0 .. NumKeys
  /\ cli \in {"copy", "open", "write", "remove"} => target \in Keys
  /\ arg \in Values \cup {NoValue, Torn}
  /\ cli \in {"copy"} => arg \in Values
  /\ ok \in BOOLEAN /\ saved \in BOOLEAN
  /\ reading \in [Readers -> {"idle", "sized"}]
  /\ wanted \in [Readers -> Keys]
  /\ room \in [Readers -> 1 .. 2]
  /\ got \in [Readers -> Values \cup {NoValue, Torn}]
  /\ disturbed \in [Readers -> BOOLEAN]

Init ==
  /\ boot = "mount" /\ next = 0
  /\ data = [k \in Keys |-> NoValue]
  /\ length = [k \in Keys |-> 0]
  /\ pending = [k \in Keys |-> FALSE]
  /\ file = [k \in Keys |-> NoValue] /\ unsynced = {}
  /\ cli = "idle" /\ target = 0 /\ arg = NoValue
  /\ ok = TRUE /\ saved = FALSE
  /\ reading = [r \in Readers |-> "idle"]
  /\ wanted = [r \in Readers |-> 0]
  /\ room = [r \in Readers |-> 1]
  /\ got = [r \in Readers |-> NoValue]
  /\ disturbed = [r \in Readers |-> FALSE]

(* A step that Faults may make fail.                                       *)
Success(fault) == IF fault \in Faults THEN BOOLEAN ELSE {TRUE}

(* The size of a string, its terminator included, in units that tell apart *)
(* the values that do not fit in the room of another.                      *)
Length(v) == IF v \in Longer THEN 2 ELSE 1

(* What a read of the key should return: the default when it is not set.   *)
Configured(k) == data[k]

-----------------------------------------------------------------------------
(* vInitTask.                                                              *)

FileSystemReady ==
  /\ boot = "mount"
  /\ boot' = "load"
  /\ UNCHANGED <<next, cache, nvm, console, readers>>

(* The size of an empty file less the size of the header wraps around: no  *)
(* buffer of that size can be had, and pvGetDataWritePtr asserts.          *)
LoadEmptyFile ==
  /\ boot = "load" /\ next \in Keys /\ file[next] = Empty
  /\ boot' = "halted"
  /\ UNCHANGED <<next, cache, nvm, console, readers>>

(* Mutant: the type is set although the read has failed.                   *)
LoadKeyUnchecked ==
  /\ boot = "load" /\ next \in Keys
  /\ \E stat \in Success("statFails"), readable \in Success("readFails") :
       LET found == stat /\ file[next] # NoValue
       IN /\ found => file[next] # Empty
          /\ data' = [data EXCEPT ![next] =
               IF found THEN IF readable THEN file[next] ELSE Torn ELSE NoValue]
          /\ length' = [length EXCEPT ![next] = IF found THEN Length(file[next]) ELSE @]
  /\ pending' = [pending EXCEPT ![next] = FALSE]
  /\ next' = next + 1
  /\ boot' = IF next + 1 = NumKeys THEN "done" ELSE boot
  /\ UNCHANGED <<nvm, console, readers>>

(* One turn of the loop in vprvCacheInit.  A file that cannot be found is  *)
(* as good as none; when it cannot be read the entry stays without type,   *)
(* with the length of the file.                                            *)
LoadKey ==
  /\ boot = "load" /\ next \in Keys
  /\ \E stat \in Success("statFails"), readable \in Success("readFails") :
       LET found == stat /\ file[next] # NoValue
       IN /\ found => file[next] # Empty
          /\ data' = [data EXCEPT ![next] =
               IF found /\ readable THEN file[next] ELSE NoValue]
          /\ length' = [length EXCEPT ![next] = IF found THEN Length(file[next]) ELSE @]
  /\ pending' = [pending EXCEPT ![next] = FALSE]
  /\ next' = next + 1
  /\ boot' = IF next + 1 = NumKeys THEN "done" ELSE boot
  /\ UNCHANGED <<nvm, console, readers>>

(* A loss of power, or a reset: what is in RAM is lost, and the file system *)
(* keeps what is committed.                                                *)
Reset ==
  /\ boot # "mount"
  /\ boot' = "mount" /\ next' = 0 /\ unsynced' = {}
  /\ data' = [k \in Keys |-> NoValue]
  /\ length' = [k \in Keys |-> 0]
  /\ pending' = [k \in Keys |-> FALSE]
  /\ cli' = "idle" /\ target' = 0 /\ arg' = NoValue
  /\ ok' = TRUE /\ saved' = FALSE
  /\ reading' = [r \in Readers |-> "idle"]
  /\ wanted' = [r \in Readers |-> 0]
  /\ room' = [r \in Readers |-> 1]
  /\ got' = [r \in Readers |-> NoValue]
  /\ disturbed' = [r \in Readers |-> FALSE]
  /\ UNCHANGED file

-----------------------------------------------------------------------------
(* The command line.                                                       *)

(* Task_CLI is created before the file system is mounted.                  *)
CliReady == EarlyCli \/ boot = "done"

(* Whoever is reading the key reads it while it changes.                   *)
Disturb(k) ==
  disturbed' = [r \in Readers |-> disturbed[r] \/ (reading[r] = "sized" /\ wanted[r] = k)]

Same(k, v) == data[k] # NoValue /\ length[k] = Length(v) /\ data[k] = v

(* xprvWriteCacheEntry up to the copy: a value that is not the one the     *)
(* entry holds makes it pending, and a length of its own a torn value.     *)
ConfSet(k, v) ==
  /\ cli = "idle" /\ CliReady
  /\ pending[k] \/ ~Same(k, v)
  /\ cli' = "copy" /\ target' = k /\ arg' = v
  /\ data' = [data EXCEPT ![k] = IF @ # NoValue /\ length[k] = Length(v) THEN @ ELSE Torn]
  /\ length' = [length EXCEPT ![k] = Length(v)]
  /\ pending' = [pending EXCEPT ![k] = TRUE]
  /\ saved' = FALSE
  /\ Disturb(k)
  /\ UNCHANGED <<boot, next, nvm, ok, reading, wanted, room, got>>

ConfSetCopy ==
  /\ cli = "copy"
  /\ data' = [data EXCEPT ![target] = arg]
  /\ cli' = "idle"
  /\ Disturb(target)
  /\ UNCHANGED <<boot, next, length, pending, nvm, target, arg, ok, saved,
                 reading, wanted, room, got>>

ConfCommit ==
  /\ cli = "idle" /\ CliReady
  /\ cli' = "commit" /\ target' = 0 /\ ok' = TRUE /\ saved' = FALSE
  /\ UNCHANGED <<boot, next, cache, nvm, arg, readers>>

(* Mutant: the mark of a change goes when its write begins.                *)
CommitKeyClearing ==
  /\ cli = "commit" /\ target \in Keys /\ pending[target]
  /\ cli' = "open" /\ arg' = data[target]
  /\ pending' = [pending EXCEPT ![target] = FALSE]
  /\ UNCHANGED <<boot, next, data, length, nvm, target, ok, saved, readers>>

(* KVStore_xCommitChanges: the arguments of the write are taken before the *)
(* file system may make it wait.                                           *)
CommitKey ==
  /\ cli = "commit" /\ target \in Keys /\ pending[target]
  /\ cli' = "open" /\ arg' = data[target]
  /\ UNCHANGED <<boot, next, cache, nvm, target, ok, saved, readers>>

SkipKey ==
  /\ cli = "commit" /\ target \in Keys /\ ~pending[target]
  /\ target' = target + 1
  /\ UNCHANGED <<boot, next, cache, nvm, cli, arg, ok, saved, readers>>

(* Mutant: the result of the commit is that of its last write.             *)
NextKeyLast(success) ==
  /\ cli' = "commit" /\ target' = target + 1 /\ ok' = success

NextKey(success) ==
  /\ cli' = "commit" /\ target' = target + 1 /\ ok' = (ok /\ success)

(* pxGetDefaultFsCtx waits for the file system.                            *)
OpenFile ==
  /\ cli = "open" /\ boot # "mount"
  /\ \E opened \in Success("openFails") :
       IF opened
       THEN /\ file' = [file EXCEPT ![target] = IF @ = NoValue THEN Empty ELSE @]
            /\ cli' = "write"
            /\ UNCHANGED <<target, ok>>
       ELSE NextKey(FALSE) /\ UNCHANGED file
  /\ UNCHANGED <<boot, next, cache, unsynced, arg, saved, readers>>

(* Header and value are written, then synced; nobody looks at the result   *)
(* of the sync.                                                            *)
WriteFile ==
  /\ cli = "write"
  /\ \E written \in Success("writeFails"), synced \in Success("syncFails") :
       IF written
       THEN /\ NextKey(TRUE)
            /\ file' = [file EXCEPT ![target] = IF synced THEN arg ELSE @]
            /\ unsynced' = IF synced THEN unsynced \ {target} ELSE unsynced \cup {target}
       ELSE cli' = "remove" /\ UNCHANGED <<nvm, target, ok>>
  /\ UNCHANGED <<boot, next, cache, arg, saved, readers>>

RemoveFile ==
  /\ cli = "remove"
  /\ \E removed \in Success("removeFails") :
       file' = [file EXCEPT ![target] = IF removed THEN NoValue ELSE @]
  /\ NextKey(FALSE)
  /\ UNCHANGED <<boot, next, cache, unsynced, arg, saved, readers>>

CommitDone ==
  /\ cli = "commit" /\ target = NumKeys
  /\ cli' = "idle" /\ saved' = ok
  /\ UNCHANGED <<boot, next, cache, nvm, target, arg, ok, readers>>

-----------------------------------------------------------------------------
(* KVStore_getStringHeap.                                                  *)

(* Mutants: a key that is set has the size of its default, one that is not *)
(* set has none.                                                           *)
SizeOfDefault(k) == 1
SizeInCache(k) == length[k]

KVStore_getSize(k) == IF length[k] = 0 THEN 1 ELSE length[k]

(* The size is read without the mutex, and a buffer allocated for it.      *)
ReadSize(r, k) ==
  /\ boot = "done" /\ reading[r] = "idle"
  /\ reading' = [reading EXCEPT ![r] = "sized"]
  /\ wanted' = [wanted EXCEPT ![r] = k]
  /\ room' = [room EXCEPT ![r] = KVStore_getSize(k)]
  /\ got' = [got EXCEPT ![r] = NoValue]
  /\ disturbed' = [disturbed EXCEPT ![r] = cli = "copy" /\ target = k]
  /\ UNCHANGED <<boot, next, cache, nvm, console>>

(* The copy under the mutex cuts a value that has grown.  An empty string  *)
(* is returned as no string at all.                                        *)
ReadCopy(r) ==
  /\ reading[r] = "sized"
  /\ got' = [got EXCEPT ![r] =
       IF data[wanted[r]] = NoValue \/ room[r] >= length[wanted[r]] THEN data[wanted[r]] ELSE Torn]
  /\ reading' = [reading EXCEPT ![r] = "idle"]
  /\ UNCHANGED <<boot, next, cache, nvm, console, wanted, room, disturbed>>

-----------------------------------------------------------------------------
InitTask == FileSystemReady \/ LoadEmptyFile \/ LoadKey

Cli ==
  \/ \E k \in Keys, v \in Values : ConfSet(k, v)
  \/ ConfSetCopy \/ ConfCommit \/ CommitKey \/ SkipKey
  \/ OpenFile \/ WriteFile \/ RemoveFile \/ CommitDone

Reader(r) == ReadCopy(r) \/ \E k \in Keys : ReadSize(r, k)

Next == InitTask \/ Cli \/ Reset \/ \E r \in Readers : Reader(r)

Spec == Init /\ [][Next]_vars

-----------------------------------------------------------------------------
(* A value the cache does not hold for changed is the value in the file:   *)
(* no sequence of sets, failed commits and resets makes the store forget   *)
(* that it has something to write (kvstore_cache.c, xChangePending).       *)
PendingCovers ==
  \A k \in Keys :
    k < next /\ data[k] # NoValue /\ ~pending[k] => file[k] = data[k]

(* When the commit says "Configuration saved to NVM", the file of every    *)
(* key that is set holds its value, whichever of the writes failed before, *)
(* but for a key whose sync failed unnoticed (kvstore_nv_littlefs.c:250).  *)
SavedIsStored ==
  saved => \A k \in Keys \ unsynced : data[k] # NoValue => file[k] = data[k]

(* A read during which the key is not set returns the configured value     *)
(* whole, although its size and its bytes are read apart (kvstore.c:365).  *)
ReadsUndisturbed ==
  [][\A r \in Readers :
       reading[r] = "sized" /\ got'[r] # got[r] /\ ~disturbed[r]
         => got'[r] = Configured(wanted[r])]_vars

(* Every boot gets through the loading of the configuration.               *)
BootLoads == boot # "halted"

(* What the operator set stays staged until he sets it again or the device *)
(* is reset (cli_conf.c:64).                                               *)
StagedUntilCommit ==
  [][\A k \in Keys :
       pending[k] /\ cli # "copy" /\ cli' # "copy" /\ boot' # "mount"
         => data'[k] = data[k]]_vars

(* The store as its users see it: values are staged, and stored by the     *)
(* commit.  Before it is loaded an entry counts as what its file holds.    *)
InFile(k) == IF file[k] = Empty THEN NoValue ELSE file[k]

Staged(k) ==
  IF cli = "copy" /\ target = k THEN arg
  ELSE IF k < next THEN data[k] ELSE InFile(k)

Promise == INSTANCE KvPromise WITH
  staged <- [k \in Keys |-> Staged(k)],
  stored <- [k \in Keys |-> InFile(k)]

ImplementsPromise == Promise!PromiseSpec
=============================================================================
