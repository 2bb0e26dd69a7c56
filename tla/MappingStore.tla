---------------------------- MODULE MappingStore ----------------------------
(***************************************************************************)
(* repoMappingStore of src/repos_mapping.go: the registry of repos, a map  *)
(* in memory and the file repos.json, written whole through repos.json.tmp *)
(* and rename.  init, bind, delete, reconcile and refresh call upsert and  *)
(* delete at the same time; each changes the memory under mu, lets go of   *)
(* it, and persists under persistMu.  Any step on the file may fail, and   *)
(* the process may be killed and started again at any point.               *)
(*                                                                         *)
(* An entry is the number of the last write to its path: upsert and delete *)
(* are both a write, and which entry is newer can be told.                 *)
(***************************************************************************)
EXTENDS Naturals

CONSTANTS
    MappedPath,  \* repo paths
    Caller,      \* goroutines that call upsert or delete
    Nobody,      \* persistMu is free
    Torn,        \* a file cut short
    NoTmp,       \* repos.json.tmp does not exist
    MaxWrites    \* bound on the writes to a path

ASSUME CallersAreSomebody == Nobody \notin Caller
ASSUME NotContents == /\ Torn \notin [MappedPath -> Nat]
                      /\ NoTmp \notin [MappedPath -> Nat]
                      /\ Torn # NoTmp
ASSUME WriteBound == MaxWrites \in Nat

VARIABLES
    byID,        \* the map
    file,        \* what repos.json holds
    tmp,         \* what repos.json.tmp holds
    persistMu,   \* who holds it
    pc,          \* of a caller: "idle", "persist", "collected", "open", "written"
    entries,     \* the copy of the map a caller writes
    path,        \* the path a caller wrote
    write,       \* the number of that write
    acked        \* history: the last write of a path reported as saved

callVars == <<path, write>>
storeVars == <<byID, file, tmp, persistMu, pc, entries, callVars, acked>>

Map == [MappedPath -> Nat]
Empty == [p \in MappedPath |-> 0]

\* newRepoMappingStore and load, with no repos.json.
StoreInit ==
    /\ byID = Empty
    /\ file = Empty
    /\ tmp = NoTmp
    /\ persistMu = Nobody
    /\ pc = [c \in Caller |-> "idle"]
    /\ entries = [c \in Caller |-> Empty]
    /\ path \in [Caller -> MappedPath]
    /\ write = [c \in Caller |-> 0]
    /\ acked = Empty

At(c, l) == pc[c] = l
goto(c, l) == pc' = [pc EXCEPT ![c] = l]

\* upsert or delete, under mu.
upsertOrDelete(c, p) ==
    /\ At(c, "idle")
    /\ byID[p] < MaxWrites
    /\ byID' = [byID EXCEPT ![p] = @ + 1]
    /\ path' = [path EXCEPT ![c] = p]
    /\ write' = [write EXCEPT ![c] = byID[p] + 1]
    /\ goto(c, "persist")
    /\ UNCHANGED <<file, tmp, persistMu, entries, acked>>

Free == persistMu = Nobody

\* Mutant: a caller that finds the file being written leaves it to the writer.
collect_coalesced(c) ==
    /\ At(c, "persist")
    /\ \/ /\ Free
          /\ persistMu' = c
          /\ entries' = [entries EXCEPT ![c] = byID]
          /\ goto(c, "collected")
          /\ UNCHANGED acked
       \/ /\ ~Free
          /\ acked' = [acked EXCEPT ![path[c]] = write[c]]
          /\ goto(c, "idle")
          /\ UNCHANGED <<persistMu, entries>>
    /\ UNCHANGED <<byID, file, tmp, callVars>>

\* persist: persistMu is taken, and the map copied under mu.
collect(c) ==
    /\ At(c, "persist")
    /\ Free
    /\ persistMu' = c
    /\ entries' = [entries EXCEPT ![c] = byID]
    /\ goto(c, "collected")
    /\ UNCHANGED <<byID, file, tmp, callVars, acked>>

\* WriteFile truncates the file it opens ...
openTmp(c) ==
    /\ At(c, "collected")
    /\ tmp' = Torn
    /\ goto(c, "open")
    /\ UNCHANGED <<byID, file, persistMu, entries, callVars, acked>>

\* ... and fills it.
writeTmp(c) ==
    /\ At(c, "open")
    /\ tmp' = entries[c]
    /\ goto(c, "written")
    /\ UNCHANGED <<byID, file, persistMu, entries, callVars, acked>>

unlock == persistMu' = Nobody

returns(c) ==
    /\ unlock
    /\ entries' = [entries EXCEPT ![c] = Empty]
    /\ goto(c, "idle")

\* Rename; the caller gets nil.
rename(c) ==
    /\ At(c, "written")
    /\ tmp # NoTmp
    /\ file' = tmp
    /\ tmp' = NoTmp
    /\ acked' = [acked EXCEPT ![path[c]] = IF @ < write[c] THEN write[c] ELSE @]
    /\ returns(c)
    /\ UNCHANGED <<byID, callVars>>

\* MkdirAll, the encoding, WriteFile or Rename fails: the caller gets an error
\* and only logs it.  After a failing rename the temporary file is removed.
persistFails(c) ==
    /\ pc[c] \in {"collected", "open", "written"}
    /\ tmp' = IF At(c, "written") THEN NoTmp ELSE tmp
    /\ returns(c)
    /\ UNCHANGED <<byID, file, callVars, acked>>

\* Mutant: load believes a temporary file that it can parse.
load_wholeTmp == byID' = IF tmp \in {NoTmp, Torn} THEN file ELSE tmp

\* A file it cannot parse is fatal.
load == file # Torn /\ byID' = file

\* The process is killed and started again.
restart ==
    /\ load
    /\ persistMu' = Nobody
    /\ pc' = [c \in Caller |-> "idle"]
    /\ entries' = [c \in Caller |-> Empty]
    /\ UNCHANGED <<file, tmp, callVars, acked>>

Persist(c) ==
    collect(c) \/ openTmp(c) \/ writeTmp(c) \/ rename(c) \/ persistFails(c)

StoreNext ==
    \/ \E c \in Caller : (\E p \in MappedPath : upsertOrDelete(c, p)) \/ Persist(c)
    \/ restart

StoreSpec == StoreInit /\ [][StoreNext]_storeVars

-----------------------------------------------------------------------------
StoreTypeOK ==
    /\ byID \in Map
    /\ file \in Map \union {Torn}
    /\ tmp \in Map \union {Torn, NoTmp}
    /\ persistMu \in Caller \union {Nobody}
    /\ pc \in [Caller -> {"idle", "persist", "collected", "open", "written"}]
    /\ entries \in [Caller -> Map]
    /\ path \in [Caller -> MappedPath]
    /\ write \in [Caller -> Nat]
    /\ acked \in Map

(***************************************************************************)
(* repos.json is never half a file, whatever the callers, the failures and *)
(* the kills: load, which gives up on a file it cannot parse, always gets  *)
(* one map.                                                                *)
(***************************************************************************)
FileIsWhole == file # Torn

(***************************************************************************)
(* Once upsert or delete has returned nil the write is in a whole file for *)
(* good: no slower caller overwrites it with an older copy of the map, and *)
(* it outlives a kill.                                                     *)
(***************************************************************************)
AckedIsDurable == FileIsWhole /\ \A p \in MappedPath : acked[p] <= file[p]

(***************************************************************************)
(* The store implements a map kept in a file, whose saves only go forward. *)
(***************************************************************************)
Abstract == INSTANCE DurableMap WITH Path <- MappedPath
Implements == Abstract!Spec
=============================================================================
