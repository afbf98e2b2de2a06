--------------------------- MODULE RemoteDirectory ---------------------------
(***************************************************************************)
(* The remote cache registry: RemoteFs of rpc/src/util/remoteCache.ts, a   *)
(* directory kept as one value of a remote cache beside a lock key, and    *)
(* rpc/src/registry/registries/remoteCacheRegistry.ts, which registers     *)
(* servers in it and reads it at intervals.                                *)
(*                                                                         *)
(* Each call of the cache is one step and happens between its call and its *)
(* answer; a process may die between any two.  The lock is tested with one *)
(* call and set with another, it expires after 10 s whatever its holder    *)
(* does, and a writer goes on without it after waiting 10 s: two operations*)
(* may race.  `raced` remembers that they did for as long as one of them   *)
(* is there.  The expiry of the directory itself, a day after the last     *)
(* access, is left out: every read puts it off.                            *)
(***************************************************************************)
EXTENDS Integers

CONSTANTS
    Regs,      \* the registries, one per server process
    Ops,       \* writeFile and removeFiles calls
    Names,     \* server ids
    Infos,     \* server infos
    None,
    Tries      \* bound on the checks of waitLock (21 in the code)

ASSUME NoneAssumption == None \notin Infos /\ None \notin Regs
ASSUME TriesAssumption == Tries \in Nat

VARIABLES
    files,         \* the stored directory: its files ...
    version,       \* ... and version; both empty when the key is not there
    epoch,         \* history: deletions of the key and stale writes
    raced,         \* history: the lock let two operations in, and one is there
    locked,        \* the key <dir>.locked exists
    pc,            \* the await an operation stands at
    owner, names, info,   \* its registry, file names and content (None: remove)
    tries,         \* failed checks of waitLock
    gotFiles, gotVersion, \* the directory it has read
    stopped,       \* a registry is stopped, or its process is dead
    mine,          \* currentRegisterServers
    seenFiles, seenVersion, seenEpoch  \* serverMap and version of a registry

dirVars == <<files, version, epoch>>
jobVars == <<owner, names, info>>
gotVars == <<gotFiles, gotVersion>>
regVars == <<stopped, mine>>
seenVars == <<seenFiles, seenVersion, seenEpoch>>
dvars == <<dirVars, raced, locked, pc, jobVars, tries, gotVars, regVars, seenVars>>

Dirs == [Names -> Infos \cup {None}]
EmptyDir == [n \in Names |-> None]

DTypeOK ==
    /\ files \in Dirs /\ version \in Nat /\ epoch \in Nat
    /\ raced \in BOOLEAN /\ locked \in BOOLEAN
    /\ pc \in [Ops -> {"idle", "wait", "lock", "read", "write", "erase", "unlock",
                       "done", "dead"}]
    /\ owner \in [Ops -> Regs \cup {None}]
    /\ names \in [Ops -> SUBSET Names]
    /\ info \in [Ops -> Infos \cup {None}]
    /\ tries \in [Ops -> 0..Tries]
    /\ gotFiles \in [Ops -> Dirs] /\ gotVersion \in [Ops -> Nat]
    /\ stopped \in [Regs -> BOOLEAN] /\ mine \in [Regs -> SUBSET Names]
    /\ seenFiles \in [Regs -> Dirs] /\ seenVersion \in [Regs -> Int]
    /\ seenEpoch \in [Regs -> Nat]

DInit ==
    /\ files = EmptyDir /\ version = 0 /\ epoch = 0 /\ raced = FALSE /\ locked = FALSE
    /\ pc = [w \in Ops |-> "idle"]
    /\ owner = [w \in Ops |-> None]
    /\ names = [w \in Ops |-> {}]
    /\ info = [w \in Ops |-> None]
    /\ tries = [w \in Ops |-> 0]
    /\ gotFiles = [w \in Ops |-> EmptyDir] /\ gotVersion = [w \in Ops |-> 0]
    /\ stopped = [r \in Regs |-> FALSE] /\ mine = [r \in Regs |-> {}]
    /\ seenFiles = [r \in Regs |-> EmptyDir] /\ seenVersion = [r \in Regs |-> -1]
    /\ seenEpoch = [r \in Regs |-> 0]

Held == {"read", "write", "erase", "unlock"}
Critical == Held \cup {"lock"}

\* w comes to lock(): two operations are in at once if another stands at one
\* of the calls L.
ComesToLock(w, L) ==
    /\ pc' = [pc EXCEPT ![w] = "lock"]
    /\ raced' = (raced \/ \E v \in Ops : pc[v] \in L)

\* A race is over when no operation is left that took part in it.
RaceEnds == raced' = (raced /\ \E v \in Ops : pc'[v] \in Critical)

-----------------------------------------------------------------------------
(* The registry.  Its calls are refused once it is stopped.                *)

StartOp(w, r, S, i) ==
    /\ pc[w] = "idle"
    /\ pc' = [pc EXCEPT ![w] = "wait"]
    /\ owner' = [owner EXCEPT ![w] = r]
    /\ names' = [names EXCEPT ![w] = S]
    /\ info' = [info EXCEPT ![w] = i]
    /\ UNCHANGED <<dirVars, raced, locked, tries, gotVars, seenVars>>

Register(w, r, n, i) ==
    /\ ~stopped[r]
    /\ mine' = [mine EXCEPT ![r] = @ \cup {n}]
    /\ StartOp(w, r, {n}, i)
    /\ UNCHANGED stopped

UnRegister(w, r, n) ==
    /\ ~stopped[r]
    /\ mine' = [mine EXCEPT ![r] = @ \ {n}]
    /\ StartOp(w, r, {n}, None)
    /\ UNCHANGED stopped

\* stop() leaves the removal of its servers behind, and has none to remove
\* when it registered nothing.
StopRemoves(w, r) ==
    /\ ~stopped[r]
    /\ mine[r] # {}
    /\ stopped' = [stopped EXCEPT ![r] = TRUE]
    /\ StartOp(w, r, mine[r], None)
    /\ UNCHANGED mine

StopEmpty(r) ==
    /\ ~stopped[r]
    /\ mine[r] = {}
    /\ stopped' = [stopped EXCEPT ![r] = TRUE]
    /\ UNCHANGED <<dirVars, raced, locked, pc, jobVars, tries, gotVars, mine, seenVars>>

\* The process dies wherever its operations are.
Crash(r) ==
    /\ stopped' = [stopped EXCEPT ![r] = TRUE]
    /\ pc' = [w \in Ops |-> IF owner[w] = r /\ pc[w] # "done" THEN "dead" ELSE pc[w]]
    /\ RaceEnds
    /\ UNCHANGED <<dirVars, locked, jobVars, tries, gotVars, mine, seenVars>>

\* Mutant: serverMap is set once.
SyncKeepsMap(r) ==
    /\ ~stopped[r]
    /\ version # seenVersion[r]
    /\ seenVersion' = [seenVersion EXCEPT ![r] = version]
    /\ seenFiles' = [seenFiles EXCEPT ![r] = IF seenVersion[r] = -1 THEN files ELSE @]
    /\ seenEpoch' = [seenEpoch EXCEPT ![r] = epoch]
    /\ UNCHANGED <<dirVars, raced, locked, pc, jobVars, tries, gotVars, regVars>>

\* getAllServers in the sync interval: the map is taken over, and told to the
\* subscribers, when the version differs.  It waits for the lock too, but as
\* it gives up or reads one call later it may read at any moment.
Sync(r) ==
    /\ ~stopped[r]
    /\ version # seenVersion[r]
    /\ seenVersion' = [seenVersion EXCEPT ![r] = version]
    /\ seenFiles' = [seenFiles EXCEPT ![r] = files]
    /\ seenEpoch' = [seenEpoch EXCEPT ![r] = epoch]
    /\ UNCHANGED <<dirVars, raced, locked, pc, jobVars, tries, gotVars, regVars>>

-----------------------------------------------------------------------------
(* writeFile and removeFiles, one step per call of the cache.              *)

GoTo(w, l) == pc' = [pc EXCEPT ![w] = l]
KeepRest == UNCHANGED <<jobVars, tries, gotVars, regVars, seenVars>>

\* Mutant: the answer of isLocked() is not awaited.
CheckFreeIgnored(w) ==
    /\ pc[w] = "wait" /\ tries[w] < Tries
    /\ ComesToLock(w, {"lock"})
    /\ UNCHANGED <<dirVars, locked>> /\ KeepRest

\* waitLock: isLocked() answers no ...
CheckFree(w) ==
    /\ pc[w] = "wait" /\ tries[w] < Tries
    /\ ~locked
    /\ ComesToLock(w, {"lock"})
    /\ UNCHANGED <<dirVars, locked>> /\ KeepRest

\* Mutant: the time left is never compared.
CheckBusyForever(w) ==
    /\ pc[w] = "wait"
    /\ locked
    /\ tries' = [tries EXCEPT ![w] = @ + 1]
    /\ UNCHANGED <<dirVars, raced, locked, pc, jobVars, gotVars, regVars, seenVars>>

\* ... or yes, and it is asked again half a second later ...
CheckBusy(w) ==
    /\ pc[w] = "wait" /\ tries[w] < Tries
    /\ locked
    /\ tries' = [tries EXCEPT ![w] = @ + 1]
    /\ UNCHANGED <<dirVars, raced, locked, pc, jobVars, gotVars, regVars, seenVars>>

\* Mutant: the wait is over only if the lock is, though nobody asks again.
GiveUpNever(w) ==
    /\ pc[w] = "wait" /\ tries[w] > Tries
    /\ ComesToLock(w, Critical)
    /\ UNCHANGED <<dirVars, locked>> /\ KeepRest

\* ... until 10 s are over.
GiveUp(w) ==
    /\ pc[w] = "wait" /\ tries[w] = Tries
    /\ ComesToLock(w, Critical)
    /\ UNCHANGED <<dirVars, locked>> /\ KeepRest

\* Mutant: lock() is left out.
LockForgotten(w) ==
    /\ pc[w] = "lock"
    /\ GoTo(w, "read")
    /\ UNCHANGED <<dirVars, raced, locked>> /\ KeepRest

Lock(w) ==
    /\ pc[w] = "lock"
    /\ locked' = TRUE
    /\ GoTo(w, "read")
    /\ UNCHANGED <<dirVars, raced>> /\ KeepRest

\* Mutant: the directory is written anew, not changed.
EditedAlone(dir, S, i) == [n \in Names |-> IF n \in S THEN i ELSE None]

\* What an operation that writes i under the names S makes of a directory.
Edited(dir, S, i) == [n \in Names |-> IF n \in S THEN i ELSE dir[n]]

\* readdir(false).  A removal that changes nothing writes nothing.
Read(w) ==
    LET dir == Edited(files, names[w], info[w])
    IN /\ pc[w] = "read"
       /\ gotFiles' = [gotFiles EXCEPT ![w] = files]
       /\ gotVersion' = [gotVersion EXCEPT ![w] = version]
       /\ \/ /\ info[w] # None \/ dir # files
             /\ GoTo(w, "write")
          \/ /\ info[w] = None /\ dir = files
             /\ GoTo(w, IF dir = EmptyDir THEN "erase" ELSE "unlock")
       /\ UNCHANGED <<dirVars, raced, locked, jobVars, tries, regVars, seenVars>>

\* Mutant: the version counts removals only.
NextVersionOnRemoval(dir, old, v) ==
    IF \E n \in Names : dir[n] = None /\ old[n] # None THEN v + 1 ELSE v

\* version++ when the content changes.
NextVersion(dir, old, v) == IF dir = old THEN v ELSE v + 1

\* Somebody stored the directory since w read it.
Stale(w) == gotFiles[w] # files \/ gotVersion[w] # version

\* writedir: an empty directory is deleted, any other is stored.  Nothing
\* tells w that what it has read is stale.
Write(w) ==
    LET dir == Edited(gotFiles[w], names[w], info[w])
    IN /\ pc[w] = "write"
       /\ files' = dir
       /\ \/ /\ dir = EmptyDir
             /\ version' = 0
             /\ GoTo(w, "erase")
          \/ /\ dir # EmptyDir
             /\ version' = NextVersion(dir, gotFiles[w], gotVersion[w])
             /\ GoTo(w, "unlock")
       /\ epoch' = IF dir = EmptyDir \/ Stale(w) THEN epoch + 1 ELSE epoch
       /\ UNCHANGED <<raced, locked>> /\ KeepRest

\* removedir() at the end of removeFiles.
Erase(w) ==
    /\ pc[w] = "erase"
    /\ files' = EmptyDir
    /\ version' = 0
    /\ epoch' = IF files = EmptyDir THEN epoch ELSE epoch + 1
    /\ GoTo(w, "unlock")
    /\ UNCHANGED <<raced, locked>> /\ KeepRest

\* unlock() deletes the key, whoever set it.
Unlock(w) ==
    /\ pc[w] = "unlock"
    /\ locked' = FALSE
    /\ GoTo(w, "done")
    /\ RaceEnds
    /\ UNCHANGED dirVars /\ KeepRest

\* The lock key's 10 s are over, though its holder may be at work.
LockExpires ==
    /\ locked
    /\ locked' = FALSE
    /\ raced' = (raced \/ \E w \in Ops : pc[w] \in Held)
    /\ UNCHANGED <<dirVars, pc, jobVars, tries, gotVars, regVars, seenVars>>

OpStep(w) ==
    \/ CheckFree(w) \/ CheckBusy(w) \/ GiveUp(w) \/ Lock(w)
    \/ Read(w) \/ Write(w) \/ Erase(w) \/ Unlock(w)

-----------------------------------------------------------------------------
DNext ==
    \/ \E w \in Ops, r \in Regs :
           \/ \E n \in Names : UnRegister(w, r, n) \/ \E i \in Infos : Register(w, r, n, i)
           \/ StopRemoves(w, r)
    \/ \E r \in Regs : StopEmpty(r) \/ Crash(r) \/ Sync(r)
    \/ \E w \in Ops : OpStep(w)
    \/ LockExpires

DSpec == DInit /\ [][DNext]_dvars

\* Calls are answered and the sync interval goes on; keys expire.
DFairSpec ==
    /\ DSpec
    /\ \A w \in Ops : WF_dvars(OpStep(w))
    /\ \A r \in Regs : WF_dvars(Sync(r))
    /\ WF_dvars(LockExpires)

-----------------------------------------------------------------------------
\* At most one operation is between the test of the lock and its release.
OneWriter ==
    \A v, w \in Ops : pc[v] \in Critical /\ pc[w] \in Critical => v = w

\* What an operation is about to write was made of what is stored now.
WritesFresh ==
    \A w \in Ops :
        /\ pc[w] = "write" => ~Stale(w)
        /\ pc[w] = "erase" => files = EmptyDir

\* The lock excludes, and no registration of another server is overwritten,
\* unless two operations test the lock before one of them sets it, a wait runs
\* out, or the key expires, while another operation is at work.  Nothing else
\* breaks it: no holder's death, no unlock() of another's key; and the lock
\* holds again as soon as those operations are over.
ExclusionBreaksOnlyByRace == ~raced => OneWriter /\ WritesFresh

\* A registry that has the current version has the current files, races or
\* not, if the directory was neither deleted nor written from a stale copy
\* since it was read: comparing versions is enough.
VersionIdentifiesFiles ==
    \A r \in Regs :
        seenVersion[r] = version /\ seenEpoch[r] = epoch => seenFiles[r] = files

\* What the lock and the version protect: updates are lost by races only, and a
\* reader that compares versions misses none. (remoteCache.ts, syncData)
LockSound == DTypeOK /\ ExclusionBreaksOnlyByRace /\ VersionIdentifiesFiles

\* Each operation edits a directory that was stored during its call and stores
\* the result at once; it is the one stored at that moment unless the lock is
\* contended.  As in Directory, for every behaviour of the code.
StageOf == [idle |-> "idle", wait |-> "called", lock |-> "called", read |-> "called",
            write |-> "looking", erase |-> "clearing", unlock |-> "applied",
            done |-> "over", dead |-> "over"]

Dir == INSTANCE Directory WITH
           stage <- [w \in Ops |-> StageOf[pc[w]]], base <- gotFiles, contended <- raced
KeepsDirectory == Dir!Spec

\* Every operation ends, also beside dead holders of the lock.
EveryOpEnds == \A w \in Ops : pc[w] = "wait" ~> pc[w] \in {"done", "dead"}

\* If the directory is never deleted and never written from a stale copy, a
\* running registry ends up with the files that are stored.
ReadersCatchUp ==
    [](epoch = 0) => \A r \in Regs : <>[](stopped[r] \/ seenFiles[r] = files)

\* Operations end and readers converge. (remoteCache.ts waitLock, lock;
\* remoteCacheRegistry.ts syncData)
OpsEnd == EveryOpEnds /\ ReadersCatchUp
=============================================================================
