------------------------------ MODULE TrustStore ------------------------------
(***************************************************************************)
(* The Trust service's FileStore (internal/trust/store.go): a state file   *)
(* and a revision anchor beside it, each replaced by a rename followed by  *)
(* a sync of their common directory, under an exclusive file lock.  The    *)
(* anchor lets Load refuse a state file that is older than the last one    *)
(* committed, and must never make it refuse what an interrupted Commit has *)
(* left behind.                                                            *)
(*                                                                         *)
(* disk is the directory as the processes see it.  survivors holds every   *)
(* version of it since the last successful sync: a power loss leaves one   *)
(* of them (renames in one directory reach the disk in order, as on a      *)
(* journalling file system).                                               *)
(***************************************************************************)
EXTENDS Integers, FiniteSets

CONSTANTS
    Processes,      \* processes that share the store
    Values,         \* what the snapshots of a revision can contain
    None,           \* no process, no file, no content
    MaxRevision,    \* the largest revision (^uint64(0) in the code)
    MaxFaults,      \* bound: failed syncs and killed processes
    MaxRestores,    \* bound: older state files put back by hand
    MaxBoots        \* bound: boots of the machine

ASSUME StoreAssumption ==
    /\ None \notin Processes \cup Values
    /\ MaxRevision \in Nat /\ MaxFaults \in Nat /\ MaxRestores \in Nat
    /\ MaxBoots \in Nat \ {0}

VARIABLES
    disk,       \* [state, anchor] as a process reads them now
    survivors,  \* the versions that a power loss could leave
    lock,       \* the process that holds the file lock, or None
    pc,         \* pc[c]: where c is in Load or Commit
    next,       \* next[c]: the snapshot c commits; NoFile for a Load
    copies,     \* state files that have been replaced
    seen,       \* highest revision Load or Commit has vouched for this boot
    committed,  \* highest revision for which Commit has returned success
    boot, faults, restores

vars == <<disk, survivors, lock, pc, next, copies, seen, committed,
          boot, faults, restores>>
files == <<disk, survivors, copies>>
ghosts == <<seen, committed>>
bounds == <<boot, faults, restores>>

-----------------------------------------------------------------------------
(* A file holds a revision and a content; in the anchor the content stands *)
(* for the SHA-256 digest of the state file.  The absent file counts as    *)
(* revision 0.                                                             *)
NoFile == [rev |-> 0, val |-> None, present |-> FALSE]

ZeroAnchor == [rev |-> 0, val |-> None, present |-> TRUE]

Contents == [rev : 1 .. MaxRevision, val : Values, present : {TRUE}]

Directories == [state : Contents \cup {NoFile},
                anchor : Contents \cup {NoFile, ZeroAnchor}]

(* Mutant: an anchor that lags one revision behind counts as a rollback.   *)
verdictStrict(d) ==
    IF ~d.state.present
    THEN IF ~d.anchor.present THEN "repair" ELSE IF d.anchor.rev = 0 THEN "ok" ELSE "rollback"
    ELSE IF d.state = d.anchor THEN "ok" ELSE "rollback"

(* Mutant: only the revisions are compared, and only for equality.         *)
verdictLenient(d) ==
    IF d.state.rev = d.anchor.rev /\ d.anchor.present THEN "ok" ELSE "repair"

(* What readLocked makes of the two files: it returns the state as it is,  *)
(* after it has written the anchor, or refuses with ErrStateRollback.      *)
verdict(d) ==
    CASE ~d.state.present /\ ~d.anchor.present -> "repair"
      [] ~d.state.present /\ d.anchor = ZeroAnchor -> "ok"
      [] d.state.present /\ d.anchor.present /\ d.state = d.anchor -> "ok"
      [] /\ d.state.present /\ d.anchor.present
         /\ d.state.rev = d.anchor.rev + 1 -> "repair"
      [] OTHER -> "rollback"

(* The anchor for a state file.                                            *)
revisionAnchor(state) == IF state.present THEN state ELSE ZeroAnchor

-----------------------------------------------------------------------------
PCs == {"idle", "read", "repair", "repairSync", "compare",
        "state", "stateSync", "anchor", "anchorSync"}

Goto(c, label) == pc' = [pc EXCEPT ![c] = label] /\ UNCHANGED <<lock, next>>

(* Load or Commit returns and its lock is released.                        *)
Return(c) ==
    /\ pc' = [pc EXCEPT ![c] = "idle"]
    /\ next' = [next EXCEPT ![c] = NoFile]
    /\ lock' = None

Fault == faults < MaxFaults /\ faults' = faults + 1

(* The rename of atomicReplaceAndSync: visible at once, not yet durable.   *)
Rename(d) ==
    /\ disk' = d
    /\ survivors' = survivors \cup {d}
    /\ copies' = copies \cup {disk.state}

(* The directory sync: everything renamed so far is durable, or an error.  *)
SyncSucceeds == survivors' = {disk} /\ UNCHANGED <<disk, copies, faults>>

SyncFails(c) == Fault /\ Return(c) /\ UNCHANGED <<files, ghosts>>

Vouch(rev) == seen' = IF rev > seen THEN rev ELSE seen

(* Load, or Commit of a snapshot: take the lock.                           *)
AcquireLock(c) ==
    /\ pc[c] = "idle" /\ lock = None
    /\ lock' = c
    /\ next' \in {[next EXCEPT ![c] = s] : s \in Contents \cup {NoFile}}
    /\ pc' = [pc EXCEPT ![c] = "read"]
    /\ UNCHANGED <<files, ghosts, bounds>>

ReadLocked(c) ==
    /\ pc[c] = "read"
    /\ \/ verdict(disk) = "ok" /\ Goto(c, "compare")
       \/ verdict(disk) = "repair" /\ Goto(c, "repair")
       \/ verdict(disk) = "rollback" /\ Return(c)
    /\ UNCHANGED <<files, ghosts, bounds>>

(* writeAnchorLocked refuses to move the anchor back, to move it by more   *)
(* than one revision, or to change it within a revision.                   *)
writeAnchorLocked(anchor) ==
    /\ disk.anchor.present =>
          /\ anchor.rev \in {disk.anchor.rev, disk.anchor.rev + 1}
          /\ anchor.rev = disk.anchor.rev => anchor = disk.anchor
    /\ Rename([disk EXCEPT !.anchor = anchor])

RepairAnchor(c) ==
    /\ pc[c] = "repair"
    /\ writeAnchorLocked(revisionAnchor(disk.state))
    /\ Goto(c, "repairSync")
    /\ UNCHANGED <<ghosts, bounds>>

RepairSync(c) ==
    /\ pc[c] = "repairSync"
    /\ \/ SyncSucceeds /\ Goto(c, "compare") /\ UNCHANGED ghosts
       \/ SyncFails(c)
    /\ UNCHANGED <<boot, restores>>

(* Mutant: Commit does not compare the revision with the expected one.     *)
CompareRevisionUnchecked(c) ==
    /\ pc[c] = "compare"
    /\ \/ next[c] = NoFile /\ Vouch(disk.state.rev) /\ Return(c)
       \/ next[c] # NoFile /\ Goto(c, "state") /\ UNCHANGED seen
    /\ UNCHANGED <<files, committed, bounds>>

(* Load returns what was read.  Commit goes on if the revision is the one  *)
(* its caller expects, and returns ErrRevisionConflict otherwise.          *)
CompareRevision(c) ==
    /\ pc[c] = "compare"
    /\ \/ next[c] = NoFile /\ Vouch(disk.state.rev) /\ Return(c)
       \/ /\ next[c] # NoFile /\ next[c].rev = disk.state.rev + 1
          /\ Goto(c, "state") /\ UNCHANGED seen
       \/ /\ next[c] # NoFile /\ next[c].rev # disk.state.rev + 1
          /\ Return(c) /\ UNCHANGED seen
    /\ UNCHANGED <<files, committed, bounds>>

ReplaceState(c) ==
    /\ pc[c] = "state"
    /\ Rename([disk EXCEPT !.state = next[c]])
    /\ Goto(c, "stateSync")
    /\ UNCHANGED <<ghosts, bounds>>

StateSync(c) ==
    /\ pc[c] = "stateSync"
    /\ \/ SyncSucceeds /\ Goto(c, "anchor") /\ UNCHANGED ghosts
       \/ SyncFails(c)
    /\ UNCHANGED <<boot, restores>>

ReplaceAnchor(c) ==
    /\ pc[c] = "anchor"
    /\ writeAnchorLocked(revisionAnchor(next[c]))
    /\ Goto(c, "anchorSync")
    /\ UNCHANGED <<ghosts, bounds>>

AnchorSync(c) ==
    /\ pc[c] = "anchorSync"
    /\ \/ /\ SyncSucceeds
          /\ Return(c)
          /\ Vouch(next[c].rev)
          /\ committed' = next[c].rev
       \/ SyncFails(c)
    /\ UNCHANGED <<boot, restores>>

-----------------------------------------------------------------------------
(* A process is killed; the kernel releases its lock.                      *)
Kill(c) ==
    /\ pc[c] # "idle"
    /\ Fault
    /\ Return(c)
    /\ UNCHANGED <<files, ghosts, boot, restores>>

PowerLoss ==
    /\ boot < MaxBoots
    /\ boot' = boot + 1
    /\ \E d \in survivors : disk' = d /\ survivors' = {d}
    /\ lock' = None
    /\ pc' = [c \in Processes |-> "idle"]
    /\ next' = [c \in Processes |-> NoFile]
    /\ seen' = committed
    /\ UNCHANGED <<copies, committed, faults, restores>>

(* Somebody puts an older copy of the state file back, or removes it, and  *)
(* leaves the anchor alone.                                                *)
RestoreOldState ==
    /\ restores < MaxRestores
    /\ restores' = restores + 1
    /\ lock = None
    /\ \E s \in copies : disk' = [disk EXCEPT !.state = s]
    /\ survivors' = {disk'}
    /\ UNCHANGED <<lock, pc, next, copies, ghosts, boot, faults>>

Init ==
    /\ disk = [state |-> NoFile, anchor |-> NoFile]
    /\ survivors = {disk}
    /\ lock = None
    /\ pc = [c \in Processes |-> "idle"]
    /\ next = [c \in Processes |-> NoFile]
    /\ copies = {}
    /\ seen = 0 /\ committed = 0
    /\ boot = 1 /\ faults = 0 /\ restores = 0

Next ==
    \/ \E c \in Processes :
          \/ AcquireLock(c) \/ ReadLocked(c) \/ RepairAnchor(c) \/ RepairSync(c)
          \/ CompareRevision(c) \/ ReplaceState(c) \/ StateSync(c)
          \/ ReplaceAnchor(c) \/ AnchorSync(c) \/ Kill(c)
    \/ PowerLoss
    \/ RestoreOldState

Spec == Init /\ [][Next]_vars

-----------------------------------------------------------------------------
(* Properties.                                                             *)

(* Types; the lock is held by the one process inside Load or Commit.       *)
TypeOK ==
    /\ disk \in Directories
    /\ survivors \in SUBSET Directories
    /\ pc \in [Processes -> PCs]
    /\ next \in [Processes -> Contents \cup {NoFile}]
    /\ \A c \in Processes : pc[c] # "idle" <=> lock = c
    /\ copies \in SUBSET (Contents \cup {NoFile})
    /\ seen \in 0 .. MaxRevision /\ committed \in 0 .. MaxRevision
    /\ boot \in 1 .. MaxBoots
    /\ faults \in 0 .. MaxFaults /\ restores \in 0 .. MaxRestores

(* The comment on FileStore: the anchor detects restoration of an older    *)
(* state file.  As long as nobody does that, no kill, failed sync or power *)
(* loss at any point of Load or Commit leaves a directory that the store   *)
(* itself would refuse as rolled back.                                     *)
Recoverable ==
    restores = 0 => \A d \in survivors : verdict(d) # "rollback"

(* A state that Load has returned or Commit has confirmed in this boot is  *)
(* never followed by an older one, even if an older state file is put      *)
(* back: what readLocked would accept now is no older.                     *)
MonotonicReads ==
    verdict(disk) # "rollback" => seen <= disk.state.rev

-----------------------------------------------------------------------------
Store == INSTANCE RevisionedStore WITH
    Documents <- Contents, Blank <- NoFile,
    value <- disk.state, maybe <- {d.state : d \in survivors}

(* The two files, with all their intermediate states, implement one        *)
(* document that only advances by whole revisions and only loses what no   *)
(* Commit has confirmed, until somebody puts an older file back.           *)
ImplementsStore ==
    Store!SInit /\ [][restores' > 0 \/ Store!SNext \/ UNCHANGED Store!svars]_vars
=============================================================================
