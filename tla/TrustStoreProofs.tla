---------------------------- MODULE TrustStoreProofs ----------------------------
(***************************************************************************)
(* Machine-checked proofs about TrustStore, for any number of processes,   *)
(* revisions, contents, faults, restores and boots: the anchor protocol    *)
(* recovers from every interruption, refuses every rollback of what was    *)
(* vouched for, and implements RevisionedStore.                            *)
(***************************************************************************)
EXTENDS TrustStore, TLAPS

-----------------------------------------------------------------------------
(* The files.                                                              *)

Settled(d) ==
    /\ d.anchor.present
    /\ \/ d.state = d.anchor
       \/ d.state = NoFile /\ d.anchor = ZeroAnchor

Ahead(d) == d.anchor.present /\ d.state.present /\ d.state.rev = d.anchor.rev + 1

(* The files a directory can hold.                                         *)
LEMMA FileFacts ==
  /\ \A f \in Contents : f.rev \in Nat /\ f.rev >= 1 /\ f.rev <= MaxRevision /\ f.present
  /\ NoFile.rev = 0 /\ ~NoFile.present
  /\ ZeroAnchor.rev = 0 /\ ZeroAnchor.present
  <1>1. \A f \in Contents : f.rev \in 1 .. MaxRevision /\ f.present
    BY DEF Contents
  <1>2. /\ NoFile.rev = 0 /\ ~NoFile.present
        /\ ZeroAnchor.rev = 0 /\ ZeroAnchor.present
    BY DEF NoFile, ZeroAnchor
  <1> QED BY <1>1, <1>2, StoreAssumption

(* The files of a directory.                                               *)
LEMMA FileTypes ==
  ASSUME NEW d \in Directories
  PROVE  /\ d.state \in Contents \/ d.state = NoFile
         /\ d.anchor \in Contents \/ d.anchor = NoFile \/ d.anchor = ZeroAnchor
         /\ d.state.rev \in Nat /\ d.state.rev <= MaxRevision
         /\ d.anchor.rev \in Nat /\ d.anchor.rev <= MaxRevision
  <1>1. /\ d.state \in Contents \/ d.state = NoFile
        /\ d.anchor \in Contents \/ d.anchor = NoFile \/ d.anchor = ZeroAnchor
    BY DEF Directories
  <1> QED BY <1>1, FileFacts, StoreAssumption

(* When readLocked accepts a directory as it is, and when it first writes  *)
(* the anchor.                                                             *)
LEMMA Verdicts ==
  ASSUME NEW d \in Directories
  PROVE  /\ verdict(d) = "ok" <=> Settled(d)
         /\ verdict(d) = "repair" <=>
               \/ Ahead(d)
               \/ d.state = NoFile /\ d.anchor = NoFile
         /\ verdict(d) \in {"ok", "repair", "rollback"}
  <1>0. /\ d.state \in Contents \/ d.state = NoFile
        /\ d.anchor \in Contents \/ d.anchor = NoFile \/ d.anchor = ZeroAnchor
        /\ d.state.rev \in Nat /\ d.anchor.rev \in Nat
    BY FileTypes
  <1>1. /\ d.state = NoFile <=> ~d.state.present
        /\ d.anchor = NoFile <=> ~d.anchor.present
        /\ d.anchor = ZeroAnchor => d.anchor.present
    BY <1>0, FileFacts
  <1>2. d.state = d.anchor => d.state.rev # d.anchor.rev + 1
    BY <1>0
  <1> QED BY <1>1, <1>2 DEF verdict, Settled, Ahead

-----------------------------------------------------------------------------
(* The position of the process inside Load or Commit says what the two     *)
(* files are: nobody else changes them while it holds the lock.            *)
Position(c) ==
    /\ pc[c] = "repair" => verdict(disk) = "repair"
    /\ pc[c] \in {"repairSync", "compare", "state"} => Settled(disk)
    /\ pc[c] = "state" =>
          next[c] \in Contents /\ next[c].rev = disk.state.rev + 1
    /\ pc[c] \in {"stateSync", "anchor", "anchorSync"} =>
          next[c] \in Contents /\ disk.state = next[c]
    /\ pc[c] \in {"stateSync", "anchor"} => Ahead(disk)
    /\ pc[c] = "anchorSync" => disk.anchor = next[c]

(* The anchor is at least as new as everything vouched for in this boot,   *)
(* and what a power loss could leave is at least as new as every confirmed *)
(* commit.                                                                 *)
AnchorInv ==
    /\ disk \in survivors
    /\ seen <= disk.anchor.rev
    /\ \A d \in survivors : committed <= d.anchor.rev

Inv == TypeOK /\ (\A c \in Processes : Position(c)) /\ AnchorInv /\ Recoverable

-----------------------------------------------------------------------------
(* Load or Commit returning, with or without an error, touches no file.    *)
LEMMA ReturnStep ==
  ASSUME Inv, NEW c \in Processes, Return(c), pc[c] # "idle",
         UNCHANGED <<files, boot, restores>>, faults' \in 0 .. MaxFaults,
         seen' \in 0 .. MaxRevision, seen' <= disk.anchor.rev,
         committed' \in 0 .. MaxRevision, \A d \in survivors : committed' <= d.anchor.rev
  PROVE  Inv'
  <1>1. /\ pc' \in [Processes -> PCs] /\ pc'[c] = "idle"
        /\ next' \in [Processes -> Contents \cup {NoFile}]
        /\ \A p \in Processes \ {c} : pc'[p] = pc[p] /\ next'[p] = next[p]
        /\ lock = c /\ lock' = None
    BY DEF Inv, TypeOK, Return, PCs
  <1>2. \A p \in Processes : pc'[p] = "idle"
    BY <1>1 DEF Inv, TypeOK
  <1>3. TypeOK'
    BY <1>1, <1>2, StoreAssumption DEF Inv, TypeOK, files
  <1>4. \A p \in Processes : Position(p)'
    BY <1>2 DEF Position
  <1>5. AnchorInv' /\ Recoverable'
    BY DEF Inv, AnchorInv, Recoverable, files
  <1> QED BY <1>3, <1>4, <1>5 DEF Inv

(* The process inside goes on; Position is shown for where it gets.        *)
LEMMA GotoStep ==
  ASSUME Inv, NEW c \in Processes, NEW label \in PCs \ {"idle"}, Goto(c, label),
         pc[c] # "idle", UNCHANGED <<ghosts, bounds>>,
         disk' \in survivors', survivors' \in SUBSET Directories,
         copies' \in SUBSET (Contents \cup {NoFile}),
         disk'.anchor.rev >= disk.anchor.rev,
         survivors' \subseteq survivors \cup {disk'},
         disk' \notin survivors => verdict(disk') # "rollback",
         Position(c)'
  PROVE  Inv'
  <1>1. /\ pc' \in [Processes -> PCs] /\ pc'[c] = label
        /\ \A p \in Processes \ {c} : pc'[p] = pc[p]
        /\ UNCHANGED <<lock, next>> /\ lock = c
    BY DEF Inv, TypeOK, Goto
  <1>2. TypeOK'
    BY <1>1 DEF Inv, TypeOK, ghosts, bounds
  <1>3. \A p \in Processes \ {c} : pc'[p] = "idle"
    BY <1>1 DEF Inv, TypeOK
  <1>4. \A p \in Processes : Position(p)'
    BY <1>3 DEF Position
  <1>5. /\ disk \in Directories /\ disk' \in Directories
        /\ disk.anchor.rev \in Nat /\ disk'.anchor.rev \in Nat
        /\ seen \in Nat /\ committed \in Nat
    BY <1>2, FileTypes, StoreAssumption DEF Inv, TypeOK
  <1>6. AnchorInv'
    BY <1>5 DEF Inv, AnchorInv, ghosts
  <1>7. Recoverable'
    BY DEF Inv, Recoverable, bounds
  <1> QED BY <1>2, <1>4, <1>6, <1>7 DEF Inv

(* The types the proofs below start from.                                  *)
LEMMA InvTypes ==
  ASSUME Inv
  PROVE  /\ disk \in Directories /\ survivors \in SUBSET Directories
         /\ disk \in survivors
         /\ disk.state \in Contents \cup {NoFile}
         /\ disk.anchor \in Contents \cup {NoFile, ZeroAnchor}
         /\ disk.state.rev \in Nat /\ disk.anchor.rev \in Nat
         /\ disk.state.rev <= MaxRevision /\ disk.anchor.rev <= MaxRevision
         /\ seen \in Nat /\ committed \in Nat
         /\ copies \in SUBSET (Contents \cup {NoFile})
         /\ faults \in 0 .. MaxFaults
         /\ \A c \in Processes : next[c] \in Contents \cup {NoFile}
         /\ Fault => faults' \in 0 .. MaxFaults
  <1>1. disk \in Directories
    BY DEF Inv, TypeOK
  <1>2. Fault /\ faults \in 0 .. MaxFaults => faults' \in 0 .. MaxFaults
    BY StoreAssumption DEF Fault
  <1> QED BY <1>1, <1>2, FileTypes, StoreAssumption DEF Inv, TypeOK, AnchorInv, Directories

(* A rename replaces one of the two files; the old versions survive.       *)
LEMMA RenameStep ==
  ASSUME Inv, NEW c \in Processes, NEW label \in PCs \ {"idle"}, pc[c] # "idle",
         NEW d \in Directories, Rename(d), Goto(c, label),
         UNCHANGED <<ghosts, bounds>>,
         d.anchor.rev >= disk.anchor.rev, verdict(d) # "rollback", Position(c)'
  PROVE  Inv'
  <1>1. /\ disk' = d /\ survivors' = survivors \cup {d}
        /\ copies' = copies \cup {disk.state}
    BY DEF Rename
  <1> QED BY <1>1, InvTypes, GotoStep

(* A sync that succeeds changes no file.                                   *)
LEMMA SyncStep ==
  ASSUME Inv, NEW c \in Processes, NEW label \in PCs \ {"idle"}, pc[c] # "idle",
         SyncSucceeds, Goto(c, label), UNCHANGED <<ghosts, boot, restores>>,
         Position(c)'
  PROVE  Inv'
  <1>1. disk' = disk /\ survivors' = {disk} /\ UNCHANGED <<copies, bounds>>
    BY DEF SyncSucceeds, bounds
  <1>2. disk.anchor.rev >= disk.anchor.rev
    BY InvTypes
  <1> QED BY <1>1, <1>2, InvTypes, GotoStep

(* A sync that fails, or a kill, is a return with an error.                *)
LEMMA FailStep ==
  ASSUME Inv, NEW c \in Processes, pc[c] # "idle", Return(c), Fault,
         UNCHANGED <<files, ghosts, boot, restores>>
  PROVE  Inv'
  <1>1. /\ seen' \in 0 .. MaxRevision /\ seen' <= disk.anchor.rev
        /\ committed' \in 0 .. MaxRevision
        /\ \A d \in survivors : committed' <= d.anchor.rev
    BY DEF Inv, TypeOK, AnchorInv, ghosts
  <1> QED BY <1>1, InvTypes, ReturnStep

(* Taking the lock.                                                        *)
LEMMA AcquireStep ==
  ASSUME Inv, NEW c \in Processes, AcquireLock(c)
  PROVE  Inv'
  <1>1. /\ pc' = [pc EXCEPT ![c] = "read"] /\ lock = None /\ lock' = c
        /\ next' \in [Processes -> Contents \cup {NoFile}]
        /\ UNCHANGED <<files, ghosts, bounds>>
    BY DEF AcquireLock, Inv, TypeOK
  <1>2. pc \in [Processes -> PCs] /\ \A p \in Processes : pc[p] = "idle"
    BY <1>1, StoreAssumption DEF Inv, TypeOK
  <1>3. /\ pc' \in [Processes -> PCs] /\ pc'[c] = "read"
        /\ \A p \in Processes \ {c} : pc'[p] = "idle"
    BY <1>1, <1>2 DEF PCs
  <1>4. TypeOK'
    BY <1>1, <1>3 DEF Inv, TypeOK, files, ghosts, bounds
  <1>5. \A p \in Processes : Position(p)'
    BY <1>3 DEF Position
  <1>6. AnchorInv' /\ Recoverable'
    BY <1>1 DEF Inv, AnchorInv, Recoverable, files, ghosts, bounds
  <1> QED BY <1>4, <1>5, <1>6 DEF Inv

(* Reading the two files, and repairing the anchor.                        *)
LEMMA ReadStep ==
  ASSUME Inv, NEW c \in Processes,
         ReadLocked(c) \/ RepairAnchor(c) \/ RepairSync(c)
  PROVE  Inv'
  <1>0. /\ pc[c] \in {"read", "repair", "repairSync"} /\ Position(c)
        /\ disk \in Directories
    BY InvTypes DEF ReadLocked, RepairAnchor, RepairSync, Inv
  <1>1. CASE ReadLocked(c)
    <2>1. UNCHANGED <<files, ghosts, bounds>> /\ disk.anchor.rev >= disk.anchor.rev
      BY <1>1, InvTypes DEF ReadLocked
    <2>2. CASE \E label \in {"compare", "repair"} :
                  /\ Goto(c, label)
                  /\ verdict(disk) = IF label = "compare" THEN "ok" ELSE "repair"
      <3> PICK label \in {"compare", "repair"} :
                  /\ Goto(c, label)
                  /\ verdict(disk) = IF label = "compare" THEN "ok" ELSE "repair"
        BY <2>2
      <3>1. label \in PCs \ {"idle"} /\ pc'[c] = label
        BY DEF PCs, Goto, Inv, TypeOK
      <3>2. Position(c)'
        BY <1>0, <2>1, <3>1, Verdicts DEF Position, files
      <3> QED BY <1>0, <2>1, <3>1, <3>2, GotoStep, InvTypes DEF files
    <2>3. CASE Return(c)
      <3>1. /\ seen' \in 0 .. MaxRevision /\ seen' <= disk.anchor.rev
            /\ committed' \in 0 .. MaxRevision
            /\ \A d \in survivors : committed' <= d.anchor.rev
        BY <2>1 DEF Inv, TypeOK, AnchorInv, ghosts
      <3> QED BY <1>0, <2>1, <2>3, <3>1, ReturnStep, InvTypes DEF bounds
    <2> QED BY <1>1, <2>2, <2>3 DEF ReadLocked
  <1>2. CASE RepairAnchor(c)
    <2> DEFINE d == [disk EXCEPT !.anchor = revisionAnchor(disk.state)]
    <2>1. /\ Rename(d) /\ Goto(c, "repairSync") /\ UNCHANGED <<ghosts, bounds>>
          /\ verdict(disk) = "repair"
      BY <1>0, <1>2 DEF RepairAnchor, writeAnchorLocked, Position
    <2>2. Ahead(disk) \/ (disk.state = NoFile /\ disk.anchor = NoFile)
      BY <1>0, <2>1, Verdicts
    <2>3. /\ revisionAnchor(disk.state) \in Contents \cup {NoFile, ZeroAnchor}
          /\ revisionAnchor(disk.state).rev >= disk.anchor.rev
          /\ revisionAnchor(disk.state).present
          /\ \/ disk.state = revisionAnchor(disk.state)
             \/ disk.state = NoFile /\ revisionAnchor(disk.state) = ZeroAnchor
      BY <2>2, InvTypes, FileFacts DEF revisionAnchor, Ahead
    <2>4. /\ d \in Directories /\ d.state = disk.state
          /\ d.anchor = revisionAnchor(disk.state)
      BY <1>0, <2>3 DEF Directories
    <2> HIDE DEF d
    <2>5. Settled(d)
      BY <2>3, <2>4 DEF Settled
    <2>6. verdict(d) # "rollback" /\ d.anchor.rev >= disk.anchor.rev
      BY <2>3, <2>4, <2>5, Verdicts
    <2>7. /\ pc'[c] = "repairSync" /\ disk' = d
          /\ "repairSync" \in PCs \ {"idle"}
      BY <2>1 DEF Goto, Inv, TypeOK, PCs, Rename
    <2>8. Position(c)'
      BY <2>5, <2>7 DEF Position
    <2> QED BY <1>0, <2>1, <2>4, <2>6, <2>7, <2>8, RenameStep
  <1>3. CASE RepairSync(c)
    <2>1. CASE SyncSucceeds /\ Goto(c, "compare") /\ UNCHANGED ghosts
      <3>1. pc'[c] = "compare" /\ "compare" \in PCs \ {"idle"}
        BY <2>1 DEF Goto, Inv, TypeOK, PCs
      <3>2. Settled(disk) /\ disk' = disk /\ UNCHANGED <<boot, restores>>
            /\ pc[c] = "repairSync"
        BY <1>0, <1>3, <2>1 DEF RepairSync, Position, SyncSucceeds
      <3>3. Position(c)'
        BY <3>1, <3>2 DEF Position
      <3> QED BY <1>0, <2>1, <3>1, <3>2, <3>3, SyncStep
    <2>2. CASE SyncFails(c)
      BY <1>0, <1>3, <2>2, FailStep DEF RepairSync, SyncFails
    <2> QED BY <1>3, <2>1, <2>2 DEF RepairSync
  <1> QED BY <1>1, <1>2, <1>3

(* Comparing the revision: what Load returns is settled, so the anchor is  *)
(* as new.                                                                 *)
LEMMA CompareStep ==
  ASSUME Inv, NEW c \in Processes, CompareRevision(c)
  PROVE  Inv'
  <1>0. /\ pc[c] = "compare" /\ Settled(disk)
        /\ UNCHANGED <<files, committed, bounds>>
    BY DEF CompareRevision, Position, Inv
  <1>1. disk.state.rev = disk.anchor.rev
    BY <1>0, FileFacts DEF Settled
  <1>2. /\ committed' \in 0 .. MaxRevision
        /\ \A d \in survivors : committed' <= d.anchor.rev
        /\ seen \in 0 .. MaxRevision /\ seen <= disk.anchor.rev
    BY <1>0 DEF Inv, TypeOK, AnchorInv
  <1>3. CASE Return(c) /\ (Vouch(disk.state.rev) \/ UNCHANGED seen)
    <2>1. seen' \in 0 .. MaxRevision /\ seen' <= disk.anchor.rev
      BY <1>1, <1>2, <1>3, InvTypes, StoreAssumption DEF Vouch
    <2> QED BY <1>0, <1>2, <1>3, <2>1, ReturnStep, InvTypes DEF bounds
  <1>4. CASE /\ next[c] # NoFile /\ next[c].rev = disk.state.rev + 1
             /\ Goto(c, "state") /\ UNCHANGED seen
    <2>1. /\ pc'[c] = "state" /\ "state" \in PCs \ {"idle"} /\ next'[c] = next[c]
      BY <1>4 DEF Goto, Inv, TypeOK, PCs
    <2>2. next[c] \in Contents /\ disk.anchor.rev >= disk.anchor.rev
      BY <1>4, InvTypes
    <2>3. Position(c)'
      BY <1>0, <1>4, <2>1, <2>2 DEF Position, files
    <2> QED BY <1>0, <1>4, <2>1, <2>2, <2>3, GotoStep, InvTypes DEF files, ghosts
  <1> QED BY <1>3, <1>4 DEF CompareRevision

(* The writing half of Commit.                                             *)
LEMMA CommitStep ==
  ASSUME Inv, NEW c \in Processes,
         \/ ReplaceState(c) \/ StateSync(c) \/ ReplaceAnchor(c) \/ AnchorSync(c)
  PROVE  Inv'
  <1>0. /\ pc[c] \in {"state", "stateSync", "anchor", "anchorSync"} /\ Position(c)
        /\ disk \in Directories /\ next[c] \in Contents
    BY InvTypes DEF ReplaceState, StateSync, ReplaceAnchor, AnchorSync, Inv, Position
  <1>1. CASE ReplaceState(c)
    <2> DEFINE d == [disk EXCEPT !.state = next[c]]
    <2>1. /\ Rename(d) /\ Goto(c, "stateSync") /\ UNCHANGED <<ghosts, bounds>>
          /\ Settled(disk) /\ next[c].rev = disk.state.rev + 1
      BY <1>0, <1>1 DEF ReplaceState, Position
    <2>2. d \in Directories /\ d.state = next[c] /\ d.anchor = disk.anchor
      BY <1>0 DEF Directories
    <2> HIDE DEF d
    <2>3. disk.state.rev = disk.anchor.rev
      BY <2>1, FileFacts DEF Settled
    <2>4. Ahead(d)
      BY <1>0, <2>1, <2>2, <2>3, FileFacts DEF Ahead, Settled
    <2>5. verdict(d) # "rollback" /\ d.anchor.rev >= disk.anchor.rev
      BY <2>2, <2>4, Verdicts, InvTypes
    <2>6. /\ pc'[c] = "stateSync" /\ disk' = d /\ next'[c] = next[c]
          /\ "stateSync" \in PCs \ {"idle"}
      BY <2>1 DEF Goto, Inv, TypeOK, PCs, Rename
    <2>7. Position(c)'
      BY <1>0, <2>2, <2>4, <2>6 DEF Position
    <2> QED BY <1>0, <2>1, <2>2, <2>5, <2>6, <2>7, RenameStep
  <1>2. CASE StateSync(c)
    <2>1. CASE SyncSucceeds /\ Goto(c, "anchor") /\ UNCHANGED ghosts
      <3>1. pc'[c] = "anchor" /\ "anchor" \in PCs \ {"idle"} /\ next'[c] = next[c]
        BY <2>1 DEF Goto, Inv, TypeOK, PCs
      <3>2. /\ Ahead(disk) /\ disk.state = next[c] /\ disk' = disk
            /\ UNCHANGED <<boot, restores>>
        BY <1>0, <1>2, <2>1 DEF StateSync, Position, SyncSucceeds
      <3>3. Position(c)'
        BY <1>0, <3>1, <3>2 DEF Position
      <3> QED BY <1>0, <2>1, <3>1, <3>2, <3>3, SyncStep
    <2>2. CASE SyncFails(c)
      BY <1>0, <1>2, <2>2, FailStep DEF StateSync, SyncFails
    <2> QED BY <1>2, <2>1, <2>2 DEF StateSync
  <1>3. CASE ReplaceAnchor(c)
    <2>0. revisionAnchor(next[c]) = next[c]
      BY <1>0, FileFacts DEF revisionAnchor
    <2> DEFINE d == [disk EXCEPT !.anchor = next[c]]
    <2>1. /\ Rename(d) /\ Goto(c, "anchorSync") /\ UNCHANGED <<ghosts, bounds>>
          /\ Ahead(disk) /\ disk.state = next[c]
      BY <1>0, <1>3, <2>0 DEF ReplaceAnchor, writeAnchorLocked, Position
    <2>2. d \in Directories /\ d.state = next[c] /\ d.anchor = next[c]
      BY <1>0, <2>1 DEF Directories
    <2> HIDE DEF d
    <2>3. Settled(d)
      BY <1>0, <2>2, FileFacts DEF Settled
    <2>4. verdict(d) # "rollback" /\ d.anchor.rev >= disk.anchor.rev
      BY <2>1, <2>2, <2>3, Verdicts, InvTypes DEF Ahead
    <2>5. /\ pc'[c] = "anchorSync" /\ disk' = d /\ next'[c] = next[c]
          /\ "anchorSync" \in PCs \ {"idle"}
      BY <2>1 DEF Goto, Inv, TypeOK, PCs, Rename
    <2>6. Position(c)'
      BY <1>0, <2>2, <2>5 DEF Position
    <2> QED BY <1>0, <2>1, <2>2, <2>4, <2>5, <2>6, RenameStep
  <1>4. CASE AnchorSync(c)
    <2>1. CASE SyncSucceeds /\ Return(c) /\ Vouch(next[c].rev)
               /\ committed' = next[c].rev
      <3>1. /\ disk.anchor = next[c] /\ disk' = disk /\ survivors' = {disk}
            /\ disk.state = next[c]
            /\ UNCHANGED <<copies, faults, boot, restores>>
        BY <1>0, <1>4, <2>1 DEF AnchorSync, Position, SyncSucceeds
      <3>2. /\ next[c].rev \in 0 .. MaxRevision /\ seen <= next[c].rev
            /\ seen' = next[c].rev
        BY <1>0, <2>1, <3>1, InvTypes, FileFacts DEF Inv, AnchorInv, Vouch
      <3>3. /\ pc' \in [Processes -> PCs] /\ lock = c /\ lock' = None
            /\ next' \in [Processes -> Contents \cup {NoFile}]
            /\ \A p \in Processes : pc'[p] = "idle"
        BY <1>0, <2>1 DEF Inv, TypeOK, Return, PCs
      <3>4. TypeOK'
        BY <2>1, <3>1, <3>2, <3>3, StoreAssumption DEF Inv, TypeOK
      <3>5. \A p \in Processes : Position(p)'
        BY <3>3 DEF Position
      <3>6. AnchorInv'
        BY <2>1, <3>1, <3>2 DEF AnchorInv
      <3>7. Recoverable'
        BY <3>1, InvTypes DEF Inv, Recoverable
      <3> QED BY <3>4, <3>5, <3>6, <3>7 DEF Inv
    <2>2. CASE SyncFails(c)
      BY <1>0, <1>4, <2>2, FailStep DEF AnchorSync, SyncFails
    <2> QED BY <1>4, <2>1, <2>2 DEF AnchorSync
  <1> QED BY <1>1, <1>2, <1>3, <1>4

(* Power loss, and the restoration of an older state file.                 *)
LEMMA DisturbStep ==
  ASSUME Inv, PowerLoss \/ RestoreOldState
  PROVE  Inv'
  <1>1. CASE PowerLoss
    <2> PICK d \in survivors : disk' = d /\ survivors' = {d}
      BY <1>1 DEF PowerLoss
    <2>1. /\ boot < MaxBoots /\ boot' = boot + 1 /\ lock' = None
          /\ pc' = [c \in Processes |-> "idle"]
          /\ next' = [c \in Processes |-> NoFile] /\ seen' = committed
          /\ UNCHANGED <<copies, committed, faults, restores>>
      BY <1>1 DEF PowerLoss
    <2>2. \A c \in Processes : c # None
      BY StoreAssumption
    <2>3. /\ pc' \in [Processes -> PCs] /\ boot' \in 1 .. MaxBoots
          /\ \A c \in Processes : pc'[c] = "idle"
      BY <2>1, StoreAssumption DEF Inv, TypeOK, PCs
    <2>4. TypeOK'
      BY <2>1, <2>2, <2>3 DEF Inv, TypeOK
    <2>5. \A c \in Processes : Position(c)'
      BY <2>3 DEF Position
    <2>6. AnchorInv' /\ Recoverable'
      BY <2>1 DEF Inv, AnchorInv, Recoverable
    <2> QED BY <2>4, <2>5, <2>6 DEF Inv
  <1>2. CASE RestoreOldState
    <2> PICK s \in copies : disk' = [disk EXCEPT !.state = s]
      BY <1>2 DEF RestoreOldState
    <2>1. /\ restores' = restores + 1 /\ restores < MaxRestores /\ lock = None
          /\ survivors' = {disk'}
          /\ UNCHANGED <<lock, pc, next, copies, ghosts, boot, faults>>
      BY <1>2 DEF RestoreOldState
    <2>2. disk' \in Directories /\ disk'.anchor = disk.anchor
      BY InvTypes DEF Directories
    <2>3. restores' \in 0 .. MaxRestores /\ restores' # 0
      BY <2>1, StoreAssumption DEF Inv, TypeOK
    <2>4. TypeOK'
      BY <2>1, <2>2, <2>3 DEF Inv, TypeOK, ghosts
    <2>5. \A c \in Processes : pc'[c] = "idle"
      BY <2>1, StoreAssumption DEF Inv, TypeOK
    <2>6. \A c \in Processes : Position(c)'
      BY <2>5 DEF Position
    <2>7. AnchorInv' /\ Recoverable'
      BY <2>1, <2>2, <2>3, InvTypes DEF Inv, AnchorInv, Recoverable, ghosts
    <2> QED BY <2>4, <2>6, <2>7 DEF Inv
  <1> QED BY <1>1, <1>2

(* Every step of every process, interrupted anywhere, keeps the protocol   *)
(* of the two files.                                                       *)
THEOREM Invariance == Spec => []Inv
  <1>1. Init => Inv
    <2> SUFFICES ASSUME Init PROVE Inv
      OBVIOUS
    <2>1. disk \in Directories /\ disk.anchor = NoFile /\ disk.state = NoFile
      BY DEF Init, Directories
    <2>2. \A c \in Processes : pc[c] = "idle" /\ c # lock
      BY StoreAssumption DEF Init
    <2>3. TypeOK
      BY <2>1, <2>2, StoreAssumption DEF Init, TypeOK, PCs
    <2>4. \A c \in Processes : Position(c)
      BY <2>2 DEF Position
    <2>5. AnchorInv
      BY <2>1, FileFacts DEF Init, AnchorInv
    <2>6. Recoverable
      BY <2>1, Verdicts DEF Init, Recoverable
    <2> QED BY <2>3, <2>4, <2>5, <2>6 DEF Inv
  <1>2. Inv /\ [Next]_vars => Inv'
    <2> SUFFICES ASSUME Inv, [Next]_vars PROVE Inv'
      OBVIOUS
    <2>1. ASSUME NEW c \in Processes, Kill(c) PROVE Inv'
      BY <2>1, FailStep DEF Kill
    <2>2. CASE UNCHANGED vars
      BY <2>2 DEF vars, Inv, TypeOK, Position, AnchorInv, Recoverable
    <2> QED BY <2>1, <2>2, AcquireStep, ReadStep, CompareStep, CommitStep,
               DisturbStep DEF Next
  <1> QED BY <1>1, <1>2, PTL DEF Spec

(* No interruption of Load or Commit leaves files that the store itself    *)
(* refuses as rolled back.                                                 *)
THEOREM AlwaysRecoverable == Spec => []Recoverable
  <1>1. Inv => Recoverable
    BY DEF Inv
  <1> QED BY <1>1, Invariance, PTL

(* What readLocked accepts is never older than what was vouched for.       *)
THEOREM ReadsNeverGoBack == Spec => []MonotonicReads
  <1>1. Inv => MonotonicReads
    <2> SUFFICES ASSUME Inv, verdict(disk) # "rollback" PROVE seen <= disk.state.rev
      BY DEF MonotonicReads
    <2>1. \/ Settled(disk) \/ Ahead(disk)
          \/ disk.state = NoFile /\ disk.anchor = NoFile
      BY Verdicts, InvTypes
    <2>2. disk.anchor.rev <= disk.state.rev
      BY <2>1, InvTypes, FileFacts DEF Settled, Ahead
    <2> QED BY <2>2, InvTypes DEF Inv, AnchorInv
  <1> QED BY <1>1, Invariance, PTL

-----------------------------------------------------------------------------
(* Refinement.  The abstract store sees the state file only: the repair    *)
(* and the advance of the anchor are stutters, a rename of the state file  *)
(* is a replacement of uncertain durability, a sync settles it.            *)

(* One step of the files is a step of the revisioned store.                *)
LEMMA StoreStep ==
  ASSUME Inv, [Next]_vars
  PROVE  restores' > 0 \/ Store!SNext \/ UNCHANGED Store!svars
  <1> DEFINE maybe == {d.state : d \in survivors}
  <1>0. disk \in survivors /\ disk.state \in maybe
    BY InvTypes
  <1>1. UNCHANGED <<disk, survivors>> => UNCHANGED Store!svars
    BY DEF Store!svars
  <1>2. ASSUME SyncSucceeds PROVE Store!Settle
    <2>1. disk' = disk /\ survivors' = {disk}
      BY <1>2 DEF SyncSucceeds
    <2> QED BY <2>1 DEF Store!Settle
  <1>3. ASSUME NEW anchor, writeAnchorLocked(anchor) PROVE UNCHANGED Store!svars
    <2>1. /\ disk' = [disk EXCEPT !.anchor = anchor]
          /\ survivors' = survivors \cup {disk'}
      BY <1>3 DEF writeAnchorLocked, Rename
    <2>2. disk'.state = disk.state
      BY <2>1, InvTypes DEF Directories
    <2>3. {d.state : d \in survivors'} = maybe
      BY <1>0, <2>1, <2>2
    <2> QED BY <2>2, <2>3 DEF Store!svars
  <1>4. ASSUME NEW c \in Processes, ReplaceState(c) PROVE Store!Replace
    <2>1. /\ next[c] \in Contents /\ next[c].rev = disk.state.rev + 1
          /\ disk' = [disk EXCEPT !.state = next[c]]
          /\ survivors' = survivors \cup {disk'}
      BY <1>4 DEF ReplaceState, Rename, Inv, Position
    <2>2. disk'.state = next[c]
      BY <2>1, InvTypes DEF Directories
    <2>3. {d.state : d \in survivors'} = maybe \cup {next[c]}
      BY <2>1, <2>2
    <2> QED BY <2>1, <2>2, <2>3 DEF Store!Replace
  <1>5. ASSUME PowerLoss PROVE Store!LosePower
    <2>1. PICK d \in survivors : disk' = d /\ survivors' = {d}
      BY <1>5 DEF PowerLoss
    <2>2. disk'.state \in maybe /\ {e.state : e \in survivors'} = {disk'.state}
      BY <2>1
    <2> QED BY <2>2 DEF Store!LosePower
  <1>6. RestoreOldState => restores' > 0
    BY StoreAssumption DEF RestoreOldState, Inv, TypeOK
  <1>7. ASSUME NEW c \in Processes,
               \/ AcquireLock(c) \/ ReadLocked(c) \/ CompareRevision(c) \/ Kill(c)
               \/ SyncFails(c)
        PROVE  UNCHANGED <<disk, survivors>>
    BY <1>7 DEF AcquireLock, ReadLocked, CompareRevision, Kill, SyncFails, files
  <1>8. UNCHANGED vars => UNCHANGED <<disk, survivors>>
    BY DEF vars
  <1>9. ASSUME NEW c \in Processes,
               \/ RepairAnchor(c) \/ RepairSync(c) \/ StateSync(c)
               \/ ReplaceAnchor(c) \/ AnchorSync(c)
        PROVE  Store!Settle \/ UNCHANGED Store!svars
    BY <1>1, <1>2, <1>3, <1>7, <1>9
    DEF RepairAnchor, RepairSync, StateSync, ReplaceAnchor, AnchorSync
  <1> QED BY <1>1, <1>4, <1>5, <1>6, <1>7, <1>8, <1>9 DEF Next, Store!SNext

(* The two files implement one revisioned document.                        *)
THEOREM Refinement == Spec => ImplementsStore
  <1>1. Init => Store!SInit
    BY DEF Init, Store!SInit
  <1>2. Inv /\ [Next]_vars
           => [restores' > 0 \/ Store!SNext \/ UNCHANGED Store!svars]_vars
    BY StoreStep
  <1> QED BY <1>1, <1>2, Invariance, PTL DEF Spec, ImplementsStore
=============================================================================
