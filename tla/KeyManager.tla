------------------------------ MODULE KeyManager ------------------------------
(***************************************************************************)
(* The key manager (internal/keymanager): for every role a non-exportable  *)
(* signing key at a persistent TPM handle, and one metadata file that says *)
(* which key is active, which keys are retiring and which creation is      *)
(* pending.  Several processes share the TPM and the file; each operation  *)
(* runs under an exclusive lock, begins by loading the file, verifying it  *)
(* against the live TPM and finishing what an earlier operation has left   *)
(* undone, and changes TPM and file in turn, neither of which can undo the *)
(* other.                                                                  *)
(*                                                                         *)
(* As in module Bootstrap, survivors holds the metadata files that a power *)
(* loss could leave when a directory sync has failed.  The persistent      *)
(* objects of the TPM survive everything.                                  *)
(***************************************************************************)
EXTENDS Integers, Sequences, FiniteSets

CONSTANTS
    Processes,      \* processes that run a Manager
    Roles,          \* configured key roles
    Lifetime,       \* roles whose key is never rotated
    Handles,        \* persistent TPM handles
    Pool,           \* Pool[r]: RolePolicy.Handles, in order
    None,           \* no handle, no role, no process
    MaxGeneration,  \* math.MaxUint64 for KeyMetadata.Generation
    MaxRevision,    \* math.MaxUint64 for Snapshot.Revision
    MaxKeys,        \* bound: keys that the TPM generates
    MaxForeign,     \* bound: objects that others put into the TPM
    MaxFaults,      \* bound: errors and crashes
    MaxBoots        \* bound: boots of the machine

(* What validatePolicies demands.                                          *)
ASSUME PolicyAssumption ==
    /\ Lifetime \subseteq Roles /\ None \notin Handles \cup Roles \cup Processes
    /\ Pool \in [Roles -> Seq(Handles)]
    /\ \A r \in Roles : IF r \in Lifetime THEN Len(Pool[r]) = 1 ELSE Len(Pool[r]) >= 2
    /\ \A r, q \in Roles : \A i \in DOMAIN Pool[r], j \in DOMAIN Pool[q] :
          Pool[r][i] = Pool[q][j] => r = q /\ i = j
    /\ MaxGeneration \in Nat \ {0} /\ MaxRevision \in Nat
    /\ MaxKeys \in Nat /\ MaxForeign \in Nat
    /\ MaxFaults \in Nat /\ MaxBoots \in Nat \ {0}

VARIABLES
    file,       \* the metadata that Load returns
    survivors,  \* the metadata files that a power loss could leave
    objects,    \* objects[h]: the key at handle h, 0 if free, -1 if foreign
    born,       \* keys generated so far; a key is known by its number
    lock,       \* the process inside withExclusive, or None
    pc,         \* pc[c]: where c is in its operation
    op,         \* op[c]: its operation
    snapshot,   \* snapshot[c]: Manager.snapshot
    captured,   \* captured[c]: what c has read for a later operation
    announced,  \* announced[r]: keys EnsureRole has returned for lifetime role r
    signed,     \* <<key the policy has approved, key used>> of the latest certificate
    rolledBack, \* a power loss has brought back older metadata
    foreign, faults, boot

disk == <<file, survivors>>
tpm == <<objects, born, foreign>>
call == <<lock, pc, op, snapshot>>
ghosts == <<announced, signed, rolledBack>>
vars == <<file, survivors, objects, born, lock, pc, op, snapshot, captured,
          announced, signed, rolledBack, foreign, faults, boot>>

-----------------------------------------------------------------------------
(* Metadata.                                                               *)

Free == 0
Foreign == -1

HandlesOf(r) == {Pool[r][i] : i \in DOMAIN Pool[r]}

Keys == [handle : Handles, key : 1 .. MaxKeys, gen : 1 .. MaxGeneration]

NoKey == [handle |-> None, key |-> 0, gen |-> 0]

Snapshots == [rev : 0 .. MaxRevision, active : [Roles -> Keys \cup {NoKey}],
              retiring : [Roles -> SUBSET Keys], pending : [Roles -> Keys \cup {NoKey}]]

emptySnapshot == [rev |-> 0, active |-> [r \in Roles |-> NoKey],
                  retiring |-> [r \in Roles |-> {}], pending |-> [r \in Roles |-> NoKey]]

(* All keys that a snapshot records for a role.                            *)
Recorded(s, r) == ({s.active[r], s.pending[r]} \cup s.retiring[r]) \ {NoKey}

validateSnapshot(s) ==
    \A r \in Roles :
        /\ \A k \in Recorded(s, r) : k.handle \in HandlesOf(r)
        /\ \A k, l \in Recorded(s, r) : k.handle = l.handle => k = l
        /\ s.active[r] # NoKey \/ s.retiring[r] = {}
        /\ \A k \in s.retiring[r] : k.gen < s.active[r].gen
        /\ s.pending[r] # NoKey => s.pending[r].gen = s.active[r].gen + 1
        /\ r \in Lifetime => /\ s.active[r].gen <= 1 /\ s.retiring[r] = {}
                             /\ s.active[r] = NoKey \/ s.pending[r] = NoKey

(* The TPM as the backend drives it: what ReadPublic finds at a handle,    *)
(* whether that is anything, and what EvictControl makes of the handles.   *)
readPublic(h) == objects[h]

handleOccupied(h) == readPublic(h) # Free

persistedAt(k) == [objects EXCEPT ![k.handle] = k.key]

evictKnown(k) == [objects EXCEPT ![k.handle] = Free]

(* CreatePersistent up to its callback: a key that no handle refers to yet.*)
createdKey(h, generation) == [handle |-> h, key |-> born + 1, gen |-> generation]

(* verifyPublicMetadata: the object at the handle is the recorded key.     *)
verifyPublicMetadata(k) == readPublic(k.handle) = k.key

(* openLocked refuses metadata that the live TPM does not bear out.        *)
Opens(s) ==
    /\ validateSnapshot(s)
    /\ \A r \in Roles :
          /\ s.active[r] # NoKey => verifyPublicMetadata(s.active[r])
          /\ \A k \in s.retiring[r] : ~handleOccupied(k.handle) \/ verifyPublicMetadata(k)

(* reconcilePendingLocked adopts nothing but the pending key.              *)
PendingMatches(s) ==
    \A r \in Roles : s.pending[r] # NoKey => \/ ~handleOccupied(s.pending[r].handle)
                                             \/ verifyPublicMetadata(s.pending[r])

(* Activating a key retires the one before it.                             *)
Activated(s, r, k) ==
    [s EXCEPT !.active[r] = k, !.pending[r] = NoKey,
              !.retiring[r] = @ \cup ({s.active[r]} \ {NoKey})]

HasPending(s) == \E r \in Roles : s.pending[r] # NoKey

HasRetiring(s) == \E r \in Roles : s.retiring[r] # {}

Incremented(s) == [s EXCEPT !.rev = @ + 1]

(* Mutant: a pending key is activated although the TPM does not have it.   *)
reconcilePendingAlways(s) ==
    Incremented([s EXCEPT !.pending = [r \in Roles |-> NoKey],
                          !.active = [r \in Roles |-> IF s.pending[r] # NoKey THEN s.pending[r]
                                                      ELSE s.active[r]]])

(* Mutant: a pending creation is forgotten although its key is there.      *)
reconcilePendingForgets(s) ==
    Incremented([s EXCEPT !.pending = [r \in Roles |-> NoKey]])

(* reconcilePendingLocked: a pending key that the TPM has is activated,    *)
(* one that it does not have is forgotten.                                 *)
reconcilePending(s) ==
    LET found == {r \in Roles : s.pending[r] # NoKey /\ verifyPublicMetadata(s.pending[r])}
    IN  Incremented([rev |-> s.rev,
         active |-> [r \in Roles |-> IF r \in found THEN s.pending[r] ELSE s.active[r]],
         retiring |-> [r \in Roles |-> IF r \in found /\ s.active[r] # NoKey
                                       THEN s.retiring[r] \cup {s.active[r]}
                                       ELSE s.retiring[r]],
         pending |-> [r \in Roles |-> NoKey]])

WithoutRetiring(s) == Incremented([s EXCEPT !.retiring = [r \in Roles |-> {}]])

-----------------------------------------------------------------------------
(* Operations.                                                             *)

(* "open" stands for Open, Metadata, PublicSnapshot and ReconcileRetiring, *)
(* "prepare" and "issue" for the two halves of IssueCertificate, "due" and *)
(* "rotateIfDue" for what RunOnce does with one role.  The last four pass  *)
(* over a lifetime role, which leaves them with what "open" does.          *)
NoOp == [kind |-> "none", role |-> None]

Ops == [kind : {"open"}, role : {None}] \cup [kind : {"ensure", "rotate"}, role : Roles]
       \cup [kind : {"prepare", "issue", "due", "rotateIfDue"}, role : Roles \ Lifetime]

(* The operation of a process: one of these, or what is left of a rotation.*)
Running == Ops \cup [kind : {"open"}, role : Roles] \cup {NoOp}

NoCapture == [use |-> "none", role |-> None, key |-> NoKey]

Captures == [use : {"issue", "rotateIfDue"}, role : Roles, key : Keys] \cup {NoCapture}

PCs == {"idle", "load", "savePending", "evict", "saveRetired", "act", "persist", "activate"}

Fault == faults < MaxFaults /\ faults' = faults + 1

Goto(c, label) == pc' = [pc EXCEPT ![c] = label]

(* The operation ends, with success or an error; the lock is released and  *)
(* the next operation starts from the file again.                          *)
Return(c) ==
    /\ Goto(c, "idle")
    /\ lock' = None
    /\ op' = [op EXCEPT ![c] = NoOp]
    /\ snapshot' = [snapshot EXCEPT ![c] = emptySnapshot]

(* requireRevisionCapacityLocked.                                          *)
HasCapacity(s, steps) == s.rev + steps <= MaxRevision

(* Mutant: opening the metadata does not clean up after a rotation.        *)
AfterPendingAct(s) == "act"

(* Where an operation goes on once no creation is pending.                 *)
AfterPending(s) == IF HasRetiring(s) THEN "evict" ELSE "act"

(* Mutant: a failed directory sync goes unnoticed.                         *)
SaveAsIgnoringSync(c, next, label, kind) ==
    /\ file' = next /\ snapshot' = [snapshot EXCEPT ![c] = next]
    /\ \/ survivors' = {next} /\ UNCHANGED faults
       \/ survivors' = survivors \cup {next} /\ Fault
    /\ Goto(c, label)
    /\ op' = [op EXCEPT ![c].kind = kind]
    /\ UNCHANGED lock

(* persistSnapshotLocked: the file is replaced durably and the operation   *)
(* goes on at label (as an operation of the given kind); or it is replaced *)
(* and the directory sync fails, or nothing is written, and the operation  *)
(* ends with the error.                                                    *)
SaveAs(c, next, label, kind) ==
    LET ok == next.rev = file.rev + 1 /\ next.rev <= MaxRevision IN
    \/ /\ ok
       /\ file' = next /\ survivors' = {next}
       /\ snapshot' = [snapshot EXCEPT ![c] = next]
       /\ Goto(c, label)
       /\ op' = [op EXCEPT ![c].kind = kind]
       /\ UNCHANGED <<lock, faults>>
    \/ /\ ok /\ Fault
       /\ file' = next /\ survivors' = survivors \cup {next}
       /\ Return(c)
    \/ /\ IF ok THEN Fault ELSE UNCHANGED faults
       /\ UNCHANGED disk
       /\ Return(c)

Save(c, next, label) == SaveAs(c, next, label, op[c].kind)

(* withExclusiveOperation.  The second half of a two-part operation comes  *)
(* after its first, if at all (the policy may refuse the certificate);     *)
(* other processes may have been at work in between.                       *)
Begin(c, o) ==
    /\ pc[c] = "idle" /\ lock = None
    /\ IF o.kind \in {"issue", "rotateIfDue"}
       THEN captured[c].use = o.kind /\ captured[c].role = o.role /\ UNCHANGED captured
       ELSE captured' = [captured EXCEPT ![c] = NoCapture]
    /\ lock' = c
    /\ op' = [op EXCEPT ![c] = o]
    /\ Goto(c, "load")
    /\ signed' = <<0, 0>>
    /\ UNCHANGED <<disk, tpm, snapshot, announced, rolledBack, faults, boot>>

(* openLocked up to the first change.                                      *)
Load(c) ==
    /\ pc[c] = "load"
    /\ \/ /\ Opens(file)
          /\ snapshot' = [snapshot EXCEPT ![c] = file]
          /\ Goto(c, IF HasPending(file) THEN "savePending" ELSE AfterPending(file))
          /\ UNCHANGED <<lock, op, faults>>
       \/ /\ IF Opens(file) THEN Fault ELSE UNCHANGED faults
          /\ Return(c)
    /\ UNCHANGED <<disk, tpm, captured, ghosts, boot>>

SavePending(c) ==
    LET next == reconcilePending(snapshot[c]) IN
    /\ pc[c] = "savePending"
    /\ \/ /\ PendingMatches(snapshot[c])
          /\ Save(c, next, AfterPending(next))
       \/ /\ ~PendingMatches(snapshot[c])
          /\ Return(c)
          /\ UNCHANGED <<disk, faults>>
    /\ UNCHANGED <<tpm, captured, ghosts, boot>>

(* reconcileRetiringLocked: the retiring keys are evicted one by one.  An  *)
(* empty handle is passed over; a handle that holds something else is left *)
(* alone and the operation fails.  (The keys that are done with are taken  *)
(* out of the process's own snapshot, so that each is looked at once.)     *)
EvictRetiring(c) ==
    /\ pc[c] = "evict"
    /\ \E r \in Roles : \E k \in snapshot[c].retiring[r] :
          LET rest == [snapshot[c] EXCEPT !.retiring[r] = @ \ {k}]
              ok == /\ HasCapacity(snapshot[c], 1)
                    /\ ~handleOccupied(k.handle) \/ verifyPublicMetadata(k)
          IN  \/ /\ ok
                 /\ objects' = evictKnown(k)
                 /\ snapshot' = [snapshot EXCEPT ![c] = rest]
                 /\ Goto(c, IF HasRetiring(rest) THEN "evict" ELSE "saveRetired")
                 /\ UNCHANGED <<lock, op, faults>>
              \/ /\ IF ok THEN Fault /\ objects' \in {objects, evictKnown(k)}
                    ELSE UNCHANGED <<objects, faults>>
                 /\ Return(c)
    /\ UNCHANGED <<disk, born, foreign, captured, ghosts, boot>>

SaveRetired(c) ==
    /\ pc[c] = "saveRetired"
    /\ Save(c, WithoutRetiring(snapshot[c]), "act")
    /\ UNCHANGED <<tpm, captured, ghosts, boot>>

-----------------------------------------------------------------------------
(* What the operations do once the metadata is in order.                   *)

(* createMetadataLocked up to the callback of CreatePersistent: the TPM    *)
(* generates a key, and its metadata is recorded as pending before it is   *)
(* made persistent.  A handle taken by then makes CreatePersistent fail.   *)
CreateKey(c, h, generation, steps) ==
    LET r == op[c].role
        k == createdKey(h, generation)
        ok == HasCapacity(snapshot[c], steps) /\ ~handleOccupied(h) /\ born < MaxKeys
    IN  \/ /\ ok
           /\ Save(c, Incremented([snapshot[c] EXCEPT !.pending[r] = k]), "persist")
           /\ born' = IF file' = file THEN born ELSE born + 1
        \/ /\ ~ok
           /\ Return(c)
           /\ UNCHANGED <<disk, born, faults>>

(* Open, Metadata, PublicSnapshot and ReconcileRetiring have nothing more  *)
(* to do, nor has a rotation once the old key is gone.                     *)
FinishOpen(c) ==
    /\ pc[c] = "act" /\ op[c].kind = "open"
    /\ Return(c)
    /\ UNCHANGED <<disk, tpm, captured, ghosts, faults, boot>>

(* announced' after EnsureRole has returned key k.                         *)
Announced(r, k) == IF r \in Lifetime THEN [announced EXCEPT ![r] = @ \cup {k}] ELSE announced

(* initialHandleLocked; CreateKey refuses it when it is occupied.          *)
initialHandle(r) == Pool[r][1]

(* ensureRoleLocked.                                                       *)
EnsureRole(c) ==
    LET r == op[c].role IN
    /\ pc[c] = "act" /\ op[c].kind = "ensure"
    /\ \/ /\ snapshot[c].active[r] # NoKey
          /\ announced' = Announced(r, snapshot[c].active[r])
          /\ Return(c)
          /\ UNCHANGED <<disk, born, faults>>
       \/ /\ snapshot[c].active[r] = NoKey
          /\ CreateKey(c, initialHandle(r), 1, 2)
          /\ UNCHANGED announced
    /\ UNCHANGED <<objects, foreign, captured, signed, rolledBack, boot>>

(* rotationHandleLocked: the first handle of the pool that is neither      *)
(* recorded nor occupied.                                                  *)
rotationHandles(s, r) ==
    {i \in DOMAIN Pool[r] : /\ ~handleOccupied(Pool[r][i])
                            /\ \A k \in Recorded(s, r) : k.handle # Pool[r][i]}

(* The refusals of rotateLocked.                                           *)
rotatable(s, r) ==
    /\ r \notin Lifetime /\ s.active[r] # NoKey
    /\ s.active[r].gen < MaxGeneration
    /\ rotationHandles(s, r) # {}

(* Rotate, and rotateIfDue: the key that was due when the scheduler looked *)
(* is rotated only if it is still the active one (a newer key was created  *)
(* after the scheduler read its clock).                                    *)
Rotate(c) ==
    LET r == op[c].role
        s == snapshot[c]
        handles == rotationHandles(s, r)
        first == CHOOSE i \in handles : \A j \in handles : i <= j
    IN  /\ pc[c] = "act" /\ op[c].kind \in {"rotate", "rotateIfDue"}
        /\ IF rotatable(s, r) /\ (op[c].kind = "rotateIfDue" => s.active[r] = captured[c].key)
           THEN CreateKey(c, Pool[r][first], s.active[r].gen + 1, 3)
           ELSE Return(c) /\ UNCHANGED <<disk, born, faults>>
        /\ captured' = IF op[c].kind = "rotateIfDue" THEN [captured EXCEPT ![c] = NoCapture]
                       ELSE captured
        /\ UNCHANGED <<objects, foreign, ghosts, boot>>

(* prepareCertificateLocked, and dueRoles for one role: the active key is  *)
(* remembered, the lock released.                                          *)
Capture(c) ==
    LET r == op[c].role
        use == IF op[c].kind = "prepare" THEN "issue" ELSE "rotateIfDue"
    IN  /\ pc[c] = "act" /\ op[c].kind \in {"prepare", "due"}
        /\ Return(c)
        /\ captured' = IF snapshot[c].active[r] = NoKey THEN captured
                       ELSE [captured EXCEPT ![c] = [use |-> use, role |-> r,
                                                     key |-> snapshot[c].active[r]]]
        /\ UNCHANGED <<disk, tpm, ghosts, faults, boot>>

(* Mutant: the certificate is signed by whatever key is active now.        *)
SignerAcceptedUnchecked(c, k) == k # NoKey

(* sameKeyMetadata, and the signer's own look at the handle.               *)
SignerAccepted(c, k) == k = captured[c].key /\ verifyPublicMetadata(k)

(* tpm.Backend.Sign: the key at the handle is the one that signs.          *)
signingKey(k) == readPublic(k.handle)

(* The second half of IssueCertificate: the policy has authorized the      *)
(* request for the captured key, and that key signs.                       *)
IssueCertificate(c) ==
    LET active == snapshot[c].active[op[c].role] IN
    /\ pc[c] = "act" /\ op[c].kind = "issue"
    /\ signed' = IF SignerAccepted(c, active)
                 THEN <<captured[c].key.key, signingKey(active)>> ELSE signed
    /\ captured' = [captured EXCEPT ![c] = NoCapture]
    /\ Return(c)
    /\ UNCHANGED <<disk, tpm, announced, rolledBack, faults, boot>>

(* The rest of CreatePersistent: the key gets its handle, unless another   *)
(* object has it.  After a failed call the key may be there or not.        *)
Persist(c) ==
    LET k == snapshot[c].pending[op[c].role]
    IN  /\ pc[c] = "persist"
        /\ \/ /\ ~handleOccupied(k.handle)
              /\ objects' = persistedAt(k)
              /\ Goto(c, "activate")
              /\ UNCHANGED <<lock, op, snapshot, faults>>
           \/ /\ IF ~handleOccupied(k.handle)
                 THEN Fault /\ objects' \in {objects, persistedAt(k)}
                 ELSE UNCHANGED <<objects, faults>>
              /\ Return(c)
        /\ UNCHANGED <<disk, born, foreign, captured, ghosts, boot>>

(* The last change of EnsureRole and Rotate: the pending key becomes the   *)
(* active one.  EnsureRole returns it; Rotate goes on to evict the old one.*)
Activate(c) ==
    LET r == op[c].role
        k == snapshot[c].pending[r]
        next == Incremented(Activated(snapshot[c], r, k))
    IN  /\ pc[c] = "activate"
        /\ IF op[c].kind = "ensure" THEN Save(c, next, "act")
           ELSE SaveAs(c, next, "evict", "open")
        /\ UNCHANGED <<tpm, captured, ghosts, boot>>

-----------------------------------------------------------------------------
(* The world outside.                                                      *)

(* A process dies; the kernel releases its lock.                           *)
Crash(c) ==
    /\ pc[c] # "idle" /\ Fault
    /\ Return(c)
    /\ captured' = [captured EXCEPT ![c] = NoCapture]
    /\ UNCHANGED <<disk, tpm, ghosts, boot>>

(* The machine stops; one of the possible files is there afterwards, and   *)
(* so is every persistent object of the TPM.                               *)
PowerLoss ==
    /\ boot < MaxBoots /\ boot' = boot + 1
    /\ file' \in survivors /\ survivors' = {file'}
    /\ rolledBack' = (rolledBack \/ file' # file)
    /\ lock' = None
    /\ pc' = [c \in Processes |-> "idle"]
    /\ op' = [c \in Processes |-> NoOp]
    /\ snapshot' = [c \in Processes |-> emptySnapshot]
    /\ captured' = [c \in Processes |-> NoCapture]
    /\ UNCHANGED <<tpm, announced, signed, faults>>

(* Other software puts an object of its own at a free handle.              *)
ForeignCreates(h) ==
    /\ objects[h] = Free /\ foreign < MaxForeign
    /\ objects' = [objects EXCEPT ![h] = Foreign]
    /\ foreign' = foreign + 1
    /\ UNCHANGED <<disk, born, call, captured, ghosts, faults, boot>>

Init ==
    /\ file = emptySnapshot /\ survivors = {emptySnapshot}
    /\ objects = [h \in Handles |-> Free] /\ born = 0
    /\ lock = None
    /\ pc = [c \in Processes |-> "idle"]
    /\ op = [c \in Processes |-> NoOp]
    /\ snapshot = [c \in Processes |-> emptySnapshot]
    /\ captured = [c \in Processes |-> NoCapture]
    /\ announced = [r \in Lifetime |-> {}] /\ signed = <<0, 0>>
    /\ rolledBack = FALSE /\ foreign = 0 /\ faults = 0 /\ boot = 1

Step(c) ==
    \/ Load(c) \/ SavePending(c) \/ EvictRetiring(c) \/ SaveRetired(c)
    \/ FinishOpen(c) \/ EnsureRole(c) \/ Rotate(c) \/ Capture(c) \/ IssueCertificate(c)
    \/ Persist(c) \/ Activate(c)

Next ==
    \/ \E c \in Processes : \/ \E o \in Ops : Begin(c, o)
                            \/ Step(c) \/ Crash(c)
    \/ PowerLoss
    \/ \E h \in Handles : ForeignCreates(h)

Spec == Init /\ [][Next]_vars

-----------------------------------------------------------------------------
(* Types of the state.                                                     *)
TypeOK ==
    /\ file \in Snapshots /\ survivors \subseteq Snapshots
    /\ objects \in [Handles -> -1 .. MaxKeys] /\ born \in 0 .. MaxKeys
    /\ lock \in Processes \cup {None} /\ pc \in [Processes -> PCs]
    /\ op \in [Processes -> Running] /\ snapshot \in [Processes -> Snapshots]
    /\ captured \in [Processes -> Captures]
    /\ announced \in [Lifetime -> SUBSET Keys]
    /\ signed \in (0 .. MaxKeys) \X (-1 .. MaxKeys)
    /\ rolledBack \in BOOLEAN
    /\ foreign \in 0 .. MaxForeign /\ faults \in 0 .. MaxFaults /\ boot \in 1 .. MaxBoots

(* Whatever step an operation was interrupted at, the metadata on disk is  *)
(* valid and names active keys that the TPM has, so that the next Open     *)
(* succeeds (unless other software has taken a handle that is pending or   *)
(* has been vacated).  A power loss that brings back older metadata, after *)
(* a directory sync has failed, is excepted: the key that was active then  *)
(* may have been evicted since.                                            *)
Recoverable ==
    ~rolledBack =>
        /\ validateSnapshot(file)
        /\ \A r \in Roles : \A k \in Recorded(file, r) :
              IF k = file.active[r] THEN verifyPublicMetadata(k)
              ELSE objects[k.handle] \in {Free, Foreign, k.key}

(* A key is recorded before it gets its handle and until it is evicted: no *)
(* power loss, failed sync or crash leaves a key of ours in the TPM that   *)
(* no metadata names, which would block its handle for ever.               *)
NoOrphans ==
    \A h \in Handles : objects[h] \in {Free, Foreign} \/
        \A s \in survivors : \E r \in Roles : \E k \in Recorded(s, r) :
            k.handle = h /\ k.key = objects[h]

(* Once EnsureRole has returned the key of a lifetime role, that key is    *)
(* the role's key for ever: whichever metadata survives names it as active *)
(* or as a pending creation that the next operation will adopt.            *)
IdentityIsForever ==
    \A r \in Lifetime : \A k \in announced[r] :
        /\ verifyPublicMetadata(k)
        /\ \A s \in survivors : k \in {s.active[r], s.pending[r]}

(* A certificate is signed by the key that the policy has approved it for, *)
(* although the lock is released while the policy decides.                 *)
SignerUnchanged == signed[1] = signed[2]

(* What an interrupted operation has left undone.                          *)
Leftover == HasPending(file) \/ HasRetiring(file)

(* What no operation can clean up after.                                   *)
Blocked ==
    \/ ~Opens(file) \/ ~PendingMatches(file)
    \/ file.rev = MaxRevision

(* An operation, whatever it was called for, ends with nothing left over   *)
(* from itself or from the interrupted operations of any process before:   *)
(* what was pending is adopted or forgotten, what was retiring is evicted  *)
(* (reconcilePendingLocked, reconcileRetiringLocked).  Excepted are an end *)
(* by a failing call or by a crash of the process or the machine, and an   *)
(* operation that finds a handle in foreign hands, older metadata that has *)
(* come back, or the revision counter exhausted.                           *)
LeftoversCleared ==
    [][lock # None /\ lock' = None /\ UNCHANGED <<faults, boot>> =>
          ~Leftover' \/ Blocked]_vars
=============================================================================
