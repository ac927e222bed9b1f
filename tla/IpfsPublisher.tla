---------------------------- MODULE IpfsPublisher ----------------------------
(***************************************************************************)
(* The IPFS/IPNS publisher (internal/ipfs/publisher.go, record.go and      *)
(* state.go).  Publish imports and pins a public snapshot, signs an IPNS   *)
(* record with the next sequence number, stores the record as pending,     *)
(* hands it to the network and then stores it as completed.  The state is  *)
(* one file, replaced by a compare-and-swap on its revision; as in module  *)
(* Bootstrap, survivors holds what a power loss could leave of it when the *)
(* directory sync has failed.                                              *)
(***************************************************************************)
EXTENDS Integers, FiniteSets

CONSTANTS
    Publishers,         \* processes that run a Publisher on the same state
    Digests,            \* digests of snapshots (PublicationID = Digest)
    NoDigest,           \* the digest of no snapshot
    MaxTrustRevision,   \* bound: Trust state revisions that are published
    MaxSequence,        \* math.MaxUint64 for HighSequence
    MaxRevision,        \* math.MaxUint64 for PublicationState.Revision
    Validity,           \* RecordPolicy.Validity
    MaxStaleness,       \* RecordPolicy.MaxStaleness
    ClockSkew,          \* RecordPolicy.ClockSkew
    MaxClock,           \* bound: the clock
    MaxFaults,          \* bound: errors, crashes and backward clock steps
    MaxSyncFaults,      \* bound: failed directory syncs
    MaxBoots            \* bound: boots of the machine

ASSUME PublisherAssumption ==
    /\ NoDigest \notin Digests
    /\ MaxTrustRevision \in Nat /\ MaxSequence \in Nat /\ MaxRevision \in Nat
    /\ Validity \in Nat \ {0} /\ MaxStaleness \in Nat \ {0}
    /\ ClockSkew \in Nat /\ MaxClock \in Nat
    /\ MaxFaults \in Nat /\ MaxSyncFaults \in Nat /\ MaxBoots \in Nat \ {0}

VARIABLES
    state,      \* the publication state a Load returns
    survivors,  \* the states a power loss now could leave
    pinned,     \* snapshots Kubo has pinned
    network,    \* every signed record handed to the IPNS network
    clock,      \* wall clock
    boot,       \* the running boot
    pc,         \* pc[c]: where c is in Publish
    pub,        \* pub[c]: the publication c was called with
    base,       \* base[c]: the state value Publish works on
    result,     \* result[c]: the record whose receipt Publish returned
    faults,     \* faults injected so far
    syncFaults  \* failed directory syncs so far

call == <<pc, pub, base, result>>
file == <<state, survivors>>
vars == <<state, survivors, pinned, network, clock, boot,
          pc, pub, base, result, faults, syncFaults>>

-----------------------------------------------------------------------------
(* Data.  A publication is identified by its Trust state revision and the  *)
(* digest of its content; its root CID is determined by them.              *)

Publications == [rev : 1 .. MaxTrustRevision, digest : Digests]

NoPublication == [rev |-> 0, digest |-> NoDigest]

Records == [seq : 1 .. MaxSequence, pub : Publications, issued : 0 .. MaxClock]

NoRecord == [seq |-> 0, pub |-> NoPublication, issued |-> 0]

(* PublicationState: last is the completed record, pending the prepared    *)
(* one, high the highest sequence ever issued.                             *)
States == [rev : 0 .. MaxRevision, high : 0 .. MaxSequence,
           last : Records \cup {NoRecord}, pending : Records \cup {NoRecord}]

EmptyState == [rev |-> 0, high |-> 0, last |-> NoRecord, pending |-> NoRecord]

validatePublicationState(s) ==
    /\ s.last.seq <= s.high
    /\ s.rev = 0 => s = EmptyState
    /\ s.pending = NoRecord => s.high = s.last.seq
    /\ s.pending # NoRecord => /\ s.pending.seq = s.high
                               /\ s.pending.seq > s.last.seq
                               /\ s.pending.pub.rev > s.last.pub.rev

(* Expiry and staleness of a record; ValidateSignedRecord also refuses one *)
(* issued too far in the future.                                           *)
recordNeedsRefresh(r) ==
    clock >= r.issued + Validity \/ clock - r.issued > MaxStaleness

ValidateSignedRecord(r, previousSequence, previousIssued) ==
    /\ r.seq > previousSequence
    /\ r.issued >= previousIssued
    /\ r.issued <= clock + ClockSkew
    /\ ~recordNeedsRefresh(r)

completedPublicationMatches(s, p) ==
    s.pending = NoRecord /\ s.last # NoRecord /\ s.last.pub = p

pendingPublicationMatches(s, p) == s.pending # NoRecord /\ s.pending.pub = p

(* A publication may not be older than the completed or the pending one,   *)
(* nor different from one of the same Trust revision.                      *)
validateSnapshotRevision(s, p) ==
    /\ p.rev > s.last.pub.rev \/ p = s.last.pub
    /\ s.pending # NoRecord => \/ p.rev > s.pending.pub.rev
                               \/ p = s.pending.pub

(* The state that prepareRecord stores; it signs with the current time.    *)
Prepared(s, p) ==
    [s EXCEPT !.rev = @ + 1, !.high = @ + 1,
              !.pending = [seq |-> s.high + 1, pub |-> p, issued |-> clock]]

(* Mutant: the pending record survives its own completion.                 *)
CompletedKeepsPending(s) == [s EXCEPT !.rev = @ + 1, !.last = s.pending]

(* The state that publishPrepared stores after the network has the record. *)
Completed(s) ==
    [s EXCEPT !.rev = @ + 1, !.last = s.pending, !.pending = NoRecord]

-----------------------------------------------------------------------------
PCs == {"idle", "replay", "pin", "prepare", "publish", "complete", "returned"}

Fault == faults < MaxFaults /\ faults' = faults + 1

Goto(c, label, p, s) ==
    /\ pc' = [pc EXCEPT ![c] = label]
    /\ pub' = [pub EXCEPT ![c] = p]
    /\ base' = [base EXCEPT ![c] = s]
    /\ result' = [result EXCEPT ![c] = NoRecord]

(* Publish returns an error, or the process dies.                          *)
Abort(c) == Goto(c, "idle", NoPublication, EmptyState)

(* Publish returns a receipt for record r.                                 *)
completedReceipt(c, r) ==
    /\ pc' = [pc EXCEPT ![c] = "returned"]
    /\ result' = [result EXCEPT ![c] = r]
    /\ UNCHANGED <<pub, base>>

(* Mutant: Commit does not compare the revision in the file.               *)
AcceptedUnchecked(c, next) ==
    base[c].rev < MaxRevision /\ validatePublicationState(next)

(* What Commit demands: a next revision, a valid state, no other writer.   *)
Accepted(c, next) ==
    /\ base[c].rev < MaxRevision
    /\ validatePublicationState(next)
    /\ state.rev = base[c].rev

(* Mutant: the directory is not synced after the rename.                   *)
CommitUnsynced(c, next) ==
    /\ Accepted(c, next)
    /\ state' = next
    /\ survivors' = survivors \cup {next}
    /\ UNCHANGED <<faults, syncFaults>>

CommitDurable(c, next) ==
    /\ Accepted(c, next)
    /\ state' = next
    /\ survivors' = {next}
    /\ UNCHANGED <<faults, syncFaults>>

(* The rename is visible, the directory sync fails: an error is returned.  *)
CommitUncertain(c, next) ==
    /\ Accepted(c, next)
    /\ syncFaults < MaxSyncFaults
    /\ syncFaults' = syncFaults + 1
    /\ state' = next
    /\ survivors' = survivors \cup {next}
    /\ Abort(c)
    /\ UNCHANGED faults

CommitRefused(c, next) ==
    /\ IF Accepted(c, next) THEN Fault ELSE UNCHANGED faults
    /\ Abort(c)
    /\ UNCHANGED <<file, syncFaults>>

-----------------------------------------------------------------------------
(* Publish(p), in program order.                                           *)

(* Where Publish goes with the state it has loaded; "idle" is a refusal,   *)
(* ErrPublicationPending among them.                                       *)
Route(s, p) ==
    IF ~validateSnapshotRevision(s, p) THEN "idle"
    ELSE IF completedPublicationMatches(s, p) THEN "replay"
    ELSE IF s.pending = NoRecord \/ pendingPublicationMatches(s, p) THEN "pin"
    ELSE "idle"

(* readPublicationState, under the lock of the state file.                 *)
readPublicationState == state

PublishBegin(c, p) ==
    LET s == readPublicationState IN
    /\ pc[c] = "idle"
    /\ IF Route(s, p) = "idle" THEN UNCHANGED call ELSE Goto(c, Route(s, p), p, s)
    /\ UNCHANGED <<file, pinned, network, clock, boot, faults, syncFaults>>

(* A publication that is already completed is pinned again and answered    *)
(* from the state, provided that its record is still fresh.                *)
ReplayCompleted(c) ==
    LET r == base[c].last IN
    /\ pc[c] = "replay"
    /\ \/ /\ ValidateSignedRecord(r, r.seq - 1, 0)
          /\ pinned' = pinned \cup {pub[c]}
          /\ completedReceipt(c, r)
          /\ UNCHANGED faults
       \/ /\ IF ValidateSignedRecord(r, r.seq - 1, 0) THEN Fault
                                                      ELSE UNCHANGED faults
          /\ Abort(c)
          /\ UNCHANGED <<pinned>>
    /\ UNCHANGED <<file, network, clock, boot, syncFaults>>

(* Mutant: the pin request is sent, its failure is not noticed.            *)
InspectAndPinUnchecked(c) ==
    /\ pc[c] = "pin"
    /\ pinned' \in {pinned, pinned \cup {pub[c]}}
    /\ Goto(c, IF base[c].pending = NoRecord \/ recordNeedsRefresh(base[c].pending)
               THEN "prepare" ELSE "publish", pub[c], base[c])
    /\ UNCHANGED <<file, network, clock, boot, faults, syncFaults>>

(* Import if there is no pending record, inspect the whole DAG, pin it and *)
(* check the pin.  A pending record that is still usable is published as   *)
(* it is; otherwise one is prepared.                                       *)
InspectAndPin(c) ==
    /\ pc[c] = "pin"
    /\ \/ /\ pinned' = pinned \cup {pub[c]}
          /\ Goto(c, IF base[c].pending = NoRecord \/ recordNeedsRefresh(base[c].pending)
                     THEN "prepare" ELSE "publish", pub[c], base[c])
          /\ UNCHANGED faults
       \/ /\ Fault
          /\ pinned' \in {pinned, pinned \cup {pub[c]}}
          /\ Abort(c)
    /\ UNCHANGED <<file, network, clock, boot, syncFaults>>

(* Mutant: the signed record goes to the network without being stored.     *)
PrepareRecordInMemory(c) ==
    /\ pc[c] = "prepare"
    /\ base[c].high < MaxSequence /\ base[c].rev < MaxRevision
    /\ Goto(c, "publish", pub[c], Prepared(base[c], pub[c]))
    /\ UNCHANGED <<file, pinned, network, clock, boot, faults, syncFaults>>

(* The record is signed with the next sequence and stored as pending.      *)
PrepareRecord(c) ==
    LET next == Prepared(base[c], pub[c]) IN
    /\ pc[c] = "prepare"
    /\ \/ /\ base[c].high < MaxSequence
          /\ \/ CommitDurable(c, next) /\ Goto(c, "publish", pub[c], next)
             \/ CommitUncertain(c, next)
             \/ CommitRefused(c, next)
       \/ /\ base[c].high = MaxSequence
          /\ Abort(c)
          /\ UNCHANGED <<file, faults, syncFaults>>
    /\ UNCHANGED <<pinned, network, clock, boot>>

(* publishPrepared up to the network: the record is validated against the  *)
(* completed one and the clock, and handed over; an error may come before  *)
(* or after the network has accepted it.                                   *)
PublishSignedRecord(c) ==
    LET r == base[c].pending
        ok == /\ base[c].rev < MaxRevision
              /\ ValidateSignedRecord(r, base[c].last.seq, base[c].last.issued)
    IN  /\ pc[c] = "publish"
        /\ \/ /\ ok
              /\ network' = network \cup {r}
              /\ Goto(c, "complete", pub[c], base[c])
              /\ UNCHANGED faults
           \/ /\ ok
              /\ Fault
              /\ network' \in {network, network \cup {r}}
              /\ Abort(c)
           \/ /\ ~ok
              /\ Abort(c)
              /\ UNCHANGED <<network, faults>>
        /\ UNCHANGED <<file, pinned, clock, boot, syncFaults>>

CompletePublication(c) ==
    LET next == Completed(base[c]) IN
    /\ pc[c] = "complete"
    /\ \/ CommitDurable(c, next) /\ completedReceipt(c, next.last)
       \/ CommitUncertain(c, next)
       \/ CommitRefused(c, next)
    /\ UNCHANGED <<pinned, network, clock, boot>>

(* The caller takes the receipt.                                           *)
Acknowledge(c) ==
    /\ pc[c] = "returned"
    /\ Abort(c)
    /\ UNCHANGED <<file, pinned, network, clock, boot, faults, syncFaults>>

-----------------------------------------------------------------------------
Crash(c) ==
    /\ pc[c] # "idle"
    /\ Fault
    /\ Abort(c)
    /\ UNCHANGED <<file, pinned, network, clock, boot, syncFaults>>

PowerLoss ==
    /\ boot < MaxBoots
    /\ boot' = boot + 1
    /\ \E s \in survivors : state' = s /\ survivors' = {s}
    /\ pc' = [c \in Publishers |-> "idle"]
    /\ pub' = [c \in Publishers |-> NoPublication]
    /\ base' = [c \in Publishers |-> EmptyState]
    /\ result' = [c \in Publishers |-> NoRecord]
    /\ UNCHANGED <<pinned, network, clock, faults, syncFaults>>

Tick ==
    /\ clock < MaxClock
    /\ clock' = clock + 1
    /\ UNCHANGED <<file, pinned, network, boot, call, faults, syncFaults>>

(* The clock is set back, by hand or by time synchronisation.              *)
ClockSetBack ==
    /\ Fault
    /\ clock' \in 0 .. (clock - 1)
    /\ UNCHANGED <<file, pinned, network, boot, call, syncFaults>>

Init ==
    /\ state = EmptyState
    /\ survivors = {EmptyState}
    /\ pinned = {} /\ network = {}
    /\ clock = 0 /\ boot = 1
    /\ pc = [c \in Publishers |-> "idle"]
    /\ pub = [c \in Publishers |-> NoPublication]
    /\ base = [c \in Publishers |-> EmptyState]
    /\ result = [c \in Publishers |-> NoRecord]
    /\ faults = 0 /\ syncFaults = 0

(* The steps of a running Publish call.                                    *)
PublishStep(c) ==
    \/ ReplayCompleted(c) \/ InspectAndPin(c) \/ PrepareRecord(c)
    \/ PublishSignedRecord(c) \/ CompletePublication(c)

Environment == (\E c \in Publishers : Crash(c)) \/ PowerLoss \/ Tick \/ ClockSetBack

Next ==
    \/ \E c \in Publishers : \/ \E p \in Publications : PublishBegin(c, p)
                             \/ PublishStep(c)
                             \/ Acknowledge(c)
    \/ Environment

Spec == Init /\ [][Next]_vars

-----------------------------------------------------------------------------
(* Properties.                                                             *)

(* Types; the sequence and the revision stay below their limits because    *)
(* prepareRecord and publishPrepared refuse to pass them.                  *)
TypeOK ==
    /\ state \in States
    /\ survivors \in SUBSET States
    /\ pinned \in SUBSET Publications
    /\ network \in SUBSET Records
    /\ clock \in 0 .. MaxClock
    /\ boot \in 1 .. MaxBoots
    /\ pc \in [Publishers -> PCs]
    /\ pub \in [Publishers -> Publications \cup {NoPublication}]
    /\ base \in [Publishers -> States]
    /\ result \in [Publishers -> Records \cup {NoRecord}]
    /\ faults \in 0 .. MaxFaults
    /\ syncFaults \in 0 .. MaxSyncFaults

(* Nothing visible has been taken back: the machine has not lost its power *)
(* after a directory sync had failed.                                      *)
Intact == syncFaults = 0 \/ boot = 1

(* Rollback protection on the network: two records of different content    *)
(* have different sequences, and the newer Trust state has the higher one, *)
(* so resolvers that take the highest sequence never go back to a state    *)
(* without a later revocation.                                             *)
NewerStateNewerSequence ==
    Intact => \A r1, r2 \in network :
        r1.seq <= r2.seq => r1.pub = r2.pub \/ r1.pub.rev < r2.pub.rev

(* The comment on PendingPublication: "a sequence can never be reused for  *)
(* different content", whatever fails.                                     *)
SequenceNeverReused ==
    \A r1, r2 \in network : r1.seq = r2.seq => r1.pub = r2.pub

(* The comment on HighSequence: the highest sequence ever durably issued.  *)
(* Every record on the network is covered by the high-water mark of the    *)
(* state and, as long as no directory sync has failed, of every state that *)
(* a power loss could leave.                                               *)
HighWaterCoversNetwork ==
    \A r \in network : /\ Intact => r.seq <= state.high
                       /\ syncFaults = 0 => \A s \in survivors : r.seq <= s.high

(* The comment on Publish: IPNS does not advance until the complete DAG    *)
(* has been pinned.                                                        *)
PublishedIsPinned == \A r \in network : r.pub \in pinned
=============================================================================
