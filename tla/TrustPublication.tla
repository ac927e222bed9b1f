--------------------------- MODULE TrustPublication ---------------------------
(***************************************************************************)
(* Trust's outbox composed with the IPFS publisher.  Most transactions of  *)
(* the Trust service put one complete public snapshot into the outbox, in  *)
(* place of whatever was there (attachPublicOutbox); the commit that binds *)
(* the identity and the reservation of a certificate advance the revision  *)
(* and leave the outbox alone.  Each start of the service runs DrainOutbox *)
(* once: it offers the outbox item to Publisher.Publish, removes the item  *)
(* with a compare-and-swap on the Trust revision when it gets a receipt,   *)
(* and returns when the outbox is empty or at the first error.  The Trust  *)
(* store itself is atomic and durable here (module TrustStore).            *)
(***************************************************************************)
EXTENDS IpfsPublisher

CONSTANT Content        \* the digest of the snapshot built at a revision

ASSUME ContentAssumption == Content \in Digests

VARIABLES
    trustRev,       \* Snapshot.Revision of the Trust state
    outbox,         \* the publication in Snapshot.Outbox, or NoPublication
    lastSequence,   \* Snapshot.LastIPNSSequence
    reserved,       \* the number of Snapshot.PendingCertificates
    publicRev,      \* history: the revision of the last public snapshot
    drain,          \* drain[c]: where the DrainOutbox of process c is
    read,           \* read[c]: the Trust revision that it read
    item,           \* item[c]: the outbox item that it read
    calm            \* history: nothing has disturbed c since it started

trust == <<trustRev, outbox, lastSequence, reserved, publicRev>>
drains == <<drain, read, item>>
allVars == <<vars, trust, drains, calm>>

(* The process is down; its drain is about to read the state, holds an     *)
(* item, is inside Publish, or has returned while the service serves on.   *)
Drains == {"down", "read", "offer", "publish", "done"}

DrainTo(c, label) == drain' = [drain EXCEPT ![c] = label]

(* A step of another process, or one with a fault, ends the calm.          *)
CalmStep(c) ==
    calm' = [d \in Publishers |-> /\ d = c /\ calm[c]
                                  /\ faults' = faults /\ syncFaults' = syncFaults]

Disturbed == calm' = [d \in Publishers |-> FALSE]

-----------------------------------------------------------------------------
(* Transactions of the Trust service.                                      *)

(* The public documents built at a revision, under their digest.           *)
newPublication(rev) == [rev |-> rev, digest |-> Content]

(* The newest snapshot supersedes the pending one.                         *)
attachPublicOutbox(rev) ==
    outbox' = newPublication(rev) /\ publicRev' = rev

(* A handler runs in a process that is up.  The bound leaves room for the  *)
(* commits of a drain and of a recovery after the last transaction.        *)
Serving ==
    /\ \E c \in Publishers : drain[c] # "down"
    /\ trustRev + 3 <= MaxTrustRevision

(* AdoptDevice, RevokeTrust, Federate, ...: one committed transaction.     *)
LocalTransaction ==
    /\ Serving
    /\ trustRev' = trustRev + 1
    /\ attachPublicOutbox(trustRev + 1)
    /\ Disturbed
    /\ UNCHANGED <<vars, lastSequence, reserved, drains>>

(* The intent to sign a certificate: nothing public changes.               *)
reserveCertificate ==
    /\ Serving
    /\ trustRev' = trustRev + 1
    /\ reserved' = reserved + 1
    /\ Disturbed
    /\ UNCHANGED <<vars, outbox, lastSequence, publicRev, drains>>

(* finalizePending or burnPending: the certificate is recorded, or its     *)
(* serial burned.                                                          *)
finalizePending ==
    /\ Serving
    /\ reserved > 0
    /\ trustRev' = trustRev + 1
    /\ reserved' = reserved - 1
    /\ attachPublicOutbox(trustRev + 1)
    /\ Disturbed
    /\ UNCHANGED <<vars, lastSequence, drains>>

-----------------------------------------------------------------------------
(* A process of the Trust service, and its drain.                          *)

(* The process starts and Open binds the identity (revision 1) or burns    *)
(* the reservations it finds; then the drain is started.                   *)
Open(c) ==
    /\ drain[c] = "down"
    /\ \/ /\ trustRev = 0
          /\ trustRev' = 1
          /\ UNCHANGED <<outbox, reserved, publicRev>>
       \/ /\ trustRev > 0 /\ reserved = 0
          /\ UNCHANGED <<trustRev, outbox, reserved, publicRev>>
       \/ /\ reserved > 0 /\ trustRev < MaxTrustRevision
          /\ trustRev' = trustRev + 1
          /\ reserved' = 0
          /\ attachPublicOutbox(trustRev + 1)
    /\ DrainTo(c, "read")
    /\ calm' = [d \in Publishers |-> d = c]
    /\ UNCHANGED <<vars, lastSequence, read, item>>

(* A turn of DrainOutbox's loop: currentState; without an item it returns. *)
(* The service's copy may be behind a commit of another process: then this *)
(* step stands for the moment at which the copy was current.               *)
DrainRead(c) ==
    /\ drain[c] = "read"
    /\ DrainTo(c, IF outbox = NoPublication THEN "done" ELSE "offer")
    /\ read' = [read EXCEPT ![c] = trustRev]
    /\ item' = [item EXCEPT ![c] = outbox]
    /\ UNCHANGED <<vars, trust>>
    /\ CalmStep(c)

(* The item is offered to Publish, which may refuse it at once.            *)
DrainOffer(c) ==
    /\ drain[c] = "offer"
    /\ PublishBegin(c, item[c])
    /\ DrainTo(c, IF pc'[c] = "idle" THEN "done" ELSE "publish")
    /\ UNCHANGED <<trust, read, item>>
    /\ CalmStep(c)

(* Publish goes on; its error ends the drain.                              *)
DrainPublish(c) ==
    /\ PublishStep(c)
    /\ DrainTo(c, IF pc'[c] = "idle" THEN "done" ELSE "publish")
    /\ UNCHANGED <<trust, read, item>>
    /\ CalmStep(c)

(* The receipt names the item offered and a sequence beyond the last one.  *)
validatePublicationReceipt(r, p) == r.pub = p /\ r.seq > lastSequence

(* Mutant: the drain does not notice a transaction committed meanwhile.    *)
commitCandidateUnchecked(c) == TRUE

(* commitCandidate accepts only the successor of the current revision.     *)
commitCandidate(c) == trustRev = read[c]

(* The receipt is validated and the item removed, and the loop goes on, or *)
(* the drain gives up.                                                     *)
DrainCommit(c) ==
    LET ok == validatePublicationReceipt(result[c], pub[c]) /\ commitCandidate(c)
    IN  /\ pc[c] = "returned"
        /\ \/ /\ ok
              /\ trustRev' = trustRev + 1
              /\ outbox' = NoPublication
              /\ lastSequence' = result[c].seq
              /\ DrainTo(c, "read")
              /\ UNCHANGED <<reserved, publicRev, faults>>
           \/ /\ IF ok THEN Fault ELSE UNCHANGED faults
              /\ DrainTo(c, "done")
              /\ UNCHANGED trust
        /\ Abort(c)
        /\ UNCHANGED <<file, pinned, network, clock, boot, syncFaults, read, item>>
        /\ CalmStep(c)

DrainStep(c) == DrainRead(c) \/ DrainOffer(c) \/ DrainPublish(c) \/ DrainCommit(c)

(* The process is stopped, or dies; main does not wait for the drain.      *)
Exit(c) ==
    /\ drain[c] # "down"
    /\ IF drain[c] = "done" THEN UNCHANGED faults ELSE Fault
    /\ DrainTo(c, "down")
    /\ Abort(c)
    /\ Disturbed
    /\ UNCHANGED <<file, pinned, network, clock, boot, syncFaults, trust, read, item>>

(* The machine loses its power, and the services with it.                  *)
MachineStops ==
    /\ PowerLoss
    /\ drain' = [c \in Publishers |-> "down"]
    /\ Disturbed
    /\ UNCHANGED <<trust, read, item>>

(* Time passes.  It disturbs a call only when a record it uses runs out.   *)
TimePasses ==
    /\ Tick
    /\ calm' = [c \in Publishers |->
                  calm[c] /\ \A r \in {base[c].last, base[c].pending} :
                                 recordNeedsRefresh(r) \/ ~recordNeedsRefresh(r)']
    /\ UNCHANGED <<trust, drains>>

TrustInit ==
    /\ Init
    /\ trustRev = 0 /\ publicRev = 0
    /\ outbox = NoPublication
    /\ lastSequence = 0 /\ reserved = 0
    /\ drain = [c \in Publishers |-> "down"]
    /\ read = [c \in Publishers |-> 0]
    /\ item = [c \in Publishers |-> NoPublication]
    /\ calm = [c \in Publishers |-> FALSE]

TrustNext ==
    \/ LocalTransaction \/ reserveCertificate \/ finalizePending
    \/ \E c \in Publishers : Open(c) \/ DrainStep(c) \/ Exit(c)
    \/ MachineStops
    \/ TimePasses
    \/ ClockSetBack /\ Disturbed /\ UNCHANGED <<trust, drains>>

TrustSpec == TrustInit /\ [][TrustNext]_allVars

(* A drain that has been started goes on: it is a goroutine of a process   *)
(* that is up.  Nothing starts the service again or makes time pass.       *)
FairTrustSpec ==
    TrustSpec /\ \A c \in Publishers : WF_allVars(DrainStep(c))

(* More than the code or the init system gives: the service is also        *)
(* stopped and started again for ever.                                     *)
RestartedTrustSpec ==
    /\ FairTrustSpec
    /\ \A c \in Publishers : /\ WF_allVars(Open(c))
                             /\ WF_allVars(drain[c] = "done" /\ Exit(c))

-----------------------------------------------------------------------------
(* What Trust has recorded as published is on the network under that       *)
(* sequence.  And with at most one failed directory sync no power loss     *)
(* takes the publisher's high-water mark below the sequence with which     *)
(* Trust compares the next receipt (validatePublicationReceipt), even when *)
(* the receipt was a replay of a completion that is not durable: the next  *)
(* record has a sequence that Trust accepts.                               *)
AcknowledgedIsPublished ==
    /\ lastSequence > 0 => \E r \in network : r.seq = lastSequence
    /\ syncFaults <= 1 => \A s \in survivors : lastSequence <= s.high

(* An empty outbox means that the network is up to date: the record with   *)
(* the highest sequence, which is what resolvers take, carries the last    *)
(* public snapshot (with the latest revocation, say), whatever crashes,    *)
(* failures, transactions without a public side and refreshed records came *)
(* before, as long as no power loss has followed a failed directory sync.  *)
DrainedIsCurrent ==
    Intact /\ outbox = NoPublication /\ publicRev > 0 =>
        \E r \in network : /\ r.seq = lastSequence
                           /\ r.pub.rev = publicRev
                           /\ \A q \in network : q.seq <= r.seq

(* The comment in attachPublicOutbox: "the newest local transaction safely *)
(* supersedes older pending snapshots".  With finitely many transactions   *)
(* and faults, and a service that is restarted for ever, the newest        *)
(* snapshot is published and the outbox drained.                           *)
OutboxDrained == <>[](outbox = NoPublication)

(* The situations in which an undisturbed drain does not help: a record    *)
(* prepared for an item that has left the outbox; the stale record of a    *)
(* completed item whose acknowledgement was lost; a clock behind the       *)
(* completed record, or a prepared record from another time; a publisher   *)
(* that was thrown back below the sequence that Trust has recorded.        *)
Superseded == state.pending # NoRecord /\ state.pending.pub # outbox
StaleReplay == state.last.pub = outbox /\ recordNeedsRefresh(state.last)
ClockBehind ==
    \/ clock < state.last.issued
    \/ /\ state.pending # NoRecord /\ ~recordNeedsRefresh(state.pending)
       /\ ~ValidateSignedRecord(state.pending, state.last.seq, state.last.issued)
SequenceLost == state.last.pub = outbox /\ state.last.seq <= lastSequence

(* Apart from them, the drain of a process that starts and is not          *)
(* disturbed (no transaction, error, crash, clock change or other process  *)
(* meanwhile) empties the outbox, however often earlier drains were cut    *)
(* short before, within or after Publish.                                  *)
UndisturbedDrainEmpties ==
    \A c \in Publishers :
        drain[c] = "read" ~> \/ outbox = NoPublication \/ ~calm[c]
                             \/ Superseded \/ StaleReplay
                             \/ ClockBehind \/ SequenceLost
=============================================================================
