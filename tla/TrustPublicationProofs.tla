------------------------ MODULE TrustPublicationProofs ------------------------
(***************************************************************************)
(* Machine-checked proofs about TrustPublication: the outbox of Trust      *)
(* composed with the publisher, for any number of draining processes.      *)
(* They rest on the invariant of IpfsPublisherProofs.                      *)
(***************************************************************************)
EXTENDS TrustPublication, IpfsPublisherProofs

-----------------------------------------------------------------------------
(* What a drain holds: an item of the outbox, the current one if the       *)
(* revision that the drain read is still current.                          *)
HeldBy(c, p) ==
    /\ p \in Publications /\ p.rev <= publicRev /\ read[c] <= trustRev
    /\ read[c] = trustRev => p = outbox

(* The outbox holds the last public snapshot.                              *)
OutboxInv ==
    /\ trustRev \in Nat /\ publicRev \in Nat /\ lastSequence \in Nat /\ reserved \in Nat
    /\ drain \in [Publishers -> Drains] /\ read \in [Publishers -> Nat]
    /\ item \in [Publishers -> Publications \cup {NoPublication}]
    /\ outbox \in Publications \cup {NoPublication}
    /\ outbox # NoPublication => outbox.rev = publicRev
    /\ publicRev <= trustRev
    /\ \A c \in Publishers :
          /\ drain[c] = "offer" => HeldBy(c, item[c])
          /\ pc[c] # "idle" => drain[c] = "publish" /\ HeldBy(c, pub[c])

(* What is completed, or answered with a receipt, is on the network.       *)
NetworkInv ==
    /\ \A s \in survivors : s.last \in network \cup {NoRecord}
    /\ \A c \in Publishers :
          /\ base[c].last \in network \cup {NoRecord}
          /\ pc[c] = "complete" => base[c].pending \in network
          /\ pc[c] = "returned" => result[c] \in network
          /\ pc[c] = "replay" => base[c].pending = NoRecord /\ base[c].last.pub = pub[c]
    /\ lastSequence > 0 => \E r \in network : r.seq = lastSequence

(* While nothing visible has been taken back: the state has completed the  *)
(* newest item when the outbox is empty, and already when a drain is about *)
(* to empty it.                                                            *)
DrainInv ==
    Intact =>
       /\ lastSequence <= state.last.seq
       /\ outbox = NoPublication /\ publicRev > 0 =>
             /\ state.pending = NoRecord /\ state.last # NoRecord
             /\ state.last.pub.rev = publicRev /\ lastSequence = state.last.seq
       /\ \A c \in Publishers :
             /\ pc[c] = "replay" /\ read[c] = trustRev => base[c] = state
             /\ pc[c] = "returned" /\ read[c] = trustRev =>
                   /\ state.last = result[c] /\ state.pending = NoRecord
                   /\ result[c].pub = pub[c]

(* The sequences that have been acknowledged, or may be next: those of the *)
(* completed record, of a receipt and of a record that is replayed.        *)
Known == {lastSequence, state.last.seq}
            \cup {result[c].seq : c \in {d \in Publishers : pc[d] = "returned"}}
            \cup {base[c].last.seq : c \in {d \in Publishers : pc[d] = "replay"}}

(* One failed sync puts only one commit at risk: that of a new record,     *)
(* which is not known yet, or that of its completion, before which the     *)
(* high-water mark already covers it.                                      *)
MarkInv == syncFaults <= 1 => \A s \in survivors : \A n \in Known : n <= s.high

TrustInv == Inv /\ OutboxInv /\ NetworkInv /\ DrainInv /\ MarkInv

-----------------------------------------------------------------------------
(* The types of the composition, and what a running call of Publish holds. *)
LEMMA TrustTypes ==
  ASSUME TrustInv
  PROVE  /\ Inv /\ trustRev \in Nat /\ publicRev \in Nat /\ lastSequence \in Nat
         /\ reserved \in Nat /\ publicRev <= trustRev
         /\ outbox \in Publications \cup {NoPublication}
         /\ \A c \in Publishers : read[c] \in Nat
         /\ \A c \in Publishers :
               pc[c] # "idle" => /\ pub[c] \in Publications /\ pub[c].rev \in Nat
                                 /\ pub[c].rev <= publicRev /\ read[c] <= trustRev
                                 /\ read[c] = trustRev =>
                                       pub[c] = outbox /\ pub[c].rev = publicRev
  <1>1. NoPublication \notin Publications
    BY RecordFacts
  <1> QED BY <1>1, RecordFacts DEF TrustInv, OutboxInv, HeldBy

(* Every known sequence is a number, covered by the state itself.          *)
LEMMA KnownTypes ==
  ASSUME TrustInv
  PROVE  Known \subseteq Nat /\ \A s \in survivors : s.high \in Nat
  <1>1. \A c \in Publishers : result[c] \in Records \cup {NoRecord}
    BY DEF TrustInv, Inv, TypeOK
  <1> QED BY <1>1, TrustTypes, InvTypes, StateFacts, RecordFacts DEF Known

(* The drains go on: one that holds an item has it from before, and one    *)
(* with a running call of Publish waits for it.                            *)
DrainsMove ==
    /\ drain' \in [Publishers -> Drains]
    /\ \A d \in Publishers : /\ drain'[d] = "offer" => drain[d] = "offer"
                             /\ pc'[d] # "idle" => drain'[d] = "publish"

(* A step of one drain.                                                    *)
LEMMA DrainsMoveOn ==
  ASSUME TrustInv, NEW c \in Publishers, NEW label \in Drains \ {"offer"},
         DrainTo(c, label), pc'[c] # "idle" => label = "publish",
         \A d \in Publishers \ {c} : pc'[d] = pc[d]
  PROVE  DrainsMove
  BY DEF TrustInv, OutboxInv, DrainTo, DrainsMove

(* What a drain holds it goes on holding: Trust's state is as it was, or   *)
(* the revision has grown and the drain is behind.                         *)
LEMMA OutboxKept ==
  ASSUME TrustInv, DrainsMove, UNCHANGED <<read, item>>,
         trustRev' \in Nat, publicRev' \in Nat, lastSequence' \in Nat, reserved' \in Nat,
         outbox' \in Publications \cup {NoPublication},
         outbox' # NoPublication => outbox'.rev = publicRev',
         publicRev <= publicRev', publicRev' <= trustRev',
         trustRev < trustRev' \/ UNCHANGED <<trustRev, outbox>>,
         \A d \in Publishers :
            pc'[d] # "idle" => \/ pc[d] # "idle" /\ pub'[d] = pub[d]
                               \/ drain[d] = "offer" /\ pub'[d] = item[d]
  PROVE  OutboxInv'
  <1>1. \A d \in Publishers :
           /\ drain[d] = "offer" => HeldBy(d, item[d])
           /\ pc[d] # "idle" => HeldBy(d, pub[d])
    BY DEF TrustInv, OutboxInv
  <1>2. ASSUME NEW d \in Publishers, drain'[d] = "offer"
        PROVE  HeldBy(d, item[d])'
    BY <1>1, <1>2, TrustTypes, RecordFacts DEF HeldBy, DrainsMove
  <1>3. ASSUME NEW d \in Publishers, pc'[d] # "idle"
        PROVE  drain'[d] = "publish" /\ HeldBy(d, pub[d])'
    BY <1>1, <1>3, TrustTypes, RecordFacts DEF HeldBy, DrainsMove
  <1>4. /\ drain' \in [Publishers -> Drains] /\ read' \in [Publishers -> Nat]
        /\ item' \in [Publishers -> Publications \cup {NoPublication}]
    BY DEF TrustInv, OutboxInv, DrainsMove
  <1> QED BY <1>2, <1>3, <1>4 DEF OutboxInv

(* The same while Trust's state is as it was.                              *)
LEMMA OutboxSame ==
  ASSUME TrustInv, DrainsMove, UNCHANGED <<trust, read, item>>,
         \A d \in Publishers :
            pc'[d] # "idle" => \/ pc[d] # "idle" /\ pub'[d] = pub[d]
                               \/ drain[d] = "offer" /\ pub'[d] = item[d]
  PROVE  OutboxInv'
  <1>1. /\ UNCHANGED <<trustRev, outbox, lastSequence, reserved, publicRev>>
        /\ outbox # NoPublication => outbox.rev = publicRev
    BY DEF trust, TrustInv, OutboxInv
  <1> QED BY <1>1, TrustTypes, OutboxKept

(* The call of d is where it was, has ended, or has gone on to a position  *)
(* that holds no receipt.                                                  *)
Same(d) == /\ pc'[d] = pc[d] /\ pub'[d] = pub[d]
           /\ base'[d] = base[d] /\ result'[d] = result[d]
Ended(d) == pc'[d] = "idle" /\ base'[d] = EmptyState
Working(d) ==
    /\ pc[d] # "idle" /\ pub'[d] = pub[d] /\ base'[d] = base[d]
    /\ \/ pc'[d] \in {"prepare", "publish"}
       \/ pc'[d] = "complete" /\ base[d].pending \in network'

(* A step of the publishers that leaves their state alone and returns no   *)
(* receipt leaves Trust's invariant alone.                                 *)
LEMMA QuietStep ==
  ASSUME TrustInv, Inv', network \subseteq network', DrainsMove,
         UNCHANGED <<state, survivors, boot, syncFaults, trust, read, item>>,
         \A d \in Publishers : Same(d) \/ Ended(d) \/ Working(d)
  PROVE  TrustInv'
  <1>1. OutboxInv'
    <2>1. \A d \in Publishers : pc'[d] # "idle" => pc[d] # "idle" /\ pub'[d] = pub[d]
      BY DEF Same, Ended, Working
    <2>2. UNCHANGED <<trust, read, item>>
      OBVIOUS
    <2> QED BY <2>1, <2>2, OutboxSame
  <1>2. NetworkInv'
    BY StateFacts DEF TrustInv, NetworkInv, trust, Same, Ended, Working
  <1>3. DrainInv'
    BY DEF TrustInv, DrainInv, Intact, trust, Same, Ended, Working
  <1>4. MarkInv'
    <2>1. \A d \in Publishers :
             /\ pc'[d] = "returned" => pc[d] = "returned" /\ result'[d] = result[d]
             /\ pc'[d] = "replay" => pc[d] = "replay" /\ base'[d] = base[d]
      BY DEF Same, Ended, Working
    <2>2. Known' \subseteq Known
      BY <2>1 DEF Known, trust
    <2> QED BY <2>2 DEF TrustInv, MarkInv
  <1> QED BY <1>1, <1>2, <1>3, <1>4 DEF TrustInv

(* What a call that ends leaves.                                           *)
LEMMA AbortCalls ==
  ASSUME TypeOK, NEW c \in Publishers, Abort(c)
  PROVE  Ended(c) /\ \A d \in Publishers \ {c} : Same(d)
  BY DEF TypeOK, Abort, Goto, Ended, Same

(* What a call that goes on leaves.                                        *)
LEMMA GotoCalls ==
  ASSUME TypeOK, NEW c \in Publishers, NEW label, NEW p, NEW s, Goto(c, label, p, s)
  PROVE  /\ pc'[c] = label /\ pub'[c] = p /\ base'[c] = s
         /\ \A d \in Publishers \ {c} : Same(d)
  BY DEF TypeOK, Goto, Same

(* What a call that returns a receipt leaves.                              *)
LEMMA ReceiptCalls ==
  ASSUME TypeOK, NEW c \in Publishers, NEW r, completedReceipt(c, r)
  PROVE  /\ pc'[c] = "returned" /\ result'[c] = r
         /\ pub'[c] = pub[c] /\ base'[c] = base[c]
         /\ \A d \in Publishers \ {c} : Same(d)
  BY DEF TypeOK, completedReceipt, Same

(* While nothing was taken back, a state whose last snapshot has been      *)
(* completed, for an empty outbox or for a drain that is about to empty    *)
(* it, is not built upon: no publication is newer.                         *)
LEMMA NothingNewer ==
  ASSUME TrustInv, Intact, NEW c \in Publishers, base[c] = state,
         \/ pc[c] = "prepare"
         \/ pc[c] = "complete"
  PROVE  /\ ~(outbox = NoPublication /\ publicRev > 0)
         /\ \A d \in Publishers : pc[d] \in {"replay", "returned"} => read[d] # trustRev
  <1>1. /\ \/ state.pending = NoRecord /\ pub[c].rev > state.last.pub.rev
           \/ state.pending # NoRecord
        /\ pub[c].rev \in Nat /\ pub[c].rev <= publicRev
        /\ state.last.pub.rev \in Nat
    BY TrustTypes, InvTypes, StateFacts, RecordFacts DEF CallOK
  <1>2. ~(outbox = NoPublication /\ publicRev > 0)
    BY <1>1, TrustTypes DEF TrustInv, DrainInv
  <1>3. ASSUME NEW d \in Publishers, pc[d] \in {"replay", "returned"}, read[d] = trustRev
        PROVE  FALSE
    <2>1. state.pending = NoRecord /\ state.last.pub = pub[d]
      BY <1>3 DEF TrustInv, DrainInv, NetworkInv
    <2>2. pub[d].rev = publicRev
      BY <1>3, TrustTypes
    <2> QED BY <1>1, <2>1, <2>2, TrustTypes
  <1> QED BY <1>2, <1>3

(* A commit of the publisher's state: what holds of Trust holds after it   *)
(* when the new state builds on the old one and completes only what is on  *)
(* the network and under the old high-water mark.                          *)
LEMMA TrustCommitStep ==
  ASSUME TrustInv, Inv', NEW c \in Publishers, NEW next \in States, Commits(c, next),
         pc[c] = "prepare" \/ pc[c] = "complete",
         next.last \in network \cup {NoRecord},
         base'[c] \in {EmptyState, base[c], next}, base[c].last \in network \cup {NoRecord},
         next.last.seq >= base[c].last.seq, next.last.seq <= base[c].high,
         next.high >= base[c].high,
         UNCHANGED <<trust, read, item>>, DrainsMove,
         \A d \in Publishers \ {c} : Same(d),
         \/ pc'[c] = "idle"
         \/ pc'[c] = "publish" /\ pub'[c] = pub[c]
         \/ /\ pc'[c] = "returned" /\ pub'[c] = pub[c] /\ result'[c] = next.last
            /\ next.pending = NoRecord /\ next.last \in network /\ next.last.pub = pub[c]
  PROVE  TrustInv'
  <1>0. /\ base[c] = state /\ state' = next /\ (Intact' => Intact)
        /\ next.last.seq \in Nat /\ next.high \in Nat
        /\ UNCHANGED <<network, lastSequence>>
    BY AcceptedBase, StateFacts, RecordFacts DEF TrustInv, Commits, trust
  <1>1. OutboxInv'
    BY OutboxSame DEF Same
  <1>2. NetworkInv'
    <2>1. \A s \in survivors' : s.last \in network' \cup {NoRecord}
      BY DEF TrustInv, NetworkInv, Commits
    <2>3. \A d \in Publishers :
              /\ base'[d].last \in network' \cup {NoRecord}
              /\ pc'[d] = "complete" => base'[d].pending \in network'
              /\ pc'[d] = "returned" => result'[d] \in network'
              /\ pc'[d] = "replay" => base'[d].pending = NoRecord /\ base'[d].last.pub = pub'[d]
      BY <1>0, StateFacts DEF TrustInv, NetworkInv, Same
    <2>4. lastSequence' > 0 => \E r \in network' : r.seq = lastSequence'
      BY <1>0 DEF TrustInv, NetworkInv
    <2> QED BY <2>1, <2>3, <2>4 DEF NetworkInv
  <1>3. DrainInv'
    <2> SUFFICES ASSUME Intact' PROVE DrainInv'
      BY DEF DrainInv
    <2>2. /\ ~(outbox = NoPublication /\ publicRev > 0)
          /\ \A d \in Publishers : pc[d] \in {"replay", "returned"} => read[d] # trustRev
      BY <1>0, NothingNewer
    <2>3. lastSequence' <= state'.last.seq
      <3>1. lastSequence <= state.last.seq /\ lastSequence \in Nat /\ state.last.seq \in Nat
        BY <1>0, TrustTypes, InvTypes, StateFacts, RecordFacts DEF TrustInv, DrainInv
      <3> QED BY <1>0, <3>1
    <2>4. ASSUME NEW d \in Publishers
          PROVE  /\ pc'[d] = "replay" /\ read'[d] = trustRev' => base'[d] = state'
                 /\ pc'[d] = "returned" /\ read'[d] = trustRev' =>
                       /\ state'.last = result'[d] /\ state'.pending = NoRecord
                       /\ result'[d].pub = pub'[d]
      BY <1>0, <2>2 DEF Same, trust
    <2> QED BY <2>2, <2>3, <2>4 DEF DrainInv, trust
  <1>4. MarkInv'
    <2> SUFFICES ASSUME syncFaults' <= 1, NEW s \in survivors', NEW n \in Known'
                 PROVE  n <= s.high
      BY DEF MarkInv
    <2>1. syncFaults <= 1 /\ syncFaults \in Nat
      BY InvTypes, TrustTypes, PublisherAssumption DEF Commits
    <2>2. n \in Known \/ n = next.last.seq
      <3>1. \A d \in Publishers :
               /\ pc'[d] = "returned" => \/ pc[d] = "returned" /\ result'[d] = result[d]
                                         \/ result'[d] = next.last
               /\ pc'[d] = "replay" => pc[d] = "replay" /\ base'[d] = base[d]
        BY DEF Same
      <3> QED BY <1>0, <3>1 DEF Known
    <2>3. \A t \in survivors : t.high \in Nat /\ \A m \in Known : m \in Nat /\ m <= t.high
      BY <2>1, KnownTypes DEF TrustInv, MarkInv
    <2>4. state \in survivors
      BY TrustTypes, InvTypes
    <2>5. CASE s = next
      BY <1>0, <2>2, <2>3, <2>4, <2>5
    <2>6. CASE s \in survivors /\ s # next
      <3>1. syncFaults' = syncFaults + 1
        BY <2>6 DEF Commits
      <3>2. syncFaults = 0
        BY <2>1, <3>1
      <3>3. s = state
        BY <2>6, <3>2 DEF TrustInv, Inv, FileInv
      <3> QED BY <1>0, <2>2, <2>3, <2>4, <3>3
    <2> QED BY <2>5, <2>6 DEF Commits
  <1> QED BY <1>1, <1>2, <1>3, <1>4 DEF TrustInv

-----------------------------------------------------------------------------
(* A call of Publish that ends without a receipt.                          *)
LEMMA TrustAbortStep ==
  ASSUME TrustInv, Inv', NEW c \in Publishers, Abort(c), network \subseteq network',
         DrainsMove,
         UNCHANGED <<state, survivors, boot, syncFaults, trust, read, item>>
  PROVE  TrustInv'
  <1>1. \A d \in Publishers : Same(d) \/ Ended(d)
    BY AbortCalls DEF TrustInv, Inv
  <1> QED BY <1>1, QuietStep

(* A receipt from the state: it is that of the state when the drain has    *)
(* read the current revision.                                              *)
LEMMA TrustReplayStep ==
  ASSUME TrustInv, NEW c \in Publishers, ReplayCompleted(c), DrainsMove,
         UNCHANGED <<trust, read, item>>
  PROVE  TrustInv'
  <1>0. /\ Inv' /\ TypeOK /\ pc[c] = "replay"
        /\ UNCHANGED <<state, survivors, network, boot, syncFaults>>
    BY ReplayStep DEF TrustInv, Inv, ReplayCompleted, file
  <1>1. CASE Abort(c)
    BY <1>0, <1>1, TrustAbortStep
  <1>2. CASE completedReceipt(c, base[c].last)
    <2>1. /\ pc'[c] = "returned" /\ result'[c] = base[c].last
          /\ pub'[c] = pub[c] /\ base'[c] = base[c]
          /\ \A d \in Publishers \ {c} : Same(d)
      BY <1>0, <1>2, ReceiptCalls
    <2>2. /\ base[c].pending = NoRecord /\ base[c].last.pub = pub[c]
          /\ base[c].last \in network
      <3>1. /\ base[c].pending = NoRecord /\ base[c].last.pub = pub[c]
            /\ base[c].last \in network \cup {NoRecord}
        BY <1>0 DEF TrustInv, NetworkInv
      <3>2. pub[c].rev >= 1
        BY <1>0, TrustTypes, RecordFacts
      <3> QED BY <3>1, <3>2, RecordFacts
    <2>3. OutboxInv'
      BY <1>0, <2>1, OutboxSame DEF Same
    <2>4. NetworkInv'
      BY <1>0, <2>1, <2>2 DEF TrustInv, NetworkInv, trust, Same
    <2>5. DrainInv'
      BY <1>0, <2>1, <2>2 DEF TrustInv, DrainInv, Intact, trust, Same
    <2>6. MarkInv'
      <3>1. \A d \in Publishers \ {c} :
               /\ pc'[d] = "returned" => pc[d] = "returned" /\ result'[d] = result[d]
               /\ pc'[d] = "replay" => pc[d] = "replay" /\ base'[d] = base[d]
        BY <2>1 DEF Same
      <3>2. Known' \subseteq Known
        BY <1>0, <2>1, <3>1 DEF Known, trust
      <3> QED BY <1>0, <3>2 DEF TrustInv, MarkInv
    <2> QED BY <1>0, <2>3, <2>4, <2>5, <2>6 DEF TrustInv
  <1> QED BY <1>1, <1>2 DEF ReplayCompleted

(* Pinning and handing over move no receipt.                               *)
LEMMA TrustPinStep ==
  ASSUME TrustInv, NEW c \in Publishers, InspectAndPin(c), DrainsMove,
         UNCHANGED <<trust, read, item>>
  PROVE  TrustInv'
  <1>0. /\ Inv' /\ TypeOK /\ pc[c] = "pin"
        /\ UNCHANGED <<state, survivors, network, boot, syncFaults>>
    BY PinStep DEF TrustInv, Inv, InspectAndPin, file
  <1>1. CASE Abort(c)
    BY <1>0, <1>1, TrustAbortStep
  <1>2. ASSUME NEW label \in {"prepare", "publish"}, Goto(c, label, pub[c], base[c])
        PROVE  TrustInv'
    <2>1. \A d \in Publishers : Same(d) \/ Working(d)
      BY <1>0, <1>2, GotoCalls DEF Working
    <2> QED BY <1>0, <2>1, QuietStep
  <1> QED BY <1>1, <1>2 DEF InspectAndPin

(* The same for the network's answer.                                      *)
LEMMA TrustSignedStep ==
  ASSUME TrustInv, NEW c \in Publishers, PublishSignedRecord(c), DrainsMove,
         UNCHANGED <<trust, read, item>>
  PROVE  TrustInv'
  <1>0. /\ Inv' /\ TypeOK /\ pc[c] = "publish" /\ network \subseteq network'
        /\ UNCHANGED <<state, survivors, boot, syncFaults>>
    BY SignedStep DEF TrustInv, Inv, PublishSignedRecord, file
  <1>1. CASE Abort(c)
    BY <1>0, <1>1, TrustAbortStep
  <1>2. CASE Goto(c, "complete", pub[c], base[c]) /\ base[c].pending \in network'
    <2>1. \A d \in Publishers : Same(d) \/ Working(d)
      BY <1>0, <1>2, GotoCalls DEF Working
    <2> QED BY <1>0, <2>1, QuietStep
  <1> QED BY <1>1, <1>2 DEF PublishSignedRecord

(* A new record is prepared.                                               *)
LEMMA TrustPrepareStep ==
  ASSUME TrustInv, NEW c \in Publishers, PrepareRecord(c), DrainsMove,
         UNCHANGED <<trust, read, item>>
  PROVE  TrustInv'
  <1> DEFINE next == Prepared(base[c], pub[c])
  <1>0. /\ Inv /\ Inv' /\ TypeOK /\ pc[c] = "prepare" /\ pub[c] \in Publications
        /\ UNCHANGED <<pinned, network, clock, boot>>
        /\ base[c] \in States
    BY PrepareStep, TrustTypes, InvTypes DEF TrustInv, Inv, PrepareRecord
  <1>1. CASE Abort(c) /\ UNCHANGED <<state, survivors, syncFaults>>
    BY <1>0, <1>1, TrustAbortStep
  <1>2. ASSUME Accepted(c, next), base[c].high < MaxSequence
        PROVE  /\ next \in States /\ next.last = base[c].last
               /\ next.last \in network \cup {NoRecord}
               /\ next.last.seq >= base[c].last.seq /\ next.last.seq <= base[c].high
               /\ next.high >= base[c].high
    <2>1. /\ next \in States /\ next.last = base[c].last /\ next.high = base[c].high + 1
          /\ next.last \in network \cup {NoRecord}
      BY <1>0, <1>2, InvTypes, PreparedFacts DEF Accepted, TrustInv, NetworkInv
    <2>2. base[c].last.seq <= base[c].high
      BY <1>0, InvTypes DEF CallOK, validatePublicationState
    <2>3. base[c].last.seq \in Nat /\ base[c].high \in Nat
      BY <1>0, StateFacts, RecordFacts
    <2> QED BY <2>1, <2>2, <2>3
  <1>3. CASE base[c].high < MaxSequence /\ CommitDurable(c, next)
             /\ Goto(c, "publish", pub[c], next)
    <2>1. Commits(c, next)
      BY <1>0, <1>3, InvTypes DEF CommitDurable, Commits
    <2>2. /\ pc'[c] = "publish" /\ pub'[c] = pub[c] /\ base'[c] = next
          /\ \A d \in Publishers \ {c} : Same(d)
      BY <1>0, <1>3, GotoCalls
    <2>3. Accepted(c, next)
      BY <1>3 DEF CommitDurable
    <2> QED BY <1>0, <1>2, <1>3, <2>1, <2>2, <2>3, TrustCommitStep
  <1>4. CASE base[c].high < MaxSequence /\ CommitUncertain(c, next)
    <2>1. Commits(c, next)
      BY <1>0, <1>4, InvTypes, PublisherAssumption DEF CommitUncertain, Commits
    <2>2. /\ pc'[c] = "idle" /\ base'[c] = EmptyState
          /\ \A d \in Publishers \ {c} : Same(d)
      BY <1>0, <1>4, AbortCalls DEF CommitUncertain, Ended
    <2>3. Accepted(c, next)
      BY <1>4 DEF CommitUncertain
    <2> QED BY <1>0, <1>2, <1>4, <2>1, <2>2, <2>3, TrustCommitStep
  <1>5. CommitRefused(c, next) => Abort(c) /\ UNCHANGED <<state, survivors, syncFaults>>
    BY DEF CommitRefused, file
  <1> QED BY <1>1, <1>3, <1>4, <1>5 DEF PrepareRecord, file

(* A record is completed: it is on the network, and beyond the last one.   *)
LEMMA TrustCompleteStep ==
  ASSUME TrustInv, NEW c \in Publishers, CompletePublication(c), DrainsMove,
         UNCHANGED <<trust, read, item>>
  PROVE  TrustInv'
  <1> DEFINE next == Completed(base[c])
  <1>0. /\ Inv /\ Inv' /\ TypeOK /\ pc[c] = "complete" /\ pub[c] \in Publications
        /\ UNCHANGED <<pinned, network, clock, boot>>
        /\ base[c] \in States /\ CallOK(c)
        /\ base[c].pending \in network /\ base[c].last \in network \cup {NoRecord}
    BY CompleteStep, TrustTypes, InvTypes
    DEF TrustInv, Inv, CompletePublication, NetworkInv
  <1>1. CASE CommitRefused(c, next)
    BY <1>0, <1>1, TrustAbortStep DEF CommitRefused, file
  <1>2. ASSUME Accepted(c, next)
        PROVE  /\ next \in States /\ next.pending = NoRecord
               /\ next.last \in network /\ next.last.pub = pub[c]
               /\ next.last.seq >= base[c].last.seq /\ next.last.seq <= base[c].high
               /\ next.high >= base[c].high
    <2>1. /\ next \in States /\ next.last = base[c].pending /\ next.pending = NoRecord
          /\ next.high = base[c].high
      BY <1>0, <1>2, CompletedFacts DEF Accepted
    <2>2. /\ base[c].pending.pub = pub[c] /\ base[c].pending.seq > base[c].last.seq
          /\ base[c].pending.seq = base[c].high
      BY <1>0 DEF CallOK, validatePublicationState
    <2>3. /\ base[c].pending.seq \in Nat /\ base[c].last.seq \in Nat
          /\ base[c].high \in Nat
      BY <1>0, StateFacts, RecordFacts
    <2> QED BY <1>0, <2>1, <2>2, <2>3
  <1>3. CASE CommitDurable(c, next) /\ completedReceipt(c, next.last)
    <2>1. Commits(c, next) /\ Accepted(c, next)
      BY <1>0, <1>3, InvTypes DEF CommitDurable, Commits
    <2>2. /\ pc'[c] = "returned" /\ result'[c] = next.last
          /\ pub'[c] = pub[c] /\ base'[c] = base[c]
          /\ \A d \in Publishers \ {c} : Same(d)
      BY <1>0, <1>3, ReceiptCalls
    <2> QED BY <1>0, <1>2, <2>1, <2>2, TrustCommitStep
  <1>4. CASE CommitUncertain(c, next)
    <2>1. Commits(c, next) /\ Accepted(c, next)
      BY <1>0, <1>4, InvTypes, PublisherAssumption DEF CommitUncertain, Commits
    <2>2. /\ pc'[c] = "idle" /\ base'[c] = EmptyState
          /\ \A d \in Publishers \ {c} : Same(d)
      BY <1>0, <1>4, AbortCalls DEF CommitUncertain, Ended
    <2> QED BY <1>0, <1>2, <2>1, <2>2, TrustCommitStep
  <1> QED BY <1>1, <1>3, <1>4 DEF CompletePublication

(* All steps of Publish: only the call of c moves, and with it its drain.  *)
LEMMA DrainPublishStep ==
  ASSUME TrustInv, NEW c \in Publishers, DrainPublish(c)
  PROVE  TrustInv'
  <1>1. TypeOK /\ pc[c] \in PCs /\ pc[c] # "idle"
    BY InvTypes DEF TrustInv, Inv, DrainPublish, PublishStep, ReplayCompleted, InspectAndPin,
                    PrepareRecord, PublishSignedRecord, CompletePublication
  <1>2. \A d \in Publishers \ {c} : pc'[d] = pc[d]
    BY <1>1 DEF TypeOK, DrainPublish, PublishStep, ReplayCompleted, InspectAndPin, PrepareRecord,
                PublishSignedRecord, CompletePublication, Goto, Abort, completedReceipt,
                CommitUncertain, CommitRefused
  <1>3. DrainsMove
    BY <1>2, DrainsMoveOn DEF DrainPublish, Drains
  <1>4. PublishStep(c) /\ UNCHANGED <<trust, read, item>>
    BY DEF DrainPublish
  <1> QED BY <1>3, <1>4, TrustReplayStep, TrustPinStep, TrustPrepareStep, TrustSignedStep,
             TrustCompleteStep
          DEF PublishStep

(* A process ends, anywhere in its drain.                                  *)
LEMMA ExitStep ==
  ASSUME TrustInv, NEW c \in Publishers, Exit(c)
  PROVE  TrustInv'
  <1>1. /\ Inv /\ TypeOK /\ Abort(c) /\ faults' \in 0 .. MaxFaults
        /\ UNCHANGED <<state, survivors, pinned, network, clock, boot, syncFaults>>
    BY InvTypes DEF TrustInv, Inv, Exit, file
  <1>2. Inv'
    BY <1>1, AbortStep, InvTypes DEF Inv, PublishedIsPinned
  <1>3. pc'[c] = "idle" /\ \A d \in Publishers \ {c} : pc'[d] = pc[d]
    BY <1>1, AbortCalls DEF Ended, Same
  <1>4. DrainsMove
    BY <1>3, DrainsMoveOn DEF Exit, Drains
  <1> QED BY <1>1, <1>2, <1>4, TrustAbortStep DEF Exit

(* Power losses and the clock.                                             *)
LEMMA TrustEnvironmentStep ==
  ASSUME TrustInv,
         \/ MachineStops
         \/ (Tick \/ ClockSetBack) /\ UNCHANGED <<trust, drains>>
  PROVE  TrustInv'
  <1>2. CASE (Tick \/ ClockSetBack) /\ UNCHANGED <<trust, drains>>
    <2>1. /\ UNCHANGED <<state, survivors, network, boot, syncFaults, pc, pub, base, result>>
          /\ Inv' /\ UNCHANGED <<trust, read, item>>
      BY <1>2, ClockStep DEF Tick, ClockSetBack, file, call, TrustInv, drains
    <2>2. DrainsMove
      BY <1>2, <2>1 DEF DrainsMove, TrustInv, OutboxInv, drains
    <2> QED BY <2>1, <2>2, QuietStep DEF Same
  <1>3. CASE MachineStops
    <2>1. Inv' /\ Inv
      BY <1>3, PowerLossStep DEF TrustInv, MachineStops
    <2>2. PICK s \in survivors : state' = s /\ survivors' = {s}
      BY <1>3 DEF PowerLoss, MachineStops
    <2>3. /\ \A d \in Publishers : pc'[d] = "idle" /\ base'[d] = EmptyState
          /\ boot' = boot + 1 /\ UNCHANGED <<network, syncFaults, trust, read, item>>
          /\ drain' \in [Publishers -> Drains]
          /\ \A d \in Publishers : drain'[d] = "down"
      BY <1>3 DEF PowerLoss, MachineStops, Drains
    <2>4. OutboxInv'
      BY <2>3 DEF TrustInv, OutboxInv, trust
    <2>5. NetworkInv'
      BY <2>2, <2>3, StateFacts DEF TrustInv, NetworkInv, trust
    <2>6. Intact' => Intact /\ state' = state
      BY <2>1, <2>2, <2>3, InvTypes DEF Intact, Inv, FileInv
    <2>7. DrainInv'
      BY <2>3, <2>6 DEF TrustInv, DrainInv, trust
    <2>8. MarkInv'
      <3>1. Known' = {lastSequence, s.last.seq}
        BY <2>2, <2>3 DEF Known, trust
      <3>2. s.last.seq <= s.high
        BY <2>2 DEF TrustInv, Inv, FileInv, validatePublicationState
      <3>3. syncFaults <= 1 => lastSequence <= s.high
        BY <2>2 DEF TrustInv, MarkInv, Known
      <3> QED BY <2>2, <2>3, <3>1, <3>2, <3>3 DEF MarkInv
    <2> QED BY <2>1, <2>4, <2>5, <2>7, <2>8 DEF TrustInv
  <1> QED BY <1>2, <1>3

(* A commit of Trust that leaves the publishers alone, with or without a   *)
(* new public snapshot: every drain is now behind.                         *)
LEMMA TransactionStep ==
  ASSUME TrustInv, UNCHANGED vars, trustRev' = trustRev + 1,
         reserved' \in Nat, UNCHANGED <<lastSequence, read, item>>, DrainsMove,
         \/ UNCHANGED <<outbox, publicRev>>
         \/ trustRev < MaxTrustRevision /\ attachPublicOutbox(trustRev + 1)
  PROVE  TrustInv'
  <1>0. UNCHANGED <<state, survivors, network, boot, syncFaults, pc, pub, base, result>>
    BY DEF vars
  <1>1. Inv'
    BY ClockStep DEF TrustInv
  <1>2. /\ outbox' \in Publications \cup {NoPublication}
        /\ outbox' # NoPublication => outbox'.rev = publicRev'
        /\ publicRev' \in Nat /\ publicRev <= publicRev' /\ publicRev' <= trustRev'
    BY TrustTypes, ContentAssumption, PublisherAssumption
    DEF TrustInv, OutboxInv, newPublication, attachPublicOutbox, Publications
  <1>3. OutboxInv'
    BY <1>0, <1>2, TrustTypes, OutboxKept
  <1>4. NetworkInv'
    BY <1>0 DEF TrustInv, NetworkInv
  <1>5. DrainInv'
    <2>1. \A c \in Publishers : pc[c] # "idle" => read[c] # trustRev'
      BY TrustTypes
    <2>2. attachPublicOutbox(trustRev + 1) => outbox' # NoPublication
      BY TrustTypes DEF attachPublicOutbox, newPublication, NoPublication
    <2> QED BY <1>0, <2>1, <2>2 DEF TrustInv, DrainInv, Intact
  <1>6. MarkInv'
    BY <1>0 DEF TrustInv, MarkInv, Known
  <1> QED BY <1>1, <1>3, <1>4, <1>5, <1>6 DEF TrustInv

(* The handlers of the service.                                            *)
LEMMA HandlerStep ==
  ASSUME TrustInv, LocalTransaction \/ reserveCertificate \/ finalizePending
  PROVE  TrustInv'
  <1>1. /\ UNCHANGED <<vars, lastSequence, drains>> /\ trustRev' = trustRev + 1
        /\ trustRev < MaxTrustRevision /\ reserved' \in Nat
        /\ UNCHANGED <<outbox, publicRev>> \/ attachPublicOutbox(trustRev + 1)
    BY TrustTypes, PublisherAssumption
    DEF LocalTransaction, reserveCertificate, finalizePending, Serving
  <1>2. DrainsMove
    BY <1>1 DEF DrainsMove, TrustInv, OutboxInv, drains, vars
  <1> QED BY <1>1, <1>2, TransactionStep DEF drains

(* The process starts: Open commits, or finds nothing to do.               *)
LEMMA OpenStep ==
  ASSUME TrustInv, NEW c \in Publishers, Open(c)
  PROVE  TrustInv'
  <1>1. /\ UNCHANGED <<vars, lastSequence, read, item>> /\ DrainTo(c, "read")
        /\ pc[c] = "idle" /\ UNCHANGED pc
    BY DEF Open, vars, TrustInv, OutboxInv
  <1>2. DrainsMove
    BY <1>1, DrainsMoveOn DEF Drains
  <1>3. CASE UNCHANGED <<trustRev, outbox, reserved, publicRev>>
    <2>1. /\ UNCHANGED <<state, survivors, network, boot, syncFaults, pc, pub, base, result>>
          /\ Inv' /\ UNCHANGED <<trust, read, item>>
      BY <1>1, <1>3, ClockStep DEF vars, trust, TrustInv
    <2> QED BY <1>2, <2>1, QuietStep DEF Same
  <1>4. CASE trustRev = 0 /\ trustRev' = 1 /\ UNCHANGED <<outbox, reserved, publicRev>>
    BY <1>1, <1>2, <1>4, TransactionStep, TrustTypes
  <1>5. CASE /\ trustRev < MaxTrustRevision /\ trustRev' = trustRev + 1 /\ reserved' = 0
             /\ attachPublicOutbox(trustRev + 1)
    BY <1>1, <1>2, <1>5, TransactionStep
  <1> QED BY <1>3, <1>4, <1>5 DEF Open

(* The drain takes the current item, or finds none.                        *)
LEMMA DrainReadStep ==
  ASSUME TrustInv, NEW c \in Publishers, DrainRead(c)
  PROVE  TrustInv'
  <1>0. /\ UNCHANGED <<state, survivors, network, boot, syncFaults, pc, pub, base, result>>
        /\ UNCHANGED trust /\ UNCHANGED vars /\ drain[c] = "read" /\ pc[c] = "idle"
    BY DEF DrainRead, vars, TrustInv, OutboxInv
  <1>1. Inv'
    BY <1>0, ClockStep DEF TrustInv
  <1>2. /\ drain' \in [Publishers -> Drains] /\ read' \in [Publishers -> Nat]
        /\ item' \in [Publishers -> Publications \cup {NoPublication}]
        /\ drain'[c] = "offer" => outbox # NoPublication
        /\ read'[c] = trustRev /\ item'[c] = outbox
        /\ \A d \in Publishers \ {c} :
              drain'[d] = drain[d] /\ read'[d] = read[d] /\ item'[d] = item[d]
    BY TrustTypes DEF DrainRead, DrainTo, Drains, TrustInv, OutboxInv
  <1>3. OutboxInv'
    <2>1. outbox # NoPublication => outbox \in Publications /\ outbox.rev = publicRev
      BY DEF TrustInv, OutboxInv
    <2>2. drain'[c] = "offer" => HeldBy(c, item[c])'
      BY <1>0, <1>2, <2>1, TrustTypes DEF HeldBy, trust
    <2>3. \A d \in Publishers \ {c} : \A p : HeldBy(d, p) => HeldBy(d, p)'
      BY <1>0, <1>2 DEF HeldBy, trust
    <2> QED BY <1>0, <1>2, <2>2, <2>3 DEF TrustInv, OutboxInv, trust
  <1>4. NetworkInv' /\ MarkInv'
    BY <1>0 DEF TrustInv, NetworkInv, MarkInv, Known, trust
  <1>5. DrainInv'
    BY <1>0, <1>2 DEF TrustInv, DrainInv, Intact, trust
  <1> QED BY <1>1, <1>3, <1>4, <1>5 DEF TrustInv

(* The drain offers the item it holds.                                     *)
LEMMA DrainOfferStep ==
  ASSUME TrustInv, NEW c \in Publishers, DrainOffer(c)
  PROVE  TrustInv'
  <1>0. /\ drain[c] = "offer" /\ HeldBy(c, item[c]) /\ item[c] \in Publications
        /\ pc[c] = "idle" /\ Inv /\ TypeOK /\ state \in States
        /\ validatePublicationState(state) /\ PublishBegin(c, item[c])
        /\ UNCHANGED <<state, survivors, network, boot, syncFaults, trust, read, item>>
    BY TrustTypes, InvTypes DEF TrustInv, OutboxInv, DrainOffer, PublishBegin, file, Inv, HeldBy
  <1>1. Inv'
    BY <1>0, BeginStep
  <1>2. CASE UNCHANGED call
    <2>1. UNCHANGED <<pc, pub, base, result>>
      BY <1>2 DEF call
    <2>2. DrainsMove
      BY <1>0, <2>1, DrainsMoveOn DEF DrainOffer, Drains
    <2> QED BY <1>0, <1>1, <2>1, <2>2, QuietStep DEF Same
  <1>3. CASE Route(state, item[c]) # "idle"
             /\ Goto(c, Route(state, item[c]), item[c], state)
    <2>1. /\ pc'[c] \in {"replay", "pin"} /\ pub'[c] = item[c] /\ base'[c] = state
          /\ \A d \in Publishers \ {c} : Same(d)
      BY <1>0, <1>3, GotoCalls, RouteFacts
    <2>2. pc'[c] = "replay" => state.pending = NoRecord /\ state.last.pub = item[c]
      BY <1>0, <1>3, GotoCalls DEF Route, completedPublicationMatches
    <2>3. DrainsMove /\ drain'[c] = "publish"
      <3>1. DrainTo(c, "publish")
        BY <2>1 DEF DrainOffer
      <3> QED BY <2>1, <3>1, DrainsMoveOn DEF Drains, Same, DrainTo, TrustInv, OutboxInv
    <2>4. OutboxInv'
      BY <1>0, <2>1, <2>3, OutboxSame DEF Same
    <2>5. NetworkInv'
      <3>1. state.last \in network \cup {NoRecord}
        BY <1>0, InvTypes DEF TrustInv, NetworkInv
      <3> QED BY <1>0, <2>1, <2>2, <3>1 DEF TrustInv, NetworkInv, trust, Same
    <2>6. DrainInv'
      BY <1>0, <2>1 DEF TrustInv, DrainInv, Intact, trust, Same
    <2>7. MarkInv'
      <3>1. \A d \in Publishers \ {c} :
               /\ pc'[d] = "returned" => pc[d] = "returned" /\ result'[d] = result[d]
               /\ pc'[d] = "replay" => pc[d] = "replay" /\ base'[d] = base[d]
        BY <2>1 DEF Same
      <3>2. Known' \subseteq Known
        BY <1>0, <2>1, <3>1 DEF Known, trust
      <3> QED BY <1>0, <3>2 DEF TrustInv, MarkInv
    <2> QED BY <1>1, <2>4, <2>5, <2>6, <2>7 DEF TrustInv
  <1> QED BY <1>0, <1>2, <1>3 DEF PublishBegin, readPublicationState

(* The item is removed only if the revision is still the one the drain     *)
(* read, so what was offered is the newest item.                           *)
LEMMA DrainCommitStep ==
  ASSUME TrustInv, NEW c \in Publishers, DrainCommit(c)
  PROVE  TrustInv'
  <1>0. /\ pc[c] = "returned" /\ Abort(c) /\ Inv /\ TypeOK
        /\ UNCHANGED <<state, survivors, pinned, network, clock, boot, syncFaults, read, item>>
        /\ faults' \in 0 .. MaxFaults
    BY InvTypes DEF DrainCommit, file, TrustInv, Inv
  <1>1. Inv'
    BY <1>0, AbortStep, InvTypes DEF Inv, PublishedIsPinned
  <1>2. /\ Ended(c) /\ \A d \in Publishers \ {c} : Same(d)
    BY <1>0, AbortCalls
  <1>3. DrainsMove
    BY <1>2, DrainsMoveOn DEF DrainCommit, Drains, Ended, Same
  <1>4. CASE UNCHANGED trust
    BY <1>0, <1>1, <1>3, <1>4, TrustAbortStep
  <1>5. CASE /\ validatePublicationReceipt(result[c], pub[c]) /\ commitCandidate(c)
             /\ trustRev' = trustRev + 1 /\ outbox' = NoPublication
             /\ lastSequence' = result[c].seq /\ UNCHANGED <<reserved, publicRev>>
    <2>2. /\ result[c] \in network /\ result[c] \in Records /\ result[c].seq \in Nat
          /\ result[c].pub = pub[c] /\ result[c].seq > lastSequence
          /\ read[c] = trustRev /\ pub[c].rev = publicRev
      BY <1>0, <1>5, TrustTypes, InvTypes, RecordFacts
      DEF TrustInv, NetworkInv, validatePublicationReceipt, commitCandidate
    <2>3. OutboxInv'
      <3>1. \A d \in Publishers : pc'[d] # "idle" => pc[d] # "idle" /\ pub'[d] = pub[d]
        BY <1>2 DEF Ended, Same
      <3>2. /\ trustRev' \in Nat /\ lastSequence' \in Nat /\ reserved' \in Nat
            /\ publicRev' \in Nat /\ publicRev' <= trustRev'
        BY <1>5, <2>2, TrustTypes
      <3> QED BY <1>0, <1>3, <1>5, <3>1, <3>2, TrustTypes, OutboxKept
    <2>4. NetworkInv'
      BY <1>0, <1>2, <1>5, <2>2, StateFacts DEF TrustInv, NetworkInv, Same, Ended
    <2>5. DrainInv'
      <3> SUFFICES ASSUME Intact' PROVE DrainInv'
        BY DEF DrainInv
      <3>1. Intact
        BY <1>0 DEF Intact
      <3>2. state.last = result[c] /\ state.pending = NoRecord
        BY <1>0, <2>2, <3>1 DEF TrustInv, DrainInv
      <3>3. \A d \in Publishers : pc'[d] # "idle" => read'[d] # trustRev'
        BY <1>0, <1>2, <1>5, TrustTypes DEF Same, Ended
      <3>4. state'.last.seq = lastSequence' /\ state'.last # NoRecord
            /\ state'.last.pub.rev = publicRev' /\ state'.pending = NoRecord
        BY <1>0, <1>5, <2>2, <3>2, RecordFacts, TrustTypes
      <3> QED BY <2>2, <1>5, <3>3, <3>4 DEF DrainInv
    <2>6. MarkInv'
      <3>1. \A d \in Publishers :
               /\ pc'[d] = "returned" => pc[d] = "returned" /\ result'[d] = result[d]
               /\ pc'[d] = "replay" => pc[d] = "replay" /\ base'[d] = base[d]
        BY <1>2 DEF Same, Ended
      <3>2. Known' \subseteq Known
        BY <1>0, <1>5, <3>1 DEF Known
      <3> QED BY <1>0, <3>2 DEF TrustInv, MarkInv
    <2> QED BY <1>1, <2>3, <2>4, <2>5, <2>6 DEF TrustInv
  <1> QED BY <1>4, <1>5 DEF DrainCommit

-----------------------------------------------------------------------------
(* The invariant of the composition.                                       *)
THEOREM TrustInvariance == TrustSpec => []TrustInv
  <1>1. TrustInit => TrustInv
    <2> SUFFICES ASSUME TrustInit PROVE TrustInv
      OBVIOUS
    <2>1. Inv
      BY InitInv DEF TrustInit
    <2>2. OutboxInv
      BY DEF TrustInit, OutboxInv, Init, Drains
    <2>3. NetworkInv
      BY StateFacts DEF TrustInit, NetworkInv, Init
    <2>4. DrainInv
      BY StateFacts, RecordFacts DEF TrustInit, DrainInv, Init
    <2>5. MarkInv
      <3>1. Known = {0}
        BY StateFacts, RecordFacts DEF TrustInit, Init, Known
      <3>2. EmptyState.high = 0
        BY DEF EmptyState
      <3> QED BY <3>1, <3>2 DEF TrustInit, Init, MarkInv
    <2> QED BY <2>1, <2>2, <2>3, <2>4, <2>5 DEF TrustInv
  <1>2. TrustInv /\ [TrustNext]_allVars => TrustInv'
    <2> SUFFICES ASSUME TrustInv, [TrustNext]_allVars PROVE TrustInv'
      OBVIOUS
    <2>1. CASE UNCHANGED allVars
      <3>1. /\ UNCHANGED <<state, survivors, network, boot, syncFaults, pc, pub, base, result>>
            /\ UNCHANGED <<trust, read, item, drain>> /\ UNCHANGED vars
        BY <2>1 DEF allVars, vars, drains
      <3>2. DrainsMove
        BY <3>1 DEF DrainsMove, TrustInv, OutboxInv
      <3> QED BY <3>1, <3>2, ClockStep, QuietStep DEF Same, TrustInv
    <2>2. CASE \E c \in Publishers : Open(c) \/ DrainStep(c) \/ Exit(c)
      BY <2>2, OpenStep, DrainReadStep, DrainOfferStep, DrainPublishStep, DrainCommitStep,
         ExitStep
      DEF DrainStep
    <2> QED BY <2>1, <2>2, HandlerStep, TrustEnvironmentStep DEF TrustNext, TimePasses
  <1> QED BY <1>1, <1>2, PTL DEF TrustSpec

(* What Trust has recorded as published is on the network, and with at     *)
(* most one failed sync no power loss throws the publisher back below it,  *)
(* for any number of processes, sequences and boots.                       *)
THEOREM NothingAcknowledgedLost == TrustSpec => []AcknowledgedIsPublished
  <1>1. TrustInv => AcknowledgedIsPublished
    BY DEF TrustInv, NetworkInv, MarkInv, Known, AcknowledgedIsPublished
  <1> QED BY <1>1, TrustInvariance, PTL

(* As long as no power loss has taken back a visible state, an empty       *)
(* outbox means that resolvers see the last public snapshot of Trust.      *)
THEOREM DrainedMeansPublished == TrustSpec => []DrainedIsCurrent
  <1>1. TrustInv => DrainedIsCurrent
    <2> SUFFICES ASSUME TrustInv, Intact, outbox = NoPublication, publicRev > 0
                 PROVE  \E r \in network : /\ r.seq = lastSequence
                                           /\ r.pub.rev = publicRev
                                           /\ \A q \in network : q.seq <= r.seq
      BY DEF DrainedIsCurrent
    <2>1. /\ state.pending = NoRecord /\ state.last # NoRecord
          /\ state.last.pub.rev = publicRev /\ lastSequence = state.last.seq
      BY DEF TrustInv, DrainInv
    <2>2. state.last \in network
      BY <2>1, TrustTypes, InvTypes DEF TrustInv, NetworkInv
    <2>3. state.high = state.last.seq
      BY <2>1, TrustTypes, InvTypes DEF validatePublicationState
    <2>4. \A q \in network : q.seq <= state.high
      BY DEF TrustInv, Inv, HistoryInv, Issued
    <2> QED BY <2>1, <2>2, <2>3, <2>4
  <1> QED BY <1>1, TrustInvariance, PTL
=============================================================================
