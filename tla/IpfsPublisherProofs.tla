-------------------------- MODULE IpfsPublisherProofs --------------------------
(***************************************************************************)
(* Machine-checked proofs about IpfsPublisher, for any number of           *)
(* publishers, publications, sequences, faults and boots: records are      *)
(* ordered as the Trust states they publish, covered by the high-water     *)
(* mark, and published only once pinned.                                   *)
(***************************************************************************)
EXTENDS IpfsPublisher, TLAPS

-----------------------------------------------------------------------------
(* The files: what can be read, now or after a power loss, has passed      *)
(* validatePublicationState, and nothing is uncertain unless a sync failed. *)
FileInv ==
    /\ state \in survivors
    /\ syncFaults = 0 => survivors = {state}
    /\ \A s \in survivors : validatePublicationState(s)

(* What Publish works on, by its position.                                 *)
CallOK(c) ==
    /\ validatePublicationState(base[c])
    /\ pc[c] # "idle" => pub[c] \in Publications
    /\ pc[c] \in {"pin", "prepare"} =>
          \/ base[c].pending = NoRecord /\ pub[c].rev > base[c].last.pub.rev
          \/ base[c].pending # NoRecord /\ base[c].pending.pub = pub[c]
    /\ pc[c] \in {"publish", "complete"} =>
          base[c].pending # NoRecord /\ base[c].pending.pub = pub[c]
    /\ pc[c] \in {"prepare", "publish", "complete"} => pub[c] \in pinned

CallInv == \A c \in Publishers : CallOK(c)

(* The compare-and-swap on the revision is one on the whole state: a       *)
(* running call has read the state of this boot, whose revisions grow.     *)
BaseInv ==
    \A c \in Publishers : /\ base[c].rev <= state.rev
                          /\ base[c].rev = state.rev => base[c] = state

(* Every record that is on the network or that somebody could still hand   *)
(* to it.                                                                  *)
Issued ==
    network \cup {state.last, state.pending}
            \cup {base[c].last : c \in Publishers}
            \cup {base[c].pending : c \in Publishers}

Ordered(r1, r2) == r1.seq <= r2.seq => r1.pub = r2.pub \/ r1.pub.rev < r2.pub.rev

(* The records are ordered as the publications are, under the high-water   *)
(* mark of the state.                                                      *)
HistoryInv ==
    Intact => /\ \A r \in Issued : r.seq <= state.high
              /\ \A r1, r2 \in Issued : Ordered(r1, r2)

Inv == TypeOK /\ FileInv /\ CallInv /\ BaseInv /\ HistoryInv /\ PublishedIsPinned

-----------------------------------------------------------------------------
(* Records and publications; the absent record is below all of them.       *)
LEMMA RecordFacts ==
  /\ NoRecord.seq = 0 /\ NoRecord.pub = NoPublication /\ NoPublication.rev = 0
  /\ \A p \in Publications : p.rev \in Nat /\ p.rev >= 1
  /\ \A r \in Records : /\ r.seq \in Nat /\ r.seq >= 1 /\ r.pub \in Publications
                        /\ r # NoRecord
  /\ \A r \in Records \cup {NoRecord} : r.seq \in Nat /\ r.pub.rev \in Nat
  <1>1. NoRecord.seq = 0 /\ NoRecord.pub = NoPublication /\ NoPublication.rev = 0
    BY DEF NoRecord, NoPublication
  <1>2. \A p \in Publications : p.rev \in Nat /\ p.rev >= 1
    BY PublisherAssumption DEF Publications
  <1>3. \A r \in Records : r.seq \in Nat /\ r.seq >= 1 /\ r.pub \in Publications
    BY PublisherAssumption DEF Records
  <1> QED BY <1>1, <1>2, <1>3

(* States, of which the empty one is valid.                                *)
LEMMA StateFacts ==
  /\ EmptyState \in States /\ validatePublicationState(EmptyState)
  /\ EmptyState.rev = 0 /\ EmptyState.last = NoRecord /\ EmptyState.pending = NoRecord
  /\ \A s \in States : /\ s.rev \in Nat /\ s.rev <= MaxRevision
                       /\ s.high \in Nat /\ s.high <= MaxSequence
                       /\ s.last \in Records \cup {NoRecord}
                       /\ s.pending \in Records \cup {NoRecord}
  <1>1. /\ EmptyState \in States /\ EmptyState.rev = 0 /\ EmptyState.high = 0
        /\ EmptyState.last = NoRecord /\ EmptyState.pending = NoRecord
    BY PublisherAssumption DEF EmptyState, States
  <1>2. validatePublicationState(EmptyState)
    BY <1>1, RecordFacts DEF validatePublicationState
  <1>3. \A s \in States : /\ s.rev \in Nat /\ s.rev <= MaxRevision
                          /\ s.high \in Nat /\ s.high <= MaxSequence
                          /\ s.last \in Records \cup {NoRecord}
                          /\ s.pending \in Records \cup {NoRecord}
    BY PublisherAssumption DEF States
  <1> QED BY <1>1, <1>2, <1>3

(* The absent record is ordered with every other.                          *)
LEMMA NoRecordOrdered ==
  ASSUME NEW r \in Records \cup {NoRecord}
  PROVE  Ordered(NoRecord, r) /\ Ordered(r, NoRecord)
  BY RecordFacts DEF Ordered

(* The states that prepareRecord and publishPrepared build.                *)
LEMMA PreparedFacts ==
  ASSUME NEW s \in States, NEW p \in Publications, clock \in 0 .. MaxClock,
         s.high < MaxSequence, s.rev < MaxRevision
  PROVE  /\ Prepared(s, p) \in States
         /\ Prepared(s, p).rev = s.rev + 1 /\ Prepared(s, p).high = s.high + 1
         /\ Prepared(s, p).last = s.last
         /\ Prepared(s, p).pending \in Records
         /\ Prepared(s, p).pending.seq = s.high + 1
         /\ Prepared(s, p).pending.pub = p
  <1> DEFINE r == [seq |-> s.high + 1, pub |-> p, issued |-> clock]
  <1>1. s.high + 1 \in 1 .. MaxSequence /\ s.high + 1 \in 0 .. MaxSequence
        /\ s.rev + 1 \in 0 .. MaxRevision
    BY StateFacts, PublisherAssumption
  <1>2. r \in Records /\ r.seq = s.high + 1 /\ r.pub = p
    BY <1>1 DEF Records
  <1>3. Prepared(s, p) = [s EXCEPT !.rev = s.rev + 1, !.high = s.high + 1, !.pending = r]
    BY DEF Prepared, States
  <1> HIDE DEF r
  <1> QED BY <1>1, <1>2, <1>3 DEF States

(* The same for the completed state.                                       *)
LEMMA CompletedFacts ==
  ASSUME NEW s \in States, s.rev < MaxRevision
  PROVE  /\ Completed(s) \in States
         /\ Completed(s).rev = s.rev + 1 /\ Completed(s).high = s.high
         /\ Completed(s).last = s.pending /\ Completed(s).pending = NoRecord
  <1>1. s.rev + 1 \in 0 .. MaxRevision
    BY StateFacts, PublisherAssumption
  <1> QED BY <1>1 DEF States, Completed

(* Only a publication newer than the completed one, or the pending one     *)
(* itself, gets past the refusals of Publish.                              *)
LEMMA RouteFacts ==
  ASSUME NEW s \in States, NEW p \in Publications, validatePublicationState(s)
  PROVE  /\ Route(s, p) \in {"idle", "replay", "pin"}
         /\ Route(s, p) = "pin" =>
               \/ s.pending = NoRecord /\ p.rev > s.last.pub.rev
               \/ s.pending # NoRecord /\ s.pending.pub = p
  <1>1. Route(s, p) \in {"idle", "replay", "pin"}
    BY DEF Route
  <1>2. ASSUME Route(s, p) = "pin"
        PROVE  \/ s.pending = NoRecord /\ p.rev > s.last.pub.rev
               \/ s.pending # NoRecord /\ s.pending.pub = p
    <2>1. /\ validateSnapshotRevision(s, p) /\ ~completedPublicationMatches(s, p)
          /\ s.pending = NoRecord \/ pendingPublicationMatches(s, p)
      BY <1>2 DEF Route
    <2>2. s.last = NoRecord => p # s.last.pub
      BY RecordFacts
    <2> QED BY <2>1, <2>2 DEF validateSnapshotRevision, completedPublicationMatches,
                              pendingPublicationMatches
  <1> QED BY <1>1, <1>2

-----------------------------------------------------------------------------
(* The types the proofs below start from.                                  *)
LEMMA InvTypes ==
  ASSUME Inv
  PROVE  /\ state \in States /\ survivors \in SUBSET States /\ state \in survivors
         /\ validatePublicationState(state)
         /\ pinned \in SUBSET Publications /\ network \in SUBSET Records
         /\ clock \in 0 .. MaxClock /\ boot \in 1 .. MaxBoots
         /\ faults \in 0 .. MaxFaults /\ syncFaults \in 0 .. MaxSyncFaults
         /\ Fault => faults' \in 0 .. MaxFaults
         /\ \A c \in Publishers :
               /\ base[c] \in States /\ pc[c] \in PCs /\ CallOK(c)
               /\ pub[c] \in Publications \cup {NoPublication}
               /\ base[c].last \in Records \cup {NoRecord}
               /\ base[c].pending \in Records \cup {NoRecord}
  <1>1. Fault /\ faults \in 0 .. MaxFaults => faults' \in 0 .. MaxFaults
    BY PublisherAssumption DEF Fault
  <1> QED BY <1>1, StateFacts DEF Inv, TypeOK, FileInv, CallInv

(* What a step of the call does: only the call of c moves.                 *)
Moves(c) ==
    /\ pc' \in [Publishers -> PCs]
    /\ pub' \in [Publishers -> Publications \cup {NoPublication}]
    /\ base' \in [Publishers -> States]
    /\ result' \in [Publishers -> Records \cup {NoRecord}]
    /\ \A d \in Publishers \ {c} :
          pc'[d] = pc[d] /\ pub'[d] = pub[d] /\ base'[d] = base[d]

(* A call that goes on.                                                    *)
LEMMA GotoEffect ==
  ASSUME TypeOK, NEW c \in Publishers, NEW label \in PCs,
         NEW p \in Publications \cup {NoPublication}, NEW s \in States,
         Goto(c, label, p, s)
  PROVE  Moves(c) /\ pc'[c] = label /\ pub'[c] = p /\ base'[c] = s
  BY DEF TypeOK, Goto, Moves

(* A call that returns an error, or ends with its process.                 *)
LEMMA AbortEffect ==
  ASSUME TypeOK, NEW c \in Publishers, Abort(c)
  PROVE  Moves(c) /\ pc'[c] = "idle" /\ base'[c] = EmptyState /\ CallOK(c)'
  <1>1. Moves(c) /\ pc'[c] = "idle" /\ base'[c] = EmptyState
    BY GotoEffect, StateFacts DEF Abort, PCs
  <1>2. validatePublicationState(base[c])'
    BY <1>1, StateFacts DEF validatePublicationState
  <1> QED BY <1>1, <1>2 DEF CallOK

(* A call that returns a receipt.                                          *)
LEMMA ReceiptEffect ==
  ASSUME TypeOK, NEW c \in Publishers, NEW r \in Records \cup {NoRecord},
         completedReceipt(c, r), CallOK(c), pc[c] # "idle"
  PROVE  Moves(c) /\ pc'[c] = "returned" /\ base'[c] = base[c] /\ CallOK(c)'
  <1>1. Moves(c) /\ pc'[c] = "returned" /\ UNCHANGED <<pub, base>>
    BY DEF TypeOK, completedReceipt, Moves, PCs
  <1> QED BY <1>1 DEF CallOK, validatePublicationState

(* The calls of the others are not disturbed.                              *)
LEMMA OthersKept ==
  ASSUME Inv, NEW c \in Publishers, Moves(c), CallOK(c)', pinned \subseteq pinned'
  PROVE  CallInv'
  <1>1. ASSUME NEW d \in Publishers, d # c PROVE CallOK(d)'
    BY <1>1, InvTypes DEF CallOK, Moves, validatePublicationState
  <1> QED BY <1>1 DEF CallInv

(* As long as no record is added and the high-water mark stays, the        *)
(* history stays ordered and covered.                                      *)
LEMMA HistoryKept ==
  ASSUME Inv, Intact' => Intact, Issued' \subseteq Issued \cup {NoRecord},
         Intact' => state'.high = state.high
  PROVE  HistoryInv'
  <1> SUFFICES ASSUME Intact'
               PROVE  /\ \A r \in Issued' : r.seq <= state'.high
                      /\ \A r1, r2 \in Issued' : Ordered(r1, r2)
    BY DEF HistoryInv, Ordered
  <1>1. /\ \A r \in Issued : r.seq <= state.high
        /\ \A r1, r2 \in Issued : Ordered(r1, r2)
    BY DEF Inv, HistoryInv
  <1>2. Issued \subseteq Records \cup {NoRecord}
    BY InvTypes, StateFacts DEF Issued
  <1>3. \A r \in Issued' : r.seq <= state'.high
    BY <1>1, RecordFacts, InvTypes, StateFacts
  <1>4. \A r1, r2 \in Issued' : Ordered(r1, r2)
    BY <1>1, <1>2, NoRecordOrdered
  <1> QED BY <1>3, <1>4

(* A step of Publish that leaves the state file alone.                     *)
LEMMA CallStep ==
  ASSUME Inv, NEW c \in Publishers, Moves(c), CallOK(c)',
         base'[c] \in {EmptyState, base[c], state},
         UNCHANGED <<state, survivors, clock, boot, syncFaults>>,
         faults' \in 0 .. MaxFaults,
         pinned \subseteq pinned', pinned' \subseteq Publications,
         network' \subseteq network \cup {base[c].pending}, network' \subseteq Records,
         \A r \in network' : r.pub \in pinned'
  PROVE  Inv'
  <1>1. TypeOK'
    BY DEF Inv, TypeOK, Moves
  <1>2. FileInv'
    BY DEF Inv, FileInv, validatePublicationState
  <1>3. CallInv'
    BY OthersKept
  <1>4. BaseInv'
    <2>1. state.rev = 0 => state = EmptyState
      BY InvTypes DEF validatePublicationState
    <2> QED BY <2>1, InvTypes, StateFacts DEF Inv, BaseInv, Intact, Moves
  <1>5. HistoryInv'
    <2>1. \A d \in Publishers : base'[d].last \in Issued \cup {NoRecord}
                                /\ base'[d].pending \in Issued \cup {NoRecord}
      BY StateFacts DEF Moves, Issued
    <2>2. network' \subseteq Issued
      BY DEF Issued
    <2>3. Issued' \subseteq Issued \cup {NoRecord}
      BY <2>1, <2>2 DEF Issued
    <2> QED BY <2>3, HistoryKept DEF Intact
  <1>6. PublishedIsPinned'
    BY DEF PublishedIsPinned
  <1> QED BY <1>1, <1>2, <1>3, <1>4, <1>5, <1>6 DEF Inv

(* A commit: the state file becomes next, durably or not.                  *)
Commits(c, next) ==
    /\ Accepted(c, next)
    /\ state' = next
    /\ \/ survivors' = {next} /\ syncFaults' = syncFaults
       \/ survivors' = survivors \cup {next} /\ syncFaults' = syncFaults + 1
    /\ syncFaults' \in 0 .. MaxSyncFaults
    /\ faults' \in 0 .. MaxFaults
    /\ UNCHANGED <<pinned, network, clock, boot>>

(* What Commit has accepted keeps the file valid, and leaves the bases of  *)
(* the other publishers behind.                                            *)
LEMMA CommitStep ==
  ASSUME Inv, NEW c \in Publishers, NEW next \in States, Commits(c, next),
         next.rev = base[c].rev + 1, Moves(c), CallOK(c)',
         base'[c] \in {EmptyState, base[c], next}, HistoryInv'
  PROVE  Inv'
  <1>1. TypeOK'
    BY DEF Inv, TypeOK, Moves, Commits
  <1>2. FileInv'
    <2>1. validatePublicationState(next) /\ state' = next
      BY DEF Commits, Accepted
    <2>2. state' \in survivors' /\ \A s \in survivors' : s \in survivors \/ s = next
      BY <2>1 DEF Commits
    <2>3. syncFaults' = 0 => survivors' = {state'}
      BY <2>1, InvTypes DEF Commits
    <2>4. \A s \in survivors' : validatePublicationState(s)
      BY <2>1, <2>2 DEF Inv, FileInv
    <2> QED BY <2>2, <2>3, <2>4 DEF FileInv, validatePublicationState
  <1>3. CallInv'
    BY OthersKept DEF Commits
  <1>4. BaseInv'
    <2> SUFFICES \A d \in Publishers :
                    /\ base'[d].rev <= state'.rev
                    /\ base'[d].rev = state'.rev => base'[d] = state'
      BY DEF BaseInv
    <2>1. state.rev = base[c].rev /\ state' = next
      BY DEF Commits, Accepted
    <2>2. \A d \in Publishers : base[d].rev <= state.rev
      BY DEF Inv, BaseInv
    <2>3. \A d \in Publishers : base'[d] = next \/ base'[d].rev <= state.rev
      BY <2>1, <2>2, StateFacts, InvTypes DEF Moves
    <2>4. next.rev = state.rev + 1 /\ state.rev \in Nat
      BY <2>1, StateFacts, InvTypes
    <2> QED BY <2>1, <2>3, <2>4, StateFacts DEF Moves
  <1>5. PublishedIsPinned'
    BY DEF Inv, PublishedIsPinned, Commits
  <1> QED BY <1>1, <1>2, <1>3, <1>4, <1>5 DEF Inv

(* What Commit accepts was built from the state that it replaces, and a    *)
(* commit takes nothing back.                                              *)
LEMMA AcceptedBase ==
  ASSUME Inv, NEW c \in Publishers, NEW next, Commits(c, next)
  PROVE  base[c] = state /\ (Intact' => Intact)
  <1>1. Intact' => Intact
    BY InvTypes DEF Intact, Commits
  <1> QED BY <1>1 DEF Inv, BaseInv, Commits, Accepted

(* A new record is above all others, and so is its publication: the old    *)
(* top of the history is the pending record it replaces, of the same       *)
(* publication, or the completed one, of an older publication.             *)
LEMMA PreparedHistory ==
  ASSUME Inv, NEW c \in Publishers, pc[c] = "prepare", base[c].high < MaxSequence,
         Commits(c, Prepared(base[c], pub[c])), Moves(c),
         base'[c] \in {EmptyState, base[c], Prepared(base[c], pub[c])}
  PROVE  HistoryInv'
  <1> DEFINE next == Prepared(base[c], pub[c])
             r == next.pending
  <1> SUFFICES ASSUME Intact'
               PROVE  /\ \A x \in Issued' : x.seq <= state'.high
                      /\ \A r1, r2 \in Issued' : Ordered(r1, r2)
    BY DEF HistoryInv, Ordered
  <1>1. Intact /\ base[c] = state /\ state' = next
    BY AcceptedBase DEF Commits
  <1>2. /\ pub[c] \in Publications
        /\ \/ state.pending = NoRecord /\ pub[c].rev > state.last.pub.rev
           \/ state.pending # NoRecord /\ state.pending.pub = pub[c]
    BY <1>1, InvTypes DEF CallOK
  <1>3. base[c].rev < MaxRevision
    BY DEF Commits, Accepted
  <1>4. /\ next.high = state.high + 1 /\ next.last = state.last
        /\ r \in Records /\ r.seq = state.high + 1 /\ r.pub = pub[c]
    BY <1>1, <1>2, <1>3, InvTypes, PreparedFacts
  <1> HIDE DEF next, r
  <1>5. /\ \A x \in Issued : x.seq <= state.high
        /\ \A r1, r2 \in Issued : Ordered(r1, r2)
    BY <1>1 DEF Inv, HistoryInv
  <1>6. /\ Issued \subseteq Records \cup {NoRecord}
        /\ state.last \in Issued /\ state.pending \in Issued
    BY InvTypes, StateFacts DEF Issued
  <1>7. \A x \in Issued : x.pub = pub[c] \/ x.pub.rev < pub[c].rev
    <2> TAKE x \in Issued
    <2>1. CASE state.pending # NoRecord
      <3>1. state.pending.seq = state.high /\ state.pending.pub = pub[c]
        BY <1>2, <2>1, InvTypes DEF validatePublicationState
      <3> QED BY <1>5, <1>6, <3>1 DEF Ordered
    <2>2. CASE state.pending = NoRecord
      <3>1. state.last.seq = state.high /\ pub[c].rev > state.last.pub.rev
        BY <1>2, <2>2, InvTypes DEF validatePublicationState
      <3>2. x.pub = state.last.pub \/ x.pub.rev < state.last.pub.rev
        BY <1>5, <1>6, <3>1 DEF Ordered
      <3> QED BY <1>2, <1>6, <3>1, <3>2, RecordFacts
    <2> QED BY <2>1, <2>2
  <1>8. Issued' \subseteq Issued \cup {NoRecord, r}
    <2>1. \A d \in Publishers : /\ base'[d].last \in Issued \cup {NoRecord}
                                /\ base'[d].pending \in Issued \cup {NoRecord, r}
      <3>1. ASSUME NEW d \in Publishers, d # c
            PROVE  base'[d].last \in Issued /\ base'[d].pending \in Issued
        BY <3>1 DEF Moves, Issued
      <3>2. /\ base'[c].last \in Issued \cup {NoRecord}
            /\ base'[c].pending \in Issued \cup {NoRecord, r}
        BY <1>1, <1>4, <1>6, StateFacts DEF next, r
      <3> QED BY <3>1, <3>2
    <2>2. state'.last \in Issued /\ state'.pending = r /\ network' = network
      BY <1>1, <1>4, <1>6 DEF r, Commits
    <2> QED BY <2>1, <2>2 DEF Issued
  <1>9. \A x \in Issued' : x.seq <= state'.high
    BY <1>1, <1>4, <1>5, <1>6, <1>8, RecordFacts, InvTypes, StateFacts
  <1>10. \A x \in Issued \cup {NoRecord} : Ordered(x, r) /\ Ordered(r, x)
    BY <1>4, <1>5, <1>6, <1>7, RecordFacts, NoRecordOrdered, InvTypes, StateFacts
    DEF Ordered
  <1>11. \A r1, r2 \in Issued' : Ordered(r1, r2)
    BY <1>5, <1>6, <1>8, <1>10, NoRecordOrdered DEF Ordered
  <1> QED BY <1>9, <1>11

(* Completing a publication adds no record.                                *)
LEMMA CompletedHistory ==
  ASSUME Inv, NEW c \in Publishers, Commits(c, Completed(base[c])), Moves(c),
         base'[c] \in {EmptyState, base[c]}
  PROVE  HistoryInv'
  <1> SUFFICES ASSUME Intact' PROVE HistoryInv'
    BY DEF HistoryInv
  <1>1. Intact /\ base[c] = state /\ state' = Completed(state)
    BY AcceptedBase DEF Commits
  <1>2. base[c].rev < MaxRevision
    BY DEF Commits, Accepted
  <1>3. /\ state'.high = state.high /\ state'.last = state.pending
        /\ state'.pending = NoRecord
    BY <1>1, <1>2, InvTypes, CompletedFacts
  <1>4. \A d \in Publishers : base'[d] \in {EmptyState, base[d]}
    BY DEF Moves
  <1>5. Issued' \subseteq Issued \cup {NoRecord}
    BY <1>3, <1>4, StateFacts DEF Issued, Commits
  <1> QED BY <1>1, <1>3, <1>5, HistoryKept

-----------------------------------------------------------------------------
(* Giving up anywhere, by an error or with the process, keeps the          *)
(* invariant: what was pinned or published meanwhile stays.                *)
LEMMA AbortStep ==
  ASSUME Inv, NEW c \in Publishers, Abort(c),
         UNCHANGED <<state, survivors, clock, boot, syncFaults>>,
         faults' \in 0 .. MaxFaults,
         pinned \subseteq pinned', pinned' \subseteq Publications,
         network' \subseteq network \cup {base[c].pending}, network' \subseteq Records,
         \A r \in network' : r.pub \in pinned'
  PROVE  Inv'
  <1>1. TypeOK
    BY DEF Inv
  <1> QED BY <1>1, AbortEffect, CallStep

(* Publish is called, and reads the state.                                 *)
LEMMA BeginStep ==
  ASSUME Inv, NEW c \in Publishers, NEW p \in Publications, PublishBegin(c, p)
  PROVE  Inv'
  <1>0. /\ UNCHANGED <<state, survivors, pinned, network, clock, boot, faults, syncFaults>>
        /\ TypeOK /\ \A r \in network : r.pub \in pinned
    BY DEF PublishBegin, file, Inv, PublishedIsPinned
  <1>1. CASE UNCHANGED call
    BY <1>0, <1>1 DEF call, Inv, TypeOK, FileInv, CallInv, CallOK, BaseInv, Intact,
                      HistoryInv, Issued, Ordered, PublishedIsPinned,
                      validatePublicationState
  <1>2. CASE Route(state, p) # "idle" /\ Goto(c, Route(state, p), p, state)
    <2>1. /\ Route(state, p) \in {"replay", "pin"}
          /\ Route(state, p) = "pin" =>
                \/ state.pending = NoRecord /\ p.rev > state.last.pub.rev
                \/ state.pending # NoRecord /\ state.pending.pub = p
      BY <1>2, InvTypes, RouteFacts
    <2>2. Route(state, p) \in PCs
      BY <2>1 DEF PCs
    <2>3. Moves(c) /\ pc'[c] = Route(state, p) /\ pub'[c] = p /\ base'[c] = state
      BY <1>0, <1>2, <2>2, InvTypes, GotoEffect
    <2>4. CallOK(c)'
      BY <2>1, <2>3, InvTypes DEF CallOK, validatePublicationState
    <2> QED BY <1>0, <2>3, <2>4, InvTypes, CallStep
  <1> QED BY <1>1, <1>2 DEF PublishBegin, readPublicationState

(* A completed publication is answered from the state.                     *)
LEMMA ReplayStep ==
  ASSUME Inv, NEW c \in Publishers, ReplayCompleted(c)
  PROVE  Inv'
  <1>0. /\ UNCHANGED <<state, survivors, network, clock, boot, syncFaults>>
        /\ TypeOK /\ \A r \in network : r.pub \in pinned
        /\ pc[c] = "replay" /\ pub[c] \in Publications
    BY InvTypes DEF ReplayCompleted, file, Inv, PublishedIsPinned, CallOK
  <1>1. CASE pinned' = pinned \cup {pub[c]} /\ completedReceipt(c, base[c].last)
             /\ UNCHANGED faults
    <2>1. /\ Moves(c) /\ pc'[c] = "returned" /\ base'[c] = base[c]
          /\ UNCHANGED <<pub, base>>
      BY <1>0, <1>1, InvTypes, ReceiptEffect DEF completedReceipt
    <2>2. CallOK(c)'
      BY <1>0, <2>1, InvTypes DEF CallOK, validatePublicationState
    <2>3. faults' \in 0 .. MaxFaults /\ pinned' \subseteq Publications
          /\ pinned \subseteq pinned' /\ network' \subseteq Records
      BY <1>0, <1>1, InvTypes
    <2> QED BY <1>0, <2>1, <2>2, <2>3, CallStep
  <1>2. CASE Abort(c) /\ UNCHANGED pinned /\ faults' \in 0 .. MaxFaults
    BY <1>0, <1>2, InvTypes, AbortStep
  <1> QED BY <1>0, <1>1, <1>2, InvTypes DEF ReplayCompleted

(* The snapshot is pinned before anything is signed.                       *)
LEMMA PinStep ==
  ASSUME Inv, NEW c \in Publishers, InspectAndPin(c)
  PROVE  Inv'
  <1>0. /\ UNCHANGED <<state, survivors, network, clock, boot, syncFaults>>
        /\ TypeOK /\ \A r \in network : r.pub \in pinned
        /\ pc[c] = "pin" /\ pub[c] \in Publications /\ CallOK(c)
        /\ pinned' \in {pinned, pinned \cup {pub[c]}}
        /\ faults' \in 0 .. MaxFaults
    BY InvTypes DEF InspectAndPin, file, Inv, PublishedIsPinned, CallOK
  <1>1. /\ pinned \subseteq pinned' /\ pinned' \subseteq Publications
        /\ network' \subseteq network /\ network' \subseteq Records
        /\ \A r \in network' : r.pub \in pinned'
    BY <1>0, InvTypes
  <1>2. CASE Abort(c)
    BY <1>0, <1>1, <1>2, AbortStep
  <1>3. ASSUME NEW label \in {"prepare", "publish"},
               Goto(c, label, pub[c], base[c]), pub[c] \in pinned',
               label = "publish" => base[c].pending # NoRecord
        PROVE  Inv'
    <2>1. /\ Moves(c) /\ pc'[c] = label /\ pub'[c] = pub[c] /\ base'[c] = base[c]
      BY <1>0, <1>3, InvTypes, GotoEffect DEF PCs
    <2>2. CallOK(c)'
      BY <1>0, <1>3, <2>1 DEF CallOK, validatePublicationState
    <2> QED BY <1>0, <1>1, <2>1, <2>2, CallStep
  <1> QED BY <1>2, <1>3 DEF InspectAndPin

(* The record is handed over only after it was stored as pending.          *)
LEMMA SignedStep ==
  ASSUME Inv, NEW c \in Publishers, PublishSignedRecord(c)
  PROVE  Inv'
  <1> DEFINE r == base[c].pending
  <1>0. /\ UNCHANGED <<state, survivors, pinned, clock, boot, syncFaults>>
        /\ TypeOK /\ \A x \in network : x.pub \in pinned
        /\ pc[c] = "publish" /\ CallOK(c) /\ r # NoRecord /\ r.pub \in pinned
        /\ network' \in {network, network \cup {r}}
        /\ faults' \in 0 .. MaxFaults
    BY InvTypes DEF PublishSignedRecord, file, Inv, PublishedIsPinned, CallOK
  <1>1. /\ pinned' \subseteq Publications
        /\ network' \subseteq network \cup {r} /\ network' \subseteq Records
        /\ \A x \in network' : x.pub \in pinned'
    BY <1>0, InvTypes
  <1>2. CASE Abort(c)
    BY <1>0, <1>1, <1>2, AbortStep
  <1>3. CASE Goto(c, "complete", pub[c], base[c])
    <2>1. /\ Moves(c) /\ pc'[c] = "complete" /\ pub'[c] = pub[c] /\ base'[c] = base[c]
      BY <1>0, <1>3, InvTypes, GotoEffect DEF PCs
    <2>2. CallOK(c)'
      BY <1>0, <2>1 DEF CallOK, validatePublicationState
    <2> QED BY <1>0, <1>1, <2>1, <2>2, CallStep
  <1> QED BY <1>2, <1>3 DEF PublishSignedRecord

(* The record is stored as pending under the next sequence.                *)
LEMMA PrepareStep ==
  ASSUME Inv, NEW c \in Publishers, PrepareRecord(c)
  PROVE  Inv'
  <1> DEFINE next == Prepared(base[c], pub[c])
  <1>0. /\ TypeOK /\ \A r \in network : r.pub \in pinned
        /\ pc[c] = "prepare" /\ pub[c] \in Publications /\ CallOK(c)
        /\ UNCHANGED <<pinned, network, clock, boot>>
    BY InvTypes DEF PrepareRecord, Inv, PublishedIsPinned, CallOK
  <1>1. CASE Abort(c) /\ UNCHANGED <<state, survivors, syncFaults>>
             /\ faults' \in 0 .. MaxFaults
    BY <1>0, <1>1, InvTypes, AbortStep
  <1>2. ASSUME Accepted(c, next), base[c].high < MaxSequence
        PROVE  /\ next \in States /\ next.rev = base[c].rev + 1
               /\ next.pending # NoRecord /\ next.pending.pub = pub[c]
               /\ validatePublicationState(next)
    BY <1>0, <1>2, InvTypes, PreparedFacts, RecordFacts DEF Accepted
  <1>3. CASE base[c].high < MaxSequence /\ CommitDurable(c, next)
             /\ Goto(c, "publish", pub[c], next)
    <2>1. Commits(c, next)
      BY <1>0, <1>3, InvTypes DEF CommitDurable, Commits
    <2>2. Moves(c) /\ pc'[c] = "publish" /\ pub'[c] = pub[c] /\ base'[c] = next
      BY <1>0, <1>2, <1>3, GotoEffect DEF CommitDurable, PCs
    <2>3. CallOK(c)'
      BY <1>0, <1>2, <1>3, <2>2 DEF CallOK, validatePublicationState, CommitDurable
    <2>4. HistoryInv'
      BY <1>0, <1>3, <2>1, <2>2, PreparedHistory
    <2> QED BY <1>2, <1>3, <2>1, <2>2, <2>3, <2>4, CommitStep DEF CommitDurable
  <1>4. CASE base[c].high < MaxSequence /\ CommitUncertain(c, next)
    <2>1. Commits(c, next)
      BY <1>0, <1>4, InvTypes, PublisherAssumption DEF CommitUncertain, Commits
    <2>2. Moves(c) /\ base'[c] = EmptyState /\ CallOK(c)'
      BY <1>0, <1>4, AbortEffect DEF CommitUncertain
    <2>3. HistoryInv'
      BY <1>0, <1>4, <2>1, <2>2, PreparedHistory
    <2> QED BY <1>2, <1>4, <2>1, <2>2, <2>3, CommitStep DEF CommitUncertain
  <1>5. CommitRefused(c, next) =>
           Abort(c) /\ UNCHANGED <<state, survivors, syncFaults>>
           /\ faults' \in 0 .. MaxFaults
    BY InvTypes DEF CommitRefused, file
  <1> QED BY <1>1, <1>3, <1>4, <1>5, InvTypes DEF PrepareRecord, file

(* The record is stored as completed, and the receipt returned.            *)
LEMMA CompleteStep ==
  ASSUME Inv, NEW c \in Publishers, CompletePublication(c)
  PROVE  Inv'
  <1> DEFINE next == Completed(base[c])
  <1>0. /\ TypeOK /\ \A r \in network : r.pub \in pinned
        /\ pc[c] = "complete" /\ CallOK(c)
        /\ UNCHANGED <<pinned, network, clock, boot>>
    BY InvTypes DEF CompletePublication, Inv, PublishedIsPinned
  <1>1. ASSUME Accepted(c, next)
        PROVE  /\ next \in States /\ next.rev = base[c].rev + 1
               /\ next.last \in Records \cup {NoRecord}
    BY <1>1, InvTypes, CompletedFacts DEF Accepted
  <1>2. CASE CommitDurable(c, next) /\ completedReceipt(c, next.last)
    <2>1. Commits(c, next)
      BY <1>0, <1>2, InvTypes DEF CommitDurable, Commits
    <2>2. Moves(c) /\ base'[c] = base[c] /\ CallOK(c)'
      BY <1>0, <1>1, <1>2, ReceiptEffect DEF CommitDurable
    <2>3. HistoryInv'
      BY <2>1, <2>2, CompletedHistory
    <2> QED BY <1>1, <1>2, <2>1, <2>2, <2>3, CommitStep DEF CommitDurable
  <1>3. CASE CommitUncertain(c, next)
    <2>1. Commits(c, next)
      BY <1>0, <1>3, InvTypes, PublisherAssumption DEF CommitUncertain, Commits
    <2>2. Moves(c) /\ base'[c] = EmptyState /\ CallOK(c)'
      BY <1>0, <1>3, AbortEffect DEF CommitUncertain
    <2>3. HistoryInv'
      BY <2>1, <2>2, CompletedHistory
    <2> QED BY <1>1, <1>3, <2>1, <2>2, <2>3, CommitStep DEF CommitUncertain
  <1>4. CASE CommitRefused(c, next)
    BY <1>0, <1>4, InvTypes, AbortStep DEF CommitRefused, file
  <1> QED BY <1>2, <1>3, <1>4 DEF CompletePublication

(* The machine loses power: without a failed sync it comes back with the   *)
(* state it had.                                                           *)
LEMMA PowerLossStep ==
  ASSUME Inv, PowerLoss
  PROVE  Inv'
  <1>1. PICK s \in survivors : state' = s /\ survivors' = {s}
    BY DEF PowerLoss
  <1>2. /\ boot' \in 1 .. MaxBoots /\ boot' # 1
        /\ pc' \in [Publishers -> PCs] /\ \A c \in Publishers : pc'[c] = "idle"
        /\ pub' \in [Publishers -> Publications \cup {NoPublication}]
        /\ base' = [c \in Publishers |-> EmptyState]
        /\ base' \in [Publishers -> States]
        /\ result' \in [Publishers -> Records \cup {NoRecord}]
        /\ UNCHANGED <<pinned, network, clock, faults, syncFaults>>
    BY InvTypes, StateFacts, PublisherAssumption DEF PowerLoss, PCs
  <1>3. TypeOK'
    BY <1>1, <1>2 DEF Inv, TypeOK
  <1>4. FileInv'
    BY <1>1, <1>2 DEF Inv, FileInv, validatePublicationState
  <1>5. CallInv'
    <2>1. \A c \in Publishers : validatePublicationState(base[c])'
      BY <1>2, StateFacts DEF validatePublicationState
    <2> QED BY <1>2, <2>1 DEF CallInv, CallOK
  <1>6. Intact' => Intact /\ state' = state
    BY <1>1, <1>2 DEF Intact, Inv, FileInv
  <1>7. BaseInv'
    <2>1. state'.rev \in Nat /\ (state'.rev = 0 => state' = EmptyState)
      BY <1>1, InvTypes, StateFacts DEF Inv, FileInv, validatePublicationState
    <2> QED BY <1>2, <2>1, StateFacts DEF BaseInv
  <1>8. HistoryInv'
    <2> SUFFICES ASSUME Intact' PROVE HistoryInv'
      BY DEF HistoryInv
    <2>1. Issued' \subseteq Issued \cup {NoRecord}
      BY <1>2, <1>6, StateFacts DEF Issued
    <2> QED BY <1>6, <2>1, HistoryKept
  <1>9. PublishedIsPinned'
    BY <1>2 DEF Inv, PublishedIsPinned
  <1> QED BY <1>3, <1>4, <1>5, <1>7, <1>8, <1>9 DEF Inv

(* The clock moves in either direction, or nothing happens.                *)
LEMMA ClockStep ==
  ASSUME Inv, Tick \/ ClockSetBack \/ UNCHANGED vars
  PROVE  Inv'
  <1>1. /\ UNCHANGED <<state, survivors, pinned, network, boot, pc, pub, base,
                       result, syncFaults>>
        /\ faults' \in 0 .. MaxFaults /\ clock' \in 0 .. MaxClock
    BY InvTypes, PublisherAssumption
    DEF Tick, ClockSetBack, vars, file, call
  <1>2. TypeOK'
    BY <1>1 DEF Inv, TypeOK
  <1>3. FileInv' /\ CallInv' /\ PublishedIsPinned'
    BY <1>1 DEF Inv, FileInv, CallInv, CallOK, PublishedIsPinned,
                validatePublicationState
  <1>4. BaseInv' /\ HistoryInv'
    BY <1>1 DEF Inv, BaseInv, HistoryInv, Intact, Issued, Ordered
  <1> QED BY <1>2, <1>3, <1>4 DEF Inv

(* The receipt is taken, or the process dies.                              *)
LEMMA EndStep ==
  ASSUME Inv, NEW c \in Publishers, Acknowledge(c) \/ Crash(c)
  PROVE  Inv'
  <1>1. /\ Abort(c) /\ faults' \in 0 .. MaxFaults
        /\ UNCHANGED <<state, survivors, pinned, network, clock, boot, syncFaults>>
    BY InvTypes DEF Acknowledge, Crash, file
  <1> QED BY <1>1, AbortStep, InvTypes DEF Inv, PublishedIsPinned

(* The initial states.                                                     *)
LEMMA InitInv ==
  ASSUME Init
  PROVE  Inv
  <1>1. TypeOK
    BY StateFacts, PublisherAssumption DEF Init, TypeOK, PCs
  <1>2. FileInv
    BY StateFacts DEF Init, FileInv
  <1>3. CallInv
    BY StateFacts DEF Init, CallInv, CallOK
  <1>4. BaseInv
    BY StateFacts DEF Init, BaseInv
  <1>5. HistoryInv
    <2>1. \A r \in Issued : r = NoRecord
      BY StateFacts DEF Init, Issued
    <2>2. state.high = 0
      BY DEF Init, EmptyState
    <2> QED BY <2>1, <2>2, NoRecordOrdered, RecordFacts DEF HistoryInv
  <1>6. PublishedIsPinned
    BY DEF Init, PublishedIsPinned
  <1> QED BY <1>1, <1>2, <1>3, <1>4, <1>5, <1>6 DEF Inv

(* Every step of every publisher and of its environment keeps the history. *)
THEOREM Invariance == Spec => []Inv
  <1>1. Init => Inv
    BY InitInv
  <1>2. Inv /\ [Next]_vars => Inv'
    <2> SUFFICES ASSUME Inv, [Next]_vars PROVE Inv'
      OBVIOUS
    <2> QED BY BeginStep, ReplayStep, PinStep, PrepareStep, SignedStep, CompleteStep,
               EndStep, PowerLossStep, ClockStep
            DEF Next, PublishStep, Environment
  <1> QED BY <1>1, <1>2, PTL DEF Spec

(* A resolver that takes the highest sequence never goes back to an older  *)
(* Trust state, and two contents never share a sequence.                   *)
THEOREM NoNetworkRollback == Spec => []NewerStateNewerSequence
  <1>1. Inv => NewerStateNewerSequence
    BY DEF Inv, HistoryInv, Issued, Ordered, NewerStateNewerSequence
  <1> QED BY <1>1, Invariance, PTL

(* Every record on the network is covered by the stored high-water mark.   *)
THEOREM HighWaterHolds == Spec => []HighWaterCoversNetwork
  <1>1. Inv => HighWaterCoversNetwork
    BY DEF Inv, HistoryInv, FileInv, Issued, Intact, HighWaterCoversNetwork
  <1> QED BY <1>1, Invariance, PTL

(* Nothing is published before it is pinned.                               *)
THEOREM PinnedFirst == Spec => []PublishedIsPinned
  <1>1. Inv => PublishedIsPinned
    BY DEF Inv
  <1> QED BY <1>1, Invariance, PTL
=============================================================================
