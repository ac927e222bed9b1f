--------------------------- MODULE TrustServiceProofs ---------------------------
(***************************************************************************)
(* Machine-checked proofs about TrustService, for any number of services   *)
(* on one store, requests, grants, domains and serials: what the device    *)
(* says of its grants, certificates and revocations survives every         *)
(* interleaving, failed commit, crash and power loss.                      *)
(*                                                                         *)
(* The argument: compare-and-swap lets a request write only a snapshot     *)
(* derived from the stored one, and no derivation takes back a grant, a    *)
(* serial or a withdrawal.                                                 *)
(***************************************************************************)
EXTENDS TrustService, TLAPS

-----------------------------------------------------------------------------
(* One snapshot.                                                           *)

PendingSerials(s) == {p.serial : p \in s.pending}

(* The certificates that are known to be handed out, in force or not.      *)
Kept(s) == Issued(s) \cup s.retired

(* The serials that are spoken for.                                        *)
Accounted(s) == Issued(s) \cup Withdrawn(s) \cup PendingSerials(s)

(* No serial has two uses, and nextSerial is fresh.                        *)
SerialsDisjoint(s) ==
    /\ \A n \in Accounted(s) : n >= 1 /\ n < s.nextSerial
    /\ \A p, q \in s.pending : p.serial = q.serial => p = q
    /\ PendingSerials(s) \cap (Issued(s) \cup Withdrawn(s)) = {}
    /\ Issued(s) \cap Withdrawn(s) = {}
    /\ s.ca \notin s.active \cup CrossSerials(s)
    /\ s.active \cap CrossSerials(s) = {}
    /\ \A d, e \in Domains : s.edges[d].serial = s.edges[e].serial => d = e \/ s.edges[d].serial = 0

OutboxComplete(s) ==
    Withdrawn(s) = IF s.outbox = NoItem THEN s.published ELSE s.outbox.withdrawn

Good(s) == SerialsDisjoint(s) /\ OutboxComplete(s)

(* n takes nothing back that s says.                                       *)
Extends(s, n) ==
    /\ s.applied \subseteq n.applied /\ Withdrawn(s) \subseteq Withdrawn(n)
    /\ Accounted(s) \subseteq Accounted(n) /\ Kept(s) \subseteq Kept(n)

-----------------------------------------------------------------------------
(* The inductive invariant.                                                *)

Types ==
    /\ stored \in survivors
    /\ \A s \in survivors : s \in Snapshots /\ s.rev <= MaxRevision
    /\ opened \in [Services -> BOOLEAN]
    /\ snapshot \in [Services -> Snapshots]
    /\ pc \in [Threads -> PCs]
    /\ next \in [Threads -> Snapshots] /\ ticket \in [Threads -> Tickets]
    /\ attempts \in [Threads -> 0 .. MaxRetries - 1]
    /\ signed \in [Serials -> Nat] /\ used \in [Grants -> Nat]
    /\ returned \subseteq Serials /\ revoked \subseteq Serials
    /\ boot \in 1 .. MaxBoots /\ faults \in 0 .. MaxFaults

(* What was promised, as surviving snapshot s must show it.                *)
Honoured(s) ==
    /\ \A g \in Grants : used[g] > 0 => g \in s.applied
    /\ revoked \subseteq Withdrawn(s)
    /\ \A n \in Serials : signed[n] > 0 => n \in Accounted(s)
    /\ returned \subseteq Kept(s)

DiskInv == \A s \in survivors : Good(s) /\ Honoured(s)

(* Within a boot a revision names one snapshot: a service that is up to    *)
(* date by its number is up to date.                                       *)
CacheInv ==
    \A h \in Services : opened[h] =>
        /\ Good(snapshot[h]) /\ snapshot[h].rev <= stored.rev
        /\ snapshot[h].rev = stored.rev => snapshot[h] = stored

Proposing == {"opening", "apply", "reserve", "finalizing", "burning", "draining"}

(* From the reservation to its outcome.                                    *)
Holding == {"sign", "finalize", "finalizing", "burn", "burning"}

(* What t offers, if the store will take it, is derived from what the      *)
(* store holds.                                                            *)
Claim(t) ==
    /\ Good(next[t]) /\ Extends(stored, next[t])
    /\ pc[t] \in {"apply", "reserve"} => /\ ticket[t].grant \notin stored.applied
                                         /\ ticket[t].grant \in next[t].applied
    /\ pc[t] = "reserve" => /\ ticket[t].serial = stored.nextSerial
                            /\ ticket[t].serial \in Accounted(next[t])
    /\ pc[t] = "finalizing" => ticket[t].serial \in Kept(next[t])

ProposalInv ==
    \A t \in Threads :
        /\ pc[t] \notin {"idle", "opening"} => opened[Host[t]]
        /\ pc[t] \in {"apply", "reserve"} => ticket[t].grant \in Grants
        /\ pc[t] \in Proposing => next[t].rev <= stored.rev + 1
        /\ pc[t] \in Proposing /\ next[t].rev = stored.rev + 1 => Claim(t)

(* A reserved serial is spoken for in whatever survives, and nobody else   *)
(* has it.                                                                 *)
TicketInv ==
    /\ \A t \in Threads : pc[t] \in Issuing =>
          /\ ticket[t].op \in Operations
          /\ ticket[t].op = "federate" => ticket[t].domain \in Domains
    /\ \A t \in Threads : pc[t] \in Holding =>
          \A s \in survivors : ticket[t].serial \in Accounted(s)
    /\ \A t, u \in Threads : pc[t] \in Holding /\ pc[u] \in Holding /\ t # u =>
          ticket[t].serial # ticket[u].serial
    /\ \A t \in Threads : pc[t] = "sign" => signed[ticket[t].serial] = 0

CountInv ==
    /\ \A n \in Serials : signed[n] <= 1
    /\ \A g \in Grants : used[g] <= 1

ServiceInv ==
    Types /\ DiskInv /\ CacheInv /\ ProposalInv /\ TicketInv /\ CountInv

-----------------------------------------------------------------------------
(* Derivations: what a request may make of a snapshot.                     *)

(* The fields of a snapshot.                                               *)
LEMMA SnapshotFacts ==
  ASSUME NEW s \in Snapshots
  PROVE  /\ s.rev \in Nat /\ s.rev <= MaxRevision + 1
         /\ s.nextSerial \in Nat /\ s.nextSerial >= 1 /\ s.nextSerial <= MaxSerial + 1
         /\ s.ca \in Nat /\ s.ca \in 0 .. MaxSerial
         /\ s.active \subseteq Serials /\ s.retired \subseteq Serials
         /\ s.pending \subseteq Tickets /\ s.burned \subseteq Serials
         /\ s.edges \in [Domains -> [gen : 0 .. MaxGeneration, serial : 0 .. MaxSerial]]
         /\ s.relationships \in [Grants -> Relationships] /\ s.applied \subseteq Grants
         /\ s.outbox \in [rev : 0 .. MaxRevision + 1, withdrawn : SUBSET Serials]
         /\ s.published \subseteq Serials
  <1>1. /\ s.rev \in 0 .. MaxRevision + 1 /\ s.nextSerial \in 1 .. MaxSerial + 1
        /\ s.ca \in 0 .. MaxSerial
        /\ s.active \subseteq Serials /\ s.retired \subseteq Serials
        /\ s.pending \subseteq Tickets /\ s.burned \subseteq Serials
        /\ s.edges \in [Domains -> [gen : 0 .. MaxGeneration, serial : 0 .. MaxSerial]]
        /\ s.relationships \in [Grants -> Relationships] /\ s.applied \subseteq Grants
        /\ s.outbox \in [rev : 0 .. MaxRevision + 1, withdrawn : SUBSET Serials]
        /\ s.published \subseteq Serials
    BY DEF Snapshots
  <1> QED BY <1>1, ServiceAssumption

(* The two snapshots have the same certificates.                           *)
SameCertificates(s, x) ==
    /\ x.nextSerial = s.nextSerial /\ x.ca = s.ca /\ x.active = s.active
    /\ x.retired = s.retired /\ x.pending = s.pending /\ x.burned = s.burned
    /\ x.edges = s.edges

(* What depends on the certificates only.                                  *)
LEMMA SameFacts ==
  ASSUME NEW s, NEW x, SameCertificates(s, x)
  PROVE  /\ Issued(x) = Issued(s) /\ Withdrawn(x) = Withdrawn(s)
         /\ PendingSerials(x) = PendingSerials(s) /\ CrossSerials(x) = CrossSerials(s)
         /\ Accounted(x) = Accounted(s) /\ Kept(x) = Kept(s)
         /\ SerialsDisjoint(s) => SerialsDisjoint(x)
  <1>1. /\ CrossSerials(x) = CrossSerials(s) /\ Withdrawn(x) = Withdrawn(s)
        /\ PendingSerials(x) = PendingSerials(s)
    BY DEF SameCertificates, CrossSerials, Withdrawn, PendingSerials
  <1>2. Issued(x) = Issued(s)
    BY <1>1 DEF SameCertificates, Issued
  <1>3. Accounted(x) = Accounted(s) /\ Kept(x) = Kept(s)
    BY <1>1, <1>2 DEF SameCertificates, Accounted, Kept
  <1> QED BY <1>1, <1>2, <1>3 DEF SameCertificates, SerialsDisjoint

(* x is a change of the certificates of y that takes nothing back.         *)
Moved(y, x) ==
    /\ x \in Snapshots /\ x.rev = y.rev /\ x.applied = y.applied
    /\ SerialsDisjoint(x) /\ Extends(y, x)

(* A successor has the same content.                                       *)
LEMMA SuccessorFields ==
  ASSUME NEW s \in Snapshots, s.rev <= MaxRevision
  PROVE  LET x == Successor(s) IN
         /\ x \in Snapshots /\ x.rev = s.rev + 1 /\ SameCertificates(s, x)
         /\ x.applied = s.applied /\ x.relationships = s.relationships
         /\ x.outbox = s.outbox /\ x.published = s.published
  <1>1. s.rev + 1 \in 0 .. MaxRevision + 1
    BY SnapshotFacts, ServiceAssumption
  <1> QED BY <1>1 DEF Successor, Snapshots, SameCertificates

(* attachPublicOutbox shows everything that is withdrawn.                  *)
LEMMA AttachFields ==
  ASSUME NEW s \in Snapshots
  PROVE  LET x == attachPublicOutbox(s) IN
         /\ x \in Snapshots /\ x.rev = s.rev /\ SameCertificates(s, x)
         /\ x.applied = s.applied /\ x.relationships = s.relationships
         /\ x.outbox = [rev |-> s.rev, withdrawn |-> Withdrawn(s)]
  <1>1. Withdrawn(s) \subseteq Serials /\ s.rev \in 0 .. MaxRevision + 1
    BY SnapshotFacts DEF Withdrawn
  <1> QED BY <1>1 DEF attachPublicOutbox, Snapshots, SameCertificates

(* recordAppliedGrant.                                                     *)
LEMMA RecordFields ==
  ASSUME NEW s \in Snapshots, NEW g \in Grants
  PROVE  LET x == recordAppliedGrant(s, g) IN
         /\ x \in Snapshots /\ x.rev = s.rev /\ SameCertificates(s, x)
         /\ x.applied = s.applied \cup {g} /\ x.relationships = s.relationships
         /\ x.outbox = s.outbox /\ x.published = s.published
  BY DEF recordAppliedGrant, Snapshots, SameCertificates

(* A complete outbox item makes any snapshot with disjoint serials good.   *)
LEMMA AttachGood ==
  ASSUME NEW s \in Snapshots, s.rev >= 1, SerialsDisjoint(s)
  PROVE  /\ Good(attachPublicOutbox(s)) /\ Extends(s, attachPublicOutbox(s))
         /\ Accounted(attachPublicOutbox(s)) = Accounted(s)
         /\ Kept(attachPublicOutbox(s)) = Kept(s)
  <1> DEFINE x == attachPublicOutbox(s)
  <1>1. /\ SameCertificates(s, x) /\ x.applied = s.applied
        /\ x.outbox = [rev |-> s.rev, withdrawn |-> Withdrawn(s)]
    BY AttachFields
  <1> HIDE DEF x
  <1>2. /\ Withdrawn(x) = Withdrawn(s) /\ SerialsDisjoint(x)
        /\ Accounted(x) = Accounted(s) /\ Kept(x) = Kept(s)
    BY <1>1, SameFacts
  <1>3. x.outbox # NoItem /\ x.outbox.withdrawn = Withdrawn(s)
    <2>1. x.outbox.rev = s.rev /\ x.outbox.withdrawn = Withdrawn(s) /\ NoItem.rev = 0
      BY <1>1 DEF NoItem
    <2>2. s.rev # 0
      BY SnapshotFacts
    <2> QED BY <2>1, <2>2
  <1> QED BY <1>1, <1>2, <1>3 DEF Good, OutboxComplete, Extends, x

(* Only the relationships change.                                          *)
LEMMA RelationshipMoved ==
  ASSUME NEW y \in Snapshots, SerialsDisjoint(y), NEW g \in Grants, NEW r \in Relationships
  PROVE  Moved(y, [y EXCEPT !.relationships[g] = r])
  <1> DEFINE x == [y EXCEPT !.relationships[g] = r]
  <1>1. x \in Snapshots /\ x.rev = y.rev /\ x.applied = y.applied /\ SameCertificates(y, x)
    BY DEF Snapshots, SameCertificates
  <1> HIDE DEF x
  <1> QED BY <1>1, SameFacts DEF Moved, Extends, x

(* The phase of a relationship changes.                                    *)
LEMMA PhaseMoved ==
  ASSUME NEW y \in Snapshots, SerialsDisjoint(y), NEW g \in Grants,
         NEW phase \in {"provisional", "authorized", "revoked"}, Current(y.relationships[g])
  PROVE  Moved(y, [y EXCEPT !.relationships[g].phase = phase])
  <1> DEFINE r == y.relationships[g]
             q == [r EXCEPT !.phase = phase]
             x == [y EXCEPT !.relationships[g].phase = phase]
  <1>1. r \in Relationships /\ r # NoRelationship
    BY SnapshotFacts DEF Current, NoRelationship
  <1>2. q \in Relationships
    BY <1>1 DEF Relationships
  <1>3. x = [y EXCEPT !.relationships[g] = q]
    BY DEF Snapshots
  <1> HIDE DEF x, q
  <1> QED BY <1>2, <1>3, RelationshipMoved DEF x

(* Serial sets of a snapshot are sets of serials.                          *)
LEMMA SerialFacts ==
  ASSUME NEW s \in Snapshots, SerialsDisjoint(s)
  PROVE  /\ Accounted(s) \subseteq Serials
         /\ \A n \in Accounted(s) : n \in Nat /\ n >= 1 /\ n < s.nextSerial
         /\ s.nextSerial \notin Accounted(s)
         /\ \A p \in s.pending : p.serial \in Serials /\ p.serial \in PendingSerials(s)
  <1>1. s.nextSerial \in Nat /\ s.nextSerial <= MaxSerial + 1 /\ MaxSerial \in Nat
    BY SnapshotFacts, ServiceAssumption
  <1>2. \A p \in s.pending : p.serial \in Nat
    BY SnapshotFacts, ServiceAssumption DEF Tickets
  <1>3. \A n \in Accounted(s) : n \in Nat
    <2>1. \A d \in Domains : s.edges[d].serial \in Nat
      <3> TAKE d \in Domains
      <3>1. s.edges[d] \in [gen : 0 .. MaxGeneration, serial : 0 .. MaxSerial]
        BY SnapshotFacts
      <3> QED BY <3>1, ServiceAssumption
    <2>2. s.ca \in Nat /\ s.active \subseteq Serials /\ s.retired \subseteq Serials
          /\ s.burned \subseteq Serials
      BY SnapshotFacts
    <2> QED BY <1>2, <2>1, <2>2
         DEF Accounted, Issued, Withdrawn, PendingSerials, CrossSerials, Serials
  <1>4. \A n \in Accounted(s) : n >= 1 /\ n < s.nextSerial
    BY DEF SerialsDisjoint
  <1>5. Accounted(s) \subseteq Serials
    BY <1>1, <1>3, <1>4 DEF Serials
  <1>6. s.nextSerial \notin Accounted(s)
    <2> SUFFICES ASSUME s.nextSerial \in Accounted(s) PROVE FALSE
      OBVIOUS
    <2>1. s.nextSerial < s.nextSerial
      BY <1>4
    <2> QED BY <1>1, <2>1
  <1>7. \A p \in s.pending : p.serial \in PendingSerials(s) /\ p.serial \in Accounted(s)
    BY DEF PendingSerials, Accounted
  <1> QED BY <1>3, <1>4, <1>5, <1>6, <1>7

(* A certificate in force is revoked.                                      *)
LEMMA RevokeMoved ==
  ASSUME NEW y \in Snapshots, SerialsDisjoint(y), NEW n \in y.active
  PROVE  Moved(y, [y EXCEPT !.active = @ \ {n}, !.retired = @ \cup {n}])
  <1> DEFINE x == [y EXCEPT !.active = @ \ {n}, !.retired = @ \cup {n}]
  <1>1. /\ x.rev = y.rev /\ x.applied = y.applied /\ x.nextSerial = y.nextSerial
        /\ x.ca = y.ca /\ x.active = y.active \ {n} /\ x.retired = y.retired \cup {n}
        /\ x.pending = y.pending /\ x.burned = y.burned /\ x.edges = y.edges
    BY DEF Snapshots
  <1>2. x \in Snapshots
    BY SnapshotFacts DEF Snapshots
  <1> HIDE DEF x
  <1>3. n \in Serials /\ n # 0
    BY SnapshotFacts, ServiceAssumption DEF Serials
  <1>4. n # y.ca /\ n \notin CrossSerials(y)
    BY DEF SerialsDisjoint
  <1>5. CrossSerials(x) = CrossSerials(y) /\ PendingSerials(x) = PendingSerials(y)
    BY <1>1 DEF CrossSerials, PendingSerials
  <1>6. Issued(x) = Issued(y) \ {n} /\ n \in Issued(y)
    BY <1>1, <1>3, <1>4, <1>5 DEF Issued
  <1>7. Withdrawn(x) = Withdrawn(y) \cup {n}
    BY <1>1 DEF Withdrawn
  <1>8. Accounted(x) = Accounted(y)
    BY <1>5, <1>6, <1>7 DEF Accounted
  <1>9. SerialsDisjoint(x)
    BY <1>1, <1>5, <1>6, <1>7, <1>8 DEF SerialsDisjoint
  <1>10. Extends(y, x)
    BY <1>1, <1>6, <1>7, <1>8 DEF Extends, Kept
  <1> QED BY <1>1, <1>2, <1>9, <1>10 DEF Moved, x

(* A serial is reserved.                                                   *)
LEMMA ReserveMoved ==
  ASSUME NEW y \in Snapshots, SerialsDisjoint(y), NEW k \in Tickets,
         k.serial = y.nextSerial, y.nextSerial <= MaxSerial
  PROVE  LET x == [y EXCEPT !.nextSerial = @ + 1, !.pending = @ \cup {k}] IN
         /\ Moved(y, x) /\ k.serial \in Accounted(x)
         /\ Withdrawn(x) = Withdrawn(y) /\ x.outbox = y.outbox /\ x.published = y.published
  <1> DEFINE x == [y EXCEPT !.nextSerial = @ + 1, !.pending = @ \cup {k}]
  <1>1. /\ x.rev = y.rev /\ x.applied = y.applied /\ x.nextSerial = y.nextSerial + 1
        /\ x.ca = y.ca /\ x.active = y.active /\ x.retired = y.retired
        /\ x.pending = y.pending \cup {k} /\ x.burned = y.burned /\ x.edges = y.edges
        /\ x.outbox = y.outbox /\ x.published = y.published
    BY DEF Snapshots
  <1>2. x \in Snapshots
    <2>1. y.nextSerial + 1 \in 1 .. MaxSerial + 1
      BY SnapshotFacts, ServiceAssumption
    <2> QED BY <2>1, SnapshotFacts DEF Snapshots
  <1> HIDE DEF x
  <1>3. CrossSerials(x) = CrossSerials(y) /\ Withdrawn(x) = Withdrawn(y)
    BY <1>1 DEF CrossSerials, Withdrawn
  <1>4. PendingSerials(x) = PendingSerials(y) \cup {k.serial}
    BY <1>1 DEF PendingSerials
  <1>5. Issued(x) = Issued(y)
    BY <1>1, <1>3 DEF Issued
  <1>6. Accounted(x) = Accounted(y) \cup {k.serial} /\ k.serial \notin Accounted(y)
    BY <1>3, <1>4, <1>5, SerialFacts DEF Accounted
  <1>7. \A n \in Accounted(x) : n >= 1 /\ n < x.nextSerial
    <2>1. y.nextSerial \in Nat /\ y.nextSerial >= 1
      BY SnapshotFacts
    <2> QED BY <1>1, <1>6, <2>1, SerialFacts
  <1>8. \A p, q \in x.pending : p.serial = q.serial => p = q
    <2>1. \A p \in y.pending : p.serial \in Accounted(y)
      BY DEF Accounted, PendingSerials
    <2> QED BY <1>1, <1>6, <2>1 DEF SerialsDisjoint
  <1>9. PendingSerials(x) \cap (Issued(x) \cup Withdrawn(x)) = {}
    BY <1>3, <1>4, <1>5, <1>6 DEF SerialsDisjoint, Accounted
  <1>10. SerialsDisjoint(x)
    BY <1>1, <1>3, <1>5, <1>7, <1>8, <1>9 DEF SerialsDisjoint
  <1>11. Extends(y, x)
    BY <1>1, <1>3, <1>5, <1>6 DEF Extends, Kept
  <1> QED BY <1>1, <1>2, <1>3, <1>6, <1>10, <1>11 DEF Moved, x

(* The reservation is taken out: what remains, before its serial finds its *)
(* new place.                                                              *)
LEMMA Unpend ==
  ASSUME NEW y \in Snapshots, SerialsDisjoint(y), NEW k \in y.pending
  PROVE  LET x == [y EXCEPT !.pending = @ \ {k}] IN
         /\ x \in Snapshots /\ x.rev = y.rev /\ x.applied = y.applied
         /\ x.nextSerial = y.nextSerial /\ x.ca = y.ca /\ x.active = y.active
         /\ x.retired = y.retired /\ x.pending = y.pending \ {k} /\ x.burned = y.burned
         /\ x.edges = y.edges
         /\ Issued(x) = Issued(y) /\ Withdrawn(x) = Withdrawn(y)
         /\ CrossSerials(x) = CrossSerials(y)
         /\ PendingSerials(x) = PendingSerials(y) \ {k.serial}
         /\ Accounted(y) = Accounted(x) \cup {k.serial}
         /\ k.serial \notin Accounted(x) /\ k.serial \in Serials
         /\ SerialsDisjoint(x)
  <1> DEFINE x == [y EXCEPT !.pending = @ \ {k}]
  <1>1. /\ x.rev = y.rev /\ x.applied = y.applied /\ x.nextSerial = y.nextSerial
        /\ x.ca = y.ca /\ x.active = y.active /\ x.retired = y.retired
        /\ x.pending = y.pending \ {k} /\ x.burned = y.burned /\ x.edges = y.edges
    BY DEF Snapshots
  <1>2. x \in Snapshots
    BY SnapshotFacts DEF Snapshots
  <1> HIDE DEF x
  <1>3. CrossSerials(x) = CrossSerials(y) /\ Withdrawn(x) = Withdrawn(y)
    BY <1>1 DEF CrossSerials, Withdrawn
  <1>4. Issued(x) = Issued(y)
    BY <1>1, <1>3 DEF Issued
  <1>5. k.serial \in PendingSerials(y) /\ k.serial \in Serials
    BY SerialFacts
  <1>6. \A p, q \in y.pending : p.serial = q.serial => p = q
    BY DEF SerialsDisjoint
  <1>7. PendingSerials(x) = PendingSerials(y) \ {k.serial}
    BY <1>1, <1>6 DEF PendingSerials
  <1>8. PendingSerials(y) \cap (Issued(y) \cup Withdrawn(y)) = {}
    BY DEF SerialsDisjoint
  <1>9. Accounted(y) = Accounted(x) \cup {k.serial} /\ k.serial \notin Accounted(x)
    BY <1>3, <1>4, <1>5, <1>7, <1>8 DEF Accounted
  <1>10. SerialsDisjoint(x)
    BY <1>1, <1>3, <1>4, <1>7, <1>9 DEF SerialsDisjoint
  <1> QED BY <1>1, <1>2, <1>3, <1>4, <1>5, <1>7, <1>9, <1>10 DEF x

(* A serial that is spoken for nowhere becomes the CA's.                   *)
LEMMA AddCA ==
  ASSUME NEW z \in Snapshots, SerialsDisjoint(z), z.ca = 0,
         NEW n \in Serials, n \notin Accounted(z), n < z.nextSerial
  PROVE  LET x == [z EXCEPT !.ca = n] IN
         /\ Moved(z, x) /\ n \in Kept(x) /\ n \in Accounted(x)
  <1> DEFINE x == [z EXCEPT !.ca = n]
  <1>0. n \in Nat /\ n >= 1 /\ n \in 0 .. MaxSerial
    BY ServiceAssumption DEF Serials
  <1>1. /\ x.rev = z.rev /\ x.applied = z.applied /\ x.nextSerial = z.nextSerial
        /\ x.ca = n /\ x.active = z.active /\ x.retired = z.retired
        /\ x.pending = z.pending /\ x.burned = z.burned /\ x.edges = z.edges
    BY DEF Snapshots
  <1>2. x \in Snapshots
    BY <1>0 DEF Snapshots
  <1> HIDE DEF x
  <1>3. /\ CrossSerials(x) = CrossSerials(z) /\ Withdrawn(x) = Withdrawn(z)
        /\ PendingSerials(x) = PendingSerials(z)
    BY <1>1 DEF CrossSerials, Withdrawn, PendingSerials
  <1>4. Issued(x) = Issued(z) \cup {n} /\ n \notin z.active \cup CrossSerials(z)
    BY <1>0, <1>1, <1>3 DEF Issued, CrossSerials, Accounted
  <1>5. Accounted(x) = Accounted(z) \cup {n}
    BY <1>3, <1>4 DEF Accounted
  <1>6. SerialsDisjoint(x)
    BY <1>0, <1>1, <1>3, <1>4, <1>5 DEF SerialsDisjoint, Accounted
  <1>7. Extends(z, x)
    BY <1>1, <1>3, <1>4, <1>5 DEF Extends, Kept
  <1> QED BY <1>1, <1>2, <1>4, <1>5, <1>6, <1>7 DEF Moved, Kept, x

(* ... or that of a certificate in force.                                  *)
LEMMA AddActive ==
  ASSUME NEW z \in Snapshots, SerialsDisjoint(z),
         NEW n \in Serials, n \notin Accounted(z), n < z.nextSerial
  PROVE  LET x == [z EXCEPT !.active = @ \cup {n}] IN
         /\ Moved(z, x) /\ n \in Kept(x) /\ n \in Accounted(x)
  <1> DEFINE x == [z EXCEPT !.active = @ \cup {n}]
  <1>0. n \in Nat /\ n >= 1
    BY ServiceAssumption DEF Serials
  <1>1. /\ x.rev = z.rev /\ x.applied = z.applied /\ x.nextSerial = z.nextSerial
        /\ x.ca = z.ca /\ x.active = z.active \cup {n} /\ x.retired = z.retired
        /\ x.pending = z.pending /\ x.burned = z.burned /\ x.edges = z.edges
    BY DEF Snapshots
  <1>2. x \in Snapshots
    BY SnapshotFacts DEF Snapshots
  <1> HIDE DEF x
  <1>3. /\ CrossSerials(x) = CrossSerials(z) /\ Withdrawn(x) = Withdrawn(z)
        /\ PendingSerials(x) = PendingSerials(z)
    BY <1>1 DEF CrossSerials, Withdrawn, PendingSerials
  <1>4. Issued(x) = Issued(z) \cup {n} /\ n # z.ca /\ n \notin CrossSerials(z)
    BY <1>0, <1>1, <1>3 DEF Issued, CrossSerials, Accounted
  <1>5. Accounted(x) = Accounted(z) \cup {n}
    BY <1>3, <1>4 DEF Accounted
  <1>6. SerialsDisjoint(x)
    BY <1>0, <1>1, <1>3, <1>4, <1>5 DEF SerialsDisjoint, Accounted
  <1>7. Extends(z, x)
    BY <1>1, <1>3, <1>4, <1>5 DEF Extends, Kept
  <1> QED BY <1>1, <1>2, <1>4, <1>5, <1>6, <1>7 DEF Moved, Kept, x

(* ... or that of a cross-certificate, which retires the one before it.    *)
LEMMA AddEdge ==
  ASSUME NEW z \in Snapshots, SerialsDisjoint(z), NEW d \in Domains,
         NEW gen \in 0 .. MaxGeneration,
         NEW n \in Serials, n \notin Accounted(z), n < z.nextSerial
  PROVE  LET x == [z EXCEPT !.edges[d] = [gen |-> gen, serial |-> n],
                            !.retired = @ \cup ({z.edges[d].serial} \ {0})] IN
         /\ Moved(z, x) /\ n \in Kept(x) /\ n \in Accounted(x)
  <1> DEFINE old == z.edges[d].serial
             e == [gen |-> gen, serial |-> n]
             x == [z EXCEPT !.edges[d] = e, !.retired = @ \cup ({old} \ {0})]
  <1>0. /\ n \in Nat /\ n >= 1 /\ n \in 0 .. MaxSerial /\ old \in 0 .. MaxSerial
        /\ \A c \in Domains : z.edges[c].serial \in Nat
    <2>1. \A c \in Domains : z.edges[c] \in [gen : 0 .. MaxGeneration, serial : 0 .. MaxSerial]
      BY SnapshotFacts
    <2>2. \A c \in Domains : z.edges[c].serial \in 0 .. MaxSerial
      BY <2>1
    <2> QED BY <2>2, ServiceAssumption DEF Serials
  <1>1. /\ x.rev = z.rev /\ x.applied = z.applied /\ x.nextSerial = z.nextSerial
        /\ x.ca = z.ca /\ x.active = z.active /\ x.retired = z.retired \cup ({old} \ {0})
        /\ x.pending = z.pending /\ x.burned = z.burned
        /\ x.edges = [z.edges EXCEPT ![d] = e]
    BY DEF Snapshots
  <1>2. x \in Snapshots
    <2>1. z.retired \cup ({old} \ {0}) \subseteq Serials
      BY <1>0, SnapshotFacts, ServiceAssumption DEF Serials
    <2>2. e \in [gen : 0 .. MaxGeneration, serial : 0 .. MaxSerial]
      BY <1>0
    <2> HIDE DEF old, e
    <2>3. [z.edges EXCEPT ![d] = e] \in [Domains -> [gen : 0 .. MaxGeneration, serial : 0 .. MaxSerial]]
      BY <2>2, SnapshotFacts
    <2> QED BY <2>1, <2>3 DEF Snapshots
  <1>3. /\ x.edges[d].serial = n
        /\ \A c \in Domains : c # d => x.edges[c] = z.edges[c]
    <2> HIDE DEF x
    <2> QED BY <1>1, SnapshotFacts
  <1> HIDE DEF x, e, old
  <1>4. \A c \in Domains : c # d => z.edges[c].serial # old \/ old = 0
    BY DEF SerialsDisjoint, old
  <1>5. CrossSerials(x) = (CrossSerials(z) \ {old}) \cup {n}
    BY <1>0, <1>3, <1>4 DEF CrossSerials, old
  <1>6. PendingSerials(x) = PendingSerials(z) /\ Withdrawn(x) = Withdrawn(z) \cup ({old} \ {0})
    BY <1>1 DEF PendingSerials, Withdrawn
  <1>7. old # 0 => old \in CrossSerials(z) /\ old \in Issued(z) /\ old # z.ca /\ old \notin z.active
    BY DEF old, CrossSerials, Issued, SerialsDisjoint
  <1>8. Issued(x) = (Issued(z) \ {old}) \cup {n}
    BY <1>0, <1>1, <1>5, <1>7 DEF Issued
  <1>9. n \notin Issued(z) /\ n \notin Withdrawn(z) /\ n \notin PendingSerials(z)
        /\ n # z.ca /\ n \notin z.active /\ n # old
    BY <1>0, <1>7 DEF Accounted, Issued
  <1>10. Accounted(x) = Accounted(z) \cup {n}
    BY <1>6, <1>7, <1>8, <1>0 DEF Accounted, Issued
  <1>11. SerialsDisjoint(x)
    <2>1. \A m \in Accounted(x) : m >= 1 /\ m < x.nextSerial
      BY <1>0, <1>1, <1>10 DEF SerialsDisjoint
    <2>2. PendingSerials(x) \cap (Issued(x) \cup Withdrawn(x)) = {}
      BY <1>6, <1>7, <1>8, <1>9 DEF SerialsDisjoint
    <2>3. Issued(x) \cap Withdrawn(x) = {}
      BY <1>6, <1>7, <1>8, <1>9 DEF SerialsDisjoint
    <2>4. x.ca \notin x.active \cup CrossSerials(x) /\ x.active \cap CrossSerials(x) = {}
      BY <1>1, <1>5, <1>9 DEF SerialsDisjoint
    <2>5. \A c \in Domains : z.edges[c].serial # n
      BY <1>0, <1>9 DEF Issued, CrossSerials
    <2>6. \A b, c \in Domains : x.edges[b].serial = x.edges[c].serial => b = c \/ x.edges[b].serial = 0
      BY <1>3, <2>5 DEF SerialsDisjoint
    <2>7. \A p, q \in x.pending : p.serial = q.serial => p = q
      BY <1>1 DEF SerialsDisjoint
    <2> QED BY <2>1, <2>2, <2>3, <2>4, <2>6, <2>7 DEF SerialsDisjoint
  <1>12. Kept(z) \subseteq Kept(x) /\ n \in Kept(x)
    <2>1. Kept(x) = Issued(x) \cup x.retired /\ Kept(z) = Issued(z) \cup z.retired
      BY DEF Kept
    <2>2. 0 \notin Issued(z)
      BY DEF Issued
    <2> QED BY <1>1, <1>8, <2>1, <2>2
  <1>13. Extends(z, x)
    BY <1>1, <1>6, <1>10, <1>12 DEF Extends
  <1> QED BY <1>1, <1>2, <1>10, <1>11, <1>12, <1>13 DEF Moved, x, e, old

(* ... or is burned.                                                       *)
LEMMA AddBurned ==
  ASSUME NEW z \in Snapshots, SerialsDisjoint(z), NEW N \in SUBSET Serials,
         N \cap Accounted(z) = {}, \A n \in N : n < z.nextSerial, NEW x \in Snapshots,
         x.rev = z.rev, x.applied = z.applied, x.nextSerial = z.nextSerial,
         x.ca = z.ca, x.active = z.active, x.retired = z.retired,
         x.pending = z.pending, x.burned = z.burned \cup N, x.edges = z.edges
  PROVE  /\ Moved(z, x) /\ Accounted(x) = Accounted(z) \cup N
  <1>0. \A n \in N : n \in Nat /\ n >= 1
    BY ServiceAssumption DEF Serials
  <1>1. CrossSerials(x) = CrossSerials(z) /\ PendingSerials(x) = PendingSerials(z)
    BY DEF CrossSerials, PendingSerials
  <1>2. Issued(x) = Issued(z) /\ Withdrawn(x) = Withdrawn(z) \cup N
    BY <1>1 DEF Issued, Withdrawn
  <1>3. Accounted(x) = Accounted(z) \cup N
    BY <1>1, <1>2 DEF Accounted
  <1>4. SerialsDisjoint(x)
    BY <1>0, <1>1, <1>2, <1>3 DEF SerialsDisjoint, Accounted
  <1>5. Extends(z, x)
    BY <1>2, <1>3 DEF Extends, Kept
  <1> QED BY <1>3, <1>4, <1>5 DEF Moved

-----------------------------------------------------------------------------
(* The snapshots that are offered to the store.                            *)

Offers(s, n) ==
    n \in Snapshots /\ n.rev = s.rev + 1 /\ Good(n) /\ Extends(s, n)

(* A chain of changes takes nothing back.                                  *)
LEMMA ExtendsChain ==
  ASSUME NEW s, NEW y, NEW x, Extends(s, y), Extends(y, x)
  PROVE  Extends(s, x)
  BY DEF Extends

(* A successor is a change that takes nothing back.                        *)
LEMMA SuccessorMoved ==
  ASSUME NEW s \in Snapshots, s.rev <= MaxRevision, Good(s)
  PROVE  /\ Successor(s) \in Snapshots /\ SerialsDisjoint(Successor(s))
         /\ Extends(s, Successor(s)) /\ Successor(s).rev = s.rev + 1
         /\ Successor(s).rev >= 1 /\ Offers(s, Successor(s))
  <1>1. LET x == Successor(s) IN
         /\ x \in Snapshots /\ x.rev = s.rev + 1 /\ SameCertificates(s, x)
         /\ x.applied = s.applied /\ x.outbox = s.outbox /\ x.published = s.published
    BY SuccessorFields
  <1>2. SerialsDisjoint(Successor(s)) /\ Withdrawn(Successor(s)) = Withdrawn(s)
        /\ Extends(s, Successor(s))
    BY <1>1, SameFacts DEF Good, Extends
  <1>3. Good(Successor(s))
    BY <1>1, <1>2 DEF Good, OutboxComplete
  <1>4. s.rev + 1 >= 1
    BY SnapshotFacts
  <1> QED BY <1>1, <1>2, <1>3, <1>4 DEF Offers

(* A change of the successor, with a complete outbox item.                 *)
LEMMA AttachOffered ==
  ASSUME NEW s \in Snapshots, s.rev <= MaxRevision, Good(s),
         NEW x, Moved(Successor(s), x)
  PROVE  /\ Offers(s, attachPublicOutbox(x))
         /\ Accounted(attachPublicOutbox(x)) = Accounted(x)
         /\ Kept(attachPublicOutbox(x)) = Kept(x)
         /\ attachPublicOutbox(x).applied = x.applied
  <1>1. /\ x \in Snapshots /\ x.rev = s.rev + 1 /\ x.rev >= 1 /\ SerialsDisjoint(x)
        /\ Extends(s, x)
    BY SuccessorMoved, ExtendsChain DEF Moved
  <1>2. /\ Good(attachPublicOutbox(x)) /\ Extends(x, attachPublicOutbox(x))
        /\ Accounted(attachPublicOutbox(x)) = Accounted(x)
        /\ Kept(attachPublicOutbox(x)) = Kept(x)
    BY <1>1, AttachGood
  <1>3. /\ attachPublicOutbox(x) \in Snapshots /\ attachPublicOutbox(x).rev = x.rev
        /\ attachPublicOutbox(x).applied = x.applied
    BY <1>1, AttachFields
  <1>4. Extends(s, attachPublicOutbox(x))
    BY <1>1, <1>2, ExtendsChain
  <1> QED BY <1>1, <1>2, <1>3, <1>4 DEF Offers

(* ... and with the grant recorded.                                        *)
LEMMA TransactionOffered ==
  ASSUME NEW s \in Snapshots, s.rev <= MaxRevision, Good(s),
         NEW x, Moved(Successor(s), x), NEW g \in Grants
  PROVE  Offers(s, Transaction(x, g)) /\ g \in Transaction(x, g).applied
  <1> DEFINE y == recordAppliedGrant(x, g)
  <1>1. /\ x \in Snapshots /\ x.rev = s.rev + 1 /\ x.rev >= 1 /\ SerialsDisjoint(x)
        /\ Extends(s, x)
    BY SuccessorMoved, ExtendsChain DEF Moved
  <1>2. /\ y \in Snapshots /\ y.rev = x.rev /\ SameCertificates(x, y)
        /\ y.applied = x.applied \cup {g}
    BY <1>1, RecordFields
  <1> HIDE DEF y
  <1>3. SerialsDisjoint(y) /\ Extends(x, y)
    BY <1>1, <1>2, SameFacts DEF Extends
  <1>4. Good(attachPublicOutbox(y)) /\ Extends(y, attachPublicOutbox(y))
    BY <1>1, <1>2, <1>3, AttachGood
  <1>5. /\ attachPublicOutbox(y) \in Snapshots /\ attachPublicOutbox(y).rev = y.rev
        /\ attachPublicOutbox(y).applied = y.applied
    BY <1>2, AttachFields
  <1>6. Extends(s, attachPublicOutbox(y))
    BY <1>1, <1>3, <1>4, ExtendsChain
  <1> QED BY <1>1, <1>2, <1>4, <1>5, <1>6 DEF Offers, Transaction, y

(* reserveCertificate, with the grant recorded and the outbox as it was.   *)
LEMMA ReserveOffered ==
  ASSUME NEW s \in Snapshots, s.rev <= MaxRevision, Good(s), NEW g \in Grants,
         NEW k \in Tickets, k.serial = s.nextSerial, s.nextSerial <= MaxSerial
  PROVE  LET n == recordAppliedGrant(reserveCertificate(s, k), g) IN
         Offers(s, n) /\ g \in n.applied /\ k.serial \in Accounted(n)
  <1> DEFINE y == Successor(s)
             x == [y EXCEPT !.nextSerial = @ + 1, !.pending = @ \cup {k}]
             n == recordAppliedGrant(x, g)
  <1>1. /\ y \in Snapshots /\ SerialsDisjoint(y) /\ Extends(s, y) /\ y.rev = s.rev + 1
        /\ Good(y) /\ y.nextSerial = s.nextSerial
    BY SuccessorMoved, SuccessorFields DEF Offers, SameCertificates
  <1> HIDE DEF y
  <1>2. /\ Moved(y, x) /\ k.serial \in Accounted(x)
        /\ Withdrawn(x) = Withdrawn(y) /\ x.outbox = y.outbox /\ x.published = y.published
    BY <1>1, ReserveMoved
  <1> HIDE DEF x
  <1>3. x \in Snapshots /\ x.rev = y.rev /\ SerialsDisjoint(x) /\ Extends(y, x)
    BY <1>2 DEF Moved
  <1>4. /\ n \in Snapshots /\ n.rev = x.rev /\ SameCertificates(x, n)
        /\ n.applied = x.applied \cup {g} /\ n.outbox = x.outbox /\ n.published = x.published
    BY <1>3, RecordFields
  <1> HIDE DEF n
  <1>5. /\ Withdrawn(n) = Withdrawn(x) /\ SerialsDisjoint(n) /\ Accounted(n) = Accounted(x)
        /\ Extends(x, n)
    BY <1>3, <1>4, SameFacts DEF Extends
  <1>6. Good(n)
    BY <1>1, <1>2, <1>4, <1>5 DEF Good, OutboxComplete
  <1>7. Extends(s, n)
    BY <1>1, <1>3, <1>5, ExtendsChain
  <1>8. n = recordAppliedGrant(reserveCertificate(s, k), g)
    BY DEF n, x, y, reserveCertificate
  <1> QED BY <1>1, <1>2, <1>3, <1>4, <1>5, <1>6, <1>7, <1>8 DEF Offers

(* The finalizer records the certificate.                                  *)
LEMMA RecordedOffered ==
  ASSUME NEW s \in Snapshots, s.rev <= MaxRevision, Good(s), NEW k \in s.pending,
         Applicable(s, k), k.op \in Operations, k.op = "federate" => k.domain \in Domains
  PROVE  LET n == attachPublicOutbox(Recorded(s, k)) IN
         Offers(s, n) /\ k.serial \in Kept(n)
  <1> DEFINE y == Successor(s)
             z == [y EXCEPT !.pending = @ \ {k}]
             x == Recorded(s, k)
  <1>1. /\ y \in Snapshots /\ SerialsDisjoint(y) /\ y.pending = s.pending /\ y.ca = s.ca
        /\ y.edges = s.edges
    BY SuccessorMoved, SuccessorFields DEF SameCertificates
  <1>2. /\ z \in Snapshots /\ z.rev = y.rev /\ z.applied = y.applied
        /\ z.nextSerial = y.nextSerial /\ z.ca = y.ca /\ z.retired = y.retired
        /\ z.edges = y.edges
        /\ Issued(z) = Issued(y) /\ Withdrawn(z) = Withdrawn(y)
        /\ Accounted(y) = Accounted(z) \cup {k.serial}
        /\ k.serial \notin Accounted(z) /\ k.serial \in Serials /\ SerialsDisjoint(z)
    <2> HIDE DEF y
    <2>1. k \in y.pending
      BY <1>1
    <2> QED BY ONLY <1>1, <2>1, Unpend
  <1>3. k.serial < z.nextSerial
    <2> HIDE DEF y, z
    <2> QED BY <1>1, <1>2, SerialFacts
  <1>4. x = CASE k.op = "initialize-ca" -> [z EXCEPT !.ca = k.serial]
              [] k.op = "issue-mtls-certificate" -> [z EXCEPT !.active = @ \cup {k.serial}]
              [] k.op = "federate" ->
                    [z EXCEPT !.edges[k.domain] = [gen |-> k.gen, serial |-> k.serial],
                              !.retired = @ \cup ({s.edges[k.domain].serial} \ {0})]
    BY DEF Recorded
  <1> HIDE DEF x, y, z
  <1>5. Moved(z, x) /\ k.serial \in Kept(x) /\ k.serial \in Accounted(x)
    <2>1. CASE k.op = "initialize-ca"
      <3>1. z.ca = 0
        BY <1>1, <1>2, <2>1 DEF Applicable
      <3>2. x = [z EXCEPT !.ca = k.serial]
        BY <1>4, <2>1
      <3> QED BY <1>2, <1>3, <3>1, <3>2, AddCA
    <2>2. CASE k.op = "issue-mtls-certificate"
      <3>1. x = [z EXCEPT !.active = @ \cup {k.serial}]
        BY <1>4, <2>2
      <3> QED BY <1>2, <1>3, <3>1, AddActive
    <2>3. CASE k.op = "federate"
      <3>1. x = [z EXCEPT !.edges[k.domain] = [gen |-> k.gen, serial |-> k.serial],
                          !.retired = @ \cup ({z.edges[k.domain].serial} \ {0})]
        BY <1>1, <1>2, <1>4, <2>3
      <3>2. k.gen \in 0 .. MaxGeneration /\ k.domain \in Domains
        <4>1. k \in Tickets
          BY SnapshotFacts
        <4> QED BY <2>3, <4>1 DEF Tickets
      <3> QED BY <1>2, <1>3, <3>1, <3>2, AddEdge
    <2> QED BY <2>1, <2>2, <2>3 DEF Operations
  <1>6. Moved(y, x)
    <2>1. Accounted(y) \subseteq Accounted(x) /\ Kept(y) \subseteq Kept(x)
      BY <1>2, <1>5 DEF Moved, Extends, Kept
    <2> QED BY <1>2, <1>5, <2>1 DEF Moved, Extends
  <1>7. /\ Offers(s, attachPublicOutbox(x)) /\ Kept(attachPublicOutbox(x)) = Kept(x)
    BY <1>6, AttachOffered DEF y
  <1> QED BY <1>5, <1>7 DEF x

(* burnPending.                                                            *)
LEMMA BurnedOffered ==
  ASSUME NEW s \in Snapshots, s.rev <= MaxRevision, Good(s), NEW k \in s.pending
  PROVE  Offers(s, attachPublicOutbox(Burned(s, k)))
  <1> DEFINE y == Successor(s)
             z == [y EXCEPT !.pending = @ \ {k}]
             x == [y EXCEPT !.pending = @ \ {k}, !.burned = @ \cup {k.serial}]
  <1>1. y \in Snapshots /\ SerialsDisjoint(y) /\ y.pending = s.pending
    BY SuccessorMoved, SuccessorFields DEF SameCertificates
  <1> HIDE DEF y
  <1>2. /\ z \in Snapshots /\ z.rev = y.rev /\ z.applied = y.applied
        /\ z.nextSerial = y.nextSerial /\ z.ca = y.ca /\ z.active = y.active
        /\ z.retired = y.retired /\ z.pending = y.pending \ {k} /\ z.burned = y.burned
        /\ z.edges = y.edges
        /\ Issued(z) = Issued(y) /\ Withdrawn(z) = Withdrawn(y)
        /\ Accounted(y) = Accounted(z) \cup {k.serial}
        /\ k.serial \notin Accounted(z) /\ k.serial \in Serials /\ SerialsDisjoint(z)
    <2>1. k \in y.pending
      BY <1>1
    <2> QED BY ONLY <1>1, <2>1, Unpend
  <1>3. /\ x.rev = y.rev /\ x.applied = y.applied /\ x.nextSerial = y.nextSerial
        /\ x.ca = y.ca /\ x.active = y.active /\ x.retired = y.retired
        /\ x.pending = y.pending \ {k} /\ x.burned = y.burned \cup {k.serial}
        /\ x.edges = y.edges
    BY <1>1 DEF Snapshots
  <1>4. x \in Snapshots
    BY <1>1, <1>2, SnapshotFacts DEF Snapshots
  <1> HIDE DEF x, z
  <1>5. k.serial < z.nextSerial
    BY <1>1, <1>2, SerialFacts
  <1>6. Moved(z, x) /\ Accounted(x) = Accounted(z) \cup {k.serial}
    <2>1. {k.serial} \in SUBSET Serials /\ {k.serial} \cap Accounted(z) = {}
          /\ \A n \in {k.serial} : n < z.nextSerial
      BY <1>2, <1>5
    <2>2. /\ x.rev = z.rev /\ x.applied = z.applied /\ x.nextSerial = z.nextSerial
          /\ x.ca = z.ca /\ x.active = z.active /\ x.retired = z.retired
          /\ x.pending = z.pending /\ x.burned = z.burned \cup {k.serial}
          /\ x.edges = z.edges
      BY <1>2, <1>3
    <2>3. z \in Snapshots /\ SerialsDisjoint(z)
      BY <1>2
    <2> DEFINE N == {k.serial}
    <2> HIDE DEF N
    <2>4. /\ N \in SUBSET Serials /\ N \cap Accounted(z) = {}
          /\ (\A n \in N : n < z.nextSerial) /\ x.burned = z.burned \cup N
      BY <2>1, <2>2 DEF N
    <2>5. Moved(z, x) /\ Accounted(x) = Accounted(z) \cup N
      BY ONLY <1>4, <2>2, <2>3, <2>4, AddBurned
    <2> QED BY <2>5 DEF N
  <1>7. Moved(y, x)
    BY <1>2, <1>6 DEF Moved, Extends, Kept
  <1>8. x = Burned(s, k)
    BY DEF x, y, Burned
  <1> QED BY <1>7, <1>8, AttachOffered DEF y

(* Open burns what an earlier run has left pending.                        *)
LEMMA OpenBurnOffered ==
  ASSUME NEW s \in Snapshots, s.rev <= MaxRevision, Good(s)
  PROVE  LET burned == {p.serial : p \in s.pending} IN
         Offers(s, attachPublicOutbox([Successor(s) EXCEPT !.pending = {},
                                                           !.burned = @ \cup burned]))
  <1> DEFINE y == Successor(s)
             N == {p.serial : p \in s.pending}
             z == [y EXCEPT !.pending = {}]
             x == [y EXCEPT !.pending = {}, !.burned = @ \cup N]
  <1>1. y \in Snapshots /\ SerialsDisjoint(y) /\ y.pending = s.pending
    BY SuccessorMoved, SuccessorFields DEF SameCertificates
  <1> HIDE DEF y
  <1>2. N = PendingSerials(y) /\ N \subseteq Accounted(y) /\ N \subseteq Serials
        /\ \A n \in N : n < y.nextSerial
    BY <1>1, SerialFacts DEF PendingSerials, Accounted
  <1> HIDE DEF N
  <1>3. /\ z.rev = y.rev /\ z.applied = y.applied /\ z.nextSerial = y.nextSerial
        /\ z.ca = y.ca /\ z.active = y.active /\ z.retired = y.retired
        /\ z.pending = {} /\ z.burned = y.burned /\ z.edges = y.edges
    BY <1>1 DEF Snapshots
  <1>4. /\ x.rev = y.rev /\ x.applied = y.applied /\ x.nextSerial = y.nextSerial
        /\ x.ca = y.ca /\ x.active = y.active /\ x.retired = y.retired
        /\ x.pending = {} /\ x.burned = y.burned \cup N /\ x.edges = y.edges
    BY <1>1 DEF Snapshots
  <1>5. x \in Snapshots /\ z \in Snapshots
    BY <1>1, <1>2, SnapshotFacts DEF Snapshots
  <1> HIDE DEF x, z
  <1>6. /\ CrossSerials(z) = CrossSerials(y) /\ Withdrawn(z) = Withdrawn(y)
        /\ PendingSerials(z) = {}
    BY <1>3 DEF CrossSerials, Withdrawn, PendingSerials
  <1>7. Issued(z) = Issued(y)
    BY <1>3, <1>6 DEF Issued
  <1>8. Accounted(y) = Accounted(z) \cup N /\ N \cap Accounted(z) = {}
    BY <1>1, <1>2, <1>6, <1>7 DEF Accounted, SerialsDisjoint
  <1>9. SerialsDisjoint(z)
    BY <1>1, <1>3, <1>6, <1>7, <1>8 DEF SerialsDisjoint
  <1>10. Moved(z, x) /\ Accounted(x) = Accounted(z) \cup N
    <2>1. /\ N \in SUBSET Serials /\ N \cap Accounted(z) = {}
          /\ \A n \in N : n < z.nextSerial
      BY <1>2, <1>3, <1>8
    <2>2. /\ x.rev = z.rev /\ x.applied = z.applied /\ x.nextSerial = z.nextSerial
          /\ x.ca = z.ca /\ x.active = z.active /\ x.retired = z.retired
          /\ x.pending = z.pending /\ x.burned = z.burned \cup N /\ x.edges = z.edges
      BY <1>3, <1>4
    <2> QED BY ONLY <1>5, <1>9, <2>1, <2>2, AddBurned
  <1>11. Moved(y, x)
    BY <1>3, <1>6, <1>7, <1>8, <1>10 DEF Moved, Extends, Kept
  <1> QED BY <1>11, AttachOffered DEF x, y, N

(* DrainOutbox takes the item out once it is published.                    *)
LEMMA DrainOffered ==
  ASSUME NEW s \in Snapshots, s.rev <= MaxRevision, Good(s), s.outbox # NoItem
  PROVE  Offers(s, [Successor(s) EXCEPT !.outbox = NoItem, !.published = s.outbox.withdrawn])
  <1> DEFINE y == Successor(s)
             x == [y EXCEPT !.outbox = NoItem, !.published = s.outbox.withdrawn]
  <1>1. /\ y \in Snapshots /\ SerialsDisjoint(y) /\ Extends(s, y) /\ y.rev = s.rev + 1
        /\ SameCertificates(s, y)
    BY SuccessorMoved, SuccessorFields
  <1> HIDE DEF y
  <1>2. /\ x.rev = y.rev /\ x.applied = y.applied /\ SameCertificates(y, x)
        /\ x.outbox = NoItem /\ x.published = s.outbox.withdrawn
    BY <1>1 DEF Snapshots, SameCertificates
  <1>3. x \in Snapshots
    <2>1. s.outbox.withdrawn \subseteq Serials
      BY SnapshotFacts
    <2>2. NoItem \in [rev : 0 .. MaxRevision + 1, withdrawn : SUBSET Serials]
      BY ServiceAssumption DEF NoItem
    <2> QED BY <1>1, <2>1, <2>2 DEF Snapshots
  <1> HIDE DEF x
  <1>4. SerialsDisjoint(x) /\ Extends(y, x) /\ Withdrawn(x) = Withdrawn(y)
        /\ Withdrawn(y) = Withdrawn(s)
    BY <1>1, <1>2, SameFacts DEF Extends
  <1>5. Good(x)
    BY <1>2, <1>4 DEF Good, OutboxComplete
  <1>6. Extends(s, x)
    BY <1>1, <1>4, ExtendsChain
  <1> QED BY <1>1, <1>2, <1>3, <1>5, <1>6 DEF Offers, x, y

-----------------------------------------------------------------------------
(* Parts of a step.                                                        *)

(* What ProposalInv and TicketInv say of thread t, if it were at label     *)
(* with snapshot n and ticket k.                                           *)
Fits(t, label, n, k) ==
    /\ label \in PCs /\ n \in Snapshots /\ k \in Tickets
    /\ label \notin {"idle", "opening"} => opened[Host[t]]
    /\ label \in {"apply", "reserve"} => k.grant \in Grants
    /\ label \in Proposing => n.rev <= stored.rev + 1
    /\ label \in Proposing /\ n.rev = stored.rev + 1 =>
          /\ Good(n) /\ Extends(stored, n)
          /\ label \in {"apply", "reserve"} => k.grant \notin stored.applied /\ k.grant \in n.applied
          /\ label = "reserve" => k.serial = stored.nextSerial /\ k.serial \in Accounted(n)
          /\ label = "finalizing" => k.serial \in Kept(n)
    /\ label \in Issuing => /\ k.op \in Operations
                            /\ k.op = "federate" => k.domain \in Domains

(* The empty values have their types.                                      *)
LEMMA EmptyFacts ==
  /\ emptySnapshot \in Snapshots /\ NoTicket \in Tickets
  /\ emptySnapshot.rev = 0 /\ emptySnapshot.rev <= MaxRevision /\ Good(emptySnapshot)
  /\ Issued(emptySnapshot) = {} /\ Withdrawn(emptySnapshot) = {}
  /\ Accounted(emptySnapshot) = {}
  <1>1. emptySnapshot \in Snapshots
    <2>1. NoEdge \in [gen : 0 .. MaxGeneration, serial : 0 .. MaxSerial]
      BY ServiceAssumption DEF NoEdge
    <2>2. NoRelationship \in Relationships
      BY DEF Relationships
    <2>3. NoItem \in [rev : 0 .. MaxRevision + 1, withdrawn : SUBSET Serials]
      BY ServiceAssumption DEF NoItem
    <2>4. 0 \in 0 .. MaxRevision + 1 /\ 1 \in 1 .. MaxSerial + 1 /\ 0 \in 0 .. MaxSerial
      BY ServiceAssumption
    <2> QED BY <2>1, <2>2, <2>3, <2>4 DEF emptySnapshot, Snapshots
  <1>2. NoTicket \in Tickets
    BY ServiceAssumption DEF NoTicket, Tickets
  <1>3. /\ emptySnapshot.rev = 0 /\ emptySnapshot.ca = 0 /\ emptySnapshot.active = {}
        /\ emptySnapshot.retired = {} /\ emptySnapshot.burned = {} /\ emptySnapshot.pending = {}
        /\ emptySnapshot.outbox = NoItem /\ emptySnapshot.published = {}
        /\ \A d \in Domains : emptySnapshot.edges[d].serial = 0
    BY DEF emptySnapshot, NoEdge
  <1>4. CrossSerials(emptySnapshot) = {}
    BY <1>3 DEF CrossSerials
  <1>5. Issued(emptySnapshot) = {} /\ Withdrawn(emptySnapshot) = {}
        /\ PendingSerials(emptySnapshot) = {}
    BY <1>3, <1>4 DEF Issued, Withdrawn, PendingSerials
  <1>6. Accounted(emptySnapshot) = {}
    BY <1>5 DEF Accounted
  <1>7. Good(emptySnapshot)
    BY <1>3, <1>4, <1>5, <1>6 DEF Good, SerialsDisjoint, OutboxComplete
  <1> QED BY <1>1, <1>2, <1>3, <1>5, <1>6, <1>7, ServiceAssumption

(* The state of idle threads fits.                                         *)
LEMMA IdleFits ==
  ASSUME NEW t \in Threads
  PROVE  Fits(t, "idle", emptySnapshot, NoTicket)
  BY EmptyFacts DEF Fits, PCs, Proposing, Issuing

(* A failure is counted.                                                   *)
LEMMA FaultCounted ==
  ASSUME Types, Fault \/ UNCHANGED faults
  PROVE  faults' \in 0 .. MaxFaults
  BY ServiceAssumption DEF Types, Fault

(* A thread moves on its own: the store, the caches and the ghosts stay.   *)
LEMMA LocalStep ==
  ASSUME ServiceInv, NEW t \in Threads, NEW label, NEW n, NEW k, Fits(t, label, n, k),
         pc' = [pc EXCEPT ![t] = label], next' = [next EXCEPT ![t] = n],
         ticket' = [ticket EXCEPT ![t] = k],
         label \in Holding => pc[t] \in Holding /\ k = ticket[t], label # "sign",
         attempts' \in [Threads -> 0 .. MaxRetries - 1], faults' \in 0 .. MaxFaults,
         UNCHANGED <<stored, survivors, opened, snapshot, signed, returned, revoked, used, boot>>
  PROVE  ServiceInv'
  <1> USE DEF ServiceInv
  <1>1. /\ pc \in [Threads -> PCs] /\ next \in [Threads -> Snapshots]
        /\ ticket \in [Threads -> Tickets]
    BY DEF Types
  <1>2. /\ pc' \in [Threads -> PCs] /\ next' \in [Threads -> Snapshots]
        /\ ticket' \in [Threads -> Tickets]
        /\ pc'[t] = label /\ next'[t] = n /\ ticket'[t] = k
        /\ \A u \in Threads : u # t => /\ pc'[u] = pc[u] /\ next'[u] = next[u]
                                       /\ ticket'[u] = ticket[u]
    BY <1>1 DEF Fits
  <1>3. Types'
    BY <1>2 DEF Types
  <1>4. DiskInv' /\ CacheInv' /\ CountInv'
    BY DEF DiskInv, Honoured, CacheInv, CountInv
  <1>5. ProposalInv'
    <2> SUFFICES ASSUME NEW u \in Threads
                 PROVE  /\ pc'[u] \notin {"idle", "opening"} => opened[Host[u]]
                        /\ pc'[u] \in {"apply", "reserve"} => ticket'[u].grant \in Grants
                        /\ pc'[u] \in Proposing => next'[u].rev <= stored.rev + 1
                        /\ pc'[u] \in Proposing /\ next'[u].rev = stored.rev + 1 => Claim(u)'
      BY DEF ProposalInv
    <2>1. CASE u = t
      BY <1>2, <2>1 DEF Fits, Claim
    <2>2. CASE u # t
      BY <1>2, <2>2 DEF ProposalInv, Claim
    <2> QED BY <2>1, <2>2
  <1>6. TicketInv'
    <2>1. \A u \in Threads : pc'[u] \in Issuing =>
              /\ ticket'[u].op \in Operations
              /\ ticket'[u].op = "federate" => ticket'[u].domain \in Domains
      BY <1>2 DEF TicketInv, Fits
    <2>2. \A u \in Threads : pc'[u] \in Holding => pc[u] \in Holding /\ ticket'[u] = ticket[u]
      BY <1>2
    <2>3. \A u \in Threads : pc'[u] = "sign" => pc[u] = "sign" /\ ticket'[u] = ticket[u]
      BY <1>2
    <2> QED BY <2>1, <2>2, <2>3 DEF TicketInv
  <1> QED BY <1>3, <1>4, <1>5, <1>6

(* Writing an offer that was derived from what the store holds.            *)
LEMMA WriteEffect ==
  ASSUME ServiceInv, NEW n \in Snapshots, n.rev = stored.rev + 1, n.rev <= MaxRevision,
         Good(n), Extends(stored, n), NEW durable \in BOOLEAN, Write(n, durable)
  PROVE  /\ stored' = n /\ stored' \in survivors'
         /\ durable => survivors' = {n}
         /\ \A s \in survivors' : /\ s \in Snapshots /\ s.rev <= MaxRevision
                                  /\ Good(s) /\ Honoured(s)
         /\ \A u \in Threads : pc[u] \in Holding =>
               \A s \in survivors' : ticket[u].serial \in Accounted(s)
  <1> USE DEF ServiceInv
  <1>1. stored \in survivors /\ Honoured(stored)
    BY DEF Types, DiskInv
  <1>2. Honoured(n)
    BY <1>1 DEF Honoured, Extends
  <1>3. \A u \in Threads : pc[u] \in Holding => ticket[u].serial \in Accounted(n)
    BY <1>1 DEF TicketInv, Extends
  <1>4. stored' = n /\ survivors' = IF durable THEN {n} ELSE survivors \cup {n}
    BY DEF Write
  <1> QED BY <1>2, <1>3, <1>4 DEF Types, DiskInv, TicketInv

(* The offer of a thread that the store would take.                        *)
LEMMA Accepted ==
  ASSUME ServiceInv, NEW t \in Threads, pc[t] \in Proposing,
         next[t].rev = stored.rev + 1
  PROVE  /\ next[t] \in Snapshots /\ Claim(t) /\ Good(next[t]) /\ Extends(stored, next[t])
         /\ stored.rev \in Nat /\ stored \in survivors /\ stored \in Snapshots /\ Good(stored)
  <1>1. next[t] \in Snapshots /\ stored \in survivors /\ stored \in Snapshots
    BY DEF ServiceInv, Types
  <1>2. Claim(t)
    BY DEF ServiceInv, ProposalInv
  <1> QED BY <1>1, <1>2, SnapshotFacts DEF Claim, ServiceInv, DiskInv

(* The store and the caches after commitCandidate, whatever its outcome.   *)
LEMMA CommitEffect ==
  ASSUME ServiceInv, NEW t \in Threads, pc[t] \in Proposing,
         CommitSucceeds(t) \/ CommitConflicts(t) \/ CommitFails(t),
         UNCHANGED <<opened, signed>>
  PROVE  /\ stored' \in survivors'
         /\ \A s \in survivors' :
               /\ s \in Snapshots /\ s.rev <= MaxRevision /\ Good(s) /\ Honoured(s)
               /\ revoked' \subseteq Withdrawn(s)
         /\ \A u \in Threads : pc[u] \in Holding =>
               \A s \in survivors' : ticket[u].serial \in Accounted(s)
         /\ snapshot' \in [Services -> Snapshots] /\ CacheInv'
         /\ revoked' \subseteq Serials /\ faults' \in 0 .. MaxFaults
         /\ stored' = stored \/ stored'.rev = stored.rev + 1
         /\ CommitSucceeds(t) => /\ next[t].rev = stored.rev + 1 /\ Claim(t)
                                 /\ survivors' = {next[t]}
  <1> USE DEF ServiceInv
  <1> DEFINE h == Host[t]
  <1>0. /\ h \in Services /\ snapshot \in [Services -> Snapshots] /\ stored \in survivors
        /\ stored \in Snapshots /\ stored.rev \in Nat /\ Good(stored) /\ next[t] \in Snapshots
        /\ revoked \subseteq Serials
    BY ServiceAssumption, SnapshotFacts DEF Types, DiskInv
  <1>1. \A s \in survivors : /\ s \in Snapshots /\ s.rev <= MaxRevision
                             /\ Good(s) /\ Honoured(s) /\ revoked \subseteq Withdrawn(s)
    BY DEF Types, DiskInv, Honoured
  <1>2. \A u \in Threads : pc[u] \in Holding =>
           \A s \in survivors : ticket[u].serial \in Accounted(s)
    BY DEF TicketInv
  <1>3. \A g \in Services : snapshot[g].rev \in Nat
    BY <1>0, SnapshotFacts
  <1>4. faults' \in 0 .. MaxFaults
    BY FaultCounted DEF CommitSucceeds, CommitConflicts, CommitFails
  <1>5. ASSUME ~Conflict(t), Acceptable(next[t])
        PROVE  /\ next[t].rev = stored.rev + 1 /\ next[t].rev <= MaxRevision
               /\ Claim(t) /\ Good(next[t]) /\ Extends(stored, next[t])
    <2>1. next[t].rev = stored.rev + 1 /\ next[t].rev <= MaxRevision
      BY <1>5 DEF Conflict, Acceptable
    <2> QED BY <2>1, Accepted
  <1>6. ASSUME ~Conflict(t), Acceptable(next[t]), NEW durable \in BOOLEAN,
               Write(next[t], durable),
               \/ snapshot' = [snapshot EXCEPT ![h] = next[t]]
               \/ snapshot' = snapshot
        PROVE  /\ stored' = next[t] /\ stored' \in survivors'
               /\ durable => survivors' = {next[t]}
               /\ \A s \in survivors' : /\ s \in Snapshots /\ s.rev <= MaxRevision
                                        /\ Good(s) /\ Honoured(s)
               /\ \A u \in Threads : pc[u] \in Holding =>
                     \A s \in survivors' : ticket[u].serial \in Accounted(s)
               /\ snapshot' \in [Services -> Snapshots] /\ CacheInv'
               /\ stored'.rev = stored.rev + 1
    <2>1. /\ next[t].rev = stored.rev + 1 /\ next[t].rev <= MaxRevision
          /\ Good(next[t]) /\ Extends(stored, next[t])
      BY <1>5, <1>6
    <2>2. /\ stored' = next[t] /\ stored' \in survivors'
          /\ durable => survivors' = {next[t]}
          /\ \A s \in survivors' : /\ s \in Snapshots /\ s.rev <= MaxRevision
                                   /\ Good(s) /\ Honoured(s)
          /\ \A u \in Threads : pc[u] \in Holding =>
                \A s \in survivors' : ticket[u].serial \in Accounted(s)
      BY <1>0, <1>6, <2>1, WriteEffect
    <2>3. snapshot' \in [Services -> Snapshots]
      BY <1>0, <1>6
    <2>4. \A g \in Services : snapshot'[g] = snapshot[g] \/ snapshot'[g] = next[t]
      BY <1>0, <1>6
    <2>5. CacheInv'
      <3> SUFFICES ASSUME NEW g \in Services, opened[g]
                   PROVE  /\ Good(snapshot'[g]) /\ snapshot'[g].rev <= stored'.rev
                          /\ snapshot'[g].rev = stored'.rev => snapshot'[g] = stored'
        BY DEF CacheInv
      <3>1. CASE snapshot'[g] = next[t]
        BY <1>0, <2>1, <2>2, <3>1
      <3>2. CASE snapshot'[g] = snapshot[g]
        <4>1. Good(snapshot[g]) /\ snapshot[g].rev <= stored.rev
          BY DEF CacheInv
        <4> QED BY <1>0, <1>3, <2>1, <2>2, <3>2, <4>1
      <3> QED BY <2>4, <3>1, <3>2
    <2> QED BY <2>1, <2>2, <2>3, <2>5
  <1>7. CASE CommitSucceeds(t)
    <2>1. /\ ~Conflict(t) /\ Acceptable(next[t]) /\ Write(next[t], TRUE)
          /\ snapshot' = [snapshot EXCEPT ![h] = next[t]]
          /\ revoked' = revoked \cup Withdrawn(next[t])
      BY <1>7 DEF CommitSucceeds
    <2>2. /\ stored' = next[t] /\ survivors' = {next[t]}
          /\ \A s \in survivors' : /\ s \in Snapshots /\ s.rev <= MaxRevision
                                   /\ Good(s) /\ Honoured(s)
          /\ \A u \in Threads : pc[u] \in Holding =>
                \A s \in survivors' : ticket[u].serial \in Accounted(s)
          /\ snapshot' \in [Services -> Snapshots] /\ CacheInv'
          /\ stored'.rev = stored.rev + 1
      BY <1>6, <2>1
    <2>3. revoked' \subseteq Withdrawn(next[t])
      BY <2>1, <2>2 DEF Honoured
    <2>4. revoked' \subseteq Serials
      BY <1>0, <2>1, SnapshotFacts DEF Withdrawn
    <2> QED BY <1>4, <1>5, <2>1, <2>2, <2>3, <2>4
  <1>8. CASE CommitConflicts(t)
    <2>1. /\ UNCHANGED <<stored, survivors, revoked>> /\ Conflict(t)
          /\ snapshot' = [snapshot EXCEPT ![h] = stored] \/ snapshot' = snapshot
      BY <1>8 DEF CommitConflicts, store
    <2>2. snapshot' \in [Services -> Snapshots]
          /\ \A g \in Services : snapshot'[g] = snapshot[g] \/ snapshot'[g] = stored
      BY <1>0, <2>1
    <2>3. CacheInv'
      BY <1>0, <2>1, <2>2 DEF CacheInv
    <2>4. ~CommitSucceeds(t)
      BY <2>1 DEF CommitSucceeds
    <2> QED BY <1>0, <1>1, <1>2, <1>4, <2>1, <2>2, <2>3, <2>4
  <1>9. CASE CommitFails(t) /\ ~CommitSucceeds(t)
    <2>1. revoked' = revoked
      BY <1>9 DEF CommitFails
    <2>2. CASE /\ UNCHANGED store
               /\ snapshot' = [snapshot EXCEPT ![h] = stored] \/ snapshot' = snapshot
      <3>1. UNCHANGED <<stored, survivors>>
        BY <2>2 DEF store
      <3>2. snapshot' \in [Services -> Snapshots]
            /\ \A g \in Services : snapshot'[g] = snapshot[g] \/ snapshot'[g] = stored
        BY <1>0, <2>2
      <3>3. CacheInv'
        BY <1>0, <3>1, <3>2 DEF CacheInv
      <3> QED BY <1>0, <1>1, <1>2, <1>4, <1>9, <2>1, <3>1, <3>2, <3>3
    <2>3. CASE /\ ~Conflict(t) /\ Acceptable(next[t]) /\ Write(next[t], FALSE)
               /\ \/ snapshot' = [snapshot EXCEPT ![h] = next[t]]
                  \/ snapshot' = snapshot
      <3>1. /\ stored' = next[t] /\ stored' \in survivors'
            /\ \A s \in survivors' : /\ s \in Snapshots /\ s.rev <= MaxRevision
                                     /\ Good(s) /\ Honoured(s)
            /\ \A u \in Threads : pc[u] \in Holding =>
                  \A s \in survivors' : ticket[u].serial \in Accounted(s)
            /\ snapshot' \in [Services -> Snapshots] /\ CacheInv'
            /\ stored'.rev = stored.rev + 1
        BY <1>6, <2>3
      <3>2. \A s \in survivors' : revoked' \subseteq Withdrawn(s)
        BY <2>1, <3>1 DEF Honoured
      <3> QED BY <1>0, <1>4, <1>9, <2>1, <3>1, <3>2
    <2> QED BY <1>9, <2>2, <2>3 DEF CommitFails
  <1> QED BY <1>7, <1>8, <1>9

(* A thread after its commit.                                              *)
LEMMA CommitStep ==
  ASSUME ServiceInv, NEW t \in Threads, pc[t] \in Proposing \ {"opening"},
         CommitSucceeds(t) \/ CommitConflicts(t) \/ CommitFails(t),
         UNCHANGED <<opened, signed, boot>>,
         NEW label \in {"idle", "sign", "finalize", "burn"},
         NEW n \in Snapshots, NEW k \in Tickets,
         pc' = [pc EXCEPT ![t] = label], next' = [next EXCEPT ![t] = n],
         ticket' = [ticket EXCEPT ![t] = k],
         label # "idle" => k = ticket[t] /\ pc[t] \in Issuing,
         label \in {"finalize", "burn"} => pc[t] \in Holding,
         label = "sign" => CommitSucceeds(t) /\ pc[t] = "reserve",
         attempts' \in [Threads -> 0 .. MaxRetries - 1],
         \/ used' = used
         \/ /\ CommitSucceeds(t) /\ pc[t] \in {"apply", "reserve"}
            /\ used' = [used EXCEPT ![ticket[t].grant] = @ + 1],
         \/ returned' = returned
         \/ /\ CommitSucceeds(t) /\ pc[t] = "finalizing"
            /\ returned' = returned \cup {ticket[t].serial}
  PROVE  ServiceInv'
  <1> USE DEF ServiceInv
  <1>0. /\ pc \in [Threads -> PCs] /\ next \in [Threads -> Snapshots]
        /\ ticket \in [Threads -> Tickets] /\ used \in [Grants -> Nat]
        /\ returned \subseteq Serials /\ signed \in [Serials -> Nat]
        /\ stored \in survivors /\ stored \in Snapshots
        /\ Good(stored) /\ Honoured(stored) /\ stored.rev \in Nat
    BY SnapshotFacts DEF Types, DiskInv
  <1>1. /\ stored' \in survivors'
        /\ \A s \in survivors' :
              /\ s \in Snapshots /\ s.rev <= MaxRevision /\ Good(s) /\ Honoured(s)
              /\ revoked' \subseteq Withdrawn(s)
        /\ \A u \in Threads : pc[u] \in Holding =>
              \A s \in survivors' : ticket[u].serial \in Accounted(s)
        /\ snapshot' \in [Services -> Snapshots] /\ CacheInv'
        /\ revoked' \subseteq Serials /\ faults' \in 0 .. MaxFaults
        /\ stored' = stored \/ stored'.rev = stored.rev + 1
        /\ CommitSucceeds(t) => /\ next[t].rev = stored.rev + 1 /\ Claim(t)
                                /\ survivors' = {next[t]}
    BY CommitEffect
  <1>2. /\ pc' \in [Threads -> PCs] /\ next' \in [Threads -> Snapshots]
        /\ ticket' \in [Threads -> Tickets]
        /\ pc'[t] = label /\ next'[t] = n /\ ticket'[t] = k
        /\ \A u \in Threads : u # t => /\ pc'[u] = pc[u] /\ next'[u] = next[u]
                                       /\ ticket'[u] = ticket[u]
    BY <1>0 DEF PCs, Issuing
  <1>3. /\ used' \in [Grants -> Nat] /\ \A g \in Grants : used'[g] <= 1
        /\ \A g \in Grants : used'[g] > 0 => \A s \in survivors' : g \in s.applied
    <2>1. CASE used' = used
      BY <1>0, <1>1, <2>1 DEF CountInv, Honoured
    <2>2. CASE /\ CommitSucceeds(t) /\ pc[t] \in {"apply", "reserve"}
               /\ used' = [used EXCEPT ![ticket[t].grant] = @ + 1]
      <3> DEFINE g == ticket[t].grant
      <3>1. g \in Grants /\ g \notin stored.applied /\ g \in next[t].applied
        BY <1>1, <2>2 DEF ProposalInv, Claim
      <3>2. used[g] = 0
        BY <1>0, <3>1 DEF Honoured
      <3> HIDE DEF g
      <3>3. used'[g] = 1 /\ \A a \in Grants : a # g => used'[a] = used[a]
        BY <1>0, <2>2, <3>1, <3>2 DEF g
      <3>4. used' \in [Grants -> Nat]
        BY <1>0, <2>2, <3>1 DEF g
      <3>5. \A s \in survivors' : s = next[t] /\ Honoured(s)
        BY <1>1, <2>2
      <3> QED BY <1>0, <3>1, <3>3, <3>4, <3>5 DEF CountInv, Honoured
    <2> QED BY <2>1, <2>2
  <1>4. returned' \subseteq Serials /\ \A s \in survivors' : returned' \subseteq Kept(s)
    <2>1. CASE returned' = returned
      BY <1>0, <1>1, <2>1 DEF Honoured
    <2>2. CASE /\ CommitSucceeds(t) /\ pc[t] = "finalizing"
               /\ returned' = returned \cup {ticket[t].serial}
      <3>1. ticket[t].serial \in Kept(next[t]) /\ survivors' = {next[t]}
        BY <1>1, <2>2 DEF Claim
      <3>2. ticket[t].serial \in Serials
        <4>1. ticket[t].serial \in Accounted(stored)
          BY <1>0, <2>2 DEF TicketInv, Holding
        <4> QED BY <1>0, <4>1, SerialFacts DEF Good
      <3> QED BY <1>0, <1>1, <2>2, <3>1, <3>2 DEF Honoured
    <2> QED BY <2>1, <2>2
  <1>5. DiskInv'
    <2>1. \A s \in survivors' : Honoured(s)'
      BY <1>1, <1>3, <1>4 DEF Honoured
    <2> QED BY <1>1, <2>1 DEF DiskInv
  <1>6. Types'
    BY <1>0, <1>1, <1>2, <1>3, <1>4 DEF Types
  <1>7. CountInv'
    BY <1>3 DEF CountInv
  <1>8. ProposalInv'
    <2> SUFFICES ASSUME NEW u \in Threads
                 PROVE  /\ pc'[u] \notin {"idle", "opening"} => opened[Host[u]]
                        /\ pc'[u] \in {"apply", "reserve"} => ticket'[u].grant \in Grants
                        /\ pc'[u] \in Proposing => next'[u].rev <= stored'.rev + 1
                        /\ pc'[u] \in Proposing /\ next'[u].rev = stored'.rev + 1 => Claim(u)'
      BY DEF ProposalInv
    <2>1. CASE u = t
      BY <1>2, <2>1 DEF ProposalInv, Proposing
    <2>2. CASE u # t
      <3>1. next[u].rev \in Nat
        BY <1>0, SnapshotFacts
      <3>2. pc[u] \in Proposing => next[u].rev <= stored.rev + 1
        BY DEF ProposalInv
      <3>3. CASE stored' = stored
        BY <1>2, <2>2, <3>3 DEF ProposalInv, Claim
      <3>4. CASE stored'.rev = stored.rev + 1
        BY <1>0, <1>2, <2>2, <3>1, <3>2, <3>4 DEF ProposalInv
      <3> QED BY <1>1, <3>3, <3>4
    <2> QED BY <2>1, <2>2
  <1>9. TicketInv'
    <2>1. \A u \in Threads : pc'[u] \in Issuing => pc[u] \in Issuing /\ ticket'[u] = ticket[u]
      BY <1>2 DEF Issuing
    <2>2. \A u \in Threads : pc'[u] \in Holding =>
              \/ pc[u] \in Holding /\ ticket'[u] = ticket[u]
              \/ u = t /\ label = "sign" /\ ticket'[u] = ticket[t]
      BY <1>2 DEF Holding
    <2>3. ASSUME label = "sign"
          PROVE  /\ \A s \in survivors' : ticket[t].serial \in Accounted(s)
                 /\ ticket[t].serial \in Serials
                 /\ signed[ticket[t].serial] = 0
                 /\ \A u \in Threads : pc[u] \in Holding => ticket[u].serial # ticket[t].serial
      <3>1. /\ survivors' = {next[t]} /\ ticket[t].serial = stored.nextSerial
            /\ ticket[t].serial \in Accounted(next[t])
        BY <1>1, <2>3 DEF Claim
      <3>2. ticket[t].serial \notin Accounted(stored)
        BY <1>0, <3>1, SerialFacts DEF Good
      <3>3. ticket[t].serial \in Serials
        BY <1>1, <3>1, SerialFacts DEF Good
      <3>4. signed[ticket[t].serial] = 0
        BY <1>0, <3>2, <3>3 DEF Honoured
      <3>5. \A u \in Threads : pc[u] \in Holding => ticket[u].serial \in Accounted(stored)
        BY <1>0 DEF TicketInv
      <3> QED BY <3>1, <3>2, <3>3, <3>4, <3>5
    <2>4. \A u \in Threads : pc'[u] = "sign" =>
              \/ pc[u] = "sign" /\ ticket'[u] = ticket[u]
              \/ u = t /\ label = "sign" /\ ticket'[u] = ticket[t]
      <3> SUFFICES ASSUME NEW u \in Threads, pc'[u] = "sign"
                   PROVE  \/ pc[u] = "sign" /\ ticket'[u] = ticket[u]
                          \/ u = t /\ label = "sign" /\ ticket'[u] = ticket[t]
        OBVIOUS
      <3>1. CASE u = t
        BY <1>2, <3>1
      <3>2. CASE u # t
        BY <1>2, <3>2
      <3> QED BY <3>1, <3>2
    <2>5. \A u \in Threads : pc'[u] = "sign" => signed'[ticket'[u].serial] = 0
      BY <2>3, <2>4 DEF TicketInv
    <2>6. \A u \in Threads : pc'[u] \in Holding =>
              \A s \in survivors' : ticket'[u].serial \in Accounted(s)
      BY <1>1, <2>2, <2>3
    <2>7. \A u, v \in Threads : pc'[u] \in Holding /\ pc'[v] \in Holding /\ u # v =>
              ticket'[u].serial # ticket'[v].serial
      BY <2>2, <2>3 DEF TicketInv
    <2> QED BY <2>1, <2>5, <2>6, <2>7 DEF TicketInv
  <1> QED BY <1>1, <1>5, <1>6, <1>7, <1>8, <1>9

-----------------------------------------------------------------------------
(* The actions.                                                            *)

(* An offer made from the snapshot of an open service.                     *)
LEMMA CachedOffer ==
  ASSUME ServiceInv, NEW t \in Threads, opened[Host[t]]
  PROVE  LET s == snapshot[Host[t]] IN
         /\ s \in Snapshots /\ s.rev <= MaxRevision /\ Good(s)
         /\ \A n : Offers(s, n) =>
               /\ n \in Snapshots /\ Good(n) /\ n.rev <= stored.rev + 1
               /\ n.rev = stored.rev + 1 => s = stored /\ Extends(stored, n)
  <1> DEFINE s == snapshot[Host[t]]
  <1>1. /\ s \in Snapshots /\ stored \in Snapshots /\ stored.rev <= MaxRevision
    BY ServiceAssumption DEF ServiceInv, Types
  <1>2. s.rev \in Nat /\ stored.rev \in Nat
    BY <1>1, SnapshotFacts
  <1>3. Good(s) /\ s.rev <= stored.rev /\ (s.rev = stored.rev => s = stored)
    BY ServiceAssumption DEF ServiceInv, CacheInv
  <1> HIDE DEF s
  <1>4. s.rev <= MaxRevision
    BY <1>1, <1>2, <1>3, ServiceAssumption
  <1>5. ASSUME NEW n, Offers(s, n)
        PROVE  /\ n \in Snapshots /\ Good(n) /\ n.rev <= stored.rev + 1
               /\ n.rev = stored.rev + 1 => s = stored /\ Extends(stored, n)
    <2>1. n \in Snapshots /\ Good(n) /\ n.rev = s.rev + 1 /\ Extends(s, n)
      BY <1>5 DEF Offers
    <2> QED BY <1>2, <1>3, <2>1
  <1> QED BY <1>1, <1>3, <1>4, <1>5 DEF s

(* The steps that leave the attempts of the request alone.                 *)
LEMMA CountersKept ==
  ASSUME ServiceInv, NEW t \in Threads
  PROVE  /\ attempts \in [Threads -> 0 .. MaxRetries - 1]
         /\ [attempts EXCEPT ![t] = 0] \in [Threads -> 0 .. MaxRetries - 1]
         /\ faults \in 0 .. MaxFaults
  <1>1. attempts \in [Threads -> 0 .. MaxRetries - 1] /\ 0 \in 0 .. MaxRetries - 1
        /\ faults \in 0 .. MaxFaults
    BY ServiceAssumption DEF ServiceInv, Types
  <1> QED BY <1>1

(* A request that changes relationships or revokes a certificate.          *)
LEMMA ApplyStep ==
  ASSUME ServiceInv, NEW t \in Threads, NEW g \in Grants, Begin(t, g),
         NEW x, Moved(Successor(snapshot[Host[t]]), x), Apply(t, g, x)
  PROVE  ServiceInv'
  <1> DEFINE s == snapshot[Host[t]]
             n == Transaction(x, g)
             k == [NoTicket EXCEPT !.grant = g]
  <1>1. /\ pc[t] = "idle" /\ opened[Host[t]] /\ g \notin s.applied
        /\ UNCHANGED <<stored, survivors, opened, snapshot, attempts, signed, returned,
                       revoked, used, boot, faults>>
    BY DEF Begin, callPolicy, store, outcomes
  <1>2. s \in Snapshots /\ s.rev <= MaxRevision /\ Good(s)
    BY <1>1, CachedOffer
  <1>3. Offers(s, n) /\ g \in n.applied
    BY <1>2, TransactionOffered
  <1>4. /\ n \in Snapshots /\ Good(n) /\ n.rev <= stored.rev + 1
        /\ n.rev = stored.rev + 1 => s = stored /\ Extends(stored, n)
    BY <1>1, <1>3, CachedOffer
  <1>5. k \in Tickets /\ k.grant = g
    BY EmptyFacts DEF Tickets, NoTicket
  <1>6. /\ pc' = [pc EXCEPT ![t] = "apply"] /\ next' = [next EXCEPT ![t] = n]
        /\ ticket' = [ticket EXCEPT ![t] = k]
    BY DEF Apply, Propose
  <1> HIDE DEF n, k, s
  <1>7. Fits(t, "apply", n, k)
    <2>1. "apply" \in PCs /\ "apply" \notin Issuing
      BY DEF PCs, Issuing
    <2> QED BY <1>1, <1>3, <1>4, <1>5, <2>1 DEF Fits
  <1>8. attempts' \in [Threads -> 0 .. MaxRetries - 1] /\ faults' \in 0 .. MaxFaults
    BY <1>1, CountersKept
  <1>9. "apply" \notin Holding /\ "apply" # "sign"
    BY DEF Holding
  <1> QED BY <1>1, <1>6, <1>7, <1>8, <1>9, LocalStep

(* AdoptDevice.                                                            *)
LEMMA AdoptDeviceStep ==
  ASSUME ServiceInv, NEW t \in Threads, NEW p \in Principals, NEW g \in Grants,
         AdoptDevice(t, p, g)
  PROVE  ServiceInv'
  <1> DEFINE s == snapshot[Host[t]]
             y == Successor(s)
  <1>1. Begin(t, g) /\ opened[Host[t]]
    BY DEF AdoptDevice, Begin
  <1>2. s \in Snapshots /\ s.rev <= MaxRevision /\ Good(s)
    BY <1>1, CachedOffer
  <1>3. y \in Snapshots /\ SerialsDisjoint(y) /\ y.relationships = s.relationships
    BY <1>2, SuccessorMoved, SuccessorFields
  <1>4. CASE \E role \in {"owner", "backup-admin"}, phase \in {"provisional", "authorized"} :
                Apply(t, g, [Successor(snapshot[Host[t]]) EXCEPT !.relationships[g] =
                               [principal |-> p, role |-> role, phase |-> phase]])
    <2>1. PICK role \in {"owner", "backup-admin"}, phase \in {"provisional", "authorized"} :
                Apply(t, g, [y EXCEPT !.relationships[g] =
                               [principal |-> p, role |-> role, phase |-> phase]])
      BY <1>4
    <2> DEFINE r == [principal |-> p, role |-> role, phase |-> phase]
    <2>2. r \in Relationships
      BY DEF Relationships
    <2>3. Moved(y, [y EXCEPT !.relationships[g] = r])
      BY <1>3, <2>2, RelationshipMoved
    <2> QED BY <1>1, <2>1, <2>3, ApplyStep
  <1>5. CASE \E r \in Grants :
                /\ snapshot[Host[t]].relationships[r].phase = "provisional"
                /\ Apply(t, g, [Successor(snapshot[Host[t]]) EXCEPT
                                  !.relationships[r].phase = "authorized"])
    <2>1. PICK r \in Grants : /\ s.relationships[r].phase = "provisional"
                              /\ Apply(t, g, [y EXCEPT !.relationships[r].phase = "authorized"])
      BY <1>5
    <2>2. Current(y.relationships[r])
      BY <1>3, <2>1 DEF Current
    <2>3. Moved(y, [y EXCEPT !.relationships[r].phase = "authorized"])
      BY <1>3, <2>2, PhaseMoved
    <2> QED BY <1>1, <2>1, <2>3, ApplyStep
  <1> QED BY <1>4, <1>5 DEF AdoptDevice

(* RevokeTrust.                                                            *)
LEMMA RevokeTrustStep ==
  ASSUME ServiceInv, NEW t \in Threads, NEW p \in Principals, NEW g \in Grants,
         RevokeTrust(t, p, g)
  PROVE  ServiceInv'
  <1> DEFINE s == snapshot[Host[t]]
             y == Successor(s)
  <1>1. Begin(t, g) /\ opened[Host[t]]
    BY DEF RevokeTrust, Begin
  <1>2. s \in Snapshots /\ s.rev <= MaxRevision /\ Good(s)
    BY <1>1, CachedOffer
  <1>3. y \in Snapshots /\ SerialsDisjoint(y) /\ y.relationships = s.relationships
    BY <1>2, SuccessorMoved, SuccessorFields
  <1>4. PICK r \in Grants : /\ Current(s.relationships[r])
                            /\ Apply(t, g, [y EXCEPT !.relationships[r].phase = "revoked"])
    BY DEF RevokeTrust
  <1>5. Moved(y, [y EXCEPT !.relationships[r].phase = "revoked"])
    BY <1>3, <1>4, PhaseMoved
  <1> QED BY <1>1, <1>4, <1>5, ApplyStep

(* RevokeCertificate.                                                      *)
LEMMA RevokeCertificateStep ==
  ASSUME ServiceInv, NEW t \in Threads, NEW p \in Principals, NEW g \in Grants,
         RevokeCertificate(t, p, g)
  PROVE  ServiceInv'
  <1> DEFINE s == snapshot[Host[t]]
             y == Successor(s)
  <1>1. Begin(t, g) /\ opened[Host[t]]
    BY DEF RevokeCertificate, Begin
  <1>2. s \in Snapshots /\ s.rev <= MaxRevision /\ Good(s)
    BY <1>1, CachedOffer
  <1>3. y \in Snapshots /\ SerialsDisjoint(y) /\ y.active = s.active
    BY <1>2, SuccessorMoved, SuccessorFields DEF SameCertificates
  <1>4. PICK n \in s.active :
           Apply(t, g, [y EXCEPT !.active = @ \ {n}, !.retired = @ \cup {n}])
    BY DEF RevokeCertificate
  <1>5. Moved(y, [y EXCEPT !.active = @ \ {n}, !.retired = @ \cup {n}])
    BY <1>3, <1>4, RevokeMoved
  <1> QED BY <1>1, <1>4, <1>5, ApplyStep

(* The reservation that the three issuing requests share.                  *)
LEMMA ReserveStep ==
  ASSUME ServiceInv, NEW t \in Threads, NEW g \in Grants, NEW op \in Operations,
         NEW d \in Domains \cup {None}, NEW gen \in 0 .. MaxGeneration,
         op = "federate" => d \in Domains, Reserve(t, g, op, d, gen)
  PROVE  ServiceInv'
  <1> DEFINE s == snapshot[Host[t]]
             k == [grant |-> g, serial |-> s.nextSerial, op |-> op,
                   domain |-> d, gen |-> gen]
             n == recordAppliedGrant(reserveCertificate(s, k), g)
  <1>1. /\ pc[t] = "idle" /\ opened[Host[t]] /\ g \notin s.applied
        /\ UNCHANGED <<stored, survivors, opened, snapshot, attempts, signed, returned,
                       revoked, used, boot, faults>>
        /\ s.nextSerial <= MaxSerial
    BY DEF Reserve, Begin, callPolicy, store, outcomes
  <1>2. s \in Snapshots /\ s.rev <= MaxRevision /\ Good(s)
    BY <1>1, CachedOffer
  <1>3. /\ pc' = [pc EXCEPT ![t] = "reserve"] /\ next' = [next EXCEPT ![t] = n]
        /\ ticket' = [ticket EXCEPT ![t] = k]
    BY DEF Reserve, Propose
  <1> HIDE DEF s
  <1>4. k \in Tickets /\ k.grant = g /\ k.serial = s.nextSerial /\ k.op = op /\ k.domain = d
    <2>1. s.nextSerial \in 0 .. MaxSerial
      BY <1>1, <1>2, SnapshotFacts, ServiceAssumption
    <2> QED BY <2>1 DEF Tickets
  <1> HIDE DEF k
  <1>5. Offers(s, n) /\ g \in n.applied /\ k.serial \in Accounted(n)
    BY <1>1, <1>2, <1>4, ReserveOffered
  <1> HIDE DEF n
  <1>6. /\ n \in Snapshots /\ Good(n) /\ n.rev <= stored.rev + 1
        /\ n.rev = stored.rev + 1 => s = stored /\ Extends(stored, n)
    BY <1>1, <1>5, CachedOffer DEF s
  <1>7. Fits(t, "reserve", n, k)
    <2>1. "reserve" \in PCs /\ "reserve" \in Issuing
      BY DEF PCs, Issuing
    <2> QED BY <1>1, <1>4, <1>5, <1>6, <2>1 DEF Fits
  <1>8. attempts' \in [Threads -> 0 .. MaxRetries - 1] /\ faults' \in 0 .. MaxFaults
    BY <1>1, CountersKept
  <1>9. "reserve" \notin Holding /\ "reserve" # "sign"
    BY DEF Holding
  <1> QED BY <1>1, <1>3, <1>7, <1>8, <1>9, LocalStep

(* InitializeLocalCA, IssueLocalMTLSCertificate and Federate.              *)
LEMMA IssueStep ==
  ASSUME ServiceInv, NEW t \in Threads, NEW g \in Grants,
         \/ InitializeLocalCA(t, g)
         \/ IssueLocalMTLSCertificate(t, g)
         \/ \E p \in Principals : Federate(t, p, g)
  PROVE  ServiceInv'
  <1>1. 0 \in 0 .. MaxGeneration /\ None \in Domains \cup {None}
    BY ServiceAssumption
  <1>2. CASE InitializeLocalCA(t, g)
    <2>1. Reserve(t, g, "initialize-ca", None, 0)
      BY <1>2 DEF InitializeLocalCA
    <2>2. "initialize-ca" \in Operations /\ "initialize-ca" # "federate"
      BY DEF Operations
    <2> QED BY <1>1, <2>1, <2>2, ReserveStep
  <1>3. CASE IssueLocalMTLSCertificate(t, g)
    <2>1. Reserve(t, g, "issue-mtls-certificate", None, 0)
      BY <1>3 DEF IssueLocalMTLSCertificate
    <2>2. "issue-mtls-certificate" \in Operations /\ "issue-mtls-certificate" # "federate"
      BY DEF Operations
    <2> QED BY <1>1, <2>1, <2>2, ReserveStep
  <1>4. CASE \E p \in Principals : Federate(t, p, g)
    <2>1. PICK d \in Domains, gen \in 1 .. MaxGeneration : Reserve(t, g, "federate", d, gen)
      BY <1>4 DEF Federate
    <2>2. "federate" \in Operations /\ gen \in 0 .. MaxGeneration /\ d \in Domains \cup {None}
      BY <2>1, ServiceAssumption DEF Operations
    <2> QED BY <2>1, <2>2, ReserveStep
  <1> QED BY <1>2, <1>3, <1>4

(* Return leaves the thread idle.                                          *)
LEMMA ReturnFacts ==
  ASSUME ServiceInv, NEW t \in Threads, Return(t)
  PROVE  /\ pc' = [pc EXCEPT ![t] = "idle"] /\ next' = [next EXCEPT ![t] = emptySnapshot]
         /\ ticket' = [ticket EXCEPT ![t] = NoTicket]
         /\ attempts' \in [Threads -> 0 .. MaxRetries - 1]
  BY CountersKept DEF Return, Propose

(* Goto keeps the offer and the ticket.                                    *)
LEMMA GotoFacts ==
  ASSUME ServiceInv, NEW t \in Threads, NEW label, Goto(t, label)
  PROVE  /\ pc' = [pc EXCEPT ![t] = label] /\ next' = [next EXCEPT ![t] = next[t]]
         /\ ticket' = [ticket EXCEPT ![t] = ticket[t]]
         /\ next[t] \in Snapshots /\ ticket[t] \in Tickets
  <1>1. next \in [Threads -> Snapshots] /\ ticket \in [Threads -> Tickets]
    BY DEF ServiceInv, Types
  <1> QED BY <1>1 DEF Goto

(* Retry goes to one of its labels and counts the attempt.                 *)
LEMMA RetryFacts ==
  ASSUME ServiceInv, NEW t \in Threads, NEW again, NEW otherwise, Retry(t, again, otherwise)
  PROVE  /\ Goto(t, again) \/ Goto(t, otherwise)
         /\ attempts' \in [Threads -> 0 .. MaxRetries - 1]
  <1>1. attempts \in [Threads -> 0 .. MaxRetries - 1] /\ attempts[t] \in 0 .. MaxRetries - 1
    BY DEF ServiceInv, Types
  <1>2. CASE attempts[t] + 1 < MaxRetries
    <2>1. attempts[t] + 1 \in 0 .. MaxRetries - 1
      BY <1>1, <1>2, ServiceAssumption
    <2> QED BY <1>1, <1>2, <2>1 DEF Retry
  <1>3. CASE ~(attempts[t] + 1 < MaxRetries)
    BY <1>3, CountersKept DEF Retry
  <1> QED BY <1>2, <1>3

(* A request that ends with its commit.                                    *)
LEMMA CommitReturns ==
  ASSUME ServiceInv, NEW t \in Threads, pc[t] \in Proposing \ {"opening"},
         CommitSucceeds(t) \/ CommitConflicts(t) \/ CommitFails(t),
         UNCHANGED <<opened, signed, boot>>, Return(t),
         \/ used' = used
         \/ /\ CommitSucceeds(t) /\ pc[t] \in {"apply", "reserve"}
            /\ used' = [used EXCEPT ![ticket[t].grant] = @ + 1],
         \/ returned' = returned
         \/ /\ CommitSucceeds(t) /\ pc[t] = "finalizing"
            /\ returned' = returned \cup {ticket[t].serial}
  PROVE  ServiceInv'
  <1>1. /\ pc' = [pc EXCEPT ![t] = "idle"] /\ next' = [next EXCEPT ![t] = emptySnapshot]
        /\ ticket' = [ticket EXCEPT ![t] = NoTicket]
        /\ attempts' \in [Threads -> 0 .. MaxRetries - 1]
    BY ReturnFacts
  <1>2. emptySnapshot \in Snapshots /\ NoTicket \in Tickets
    BY EmptyFacts
  <1> QED BY <1>1, <1>2, CommitStep

(* ApplyCommit and DrainCommit.                                            *)
LEMMA ApplyOrDrainStep ==
  ASSUME ServiceInv, NEW t \in Threads, ApplyCommit(t) \/ DrainCommit(t)
  PROVE  ServiceInv'
  <1>1. CASE ApplyCommit(t)
    <2>1. pc[t] \in Proposing \ {"opening"} /\ pc[t] \in {"apply", "reserve"}
      BY <1>1 DEF ApplyCommit, Proposing
    <2>2. /\ CommitSucceeds(t) \/ CommitConflicts(t) \/ CommitFails(t)
          /\ UNCHANGED <<opened, signed, boot>> /\ Return(t) /\ returned' = returned
          /\ \/ used' = used
             \/ CommitSucceeds(t) /\ used' = [used EXCEPT ![ticket[t].grant] = @ + 1]
      BY <1>1 DEF ApplyCommit
    <2> QED BY <2>1, <2>2, CommitReturns
  <1>2. CASE DrainCommit(t)
    <2>1. pc[t] \in Proposing \ {"opening"}
      BY <1>2 DEF DrainCommit, Proposing
    <2>2. /\ CommitSucceeds(t) \/ CommitConflicts(t) \/ CommitFails(t)
          /\ UNCHANGED <<opened, signed, boot>> /\ Return(t)
          /\ returned' = returned /\ used' = used
      BY <1>2 DEF DrainCommit
    <2> QED BY <2>1, <2>2, CommitReturns
  <1> QED BY <1>1, <1>2

(* ReserveCommit.                                                          *)
LEMMA ReserveCommitStep ==
  ASSUME ServiceInv, NEW t \in Threads, ReserveCommit(t)
  PROVE  ServiceInv'
  <1>1. /\ pc[t] = "reserve" /\ pc[t] \in Proposing \ {"opening"} /\ pc[t] \in Issuing
        /\ UNCHANGED <<opened, signed, boot>> /\ returned' = returned
    BY DEF ReserveCommit, Proposing, Issuing
  <1>2. CASE /\ CommitSucceeds(t) /\ used' = [used EXCEPT ![ticket[t].grant] = @ + 1]
             /\ Goto(t, "sign") /\ attempts' = attempts
    <2>1. /\ pc' = [pc EXCEPT ![t] = "sign"] /\ next' = [next EXCEPT ![t] = next[t]]
          /\ ticket' = [ticket EXCEPT ![t] = ticket[t]]
          /\ next[t] \in Snapshots /\ ticket[t] \in Tickets
      BY <1>2, GotoFacts
    <2>2. attempts' \in [Threads -> 0 .. MaxRetries - 1]
      BY <1>2, CountersKept
    <2> QED BY <1>1, <1>2, <2>1, <2>2, CommitStep
  <1>3. CASE /\ CommitConflicts(t) \/ CommitFails(t)
             /\ Return(t) /\ used' = used
    BY <1>1, <1>3, CommitReturns
  <1> QED BY <1>2, <1>3 DEF ReserveCommit

(* A commit of the finalizer or of burnPending after which the request     *)
(* tries again or burns.                                                   *)
LEMMA CommitGoesOn ==
  ASSUME ServiceInv, NEW t \in Threads, pc[t] \in {"finalizing", "burning"},
         CommitSucceeds(t) \/ CommitConflicts(t) \/ CommitFails(t),
         UNCHANGED <<opened, signed, boot, used, returned>>,
         NEW label \in {"finalize", "burn"}, Goto(t, label),
         attempts' \in [Threads -> 0 .. MaxRetries - 1]
  PROVE  ServiceInv'
  <1>1. pc[t] \in Proposing \ {"opening"} /\ pc[t] \in Issuing /\ pc[t] \in Holding
    BY DEF Proposing, Issuing, Holding
  <1>2. /\ pc' = [pc EXCEPT ![t] = label] /\ next' = [next EXCEPT ![t] = next[t]]
        /\ ticket' = [ticket EXCEPT ![t] = ticket[t]]
        /\ next[t] \in Snapshots /\ ticket[t] \in Tickets
    BY GotoFacts
  <1> QED BY <1>1, <1>2, CommitStep

(* FinalizeCommit and BurnCommit.                                          *)
LEMMA OutcomeCommitStep ==
  ASSUME ServiceInv, NEW t \in Threads, FinalizeCommit(t) \/ BurnCommit(t)
  PROVE  ServiceInv'
  <1>1. CASE FinalizeCommit(t)
    <2>1. /\ pc[t] = "finalizing" /\ pc[t] \in Proposing \ {"opening"}
          /\ UNCHANGED <<opened, signed, boot, used>>
      BY <1>1 DEF FinalizeCommit, Proposing
    <2>2. CASE /\ CommitSucceeds(t) /\ returned' = returned \cup {ticket[t].serial}
               /\ Return(t)
      BY <2>1, <2>2, CommitReturns
    <2>3. CASE CommitConflicts(t) /\ Retry(t, "finalize", "burn") /\ returned' = returned
      <3>1. /\ Goto(t, "finalize") \/ Goto(t, "burn")
            /\ attempts' \in [Threads -> 0 .. MaxRetries - 1]
        BY <2>3, RetryFacts
      <3> QED BY <2>1, <2>3, <3>1, CommitGoesOn
    <2>4. CASE /\ CommitFails(t) /\ Goto(t, "burn") /\ returned' = returned
               /\ attempts' = [attempts EXCEPT ![t] = 0]
      <3>1. attempts' \in [Threads -> 0 .. MaxRetries - 1]
        BY <2>4, CountersKept
      <3> QED BY <2>1, <2>4, <3>1, CommitGoesOn
    <2> QED BY <1>1, <2>2, <2>3, <2>4 DEF FinalizeCommit
  <1>2. CASE BurnCommit(t)
    <2>1. /\ pc[t] = "burning" /\ pc[t] \in Proposing \ {"opening"}
          /\ UNCHANGED <<opened, signed, boot, used, returned>>
          /\ CommitSucceeds(t) \/ CommitConflicts(t) \/ CommitFails(t)
          /\ Return(t) \/ Retry(t, "burn", "burn")
      BY <1>2 DEF BurnCommit, Proposing
    <2>2. CASE Return(t)
      BY <2>1, <2>2, CommitReturns
    <2>3. CASE Retry(t, "burn", "burn")
      <3>1. Goto(t, "burn") /\ attempts' \in [Threads -> 0 .. MaxRetries - 1]
        BY <2>3, RetryFacts
      <3> QED BY <2>1, <3>1, CommitGoesOn
    <2> QED BY <2>1, <2>2, <2>3
  <1> QED BY <1>1, <1>2

(* Sign: the serial is spoken for, and no other request holds it.          *)
LEMMA SignStep ==
  ASSUME ServiceInv, NEW t \in Threads, Sign(t)
  PROVE  ServiceInv'
  <1> USE DEF ServiceInv
  <1> DEFINE m == ticket[t].serial
  <1>0. /\ pc \in [Threads -> PCs] /\ ticket \in [Threads -> Tickets]
        /\ next \in [Threads -> Snapshots] /\ signed \in [Serials -> Nat]
        /\ stored \in survivors /\ stored \in Snapshots /\ Good(stored)
    BY DEF Types, DiskInv
  <1>1. /\ pc[t] = "sign" /\ signed' \in {signed, [signed EXCEPT ![m] = @ + 1]}
        /\ UNCHANGED <<stored, survivors, opened, snapshot, attempts, returned, revoked,
                       used, boot, next, ticket>>
        /\ Fault \/ UNCHANGED faults
    BY DEF Sign, Goto, store, outcomes
  <1>2. PICK label \in {"finalize", "burn"} : pc' = [pc EXCEPT ![t] = label]
    BY DEF Sign, Goto
  <1>3. pc[t] \in Holding /\ pc[t] \in Issuing /\ label \in Holding /\ label \in PCs
        /\ label \notin Proposing
    BY <1>1 DEF Holding, Issuing, PCs, Proposing
  <1>4. /\ pc' \in [Threads -> PCs] /\ pc'[t] = label
        /\ \A u \in Threads : u # t => pc'[u] = pc[u]
    BY <1>0, <1>2, <1>3
  <1>5. signed[m] = 0 /\ \A s \in survivors : m \in Accounted(s)
    BY <1>1, <1>3 DEF TicketInv
  <1>6. m \in Serials
    BY <1>0, <1>5, SerialFacts DEF Good
  <1>7. \A u \in Threads : u # t /\ pc[u] \in Holding => ticket[u].serial # m
    BY <1>3 DEF TicketInv
  <1> HIDE DEF m
  <1>8. /\ signed' \in [Serials -> Nat] /\ signed'[m] <= 1
        /\ \A n \in Serials : n # m => signed'[n] = signed[n]
    BY <1>0, <1>1, <1>5, <1>6
  <1>9. Types'
    <2>1. faults' \in 0 .. MaxFaults
      BY <1>1, FaultCounted
    <2> QED BY <1>1, <1>4, <1>8, <2>1 DEF Types
  <1>10. DiskInv'
    BY <1>1, <1>5, <1>8 DEF DiskInv, Honoured
  <1>11. CacheInv'
    BY <1>1 DEF CacheInv
  <1>12. ProposalInv'
    <2> SUFFICES ASSUME NEW u \in Threads
                 PROVE  /\ pc'[u] \notin {"idle", "opening"} => opened[Host[u]]
                        /\ pc'[u] \in {"apply", "reserve"} => ticket[u].grant \in Grants
                        /\ pc'[u] \in Proposing => next[u].rev <= stored.rev + 1
                        /\ pc'[u] \in Proposing /\ next[u].rev = stored.rev + 1 => Claim(u)'
      BY <1>1 DEF ProposalInv
    <2>1. CASE u = t
      BY <1>1, <1>2, <1>3, <1>4, <2>1 DEF ProposalInv
    <2>2. CASE u # t
      BY <1>1, <1>4, <2>2 DEF ProposalInv, Claim
    <2> QED BY <2>1, <2>2
  <1>13. TicketInv'
    <2>1. \A u \in Threads : /\ pc'[u] \in Holding => pc[u] \in Holding
                             /\ pc'[u] \in Issuing => pc[u] \in Issuing
      BY <1>3, <1>4
    <2>2. \A u \in Threads : pc'[u] = "sign" => u # t /\ pc[u] = "sign"
      BY <1>2, <1>4
    <2>3. \A u \in Threads : pc'[u] = "sign" => signed'[ticket[u].serial] = 0
      <3> SUFFICES ASSUME NEW u \in Threads, pc'[u] = "sign"
                   PROVE  signed'[ticket[u].serial] = 0
        OBVIOUS
      <3>1. u # t /\ pc[u] = "sign" /\ pc[u] \in Holding
        BY <2>2 DEF Holding
      <3>2. ticket[u].serial \in Accounted(stored) /\ signed[ticket[u].serial] = 0
        BY <1>0, <3>1 DEF TicketInv
      <3>3. ticket[u].serial \in Serials /\ ticket[u].serial # m
        BY <1>0, <1>7, <3>1, <3>2, SerialFacts DEF Good
      <3> QED BY <1>8, <3>2, <3>3
    <2>4. \A u \in Threads : pc'[u] \in Issuing =>
             /\ ticket'[u].op \in Operations
             /\ ticket'[u].op = "federate" => ticket'[u].domain \in Domains
      BY <1>1, <2>1 DEF TicketInv
    <2>5. \A u \in Threads : pc'[u] \in Holding =>
             \A s \in survivors' : ticket'[u].serial \in Accounted(s)
      BY <1>1, <2>1 DEF TicketInv
    <2>6. \A u, v \in Threads : pc'[u] \in Holding /\ pc'[v] \in Holding /\ u # v =>
             ticket'[u].serial # ticket'[v].serial
      BY <1>1, <2>1 DEF TicketInv
    <2> QED BY <1>1, <2>3, <2>4, <2>5, <2>6 DEF TicketInv
  <1>14. CountInv'
    BY <1>1, <1>8 DEF CountInv
  <1> QED BY <1>9, <1>10, <1>11, <1>12, <1>13, <1>14

(* A request with a ticket goes on to burn it.                             *)
LEMMA BurnFits ==
  ASSUME ServiceInv, NEW t \in Threads, pc[t] \in Holding
  PROVE  Fits(t, "burn", next[t], ticket[t])
  <1>1. next[t] \in Snapshots /\ ticket[t] \in Tickets
    BY DEF ServiceInv, Types
  <1>2. "burn" \in PCs /\ "burn" \notin Proposing /\ "burn" \in Issuing /\ pc[t] \in Issuing
        /\ pc[t] \notin {"idle", "opening"}
    BY DEF PCs, Issuing, Proposing, Holding
  <1>3. opened[Host[t]]
    BY <1>2 DEF ServiceInv, ProposalInv
  <1>4. /\ ticket[t].op \in Operations
        /\ ticket[t].op = "federate" => ticket[t].domain \in Domains
    BY <1>2 DEF ServiceInv, TicketInv
  <1> QED BY <1>1, <1>2, <1>3, <1>4 DEF Fits

(* FinalizePending.                                                        *)
LEMMA FinalizePendingStep ==
  ASSUME ServiceInv, NEW t \in Threads, FinalizePending(t)
  PROVE  ServiceInv'
  <1> DEFINE s == snapshot[Host[t]]
             k == ticket[t]
  <1>1. /\ pc[t] = "finalize" /\ pc[t] \in Holding /\ pc[t] \in Issuing
        /\ UNCHANGED <<stored, survivors, opened, snapshot, signed, returned, revoked,
                       used, boot>>
    BY DEF FinalizePending, Holding, Issuing, store, outcomes
  <1>2. /\ opened[Host[t]] /\ k \in Tickets /\ k.op \in Operations
        /\ k.op = "federate" => k.domain \in Domains
    BY <1>1 DEF ServiceInv, ProposalInv, TicketInv, Types
  <1>3. s \in Snapshots /\ s.rev <= MaxRevision /\ Good(s)
    BY <1>2, CachedOffer
  <1>4. CASE /\ k \in s.pending /\ Applicable(s, k)
             /\ Propose(t, attachPublicOutbox(Recorded(s, k)), k, "finalizing")
             /\ UNCHANGED <<attempts, faults>>
    <2> DEFINE n == attachPublicOutbox(Recorded(s, k))
    <2>1. Offers(s, n) /\ k.serial \in Kept(n)
      BY <1>2, <1>3, <1>4, RecordedOffered
    <2>2. /\ pc' = [pc EXCEPT ![t] = "finalizing"] /\ next' = [next EXCEPT ![t] = n]
          /\ ticket' = [ticket EXCEPT ![t] = k]
      BY <1>4 DEF Propose
    <2> HIDE DEF n
    <2>3. /\ n \in Snapshots /\ Good(n) /\ n.rev <= stored.rev + 1
          /\ n.rev = stored.rev + 1 => s = stored /\ Extends(stored, n)
      BY <1>2, <2>1, CachedOffer
    <2>4. Fits(t, "finalizing", n, k)
      <3>1. "finalizing" \in PCs /\ "finalizing" \in Issuing
        BY DEF PCs, Issuing
      <3> QED BY <1>2, <2>1, <2>3, <3>1 DEF Fits
    <2>5. attempts' \in [Threads -> 0 .. MaxRetries - 1] /\ faults' \in 0 .. MaxFaults
      BY <1>4, CountersKept
    <2> QED BY <1>1, <2>2, <2>4, <2>5, LocalStep
  <1>5. CASE /\ Fault \/ UNCHANGED faults
             /\ Goto(t, "burn") /\ attempts' = [attempts EXCEPT ![t] = 0]
    <2>1. /\ pc' = [pc EXCEPT ![t] = "burn"] /\ next' = [next EXCEPT ![t] = next[t]]
          /\ ticket' = [ticket EXCEPT ![t] = ticket[t]]
      BY <1>5, GotoFacts
    <2>2. attempts' \in [Threads -> 0 .. MaxRetries - 1] /\ faults' \in 0 .. MaxFaults
      BY <1>5, CountersKept, FaultCounted DEF ServiceInv
    <2>3. Fits(t, "burn", next[t], ticket[t])
      BY <1>1, BurnFits
    <2> QED BY <1>1, <2>1, <2>2, <2>3, LocalStep
  <1> QED BY <1>4, <1>5 DEF FinalizePending

(* BurnPending.                                                            *)
LEMMA BurnPendingStep ==
  ASSUME ServiceInv, NEW t \in Threads, BurnPending(t)
  PROVE  ServiceInv'
  <1> DEFINE s == snapshot[Host[t]]
             k == ticket[t]
  <1>1. /\ pc[t] = "burn" /\ pc[t] \in Holding /\ pc[t] \in Issuing
        /\ UNCHANGED <<stored, survivors, opened, snapshot, signed, returned, revoked,
                       used, boot>>
    BY DEF BurnPending, Holding, Issuing, store, outcomes
  <1>2. /\ opened[Host[t]] /\ k \in Tickets /\ k.op \in Operations
        /\ k.op = "federate" => k.domain \in Domains
    BY <1>1 DEF ServiceInv, ProposalInv, TicketInv, Types
  <1>3. s \in Snapshots /\ s.rev <= MaxRevision /\ Good(s)
    BY <1>2, CachedOffer
  <1>4. CASE /\ k \in s.pending
             /\ Propose(t, attachPublicOutbox(Burned(s, k)), k, "burning")
             /\ UNCHANGED <<attempts, faults>>
    <2> DEFINE n == attachPublicOutbox(Burned(s, k))
    <2>1. Offers(s, n)
      BY <1>3, <1>4, BurnedOffered
    <2>2. /\ pc' = [pc EXCEPT ![t] = "burning"] /\ next' = [next EXCEPT ![t] = n]
          /\ ticket' = [ticket EXCEPT ![t] = k]
      BY <1>4 DEF Propose
    <2> HIDE DEF n
    <2>3. /\ n \in Snapshots /\ Good(n) /\ n.rev <= stored.rev + 1
          /\ n.rev = stored.rev + 1 => s = stored /\ Extends(stored, n)
      BY <1>2, <2>1, CachedOffer
    <2>4. Fits(t, "burning", n, k)
      <3>1. "burning" \in PCs /\ "burning" \in Issuing
        BY DEF PCs, Issuing
      <3> QED BY <1>2, <2>1, <2>3, <3>1 DEF Fits
    <2>5. attempts' \in [Threads -> 0 .. MaxRetries - 1] /\ faults' \in 0 .. MaxFaults
      BY <1>4, CountersKept
    <2> QED BY <1>1, <2>2, <2>4, <2>5, LocalStep
  <1>5. CASE (Fault \/ UNCHANGED faults) /\ Return(t)
    <2>1. /\ pc' = [pc EXCEPT ![t] = "idle"] /\ next' = [next EXCEPT ![t] = emptySnapshot]
          /\ ticket' = [ticket EXCEPT ![t] = NoTicket]
          /\ attempts' \in [Threads -> 0 .. MaxRetries - 1]
      BY <1>5, ReturnFacts
    <2>2. faults' \in 0 .. MaxFaults
      BY <1>5, FaultCounted DEF ServiceInv
    <2>3. Fits(t, "idle", emptySnapshot, NoTicket) /\ "idle" \notin Holding
      BY IdleFits DEF Holding
    <2> QED BY <1>1, <2>1, <2>2, <2>3, LocalStep
  <1> QED BY <1>4, <1>5 DEF BurnPending

(* DrainOutbox.                                                            *)
LEMMA DrainOutboxStep ==
  ASSUME ServiceInv, NEW t \in Threads, DrainOutbox(t)
  PROVE  ServiceInv'
  <1> DEFINE s == snapshot[Host[t]]
             n == [Successor(s) EXCEPT !.outbox = NoItem, !.published = s.outbox.withdrawn]
  <1>1. /\ pc[t] = "idle" /\ opened[Host[t]]
        /\ UNCHANGED <<stored, survivors, opened, snapshot, attempts, signed, returned,
                       revoked, used, boot, faults>>
    BY DEF DrainOutbox, store, outcomes
  <1>2. s \in Snapshots /\ s.rev <= MaxRevision /\ Good(s)
    BY <1>1, CachedOffer
  <1>3. CASE s.outbox # NoItem /\ Propose(t, n, NoTicket, "draining")
    <2>1. Offers(s, n)
      BY <1>2, <1>3, DrainOffered
    <2>2. /\ pc' = [pc EXCEPT ![t] = "draining"] /\ next' = [next EXCEPT ![t] = n]
          /\ ticket' = [ticket EXCEPT ![t] = NoTicket]
      BY <1>3 DEF Propose
    <2> HIDE DEF n
    <2>3. /\ n \in Snapshots /\ Good(n) /\ n.rev <= stored.rev + 1
          /\ n.rev = stored.rev + 1 => s = stored /\ Extends(stored, n)
      BY <1>1, <2>1, CachedOffer
    <2>4. Fits(t, "draining", n, NoTicket)
      <3>1. "draining" \in PCs /\ "draining" \notin Issuing
        BY DEF PCs, Issuing
      <3> QED BY <1>1, <2>1, <2>3, <3>1, EmptyFacts DEF Fits
    <2>5. attempts' \in [Threads -> 0 .. MaxRetries - 1] /\ faults' \in 0 .. MaxFaults
      BY <1>1, CountersKept
    <2>6. "draining" \notin Holding
      BY DEF Holding
    <2> QED BY <1>1, <2>2, <2>4, <2>5, <2>6, LocalStep
  <1>4. CASE UNCHANGED <<pc, next, ticket>>
    BY <1>1, <1>4 DEF ServiceInv, Types, DiskInv, Honoured, CacheInv, ProposalInv, Claim,
                      TicketInv, CountInv
  <1> QED BY <1>3, <1>4 DEF DrainOutbox

(* OpenLoad.                                                               *)
LEMMA OpenLoadStep ==
  ASSUME ServiceInv, NEW t \in Threads, OpenLoad(t)
  PROVE  ServiceInv'
  <1> DEFINE burned == {p.serial : p \in stored.pending}
             n == attachPublicOutbox([Successor(stored) EXCEPT
                                        !.pending = {}, !.burned = @ \cup burned])
  <1>1. /\ pc[t] = "idle" /\ ~opened[Host[t]]
        /\ UNCHANGED <<stored, survivors, attempts, signed, returned, revoked, used,
                       boot, faults>>
    BY DEF OpenLoad, store, outcomes
  <1>2. /\ stored \in Snapshots /\ stored.rev <= MaxRevision /\ Good(stored)
        /\ stored.rev \in Nat
    BY SnapshotFacts DEF ServiceInv, Types, DiskInv
  <1>3. attempts' \in [Threads -> 0 .. MaxRetries - 1] /\ faults' \in 0 .. MaxFaults
    BY <1>1, CountersKept
  <1>4. ASSUME NEW x, Offers(stored, x), Propose(t, x, NoTicket, "opening"),
               UNCHANGED <<opened, snapshot>>
        PROVE  ServiceInv'
    <2>1. /\ pc' = [pc EXCEPT ![t] = "opening"] /\ next' = [next EXCEPT ![t] = x]
          /\ ticket' = [ticket EXCEPT ![t] = NoTicket]
      BY <1>4 DEF Propose
    <2>2. Fits(t, "opening", x, NoTicket)
      <3>1. "opening" \in PCs /\ "opening" \notin Issuing
        BY DEF PCs, Issuing
      <3> QED BY <1>2, <1>4, <3>1, EmptyFacts DEF Fits, Offers
    <2>3. "opening" \notin Holding
      BY DEF Holding
    <2> QED BY <1>1, <1>3, <1>4, <2>1, <2>2, <2>3, LocalStep
  <1>5. CASE Propose(t, Successor(stored), NoTicket, "opening") /\ UNCHANGED <<opened, snapshot>>
    BY <1>2, <1>4, <1>5, SuccessorMoved
  <1>6. CASE Propose(t, n, NoTicket, "opening") /\ UNCHANGED <<opened, snapshot>>
    <2>1. Offers(stored, n)
      BY <1>2, OpenBurnOffered
    <2> QED BY <1>4, <1>6, <2>1
  <1>7. CASE /\ opened' = [opened EXCEPT ![Host[t]] = TRUE]
             /\ snapshot' = [snapshot EXCEPT ![Host[t]] = stored]
             /\ UNCHANGED <<pc, next, ticket>>
    <2> USE DEF ServiceInv
    <2>1. Host[t] \in Services /\ opened \in [Services -> BOOLEAN]
          /\ snapshot \in [Services -> Snapshots]
      BY ServiceAssumption DEF Types
    <2>2. /\ opened' \in [Services -> BOOLEAN] /\ snapshot' \in [Services -> Snapshots]
          /\ snapshot'[Host[t]] = stored
          /\ \A h \in Services : opened[h] => opened'[h]
          /\ \A h \in Services : h # Host[t] => opened'[h] = opened[h] /\ snapshot'[h] = snapshot[h]
      BY <1>2, <1>7, <2>1
    <2>3. Types'
      BY <1>1, <1>7, <2>2 DEF Types
    <2>4. CacheInv'
      <3> SUFFICES ASSUME NEW h \in Services, opened'[h]
                   PROVE  /\ Good(snapshot'[h]) /\ snapshot'[h].rev <= stored.rev
                          /\ snapshot'[h].rev = stored.rev => snapshot'[h] = stored
        BY <1>1 DEF CacheInv
      <3>1. CASE h = Host[t]
        BY <1>2, <2>2, <3>1
      <3>2. CASE h # Host[t]
        BY <2>2, <3>2 DEF CacheInv
      <3> QED BY <3>1, <3>2
    <2>5. \A u \in Threads : Host[u] \in Services
      BY ServiceAssumption
    <2>6. ProposalInv'
      BY <1>1, <1>7, <2>2, <2>5 DEF ProposalInv, Claim
    <2>7. DiskInv' /\ TicketInv' /\ CountInv'
      BY <1>1, <1>7 DEF DiskInv, Honoured, TicketInv, CountInv
    <2> QED BY <2>3, <2>4, <2>6, <2>7
  <1> QED BY <1>5, <1>6, <1>7 DEF OpenLoad

(* OpenCommit.                                                             *)
LEMMA OpenCommitStep ==
  ASSUME ServiceInv, NEW t \in Threads, OpenCommit(t)
  PROVE  ServiceInv'
  <1> USE DEF ServiceInv
  <1> DEFINE h == Host[t]
             n == next[t]
             ok == Acceptable(n) /\ stored.rev + 1 = n.rev
  <1>0. /\ h \in Services /\ opened \in [Services -> BOOLEAN]
        /\ snapshot \in [Services -> Snapshots] /\ n \in Snapshots
        /\ stored \in survivors /\ stored \in Snapshots /\ stored.rev \in Nat
        /\ revoked \subseteq Serials /\ pc \in [Threads -> PCs]
        /\ next \in [Threads -> Snapshots] /\ ticket \in [Threads -> Tickets]
    BY ServiceAssumption, SnapshotFacts DEF Types
  <1>1. /\ pc[t] = "opening" /\ pc[t] \in Proposing /\ Return(t)
        /\ UNCHANGED <<signed, returned, used, boot>>
    BY DEF OpenCommit, Proposing
  <1>2. /\ pc' = [pc EXCEPT ![t] = "idle"] /\ next' = [next EXCEPT ![t] = emptySnapshot]
        /\ ticket' = [ticket EXCEPT ![t] = NoTicket]
        /\ attempts' \in [Threads -> 0 .. MaxRetries - 1]
    BY <1>1, ReturnFacts
  <1>3. CASE UNCHANGED <<store, faults, opened, snapshot, revoked>>
    <2>1. UNCHANGED <<stored, survivors, faults, opened, snapshot, revoked>>
      BY <1>3 DEF store
    <2>2. faults' \in 0 .. MaxFaults
      BY <2>1 DEF Types
    <2>3. Fits(t, "idle", emptySnapshot, NoTicket) /\ "idle" \notin Holding
      BY IdleFits DEF Holding
    <2> QED BY <1>1, <1>2, <2>1, <2>2, <2>3, LocalStep
  <1>4. CASE Fault /\ UNCHANGED <<store, opened, snapshot, revoked>>
    <2>1. UNCHANGED <<stored, survivors, opened, snapshot, revoked>>
      BY <1>4 DEF store
    <2>2. faults' \in 0 .. MaxFaults
      BY <1>4, FaultCounted
    <2>3. Fits(t, "idle", emptySnapshot, NoTicket) /\ "idle" \notin Holding
      BY IdleFits DEF Holding
    <2> QED BY <1>1, <1>2, <2>1, <2>2, <2>3, LocalStep
  <1>5. ASSUME ok, NEW durable \in BOOLEAN, Write(n, durable), Fault \/ UNCHANGED faults,
               \/ /\ opened' = [opened EXCEPT ![h] = TRUE]
                  /\ snapshot' = [snapshot EXCEPT ![h] = n]
               \/ UNCHANGED <<opened, snapshot>>,
               \/ durable /\ revoked' = revoked \cup Withdrawn(n)
               \/ revoked' = revoked
        PROVE  ServiceInv'
    <2>1. n.rev = stored.rev + 1 /\ n.rev <= MaxRevision
      BY <1>5 DEF Acceptable
    <2>2. Good(n) /\ Extends(stored, n)
      BY <1>1, <2>1, Accepted
    <2>3. /\ stored' = n /\ stored' \in survivors'
          /\ durable => survivors' = {n}
          /\ \A s \in survivors' : /\ s \in Snapshots /\ s.rev <= MaxRevision
                                   /\ Good(s) /\ Honoured(s)
          /\ \A u \in Threads : pc[u] \in Holding =>
                \A s \in survivors' : ticket[u].serial \in Accounted(s)
      BY <1>0, <1>5, <2>1, <2>2, WriteEffect
    <2>4. /\ opened' \in [Services -> BOOLEAN] /\ snapshot' \in [Services -> Snapshots]
          /\ \A g \in Services : opened[g] => opened'[g]
          /\ \A g \in Services : \/ snapshot'[g] = n
                                 \/ opened'[g] = opened[g] /\ snapshot'[g] = snapshot[g]
      BY <1>0, <1>5
    <2>5. revoked' \subseteq Serials /\ \A s \in survivors' : revoked' \subseteq Withdrawn(s)
      <3>1. CASE durable /\ revoked' = revoked \cup Withdrawn(n)
        <4>1. Withdrawn(n) \subseteq Serials
          BY <1>0, SnapshotFacts DEF Withdrawn
        <4> QED BY <1>0, <2>3, <3>1, <4>1 DEF Honoured
      <3>2. CASE revoked' = revoked
        BY <1>0, <2>3, <3>2 DEF Honoured
      <3> QED BY <1>5, <3>1, <3>2
    <2> HIDE DEF n, h
    <2>6. /\ pc' \in [Threads -> PCs] /\ next' \in [Threads -> Snapshots]
          /\ ticket' \in [Threads -> Tickets] /\ pc'[t] = "idle"
          /\ \A u \in Threads : u # t => /\ pc'[u] = pc[u] /\ next'[u] = next[u]
                                         /\ ticket'[u] = ticket[u]
      BY <1>0, <1>2, EmptyFacts DEF PCs
    <2>7. Types'
      <3>1. faults' \in 0 .. MaxFaults
        BY <1>5, FaultCounted
      <3> QED BY <1>1, <1>2, <2>3, <2>4, <2>5, <2>6, <3>1 DEF Types
    <2>8. DiskInv'
      <3>1. \A s \in survivors' : Honoured(s)'
        BY <1>1, <2>3, <2>5 DEF Honoured
      <3> QED BY <2>3, <3>1 DEF DiskInv
    <2>9. CacheInv'
      <3> SUFFICES ASSUME NEW g \in Services, opened'[g]
                   PROVE  /\ Good(snapshot'[g]) /\ snapshot'[g].rev <= stored'.rev
                          /\ snapshot'[g].rev = stored'.rev => snapshot'[g] = stored'
        BY DEF CacheInv
      <3>1. CASE snapshot'[g] = n
        BY <1>0, <2>1, <2>2, <2>3, <3>1
      <3>2. CASE opened'[g] = opened[g] /\ snapshot'[g] = snapshot[g]
        <4>1. Good(snapshot[g]) /\ snapshot[g].rev <= stored.rev
          BY <3>2 DEF CacheInv
        <4>2. snapshot[g].rev \in Nat
          BY <1>0, SnapshotFacts
        <4> QED BY <1>0, <2>1, <2>3, <3>2, <4>1, <4>2
      <3> QED BY <2>4, <3>1, <3>2
    <2>10. ProposalInv'
      <3> SUFFICES ASSUME NEW u \in Threads
                   PROVE  /\ pc'[u] \notin {"idle", "opening"} => opened'[Host[u]]
                          /\ pc'[u] \in {"apply", "reserve"} => ticket'[u].grant \in Grants
                          /\ pc'[u] \in Proposing => next'[u].rev <= stored'.rev + 1
                          /\ pc'[u] \in Proposing /\ next'[u].rev = stored'.rev + 1 => Claim(u)'
        BY DEF ProposalInv
      <3>1. CASE u = t
        BY <2>6, <3>1 DEF Proposing
      <3>2. CASE u # t
        <4>1. next[u].rev \in Nat /\ Host[u] \in Services
          BY <1>0, SnapshotFacts, ServiceAssumption
        <4>2. pc[u] \in Proposing => next[u].rev <= stored.rev + 1
          BY DEF ProposalInv
        <4>3. pc'[u] \in Proposing => next'[u].rev < stored'.rev + 1
          BY <1>0, <2>1, <2>3, <2>6, <3>2, <4>1, <4>2
        <4>4. next'[u].rev \in Nat /\ stored'.rev \in Nat
          BY <1>0, <2>1, <2>3, <2>6, <3>2, <4>1
        <4> QED BY <2>4, <2>6, <3>2, <4>1, <4>3, <4>4 DEF ProposalInv
      <3> QED BY <3>1, <3>2
    <2>11. TicketInv'
      <3>1. \A u \in Threads : pc'[u] \in Issuing => /\ u # t /\ pc[u] \in Issuing
                                                     /\ ticket'[u] = ticket[u]
        BY <2>6 DEF Issuing
      <3>2. \A u \in Threads : pc'[u] \in Holding => /\ u # t /\ pc[u] \in Holding
                                                     /\ ticket'[u] = ticket[u]
        BY <2>6 DEF Holding
      <3>3. \A u \in Threads : pc'[u] = "sign" => /\ u # t /\ pc[u] = "sign"
                                                  /\ ticket'[u] = ticket[u]
        BY <2>6
      <3>4. \A u \in Threads : pc'[u] \in Holding =>
               \A s \in survivors' : ticket'[u].serial \in Accounted(s)
        BY <2>3, <3>2
      <3>5. signed' = signed
        BY <1>1
      <3> QED BY <3>1, <3>2, <3>3, <3>4, <3>5 DEF TicketInv
    <2>12. CountInv'
      BY <1>1 DEF CountInv
    <2> QED BY <2>7, <2>8, <2>9, <2>10, <2>11, <2>12
  <1>6. CASE /\ ok /\ Write(n, TRUE) /\ UNCHANGED faults
             /\ opened' = [opened EXCEPT ![h] = TRUE]
             /\ snapshot' = [snapshot EXCEPT ![h] = n]
             /\ revoked' = revoked \cup Withdrawn(n)
    BY <1>5, <1>6
  <1>7. CASE /\ ok /\ Write(n, FALSE) /\ Fault
             /\ UNCHANGED <<opened, snapshot, revoked>>
    BY <1>5, <1>7
  <1> QED BY <1>3, <1>4, <1>6, <1>7 DEF OpenCommit

(* A service crashes: its requests and its cache are gone.                 *)
LEMMA CrashStep ==
  ASSUME ServiceInv, NEW h \in Services, Crash(h)
  PROVE  ServiceInv'
  <1> USE DEF ServiceInv
  <1>0. /\ pc \in [Threads -> PCs] /\ next \in [Threads -> Snapshots]
        /\ ticket \in [Threads -> Tickets] /\ attempts \in [Threads -> 0 .. MaxRetries - 1]
        /\ opened \in [Services -> BOOLEAN] /\ snapshot \in [Services -> Snapshots]
    BY DEF Types
  <1>1. UNCHANGED <<stored, survivors, signed, returned, revoked, used, boot>> /\ Fault
    BY DEF Crash, store, outcomes
  <1>2. /\ opened' \in [Services -> BOOLEAN] /\ snapshot' \in [Services -> Snapshots]
        /\ opened'[h] = FALSE
        /\ \A g \in Services : g # h => opened'[g] = opened[g] /\ snapshot'[g] = snapshot[g]
    BY <1>0, EmptyFacts DEF Crash
  <1>3. /\ pc' \in [Threads -> PCs] /\ next' \in [Threads -> Snapshots]
        /\ ticket' \in [Threads -> Tickets] /\ attempts' \in [Threads -> 0 .. MaxRetries - 1]
    <2>1. 0 \in 0 .. MaxRetries - 1 /\ "idle" \in PCs
      BY ServiceAssumption DEF PCs
    <2> QED BY <1>0, <2>1, EmptyFacts DEF Crash
  <1>4. \A u \in Threads : \/ pc'[u] = "idle"
                           \/ /\ Host[u] # h /\ pc'[u] = pc[u] /\ next'[u] = next[u]
                              /\ ticket'[u] = ticket[u]
    BY DEF Crash
  <1>5. Types'
    <2>1. faults' \in 0 .. MaxFaults
      BY <1>1, FaultCounted
    <2> QED BY <1>1, <1>2, <1>3, <2>1 DEF Types
  <1>6. DiskInv' /\ CountInv'
    BY <1>1 DEF DiskInv, Honoured, CountInv
  <1>7. CacheInv'
    BY <1>1, <1>2 DEF CacheInv
  <1>8. ProposalInv'
    <2> SUFFICES ASSUME NEW u \in Threads
                 PROVE  /\ pc'[u] \notin {"idle", "opening"} => opened'[Host[u]]
                        /\ pc'[u] \in {"apply", "reserve"} => ticket'[u].grant \in Grants
                        /\ pc'[u] \in Proposing => next'[u].rev <= stored.rev + 1
                        /\ pc'[u] \in Proposing /\ next'[u].rev = stored.rev + 1 => Claim(u)'
      BY <1>1 DEF ProposalInv
    <2>1. CASE pc'[u] = "idle"
      BY <2>1 DEF Proposing
    <2>2. CASE /\ Host[u] # h /\ pc'[u] = pc[u] /\ next'[u] = next[u]
               /\ ticket'[u] = ticket[u]
      <3>1. opened'[Host[u]] = opened[Host[u]]
        BY <1>2, <2>2, ServiceAssumption
      <3> QED BY <1>1, <2>2, <3>1 DEF ProposalInv, Claim
    <2> QED BY <1>4, <2>1, <2>2
  <1>9. TicketInv'
    <2>1. \A u \in Threads : /\ pc'[u] \in Issuing => pc[u] \in Issuing /\ ticket'[u] = ticket[u]
                             /\ pc'[u] \in Holding => pc[u] \in Holding /\ ticket'[u] = ticket[u]
                             /\ pc'[u] = "sign" => pc[u] = "sign" /\ ticket'[u] = ticket[u]
      BY <1>4 DEF Issuing, Holding
    <2> QED BY <1>1, <2>1 DEF TicketInv
  <1> QED BY <1>5, <1>6, <1>7, <1>8, <1>9

(* Power is lost: one of the survivors is what the next boot finds.        *)
LEMMA PowerLossStep ==
  ASSUME ServiceInv, PowerLoss
  PROVE  ServiceInv'
  <1> USE DEF ServiceInv
  <1>1. PICK s \in survivors : stored' = s /\ survivors' = {s}
    BY DEF PowerLoss
  <1>2. UNCHANGED <<signed, returned, revoked, used, faults>> /\ boot' \in 1 .. MaxBoots
    BY ServiceAssumption DEF PowerLoss, outcomes, Types
  <1>3. /\ \A t \in Threads : pc'[t] = "idle"
        /\ \A h \in Services : opened'[h] = FALSE
    BY DEF PowerLoss
  <1>4. /\ opened' \in [Services -> BOOLEAN] /\ snapshot' \in [Services -> Snapshots]
        /\ pc' \in [Threads -> PCs] /\ next' \in [Threads -> Snapshots]
        /\ ticket' \in [Threads -> Tickets] /\ attempts' \in [Threads -> 0 .. MaxRetries - 1]
    <2>1. 0 \in 0 .. MaxRetries - 1 /\ "idle" \in PCs
      BY ServiceAssumption DEF PCs
    <2> QED BY <2>1, EmptyFacts DEF PowerLoss
  <1>5. Types'
    BY <1>1, <1>2, <1>4 DEF Types
  <1>6. DiskInv' /\ CountInv'
    BY <1>1, <1>2 DEF DiskInv, Honoured, CountInv
  <1>7. CacheInv' /\ ProposalInv' /\ TicketInv'
    BY <1>3 DEF CacheInv, ProposalInv, TicketInv, Proposing, Issuing, Holding
  <1> QED BY <1>5, <1>6, <1>7

(* The first boot.                                                         *)
LEMMA InitServiceInv == Init => ServiceInv
  <1> SUFFICES ASSUME Init PROVE ServiceInv
    OBVIOUS
  <1>1. 0 \in 0 .. MaxRetries - 1 /\ "idle" \in PCs /\ 1 \in 1 .. MaxBoots /\ 0 \in 0 .. MaxFaults
    BY ServiceAssumption DEF PCs
  <1>2. Types
    BY <1>1, EmptyFacts DEF Types, Init
  <1>3. DiskInv
    <2>1. /\ \A g \in Grants : used[g] = 0
          /\ \A n \in Serials : signed[n] = 0
          /\ revoked = {} /\ returned = {} /\ survivors = {emptySnapshot}
      BY DEF Init
    <2> QED BY <2>1, EmptyFacts DEF DiskInv, Honoured
  <1>4. /\ \A t \in Threads : pc[t] = "idle"
        /\ \A h \in Services : opened[h] = FALSE
    BY DEF Init
  <1>5. CacheInv /\ ProposalInv /\ TicketInv
    BY <1>4 DEF CacheInv, ProposalInv, TicketInv, Proposing, Issuing, Holding
  <1>6. CountInv
    BY DEF CountInv, Init
  <1> QED BY <1>2, <1>3, <1>5, <1>6 DEF ServiceInv

(* Every step preserves the invariant.                                     *)
LEMMA NextServiceInv == ServiceInv /\ [Next]_vars => ServiceInv'
  <1> SUFFICES ASSUME ServiceInv, [Next]_vars PROVE ServiceInv'
    OBVIOUS
  <1>1. ASSUME NEW t \in Threads, Request(t)
        PROVE  ServiceInv'
    <2>1. PICK g \in Grants :
             \/ InitializeLocalCA(t, g) \/ IssueLocalMTLSCertificate(t, g)
             \/ \E p \in Principals : \/ AdoptDevice(t, p, g) \/ RevokeTrust(t, p, g)
                                      \/ RevokeCertificate(t, p, g) \/ Federate(t, p, g)
      BY <1>1 DEF Request
    <2>2. CASE \/ InitializeLocalCA(t, g) \/ IssueLocalMTLSCertificate(t, g)
               \/ \E p \in Principals : Federate(t, p, g)
      BY <2>2, IssueStep
    <2>3. CASE \E p \in Principals : AdoptDevice(t, p, g)
      BY <2>3, AdoptDeviceStep
    <2>4. CASE \E p \in Principals : RevokeTrust(t, p, g)
      BY <2>4, RevokeTrustStep
    <2>5. CASE \E p \in Principals : RevokeCertificate(t, p, g)
      BY <2>5, RevokeCertificateStep
    <2> QED BY <2>1, <2>2, <2>3, <2>4, <2>5
  <1>2. ASSUME NEW t \in Threads, Step(t)
        PROVE  ServiceInv'
    BY <1>2, OpenLoadStep, OpenCommitStep, ApplyOrDrainStep, ReserveCommitStep, SignStep,
       FinalizePendingStep, OutcomeCommitStep, BurnPendingStep, DrainOutboxStep DEF Step
  <1>3. ASSUME NEW h \in Services, Crash(h)
        PROVE  ServiceInv'
    BY <1>3, CrashStep
  <1>4. CASE PowerLoss
    BY <1>4, PowerLossStep
  <1>5. CASE UNCHANGED vars
    <2>1. UNCHANGED <<stored, survivors, opened, snapshot, pc, next, ticket, attempts,
                      signed, returned, revoked, used, boot, faults>>
      BY <1>5 DEF vars
    <2> QED BY <2>1 DEF ServiceInv, Types, DiskInv, Honoured, CacheInv, ProposalInv, Claim,
                        TicketInv, CountInv
  <1> QED BY <1>1, <1>2, <1>3, <1>4, <1>5 DEF Next

-----------------------------------------------------------------------------
(* Theorems.                                                               *)

(* The inductive invariant holds: services that share the store keep the   *)
(* disk, their caches, their offers and their tickets consistent.          *)
THEOREM ServiceInvariance == Spec => []ServiceInv
  BY InitServiceInv, NextServiceInv, PTL DEF Spec

(* A grant succeeds at most once, also when two requests hold it or a      *)
(* service works on a stale snapshot (ErrReplay and compare-and-swap in    *)
(* service.go).                                                            *)
THEOREM GrantsUsedOnce == Spec => []GrantUsedOnce
  <1>1. ServiceInv => GrantUsedOnce
    BY DEF ServiceInv, CountInv, GrantUsedOnce
  <1> QED BY <1>1, ServiceInvariance, PTL

(* A revocation that commitCandidate has confirmed is final: no power      *)
(* loss, no failed commit and no concurrent request brings the             *)
(* certificate back.                                                       *)
THEOREM RevocationsFinal == Spec => []RevocationSticks
  <1>1. ServiceInv => RevocationSticks
    <2> SUFFICES ASSUME ServiceInv, NEW s \in survivors \cup {stored}
                 PROVE  revoked \subseteq Withdrawn(s) \ Issued(s)
      BY DEF RevocationSticks
    <2>1. s \in survivors
      BY DEF ServiceInv, Types
    <2>2. revoked \subseteq Withdrawn(s) /\ Issued(s) \cap Withdrawn(s) = {}
      BY <2>1 DEF ServiceInv, DiskInv, Honoured, Good, SerialsDisjoint
    <2> QED BY <2>2
  <1> QED BY <1>1, ServiceInvariance, PTL

(* Every revoked or burned serial is in the item that waits in the outbox, *)
(* or in the snapshot published last: attachPublicOutbox and DrainOutbox   *)
(* lose no withdrawal.                                                     *)
THEOREM WithdrawalsPublished == Spec => []WithdrawalsReachOutbox
  <1>1. ServiceInv => WithdrawalsReachOutbox
    <2> SUFFICES ASSUME ServiceInv, NEW s \in survivors \cup {stored}
                 PROVE  OutboxComplete(s)
      BY DEF WithdrawalsReachOutbox, OutboxComplete
    <2> QED BY DEF ServiceInv, Types, DiskInv, Good
  <1> QED BY <1>1, ServiceInvariance, PTL

(* No serial is signed twice, every signed certificate is known to         *)
(* whatever a power loss leaves, and a certificate that was handed out is  *)
(* never burned (reserveCertificate, finalizePending and burnPending with  *)
(* any number of services on the store).                                   *)
THEOREM CertificatesKnown == Spec => []CertificatesAccounted
  <1>1. ServiceInv => CertificatesAccounted
    <2> SUFFICES ASSUME ServiceInv PROVE CertificatesAccounted
      OBVIOUS
    <2>1. SerialSignedOnce
      BY DEF ServiceInv, CountInv, SerialSignedOnce
    <2>2. SignedIsAccounted
      BY DEF ServiceInv, DiskInv, Honoured, Accounted, PendingSerials, SignedIsAccounted
    <2>3. ReturnedIsRecorded
      BY DEF ServiceInv, DiskInv, Honoured, Kept, ReturnedIsRecorded
    <2> QED BY <2>1, <2>2, <2>3 DEF CertificatesAccounted
  <1> QED BY <1>1, ServiceInvariance, PTL
=============================================================================
