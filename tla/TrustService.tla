----------------------------- MODULE TrustService -----------------------------
(***************************************************************************)
(* The Trust service (internal/trust/service.go): ownership relationships, *)
(* the device-local CA with its certificate serials, directed federation   *)
(* edges and the publication outbox, all in one revisioned snapshot.       *)
(*                                                                         *)
(* Several services may share one store, and each serves several requests  *)
(* at a time.  Every request works on a copy of its service's cached       *)
(* snapshot, calls the policy, the TPM and the snapshot builder without    *)
(* holding a lock, and then offers the next revision to commitCandidate.   *)
(* The store is the one of module RevisionedStore.                         *)
(***************************************************************************)
EXTENDS Integers, FiniteSets

CONSTANTS
    Services,       \* processes that share the store
    Threads,        \* requests in progress
    Host,           \* Host[t]: the service that serves t
    Principals,     \* mTLS peers
    Grants,         \* grant IDs the policy hands out
    Domains,        \* remote trust domains
    None,           \* no principal, grant or domain
    MaxSerial,      \* the largest serial (^uint64(0) - 1 in the code)
    MaxGeneration,  \* bound: generations of federation material
    MaxRevision,    \* the largest revision (^uint64(0) in the code)
    MaxRetries,     \* compare-and-swap attempts (8 in the code)
    MaxFaults,      \* bound: failures and crashes
    MaxBoots        \* bound: boots of the machine

ASSUME ServiceAssumption ==
    /\ Host \in [Threads -> Services]
    /\ None \notin Principals \cup Grants \cup Domains
    /\ MaxSerial \in Nat /\ MaxGeneration \in Nat /\ MaxRevision \in Nat
    /\ MaxRetries \in Nat \ {0} /\ MaxFaults \in Nat /\ MaxBoots \in Nat \ {0}

VARIABLES
    stored,     \* the snapshot that Store.Load returns
    survivors,  \* the snapshots that a power loss could leave
    opened,     \* opened[h]: Open has succeeded
    snapshot,   \* snapshot[h]: the service's cached snapshot
    pc,         \* pc[t]: where request t is
    next,       \* next[t]: the snapshot it is about to commit
    ticket,     \* ticket[t]: the certificate intent it has reserved
    attempts,   \* attempts[t]: compare-and-swap attempts so far
    signed,     \* signed[n]: certificates the TPM has signed with serial n
    returned,   \* serials of the certificates returned to callers
    revoked,    \* serials whose revocation has been confirmed
    used,       \* used[g]: requests that have succeeded with grant g
    boot, faults

store == <<stored, survivors>>
request == <<pc, next, ticket, attempts>>
outcomes == <<returned, revoked, used>>
vars == <<stored, survivors, opened, snapshot, pc, next, ticket, attempts,
          signed, returned, revoked, used, boot, faults>>

-----------------------------------------------------------------------------
(* The snapshot.  Certificates are known by their serials; a relationship  *)
(* ID is derived from the grant that created it.                           *)

Serials == 1 .. MaxSerial

(* No relationship.                                                        *)
NoRelationship == [principal |-> None, role |-> "none", phase |-> "none"]

Relationships ==
    [principal : Principals, role : {"owner", "backup-admin"},
     phase : {"provisional", "authorized", "revoked"}] \cup {NoRelationship}

Operations == {"initialize-ca", "issue-mtls-certificate", "federate"}

(* A certificate intent (PendingCertificate); requests that reserve no     *)
(* serial have a ticket with serial 0, which only remembers their grant.   *)
Tickets == [grant : Grants \cup {None}, serial : 0 .. MaxSerial,
            op : Operations \cup {"none"}, domain : Domains \cup {None},
            gen : 0 .. MaxGeneration]

NoTicket == [grant |-> None, serial |-> 0, op |-> "none", domain |-> None, gen |-> 0]

NoEdge == [gen |-> 0, serial |-> 0]

(* The outbox item; withdrawn is the part of publicStateView that matters: *)
(* the serials of all revocations and of all burned reservations.          *)
NoItem == [rev |-> 0, withdrawn |-> {}]

(* active holds the mTLS certificates in force, retired the revoked ones   *)
(* and the replaced cross-certificates, edges the cross-certificates in    *)
(* force.                                                                  *)
Snapshots ==
    [rev : 0 .. MaxRevision + 1, nextSerial : 1 .. MaxSerial + 1,
     ca : 0 .. MaxSerial, active : SUBSET Serials, retired : SUBSET Serials,
     pending : SUBSET Tickets, burned : SUBSET Serials,
     edges : [Domains -> [gen : 0 .. MaxGeneration, serial : 0 .. MaxSerial]],
     relationships : [Grants -> Relationships], applied : SUBSET Grants,
     outbox : [rev : 0 .. MaxRevision + 1, withdrawn : SUBSET Serials],
     published : SUBSET Serials]

emptySnapshot ==
    [rev |-> 0, nextSerial |-> 1, ca |-> 0, active |-> {}, retired |-> {},
     pending |-> {}, burned |-> {}, edges |-> [d \in Domains |-> NoEdge],
     relationships |-> [g \in Grants |-> NoRelationship], applied |-> {},
     outbox |-> NoItem, published |-> {}]

Current(r) == r.phase \in {"provisional", "authorized"}

hasActiveOwner(s) ==
    \E g \in Grants : Current(s.relationships[g]) /\ s.relationships[g].role = "owner"

hasAuthorizedOwner(s) ==
    \E g \in Grants : /\ s.relationships[g].role = "owner"
                      /\ s.relationships[g].phase = "authorized"

validateRelationships(s) ==
    LET live == {g \in Grants : Current(s.relationships[g])}
        owners == {g \in live : s.relationships[g].role = "owner"}
    IN  /\ \A g, h \in live :
              s.relationships[g].principal = s.relationships[h].principal => g = h
        /\ Cardinality(owners) <= 1
        /\ owners # live => hasAuthorizedOwner(s)

CrossSerials(s) == {s.edges[d].serial : d \in Domains} \ {0}

(* The ways a serial can be accounted for; no serial may have two of them. *)
validateCertificates(s) ==
    LET Claims(n) == (IF s.ca = n THEN 1 ELSE 0)
                     + (IF n \in s.active \cup s.retired THEN 1 ELSE 0)
                     + Cardinality({p \in s.pending : p.serial = n})
                     + (IF n \in s.burned THEN 1 ELSE 0)
                     + Cardinality({d \in Domains : s.edges[d].serial = n})
    IN  /\ \A n \in Serials : Claims(n) <= 1 /\ (Claims(n) = 1 => n < s.nextSerial)
        /\ s.ca = 0 => s.active = {}

(* An edge has a generation and a cross-certificate of the local CA.       *)
validateFederationsAndBundles(s) ==
    \A d \in Domains : s.edges[d] # NoEdge =>
        s.edges[d].gen > 0 /\ s.edges[d].serial > 0 /\ s.ca > 0

validateReplayAndPublicationState(s) == s.outbox.rev <= s.rev

validateSnapshot(s) ==
    /\ validateRelationships(s) /\ validateCertificates(s)
    /\ validateFederationsAndBundles(s) /\ validateReplayAndPublicationState(s)

Withdrawn(s) == s.retired \cup s.burned

(* Mutant: the outbox item is built before the change it should show.      *)
attachPublicOutboxStale(s) ==
    [s EXCEPT !.outbox = [rev |-> s.rev, withdrawn |-> s.published]]

(* Every transaction puts the complete public state into the outbox.       *)
attachPublicOutbox(s) ==
    [s EXCEPT !.outbox = [rev |-> s.rev, withdrawn |-> Withdrawn(s)]]

(* Mutant: the grant is not recorded.                                      *)
recordAppliedGrantNot(s, g) == s

recordAppliedGrant(s, g) == [s EXCEPT !.applied = @ \cup {g}]

Transaction(s, g) == attachPublicOutbox(recordAppliedGrant(s, g))

Successor(s) == [s EXCEPT !.rev = @ + 1]

(* callPolicy: a grant that is not yet applied; its other fields are free. *)
callPolicy(s, g) == g \notin s.applied

requireAuthorizedPrincipal(s, p) ==
    \E g \in Grants : s.relationships[g] =
        [principal |-> p, role |-> "owner", phase |-> "authorized"]

-----------------------------------------------------------------------------
(* Requests.                                                               *)

Issuing == {"reserve", "sign", "finalize", "finalizing", "burn", "burning"}

PCs == Issuing \cup {"idle", "opening", "apply", "draining"}

Fault == faults < MaxFaults /\ faults' = faults + 1

Goto(t, label) == pc' = [pc EXCEPT ![t] = label] /\ UNCHANGED <<next, ticket>>

(* The request offers snapshot s to the store, on behalf of ticket k.      *)
Propose(t, s, k, label) ==
    /\ pc' = [pc EXCEPT ![t] = label]
    /\ next' = [next EXCEPT ![t] = s]
    /\ ticket' = [ticket EXCEPT ![t] = k]

Return(t) ==
    /\ Propose(t, emptySnapshot, NoTicket, "idle")
    /\ attempts' = [attempts EXCEPT ![t] = 0]

(* Compare and swap again, or give up and go on at label.                  *)
Retry(t, again, otherwise) ==
    IF attempts[t] + 1 < MaxRetries
    THEN Goto(t, again) /\ attempts' = [attempts EXCEPT ![t] = @ + 1]
    ELSE Goto(t, otherwise) /\ attempts' = [attempts EXCEPT ![t] = 0]

(* What the store demands of the next snapshot besides the right revision. *)
Acceptable(s) == s.rev <= MaxRevision /\ validateSnapshot(s)

Write(s, durable) ==
    /\ stored' = s
    /\ survivors' = IF durable THEN {s} ELSE survivors \cup {s}

(* Mutant: the store replaces whatever revision it holds.                  *)
ConflictNever(t) == FALSE

(* ErrRevisionConflict: the cache or the file has moved on.                *)
Conflict(t) ==
    \/ snapshot[Host[t]].rev + 1 # next[t].rev
    \/ Acceptable(next[t]) /\ stored.rev + 1 # next[t].rev

(* The three outcomes of commitCandidate.  After an error the cache is     *)
(* reloaded, if that succeeds; the error may come after the file has been  *)
(* replaced.                                                               *)
CommitSucceeds(t) ==
    /\ ~Conflict(t) /\ Acceptable(next[t])
    /\ Write(next[t], TRUE)
    /\ snapshot' = [snapshot EXCEPT ![Host[t]] = next[t]]
    /\ revoked' = revoked \cup Withdrawn(next[t])
    /\ UNCHANGED faults

CommitConflicts(t) ==
    /\ Conflict(t)
    /\ \/ snapshot' = [snapshot EXCEPT ![Host[t]] = stored] /\ UNCHANGED faults
       \/ Fault /\ UNCHANGED snapshot
    /\ UNCHANGED <<store, revoked>>

CommitFails(t) ==
    /\ ~Conflict(t)
    /\ \/ /\ ~Acceptable(next[t]) /\ UNCHANGED store
          /\ \/ snapshot' = [snapshot EXCEPT ![Host[t]] = stored] /\ UNCHANGED faults
             \/ Fault /\ UNCHANGED snapshot
       \/ Acceptable(next[t]) /\ Fault /\ UNCHANGED <<store, snapshot>>
       \/ /\ Acceptable(next[t]) /\ Fault
          /\ Write(next[t], FALSE)
          /\ \/ snapshot' = [snapshot EXCEPT ![Host[t]] = next[t]]
             \/ UNCHANGED snapshot
    /\ UNCHANGED revoked

-----------------------------------------------------------------------------
(* Open: load, bind an empty store to the identity, burn the serials that  *)
(* an earlier run has left pending, and start to serve.                    *)
OpenLoad(t) ==
    LET burned == {p.serial : p \in stored.pending} IN
    /\ pc[t] = "idle" /\ ~opened[Host[t]]
    /\ \A u \in Threads : Host[u] = Host[t] => pc[u] # "opening"
    /\ \/ /\ stored.rev = 0
          /\ Propose(t, Successor(stored), NoTicket, "opening")
          /\ UNCHANGED <<opened, snapshot>>
       \/ /\ burned # {}
          /\ Propose(t, attachPublicOutbox([Successor(stored) EXCEPT
                              !.pending = {}, !.burned = @ \cup burned]),
                     NoTicket, "opening")
          /\ UNCHANGED <<opened, snapshot>>
       \/ /\ stored.rev > 0 /\ burned = {}
          /\ opened' = [opened EXCEPT ![Host[t]] = TRUE]
          /\ snapshot' = [snapshot EXCEPT ![Host[t]] = stored]
          /\ UNCHANGED <<pc, next, ticket>>
    /\ UNCHANGED <<store, attempts, signed, outcomes, boot, faults>>

OpenCommit(t) ==
    LET ok == Acceptable(next[t]) /\ stored.rev + 1 = next[t].rev IN
    /\ pc[t] = "opening"
    /\ \/ /\ ok
          /\ Write(next[t], TRUE)
          /\ opened' = [opened EXCEPT ![Host[t]] = TRUE]
          /\ snapshot' = [snapshot EXCEPT ![Host[t]] = next[t]]
          /\ revoked' = revoked \cup Withdrawn(next[t])
          /\ UNCHANGED faults
       \/ /\ IF ok THEN Fault /\ (Write(next[t], FALSE) \/ UNCHANGED store)
                   ELSE UNCHANGED <<store, faults>>
          /\ UNCHANGED <<opened, snapshot, revoked>>
    /\ Return(t)
    /\ UNCHANGED <<signed, returned, used, boot>>

(* A request with grant g starts from its service's cached snapshot.       *)
Begin(t, g) ==
    /\ pc[t] = "idle" /\ opened[Host[t]]
    /\ callPolicy(snapshot[Host[t]], g)
    /\ UNCHANGED <<store, opened, snapshot, attempts, signed, outcomes, boot, faults>>

Apply(t, g, s) ==
    Propose(t, Transaction(s, g), [NoTicket EXCEPT !.grant = g], "apply")

(* The conditions for a new relationship.                                  *)
applyAdoption(s, p, role, phase) ==
    /\ ~\E g \in Grants : /\ Current(s.relationships[g])
                          /\ s.relationships[g].principal = p
    /\ \/ role = "owner" /\ ~hasActiveOwner(s)
       \/ role = "backup-admin" /\ phase = "authorized" /\ hasAuthorizedOwner(s)

(* AdoptDevice creates a relationship, or authorizes a provisional one.    *)
AdoptDevice(t, p, g) ==
    LET s == snapshot[Host[t]] IN
    /\ Begin(t, g)
    /\ \/ \E role \in {"owner", "backup-admin"},
            phase \in {"provisional", "authorized"} :
             /\ applyAdoption(s, p, role, phase)
             /\ Apply(t, g, [Successor(s) EXCEPT !.relationships[g] =
                               [principal |-> p, role |-> role, phase |-> phase]])
       \/ \E r \in Grants :
             /\ s.relationships[r].principal = p
             /\ s.relationships[r].phase = "provisional"
             /\ Apply(t, g, [Successor(s) EXCEPT !.relationships[r].phase = "authorized"])

(* No certificate is bound to a relationship: CertificateRecord's          *)
(* RelationshipID stays empty, so RevokeTrust has none to revoke.          *)
RevokeTrust(t, p, g) ==
    LET s == snapshot[Host[t]] IN
    /\ Begin(t, g)
    /\ requireAuthorizedPrincipal(s, p)
    /\ \E r \in Grants :
          /\ Current(s.relationships[r])
          /\ Apply(t, g, [Successor(s) EXCEPT !.relationships[r].phase = "revoked"])

RevokeCertificate(t, p, g) ==
    LET s == snapshot[Host[t]] IN
    /\ Begin(t, g)
    /\ requireAuthorizedPrincipal(s, p)
    /\ \E n \in s.active :
          Apply(t, g, [Successor(s) EXCEPT !.active = @ \ {n},
                                           !.retired = @ \cup {n}])

ApplyCommit(t) ==
    /\ pc[t] = "apply"
    /\ \/ CommitSucceeds(t) /\ used' = [used EXCEPT ![ticket[t].grant] = @ + 1]
       \/ (CommitConflicts(t) \/ CommitFails(t)) /\ UNCHANGED used
    /\ Return(t)
    /\ UNCHANGED <<opened, signed, returned, boot>>

-----------------------------------------------------------------------------
(* Certificates: a serial is reserved durably, the TPM signs, and the      *)
(* outcome is recorded or the serial burned.                               *)

reserveCertificate(s, k) ==
    [Successor(s) EXCEPT !.nextSerial = @ + 1, !.pending = @ \cup {k}]

(* The part that InitializeLocalCA, IssueLocalMTLSCertificate and Federate *)
(* share, under issueMu.                                                   *)
Reserve(t, g, op, d, gen) ==
    LET s == snapshot[Host[t]]
        k == [grant |-> g, serial |-> s.nextSerial, op |-> op,
              domain |-> d, gen |-> gen]
    IN  /\ Begin(t, g)
        /\ \A u \in Threads : Host[u] = Host[t] => pc[u] \notin Issuing
        /\ s.pending = {}
        /\ s.nextSerial <= MaxSerial
        /\ Propose(t, recordAppliedGrant(reserveCertificate(s, k), g), k, "reserve")

InitializeLocalCA(t, g) ==
    /\ snapshot[Host[t]].ca = 0
    /\ Reserve(t, g, "initialize-ca", None, 0)

IssueLocalMTLSCertificate(t, g) ==
    /\ snapshot[Host[t]].ca # 0
    /\ Reserve(t, g, "issue-mtls-certificate", None, 0)

Federate(t, p, g) ==
    LET s == snapshot[Host[t]] IN
    /\ requireAuthorizedPrincipal(s, p)
    /\ s.ca # 0
    /\ \E d \in Domains, gen \in 1 .. MaxGeneration :
          /\ gen > s.edges[d].gen
          /\ Reserve(t, g, "federate", d, gen)

(* Mutant: a reservation whose commit failed is used all the same.         *)
ReserveCommitUnchecked(t) ==
    /\ pc[t] = "reserve"
    /\ \/ CommitSucceeds(t) /\ used' = [used EXCEPT ![ticket[t].grant] = @ + 1]
       \/ (CommitConflicts(t) \/ CommitFails(t)) /\ UNCHANGED used
    /\ Goto(t, "sign") /\ UNCHANGED attempts
    /\ UNCHANGED <<opened, signed, returned, boot>>

ReserveCommit(t) ==
    /\ pc[t] = "reserve"
    /\ \/ /\ CommitSucceeds(t)
          /\ used' = [used EXCEPT ![ticket[t].grant] = @ + 1]
          /\ Goto(t, "sign") /\ UNCHANGED attempts
       \/ /\ CommitConflicts(t) \/ CommitFails(t)
          /\ Return(t) /\ UNCHANGED used
    /\ UNCHANGED <<opened, signed, returned, boot>>

(* The TPM signs; an error may hide a certificate that has been signed.    *)
Sign(t) ==
    LET more == [signed EXCEPT ![ticket[t].serial] = @ + 1] IN
    /\ pc[t] = "sign"
    /\ \/ signed' = more /\ Goto(t, "finalize") /\ UNCHANGED faults
       \/ signed' \in {signed, more} /\ Goto(t, "burn") /\ Fault
    /\ UNCHANGED <<store, opened, snapshot, attempts, outcomes, boot>>

(* The finalizer's own check, and what it records.                         *)
Applicable(s, k) ==
    /\ k.op = "initialize-ca" => s.ca = 0
    /\ k.op = "federate" => k.gen > s.edges[k.domain].gen

Recorded(s, k) ==
    LET done == [Successor(s) EXCEPT !.pending = @ \ {k}] IN
    CASE k.op = "initialize-ca" -> [done EXCEPT !.ca = k.serial]
      [] k.op = "issue-mtls-certificate" -> [done EXCEPT !.active = @ \cup {k.serial}]
      [] k.op = "federate" ->
            [done EXCEPT !.edges[k.domain] = [gen |-> k.gen, serial |-> k.serial],
                         !.retired = @ \cup ({s.edges[k.domain].serial} \ {0})]

FinalizePending(t) ==
    LET s == snapshot[Host[t]]
        k == ticket[t]
    IN  /\ pc[t] = "finalize"
        /\ \/ /\ k \in s.pending /\ Applicable(s, k)
              /\ Propose(t, attachPublicOutbox(Recorded(s, k)), k, "finalizing")
              /\ UNCHANGED <<attempts, faults>>
           \/ /\ IF k \in s.pending /\ Applicable(s, k) THEN Fault ELSE UNCHANGED faults
              /\ Goto(t, "burn")
              /\ attempts' = [attempts EXCEPT ![t] = 0]
        /\ UNCHANGED <<store, opened, snapshot, signed, outcomes, boot>>

FinalizeCommit(t) ==
    /\ pc[t] = "finalizing"
    /\ \/ CommitSucceeds(t) /\ returned' = returned \cup {ticket[t].serial} /\ Return(t)
       \/ CommitConflicts(t) /\ Retry(t, "finalize", "burn") /\ UNCHANGED returned
       \/ /\ CommitFails(t) /\ Goto(t, "burn") /\ UNCHANGED returned
          /\ attempts' = [attempts EXCEPT ![t] = 0]
    /\ UNCHANGED <<opened, signed, used, boot>>

(* Mutant: the reservation is dropped and the serial forgotten.            *)
BurnedForgotten(s, k) == [Successor(s) EXCEPT !.pending = @ \ {k}]

Burned(s, k) ==
    [Successor(s) EXCEPT !.pending = @ \ {k}, !.burned = @ \cup {k.serial}]

(* burnPending; if it fails too, the intent stays until the next Open.     *)
BurnPending(t) ==
    LET s == snapshot[Host[t]]
        k == ticket[t]
    IN  /\ pc[t] = "burn"
        /\ \/ /\ k \in s.pending
              /\ Propose(t, attachPublicOutbox(Burned(s, k)), k, "burning")
              /\ UNCHANGED <<attempts, faults>>
           \/ /\ IF k \in s.pending THEN Fault ELSE UNCHANGED faults
              /\ Return(t)
        /\ UNCHANGED <<store, opened, snapshot, signed, outcomes, boot>>

BurnCommit(t) ==
    /\ pc[t] = "burning"
    /\ \/ CommitSucceeds(t) /\ Return(t)
       \/ /\ CommitConflicts(t)
          /\ IF attempts[t] + 1 < MaxRetries THEN Retry(t, "burn", "burn") ELSE Return(t)
       \/ CommitFails(t) /\ Return(t)
    /\ UNCHANGED <<opened, signed, returned, used, boot>>

-----------------------------------------------------------------------------
(* DrainOutbox, with a publisher that has accepted the item (see module    *)
(* TrustPublication for the publisher).                                    *)
DrainOutbox(t) ==
    LET s == snapshot[Host[t]] IN
    /\ pc[t] = "idle" /\ opened[Host[t]]
    /\ \A u \in Threads : Host[u] = Host[t] => pc[u] # "draining"
    /\ \/ /\ s.outbox # NoItem
          /\ Propose(t, [Successor(s) EXCEPT !.outbox = NoItem,
                                             !.published = s.outbox.withdrawn],
                     NoTicket, "draining")
       \/ s.outbox = NoItem /\ UNCHANGED <<pc, next, ticket>>
    /\ UNCHANGED <<store, opened, snapshot, attempts, signed, outcomes, boot, faults>>

DrainCommit(t) ==
    /\ pc[t] = "draining"
    /\ CommitSucceeds(t) \/ CommitConflicts(t) \/ CommitFails(t)
    /\ Return(t)
    /\ UNCHANGED <<opened, signed, returned, used, boot>>

Crash(h) ==
    /\ opened[h] \/ \E t \in Threads : Host[t] = h /\ pc[t] # "idle"
    /\ Fault
    /\ opened' = [opened EXCEPT ![h] = FALSE]
    /\ snapshot' = [snapshot EXCEPT ![h] = emptySnapshot]
    /\ pc' = [t \in Threads |-> IF Host[t] = h THEN "idle" ELSE pc[t]]
    /\ next' = [t \in Threads |-> IF Host[t] = h THEN emptySnapshot ELSE next[t]]
    /\ ticket' = [t \in Threads |-> IF Host[t] = h THEN NoTicket ELSE ticket[t]]
    /\ attempts' = [t \in Threads |-> IF Host[t] = h THEN 0 ELSE attempts[t]]
    /\ UNCHANGED <<store, signed, outcomes, boot>>

PowerLoss ==
    /\ boot < MaxBoots
    /\ boot' = boot + 1
    /\ \E s \in survivors : stored' = s /\ survivors' = {s}
    /\ opened' = [h \in Services |-> FALSE]
    /\ snapshot' = [h \in Services |-> emptySnapshot]
    /\ pc' = [t \in Threads |-> "idle"]
    /\ next' = [t \in Threads |-> emptySnapshot]
    /\ ticket' = [t \in Threads |-> NoTicket]
    /\ attempts' = [t \in Threads |-> 0]
    /\ UNCHANGED <<signed, outcomes, faults>>

Init ==
    /\ stored = emptySnapshot
    /\ survivors = {emptySnapshot}
    /\ opened = [h \in Services |-> FALSE]
    /\ snapshot = [h \in Services |-> emptySnapshot]
    /\ pc = [t \in Threads |-> "idle"]
    /\ next = [t \in Threads |-> emptySnapshot]
    /\ ticket = [t \in Threads |-> NoTicket]
    /\ attempts = [t \in Threads |-> 0]
    /\ signed = [n \in Serials |-> 0]
    /\ returned = {} /\ revoked = {}
    /\ used = [g \in Grants |-> 0]
    /\ boot = 1 /\ faults = 0

Request(t) ==
    \E g \in Grants :
        \/ InitializeLocalCA(t, g) \/ IssueLocalMTLSCertificate(t, g)
        \/ \E p \in Principals : \/ AdoptDevice(t, p, g) \/ RevokeTrust(t, p, g)
                                 \/ RevokeCertificate(t, p, g) \/ Federate(t, p, g)

Step(t) ==
    \/ OpenLoad(t) \/ OpenCommit(t) \/ ApplyCommit(t) \/ ReserveCommit(t)
    \/ Sign(t) \/ FinalizePending(t) \/ FinalizeCommit(t)
    \/ BurnPending(t) \/ BurnCommit(t) \/ DrainOutbox(t) \/ DrainCommit(t)

Next ==
    \/ \E t \in Threads : Request(t) \/ Step(t)
    \/ \E h \in Services : Crash(h)
    \/ PowerLoss

Spec == Init /\ [][Next]_vars

-----------------------------------------------------------------------------
(* Properties.                                                             *)

(* Types; no revision or serial passes its limit.                          *)
TypeOK ==
    /\ \A s \in survivors \cup {stored} : s \in Snapshots /\ s.rev <= MaxRevision
    /\ opened \in [Services -> BOOLEAN]
    /\ \A h \in Services : snapshot[h] \in Snapshots
    /\ pc \in [Threads -> PCs]
    /\ \A t \in Threads : next[t] \in Snapshots /\ ticket[t] \in Tickets
    /\ attempts \in [Threads -> 0 .. MaxRetries - 1]
    /\ returned \in SUBSET Serials /\ revoked \in SUBSET Serials
    /\ boot \in 1 .. MaxBoots /\ faults \in 0 .. MaxFaults

(* The CA never signs two certificates with one serial, whatever crashes,  *)
(* conflicts between services, retries and power losses come in between.   *)
SerialSignedOnce == \A n \in Serials : signed[n] <= 1

Issued(s) == ({s.ca} \cup s.active \cup CrossSerials(s)) \ {0}

(* The comment on PendingCertificate: a failed or uncertain operation is   *)
(* removed only after its serial is burned.  Whatever has been signed is   *)
(* in force, withdrawn or pending in every snapshot a power loss leaves:   *)
(* no certificate exists that the device does not know about.              *)
SignedIsAccounted ==
    \A n \in Serials : signed[n] > 0 =>
        \A s \in survivors :
            n \in Issued(s) \cup Withdrawn(s) \cup {p.serial : p \in s.pending}

(* A certificate that was handed to the caller was recorded durably, and   *)
(* its serial is never burned, by its own request or by another service's  *)
(* Open.                                                                   *)
ReturnedIsRecorded ==
    \A s \in survivors : returned \subseteq Issued(s) \cup s.retired

(* What a device says of its certificates is complete: no serial is signed *)
(* twice, no signed certificate is forgotten and none that was handed out  *)
(* is taken back by a burn, with two services on one store.                *)
CertificatesAccounted == SerialSignedOnce /\ SignedIsAccounted /\ ReturnedIsRecorded

(* A confirmed revocation is final: no power loss and no concurrent        *)
(* request brings the certificate back.                                    *)
RevocationSticks ==
    \A s \in survivors \cup {stored} : revoked \subseteq Withdrawn(s) \ Issued(s)

(* Every revoked or burned serial is in the snapshot that waits in the     *)
(* outbox or, when the outbox is empty, in the one published last.         *)
WithdrawalsReachOutbox ==
    \A s \in survivors \cup {stored} :
        Withdrawn(s) = IF s.outbox = NoItem THEN s.published ELSE s.outbox.withdrawn

(* A grant succeeds at most once (ErrReplay), also when two requests hold  *)
(* it at the same time or a service works on a stale snapshot.             *)
GrantUsedOnce == \A g \in Grants : used[g] <= 1
=============================================================================
