# A verification project for sovereignite

TLA+ models of the parts of sovereignite that keep state and must stay correct
through crashes, failed syncs, power loss, concurrent processes, cancellation,
stale caches and retries. TLC checks them on small instances; TLAPS proves
every safety invariant, action property and refinement that the runs check,
for every size. `PROJECT.json` maps each definition to the lines it models and
lists runs, mutants, hazards, findings and theorems.

```
tlc -workers 2 -config MCBootstrap.cfg MCBootstrap     # one run
tlapm TrustServiceProofs.tla                           # one module of proofs
```

## 1. The system

sovereignite is a Go program for a device that owns its identity: a TPM holds
the keys, a set of local services provision and use them, and a Kubernetes
cluster is started on top. The services are separate processes that talk over
gRPC on local sockets; each keeps its own state file, and every state file is
replaced in the same way (write and sync a temporary file, rename it over the
old one, sync the directory), with a revision number as compare-and-swap token.

| component | state | operations | talks to |
|---|---|---|---|
| bootstrap coordinator (`internal/bootstrap`) | journal file, `prepared.json` | StartBootstrap, GetStatus | the step dependencies (CA, Calico, SPIRE, ...), systemd (through `prepared.json`) |
| Trust service (`internal/trust/service.go`) | one revisioned snapshot: relationships, serials, intents, edges, outbox | Open, InitializeLocalCA, AdoptDevice, RevokeTrust, certificate issue and revocation, Federate, DrainOutbox | policy, key manager (signatures), snapshot builder, publisher, store |
| Trust store (`internal/trust/store.go`) | state file, revision anchor, lock file | Load, Commit | file system |
| IPFS publisher (`internal/ipfs/publisher.go`, `record.go`, `state.go`) | publication state: last, pending, high sequence | Publish | Kubo, the IPNS network, the clock, Trust (receipts) |
| key manager (`internal/keymanager`, `internal/tpm`) | metadata file; persistent TPM objects | Open, EnsureRole/Initialize, Metadata, Rotate, ReconcileRetiring, IssueCertificate, the rotation scheduler | TPM, certificate policy |
| IPFS service (`internal/ipfs/service.go`) | lease, readiness file, Kubo node | StartService, Run, Close, the Kubo monitor | Kubo, publisher |
| libp2p-init (`internal/libp2p`) | runtime lease, write-once identity record, both hostnames, endpoint record | Start, Initialize, Run, Close | TPM, hostname1 over D-Bus |
| discovery (`internal/discovery`) | service state, two registrations | Start, Stop, ForwardAdoption | mDNS, BlueZ, Trust |
| shipcrew controller (`internal/shipcrew/controller`) | custom resources, in-memory runner registry | three reconcilers | Kubernetes API, model backends |
| TPM certificate signers (`controllers/k8s-tpm-csr-signer`, `tpm-cluster-issuer`) | CSRs, certificate requests, policies | a polling pass: load, list, approve, sign, patch | Kubernetes API, TPM keys |
| SPIRE key manager plugin and its controller (`controllers/spire-*`) | none of their own | key operations on the token; a status patch per object | PKCS#11, Kubernetes API |
| endpoint (`internal/endpoint`) | endpoint record per service | Publish, Validate, Cleanup | file system; no package imports it yet |
| mTLS, shared identity, hotspot configuration, key validation | none of their own | pure checks and encodings | - |
| commands, gRPC API, deployment | wiring, generated code, YAML | - | - |

How they interact. Trust asks the key manager for every signature and the
publisher for every publication; an item stays in Trust's outbox until the
publisher returns a receipt for it. The coordinator drives the dependencies
through idempotency keys and tells systemd through `prepared.json` that
Kubernetes may start. No two components share a file; within one component
several processes do (a restarted service beside the old one, a CLI beside a
daemon), and Trust and the key manager also serve concurrent requests.

What is hard, and what would be wrong:

* **Bootstrap**: an action repeated under another transaction, a step counted
  as done that is not, a stale readiness file, an update lost between two
  coordinators, a document that validation refuses for ever.
* **Trust**: a serial signed twice or forgotten, a revocation undone or missing
  from the published snapshot, a grant used twice, a decision taken on a
  snapshot that has changed, a store that refuses its own state or accepts an
  older one.
* **Publisher**: a sequence reused for other content, an older Trust state
  winning over a newer one, an unpinned root announced, an outbox that is never
  drained.
* **Key manager**: a key in the TPM that no metadata names, metadata that names
  a key that is gone, another identity after a crash, someone else's object
  evicted, a certificate signed by another key than the one approved.
* **Local services**: a device that gets a second name, a service that is
  announced as ready before it is, a process that removes the endpoint or
  readiness record of its successor, a record that advertises a dead node, a
  registration that is left behind when a start is cancelled half way.
* **Cluster controllers**: a run executed again from a stale cache, an outcome
  taken back, a run that never ends, a ready crew without a runner; a
  certificate replaced, an approver's decision undone by a patch made from an
  old list, a refused request that starves the others.

`PROJECT.json`, "hazards", has the list line by line.

## 2. Modules

| module | models | lines it rests on |
|---|---|---|
| `Bootstrap` | coordinators, journal store, readiness publisher, GetStatus | `cluster.go`, `journal.go`, `readiness.go` |
| `BootstrapTransaction` | abstract: one transaction whose ordered steps are done one by one and never undone | - |
| `BootstrapProofs` | theorems about `Bootstrap`, and that it implements `BootstrapTransaction` | - |
| `TrustStore` | FileStore with state file, anchor, lock and syncs | `store.go` |
| `RevisionedStore` | abstract: one document that advances by whole revisions and loses only what was never confirmed | - |
| `TrustStoreProofs` | theorems about `TrustStore`, and that it implements `RevisionedStore` | - |
| `TrustService` | services, concurrent requests, serial accounting, edges, outbox | `service.go`, `types.go`, `pki.go` |
| `TrustServiceProofs` | theorems about `TrustService` | - |
| `IpfsPublisher` | Publish and its state file | `publisher.go`, `record.go`, `state.go` |
| `IpfsPublisherProofs` | theorems about `IpfsPublisher` | - |
| `TrustPublication` | composition: Trust's outbox and DrainOutbox with `IpfsPublisher` | `service.go`, `public.go` |
| `TrustPublicationProofs` | theorems about the composition, on top of `IpfsPublisherProofs` | - |
| `KeyManager` | all Manager operations, the TPM's persistent objects, the metadata store | `manager.go`, `store.go`, `certificate.go`, `rotation.go`, `gotpm.go` |
| `KeyManagerProofs` | theorems about `KeyManager` | - |
| `Libp2pInit` | processes that pin the identity, name the device and serve | `libp2p/service.go`, `state.go`, `identity.go`, `hostname.go` |
| `IpfsService` | instances of the IPFS service, their lease and readiness record | `ipfs/service.go` |
| `Discovery` | the one operation in progress, both registrations, the shutdown goroutine | `discovery/service.go`, `mdns.go`, `ble.go` |
| `LocalServicesProofs` | theorems about `Libp2pInit`, `IpfsService` and `Discovery` | - |
| `ShipCrew` | API server, informer caches, work queue, three reconcilers, runner registry | `shipcrew/controller/reconciler.go` |
| `TpmSigners` | one pass of either signer against approvers and administrators | both `main.go`, `signing.go`, `kubeapi/client.go` |
| `ClusterControllersProofs` | theorems about `ShipCrew` and `TpmSigners` | - |
| `MCLocalServices` | `Libp2pInit`, `IpfsService` and `Discovery`, which share no state, checked in one run | - |
| `MCClusterControllers` | `ShipCrew` and `TpmSigners`, likewise | - |
| other `MC*` | constants, symmetry sets | - |

Conventions shared by all models:

* **Durability.** `survivors` is the set of documents that a power loss could
  leave. A rename whose directory sync succeeds makes it a singleton; one whose
  sync fails adds the new document to it. PowerLoss picks a member, clears all
  process state and increments `boot`. In `TrustStore`, where two files share a
  directory, `survivors` holds versions of the whole directory: renames are
  assumed to reach the disk in order, as on a journalling file system.
* **Faults.** `faults` counts errors and crashes and is bounded by `MaxFaults`;
  each action of the code has its error outcomes as disjuncts, including "it
  failed after it took effect" for calls to dependencies, the TPM and the
  network.
* **Granularity.** One action per stretch of code between two points where
  another process, a crash or a failing call can come in between. Saves are one
  action each in `Bootstrap`, `IpfsPublisher` and `KeyManager` (the revision
  comparison and the rename run under a file lock); in `TrustStore`, which is
  about the inside of Save, renames and syncs are separate actions.
* **Data.** Certificates are their serials, keys their numbers, snapshots their
  Trust revision and digest, evidence the fact that a result exists. Timestamps
  are modelled only where a decision depends on them (record freshness).

Correspondence, component by component:

*Bootstrap.* `journal` is the file, `local[c]` the journal variable of
StartBootstrap, `pc[c]` the place in it: load, initialize, verify the committed
prefix, publish `prepared.json`, begin the attempt (the durable intent), execute
(`calls[c]` counts the dependency calls made in the step), check, commit,
save the failure. `effects` are results outside the
journal, each under the key that idempotencyKey derives from transaction and
step; the model writes the configuration's digest beside it, since a result
made for another configuration must not pass as verified. `readiness` is the boot recorded in `prepared.json`.

*TrustStore.* `disk.state` and `disk.anchor` are the two files; Load runs the
rollback verdict of readLocked and repairs a trailing anchor; Commit compares
revisions, replaces the state, syncs, replaces the anchor, syncs.

*TrustService.* `stored`/`survivors` are the store, abstracted as
`RevisionedStore` justifies; `snapshot[h]` is a service's cache; `next[t]`,
`ticket[t]`, `attempts[t]` are the locals of a request. Each request copies the
cache, computes without a lock and offers `next[t]` to commitCandidate.
Issuing reserves a serial durably, signs, then records (finalize) or withdraws
(burn) it; Open burns what it finds pending.

*IpfsPublisher.* `base[c]` is the state a call has loaded. The steps are:
import and pin, prepare the record under the next sequence, hand it to the
network, complete. `network` is every record ever handed over.

*TrustPublication.* Extends `IpfsPublisher` with Trust's revision, outbox,
last acknowledged sequence and reservations. A public transaction
(`LocalTransaction`, `finalizePending`, and Open when it burns reservations)
replaces the item in the outbox; Open's binding of the identity and
`reserveCertificate` advance the revision and leave the outbox alone, so
`publicRev`, the revision of the last public snapshot, is a variable of its own.
Each start of a process (`Open`) runs DrainOutbox once: it reads the state,
offers the item to Publish, removes it if the revision has not changed
meanwhile, reads again, and returns when the outbox is empty or at the first
error; the service then serves on without a drain until it is stopped (`Exit`)
and started again. `calm[c]` remembers whether anything has disturbed process
`c` since it started.

*KeyManager.* `objects` is the TPM; `file` the metadata; `snapshot[c]` the
manager's copy, reloaded in every operation. An operation begins under the lock
by verifying the file against the TPM, adopting or forgetting pending creations
and evicting retiring keys. A creation is recorded as pending, made persistent,
then activated. `captured[c]` is what the first half of IssueCertificate, or
dueRoles, has read before releasing the lock.

*Libp2pInit.* `proc[p].pc` is the place of a process in Start or Initialize
(without `serving`). `record` and `recordSurvivors` are the state file, linked
into place and synced afterwards; `tpmKey` is what the handle holds and may be
provisioned anew. `endpoint[d]` and `lease[d]` belong to a directory, because
the code anchors the runtime directory and another one may be put at its path.
removeIfOwnedFileMatches is two steps, the comparison and the removal.

*IpfsService.* As above for the lease; the readiness file has the same bytes
whoever wrote it, so `readyFile[d]` is "live" or "stale" only for the
properties. `kubo` is the node of an instance; it may die at any step.

*Discovery.* operationMu admits one operation, `broadcastOp`, whose context may
end between any two of its calls. `mdnsServer` and `bleSession` are what is
really registered, `mdnsHandle` and `bleHandle` what the service remembers.

*ShipCrew.* `api[o]` is the stored object with its resource version, `cache[o]`
the informer's copy, `job[k]` the copy a reconciler works on. An update is
written only at the version that was read; it may be refused, or written and
not answered. A specification is good, bad or gone.

*TpmSigners.* `pass.seen` is the list a pass works through. The two signers
differ in approving, in how they patch and in what the API server protects;
`signer` chooses one.

## 3. Runs

| run | configuration | states | what it shows |
|---|---|---|---|
| `bootstrap` | two coordinators, two configurations, three steps (one prerequisite, one apply step of two components), two faults, one power loss | 600 000 | a revision stands for one content; intents before actions; only verified steps committed and published; no document refused as invalid; implements `BootstrapTransaction` |
| `bootstrap_nine` | the nine real steps, five components, one coordinator, two faults, one reboot | 120 000 | liveness: completes; readiness is published again after a reboot |
| `trust_store` | two processes, four revisions, three faults, two reboots, one restored file | 720 000 | recovers from its own interruptions; no reader goes back; implements `RevisionedStore` |
| `trust_service` | one service, two requests, three serials, two generations | 670 000 | revocation is final and reaches the outbox |
| `trust_shared` | two services on one store, two principals, a reboot | 770 000 | a serial is signed once, accounted for, and recorded if it was returned; a grant is used once |
| `ipfs_publisher` | two processes, two snapshots per revision, failing syncs, a moving clock, a reboot | 1 800 000 | newer Trust states have higher sequences; high-water mark covers the network; only pinned roots are announced |
| `ipfs_sync` | one process, a failed sync, a reboot | - | divergence: a sequence is reused |
| `trust_publication` | six Trust revisions, an error or crash, two failed directory syncs, a power loss, a clock that moves and is set back | 490 000 | what Trust has recorded is on the network and below the publisher's high-water mark; an empty outbox means the network has the last public snapshot; the drain of an undisturbed start empties the outbox, but for four named situations |
| `trust_supersede` | six Trust revisions, one fault, restarts for ever | - | defect: a superseded, prepared publication blocks the outbox |
| `keymanager` | two processes, a lifetime identity and a CA with two handles, four keys, two faults, one foreign object, one power loss | 290 000 | metadata and TPM can be reconciled; no orphaned key; the identity is for ever; the approved key signs; an operation that ends without a fault leaves nothing of interrupted ones behind |
| `local_services` | libp2p-init: two processes, two keys, two directories, three faults; IPFS: two instances, two directories, two faults; discovery: two servers, one session, unbounded cancellations and restarts | 160 000 | one name for life; ready means complete; endpoint and readiness records are kept while their owner runs and withdrawn when Kubo dies; no registration is forgotten, and what is stopped ends |
| `cluster_controllers` | ShipCrew: a backend, a crew and a run, one edit, one fault; signers: either one, two requests, one policy edit, one fault | 640 000 | outcomes are final, executions have a cause, runs finish, ready crews have runners; certificates are written once, decisions kept, approved requests signed |

**Why the bounds are enough.** The hazards take two actors, one or two faults
and one power loss: a write of one, a step of the other in between, a failure
and a recovery. All documents matter only through their revision order and
whether two are equal, so a few revisions, two digests and two values
suffice. Three steps contain a prerequisite, an apply step with more than one
call and the final step; `bootstrap_nine` has the real numbers. Counters
(attempts, revisions, sequences, serials, generations) have limits
small enough to be reached, so that the checks at their maximum fire. In `trust_publication` the
sequence and revision limits are, on the contrary, large enough never to be
reached, because a full counter does block the outbox. Three faults in
libp2p-init are what it takes to lose an unsynced identity record and provision
another key; two mDNS servers let one still shut down while the
next is up. Deadlock is checked in every run but `cluster_controllers`, whose
controllers may rest when all runs are over.

**Symmetry** is used on processes and on values that the code only compares for
equality, and only in runs without liveness properties.

**Fairness.** `bootstrap_nine`: StartBootstrap is called by a gRPC client again
after each error and the unit restarts on failure, so weak fairness of the call
and of its steps; one coordinator only, since two could keep failing each
other's Save. `trust_publication`: a drain that has been started goes on, since
it is a goroutine of a process that is up, so weak fairness of its steps and of
nothing else. The code starts it once per process (`cmd/trust/main.go:175-179`):
nothing starts the service again, runs a transaction or lets time pass.
`trust_supersede` assumes more than that, a service that is stopped and started
again for ever, and the outbox is still not drained. `local_services`: a started IPFS instance and a discovery operation in
progress keep running their goroutines; nobody has to start, cancel or stop
one. `cluster_controllers`: controller-runtime delivers watch events and its
workers take what is queued (strongly fair for a run, since another object may
occupy the worker again and again), and the signers' main loops poll for ever.
Faults are finite in all of them; nothing is assumed about their order.
`keymanager` assumes no fairness: `cmd/keymanager` opens the manager once and
waits, and no program constructs the rotation scheduler, so nobody has to call
an operation. What is checked is what an operation has done when it returns.

**Mutants.** Each checked property has a mutant: a definition changed the way a
plausible bug would change the code (a sync error ignored, a comparison
dropped, a step reordered), under which TLC finds the property violated.

### Findings

1. `ipfs_sync`: after a failed directory sync the next Publish sends the pending
   record without making it durable; a power loss then lets its sequence be used
   again, which a comment in `ipfs/state.go` rules out.
2. `trust_supersede`: "the newest local transaction safely supersedes older
   pending snapshots" (`trust/service.go:1079-1083`) - but the publisher refuses
   everything except the pending one, which Trust no longer offers.

### Observations

Met while modelling, and either visible in an exception that a property makes or
outside the model; no run is spent on them.

* GetStatus "reports only durable state" (`cluster.go:269`), but it reports what
  Load sees, also after a failed directory sync.
* A readiness record may be published again from a journal that is visible
  but not synced, while `readiness.go:20-21` speaks of a durably verified one.
  The results it stands for exist all the same (`PreparedSound`).
* Trust drains its outbox once per start. A snapshot that is committed after
  that drain has returned, or whose publication fails, waits for the next start.
* `UndisturbedDrainEmpties` names the four situations in which the drain of an
  undisturbed start does not help; each of them is needed. `Superseded` is
  finding 2. `StaleReplay`: a replay of a completed publication is refused once
  its record has become stale, and nothing refreshes a completed record
  (`publisher.go:137`). `ClockBehind`: the clock is behind the completed
  record, or a pending record is from another time. `SequenceLost`: the syncs
  of both the prepared and the completed record fail, Trust records the
  replayed sequence, and a power loss takes both commits back; the publisher
  then issues the same sequence once more and Trust refuses the receipt.
* Key manager: an activation that is visible but not synced lets the next
  operation evict the old key; if a power loss then brings the older metadata
  back, its active key is gone and Open fails (the exception in `Recoverable`).
  The default policy gives the device root CA the purpose "signing", while
  IssueCertificate demands "certificate-authority".
* libp2p-init: ensureIdentityState accepts a record that another process has
  linked but not synced, so a power loss can take an identity away after the
  device was named after it (the exception in `IdentityForLife`).
* IPFS service: after a kill the readiness record stays until the next start or
  boot.
* Discovery: StateStopped "means neither discovery mechanism is registered"
  (`service.go:29`), but Stop also sets it when it has stopped waiting for the mDNS
  server, which is then still shutting down; `StoppedDrains` says that this ends.
  An advertisement that BlueZ releases is not registered again.
* ShipCrew: a crew's Ready condition is not revised when its backend changes
  (no watch leads from one to the other), and a run that is reconciled before
  its crew after a restart fails for good, since the registry is still empty.
* Signers: a certificate is issued for a request that was denied after the list
  was read. An issuer that asks for no approval and has listed a request
  without conditions sets the whole list (`main.go:268-273`) and drops a decision made
  meanwhile: `SetsConditions`, the one step that `DecisionKept` excepts.
  `signedRequests` is counted from the listed value and loses counts.

## 4. Proofs

Every safety invariant, every action property and both refinements that the
passing runs check are theorems: they hold for every value of the constants,
not only for the instances of §3. The only hypotheses are the `ASSUME`s of the
modules: a placeholder is none of the values it stands beside, bounds are
natural numbers, the step numbers are in range, a lifetime role has one handle
and any other at least two, no two pools share a handle (as `validatePolicies`
demands). Two go beyond that: `Libp2pInit` has finitely many processes and
directories, so that a fresh nonce exists, and `TrustPublication` takes its
content from `Digests`.

None of the properties is inductive as it stands. Each module has one
inductive invariant, a conjunction of named parts that TLC has checked on the
module's run before it was proved, and a theorem `...Invariance`; the
properties follow from it.

| module | theorem | property |
|---|---|---|
| `BootstrapProofs` | `TypeCorrect` | the type invariant, with all counters below their limits |
| | `NoLostUpdate` | `RevisionIdentifiesContent`: equal revisions mean equal content, so Save's comparison is enough |
| | `MovesForward` | each write is one revision of the same transaction with at most one step more |
| | `IntentFirst` | `IntentBeforeAction`: every external result is recorded in every journal a power loss could leave |
| | `CommittedVerified` | `CommittedStepsVerified`: every step counted as done has its results |
| | `PreparedIsSound` | `PreparedSound`: a readiness record of this boot is backed by the committed prerequisites |
| | `CompleteVerified` | a reported "complete" is true |
| | `NeverRefused` | `NeverRefusedAsInvalid`: validateJournal never refuses what the coordinator itself built |
| | `Refinement` | `ImplementsTransaction` |
| `TrustStoreProofs` | `AlwaysRecoverable` | `Recoverable` |
| | `ReadsNeverGoBack` | `MonotonicReads` |
| | `Refinement` | `ImplementsStore` |
| `TrustServiceProofs` | `GrantsUsedOnce` | `GrantUsedOnce` |
| | `RevocationsFinal` | `RevocationSticks` |
| | `WithdrawalsPublished` | `WithdrawalsReachOutbox` |
| | `CertificatesKnown` | `CertificatesAccounted` |
| `IpfsPublisherProofs` | `NoNetworkRollback` | `NewerStateNewerSequence` |
| | `HighWaterHolds` | `HighWaterCoversNetwork` |
| | `PinnedFirst` | `PublishedIsPinned` |
| `TrustPublicationProofs` | `NothingAcknowledgedLost` | `AcknowledgedIsPublished`: its second half with at most one failed sync |
| | `DrainedMeansPublished` | `DrainedIsCurrent`, while `Intact` |
| `KeyManagerProofs` | `AlwaysReopens` | `Recoverable` |
| | `NoKeyOrphaned` | `NoOrphans` |
| | `IdentityKept` | `IdentityIsForever` |
| | `ApprovedKeySigns` | `SignerUnchanged` |
| | `NothingLeftOver` | `LeftoversCleared` (action property) |
| `LocalServicesProofs` | `RegistrationsOwned` | `NoOrphanRegistration` |
| | `ReadinessKept` | `ReadinessHeld` |
| | `ReadyComplete` | `ReadyIsComplete` |
| | `OneName` | `IdentityForLife` |
| | `EndpointSafe` | `EndpointKept` (action property) |
| `ClusterControllersProofs` | `RunsNotRepeated` | `ExecutionsJustified` |
| | `ReadyCrewHasRunner` | `ReadyHasRunner` |
| | `OutcomeIsFinal` | `TerminalIsFinal` (action property) |
| | `CertificateKept` | `CertificateWriteOnce` (action property) |
| | `DecisionsSurvive` | `DecisionKept` (action property) |

### The arguments

*Bootstrap.* `Inv == TypeInv /\ DiskInv /\ \A c : ProcessInv(c)`: every
journal on disk, now or after a power loss, was accepted by validateJournal;
each process's copy is valid, no newer than the file and equal to it at equal
revisions; inside a step every survivor records that step's intent; and a step
about to be committed is verified. The compare-and-swap is the crux:
`WritesMove` shows that what Save writes was built from the very document it
replaces, because the revision comparison and `ProcessInv` together make the
two equal. `BystanderKept` then shows that another process's write leaves a
process's own invariant intact, and `IntentKept` that intents, once durable,
stay so in all survivors. Some theorems need a second induction on what the
effects and the readiness record say (`EffectsGrow`). The refinement reads the
abstract progress off the oldest survivor, which a failed sync may leave
behind the file. `SurvivorInv` says that the survivors have distinct
revisions, that there is an oldest, and that none is more than one step ahead
of it; so a sync or a power loss moves the abstract transaction by one step at
most, and never back.

*TrustStore.* While a process holds the lock, its place in Load or Commit says
what the two files are: settled (the anchor is that of the state) or the state
one revision ahead (`Position`). The anchor is never behind what was vouched
for in this boot, and no surviving anchor behind a confirmed commit
(`AnchorInv`); so a restored file is refused or is new enough. In the
refinement a rename is an advance, a sync settles, and everything between is a
stutter.

*TrustService.* Compare-and-swap lets a request write only a snapshot derived
from the stored one, and no derivation takes anything back. `Extends(s, n)`
says the second part (applied grants, withdrawn serials, accounted serials and
issued certificates only grow) and is proved once for each derivation of
`service.go`. The first part is `ProposalInv`: what a request offers at the
revision after the stored one extends the stored snapshot, because with
`CacheInv` a service's copy at the stored revision is the stored snapshot.
`DiskInv` then carries every promise (`used`, `revoked`, `signed`, `returned`)
in all survivors, and `TicketInv` keeps two requests from holding one serial.
That nobody else burns a serial that is being signed is not assumed; a
certificate whose reservation another service's Open has burned is never
returned, since finalizing then finds no reservation.

*IpfsPublisher.* `HistoryInv` speaks of more than the network: of every record
that is published, stored or held in a local variable of any Publish
(`Issued`). All are below the high-water mark and ordered as their Trust
revisions are, so handing any of them over, late or twice, changes nothing.
The order holds while `Intact` (no power loss has followed a failed sync),
which is the exact condition: run `ipfs_sync` shows it broken without.
`BaseInv` is again compare-and-swap, and holds always, since a power loss ends
every call.

*TrustPublication.* `OutboxInv` says that the outbox holds the last public
snapshot or nothing, and that what a drain holds is the current item as long as
the revision it read is current. `DrainInv` relates the four places where one
publication may be: outbox, a drain's local copy, the publisher's pending and
completed record, the network. A drain that will empty the outbox, because
Trust's revision is still the one it read, has a receipt for the state's
completed record. It holds while `Intact`, and so does `DrainedMeansPublished`.
For `NothingAcknowledgedLost` that is not enough, since it is about what a power
loss would leave: `MarkInv` says that one failed sync puts only one commit at
risk. If that was the commit of a new record, nobody knows its sequence yet, and
the commit of its completion is durable or the second failure; if it was the
completion, the high-water mark of the older state already covers the sequence. With two failed
syncs it fails (`SequenceLost`). `TrustInv` contains `IpfsPublisherProofs!Inv`,
whose step lemmas are reused since the composition's publish steps are the
publisher's own.

*KeyManager.* TPM and file cannot change together, so the invariant says how
they may differ: all surviving metadata is valid, names every key of ours in
the TPM and keeps the identities handed out (`DiskInv`); the TPM bears out the
file, except for what the next operation repairs (`RepairInv`); and the
operation that holds the lock knows what is in the file, has evicted exactly
the retiring keys its copy lacks, and creates a key only while nothing else is
pending and the file is durable (`WorkInv`). `NothingLeftOver` reads off the
same part what the holder's place says about the file when it lets go of the
lock. The first free handle of a pool
is found with the well-foundedness of the naturals.

*Local services.* Discovery: each registration has exactly one owner, the
running service or the operation in progress (`Ownership`). IPFS service and
libp2p-init: the lease of the directory that a process has anchored is
exclusive, so only its holder writes or removes there, even when another
directory is put at the path. libp2p-init besides: once ensureIdentityState
has returned, the record is the process's key, and every name ever given is
the record's as long as none was lost.

*Cluster controllers.* ShipCrew: a resource version stands for one value, so a
job whose update is accepted has worked on the current object (`CopyInv`,
`JobInv`); executions are paid out of a budget of edits and faults
(`ExecutionInv`). Signers: the only pass there is works through a list that is
still right about the certificates of the requests it has not come to
(`PassInv`), although not about their conditions; whoever needed an approval
was listed with it, so the patch appends to the list of conditions.

### What the proofs changed

In `TrustStore`, two arms of the CASE in `verdict` overlapped, where TLC takes
the first and a proof may assume neither; they are exclusive now, in the order
of the code's returns. `Bootstrap`'s placeholder `None` is assumed to be no
owner pair, and `Libp2pInit`'s sets to be finite. The bounds of §3 that look
tight are not needed: no theorem depends on them.

### Only model-checked

Liveness under fairness, which is outside the prover's reach:
`EventuallyComplete`, `PreparedRepublished`, `UndisturbedDrainEmpties`,
`KuboDeathWithdraws`, `StoppedDrains`, `RunsFinish`, `ApprovedIsSigned`. `MovesForward`, `CompleteVerified` and `TypeCorrect` are,
the other way round, proved only: no run repeats them.

## 5. Not modelled

* Timestamps of the journal: a clock that steps back makes validateJournal
  refuse saves until it has caught up; the model's Save can fail at any time but
  does not distinguish a failure that lasts. Two coordinators that keep failing
  each other's Save: no fairness of the code excludes it.
* Sizes: the limits on snapshots, collections (applied grants, revocations) and
  files.
* Cryptography and encodings: certificate profiles, CIDs, IPNS record bytes,
  canonical JSON, TPM sessions and templates, path and permission checks.
* gRPC servers, commands and deployment files: stateless translation and
  wiring. What they fix is used as assumption (restarts, one drain per start,
  who calls whom). `cmd/bootstrap` still wires stub dependencies and an
  in-memory journal; the model is of the file journal.
* The SPIRE plugin and its controller: the plugin answers from the token, where
  GenerateKey looks for a key and then makes one, so two calls at once can leave
  two; the controller checks each object by itself and patches its status.
* Endpoint, hotspot configuration and key validation: no caller yet, or stubs.
* A state directory of libp2p-init that is exchanged while the identity record
  is written; only the failing check at the end of ensureIdentityState is.
* Several policies or issuers, several crews, several replicas of a controller.
  The Deployments ask for one replica of each signer, but the leader-election
  flag is ignored, so two overlap while a Deployment rolls out; both may then
  sign one request, and nothing protects the certificate of a CertificateRequest.

## 6. Plan

Done, in order of importance: the bootstrap transaction, the Trust store and
service, the publisher and its composition with Trust, the key manager, the three
local services, the controllers in the cluster; and the proofs of all of their
safety properties and of both refinements.

Next:

1. Action properties that the invariants already carry and no run states: a Trust
   snapshot only grows while the machine runs (`Extends` between the stored
   snapshots before and after a step), the key manager never evicts a foreign object.
2. `TrustService`'s store as an instance of `RevisionedStore`, which its
   `stored` and `survivors` abstract: so far an argument in §2, not a theorem.
3. Lemmas that several proof modules prove for themselves (compare-and-swap on
   revisions, what a power loss leaves) in one place.
