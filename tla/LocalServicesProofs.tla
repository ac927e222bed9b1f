------------------------ MODULE LocalServicesProofs ------------------------
(***************************************************************************)
(* Machine-checked proofs about discovery, the IPFS service and            *)
(* libp2p-init, for any number of processes, directories, keys, servers    *)
(* and faults.                                                             *)
(***************************************************************************)
EXTENDS Libp2pInit, IpfsService, Discovery, FiniteSetTheorems, TLAPS

-----------------------------------------------------------------------------
(* Discovery.                                                              *)

(* The phases in which the operation has an mDNS server to stop, and those *)
(* in which it has a BlueZ connection to close.                            *)
MDNSPhases == {"mdnsUp", "dial", "register", "registered", "commit", "bleStop",
               "mdnsStop"}
BLEPhases == {"register", "registered", "commit", "bleStop"}

(* Exactly one owner: a server is up, and a connection is open, when and   *)
(* only when the running service has it or the operation in progress has.  *)
Ownership ==
    /\ \A s \in Servers : mdnsServer[s] = "up" <=>
          \/ discoveryState = "running" /\ s = mdnsHandle
          \/ broadcastOp.pc \in MDNSPhases /\ s = broadcastOp.mdns
    /\ \A b \in Sessions : bleSession[b] # "free" <=>
          \/ discoveryState = "running" /\ b = bleHandle
          \/ broadcastOp.pc \in BLEPhases /\ b = broadcastOp.ble

OperationInv ==
    /\ broadcastOp.pc = "idle" =>
          broadcastOp = IdleOp /\ discoveryState \in {"stopped", "running"}
    /\ broadcastOp.pc \in MDNSPhases \cup {"await"} => broadcastOp.mdns \in Servers
    /\ broadcastOp.pc \in BLEPhases => broadcastOp.ble \in Sessions
    /\ broadcastOp.pc \in {"registered", "commit", "bleStop"} =>
          bleSession[broadcastOp.ble] \in {"registered", "released"}
    /\ discoveryState = "running" =>
          /\ broadcastOp.pc = "idle"
          /\ mdnsHandle \in Servers /\ bleHandle \in Sessions
          /\ bleSession[bleHandle] \in {"registered", "released"}

DiscoveryInv == DiscoveryTypeOK /\ Ownership /\ OperationInv

(* What a step makes of the operation, field by field.                     *)
OpBecomes(phase, mdns, ble) ==
    /\ broadcastOp' \in [pc : OpPhases, mdns : Servers \cup {NoHandle},
                         ble : Sessions \cup {NoHandle}, canceled : BOOLEAN]
    /\ broadcastOp'.pc = phase /\ broadcastOp'.mdns = mdns /\ broadcastOp'.ble = ble

(* The updates of the operation: it goes on, it acquires a registration,   *)
(* or it starts to undo what it has under a fresh context.                 *)
LEMMA OpUpdates ==
  ASSUME DiscoveryTypeOK, NEW phase \in OpPhases
  PROVE  /\ Continue(phase) => OpBecomes(phase, broadcastOp.mdns, broadcastOp.ble)
         /\ \A s \in Servers :
               broadcastOp' = [broadcastOp EXCEPT !.pc = phase, !.mdns = s]
                  => OpBecomes(phase, s, broadcastOp.ble)
         /\ \A b \in Sessions \cup {NoHandle} :
               (\/ broadcastOp' = [broadcastOp EXCEPT !.pc = phase, !.ble = b]
                \/ Rollback(phase, b))
                  => OpBecomes(phase, broadcastOp.mdns, b)
  <1> USE DEF DiscoveryTypeOK, OpBecomes
  <1>1. Continue(phase) => OpBecomes(phase, broadcastOp.mdns, broadcastOp.ble)
    BY DEF Continue
  <1>2. \A s \in Servers :
           broadcastOp' = [broadcastOp EXCEPT !.pc = phase, !.mdns = s]
              => OpBecomes(phase, s, broadcastOp.ble)
    OBVIOUS
  <1>3. \A b \in Sessions \cup {NoHandle} :
           broadcastOp' = [broadcastOp EXCEPT !.pc = phase, !.ble = b]
              => OpBecomes(phase, broadcastOp.mdns, b)
    OBVIOUS
  <1>4. \A b \in Sessions \cup {NoHandle} :
           Rollback(phase, b) => OpBecomes(phase, broadcastOp.mdns, b)
    BY DEF Rollback
  <1> QED BY <1>1, <1>2, <1>3, <1>4

(* The steps that change the operation in several fields.                  *)
LEMMA OpEffects ==
  ASSUME DiscoveryTypeOK
  PROVE  /\ RegisterMDNS =>
               \/ \E s \in Servers :
                     /\ OpBecomes("mdnsUp", s, broadcastOp.ble)
                     /\ mdnsServer' = [mdnsServer EXCEPT ![s] = "up"]
                     /\ UNCHANGED <<discoveryState, handles, bleSession>>
               \/ EndStopped /\ UNCHANGED <<mdnsServer, bleSession>>
         /\ MDNSRegistered =>
               \/ OpBecomes("mdnsStop", broadcastOp.mdns, NoHandle)
               \/ OpBecomes("dial", broadcastOp.mdns, broadcastOp.ble)
         /\ DialBlueZ =>
               \/ \E b \in Sessions :
                     /\ OpBecomes("register", broadcastOp.mdns, b)
                     /\ bleSession' = [bleSession EXCEPT ![b] = "open"]
               \/ /\ OpBecomes("mdnsStop", broadcastOp.mdns, NoHandle)
                  /\ UNCHANGED bleSession
         /\ RegisterBLE =>
               \/ /\ OpBecomes("registered", broadcastOp.mdns, broadcastOp.ble)
                  /\ bleSession' = [bleSession EXCEPT ![broadcastOp.ble] = "registered"]
               \/ /\ OpBecomes("mdnsStop", broadcastOp.mdns, NoHandle)
                  /\ bleSession' = [bleSession EXCEPT ![broadcastOp.ble] = "free"]
         /\ BLERegistered =>
               \/ OpBecomes("bleStop", broadcastOp.mdns, broadcastOp.ble)
               \/ OpBecomes("commit", broadcastOp.mdns, broadcastOp.ble)
  <1> USE OpUpdates DEF OpPhases
  <1>0. broadcastOp.ble \in Sessions \cup {NoHandle}
    BY DEF DiscoveryTypeOK
  <1>1. ASSUME RegisterMDNS
        PROVE  \/ \E s \in Servers :
                     /\ OpBecomes("mdnsUp", s, broadcastOp.ble)
                     /\ mdnsServer' = [mdnsServer EXCEPT ![s] = "up"]
                     /\ UNCHANGED <<discoveryState, handles, bleSession>>
               \/ EndStopped /\ UNCHANGED <<mdnsServer, bleSession>>
    BY <1>1 DEF RegisterMDNS
  <1>2. ASSUME MDNSRegistered
        PROVE  \/ OpBecomes("mdnsStop", broadcastOp.mdns, NoHandle)
               \/ OpBecomes("dial", broadcastOp.mdns, broadcastOp.ble)
    BY <1>2 DEF MDNSRegistered
  <1>3. ASSUME DialBlueZ
        PROVE  \/ \E b \in Sessions :
                     /\ OpBecomes("register", broadcastOp.mdns, b)
                     /\ bleSession' = [bleSession EXCEPT ![b] = "open"]
               \/ /\ OpBecomes("mdnsStop", broadcastOp.mdns, NoHandle)
                  /\ UNCHANGED bleSession
    BY <1>3 DEF DialBlueZ
  <1>4. ASSUME RegisterBLE
        PROVE  \/ /\ OpBecomes("registered", broadcastOp.mdns, broadcastOp.ble)
                  /\ bleSession' = [bleSession EXCEPT ![broadcastOp.ble] = "registered"]
               \/ /\ OpBecomes("mdnsStop", broadcastOp.mdns, NoHandle)
                  /\ bleSession' = [bleSession EXCEPT ![broadcastOp.ble] = "free"]
    BY <1>4 DEF RegisterBLE
  <1>5. ASSUME BLERegistered
        PROVE  \/ OpBecomes("bleStop", broadcastOp.mdns, broadcastOp.ble)
               \/ OpBecomes("commit", broadcastOp.mdns, broadcastOp.ble)
    BY <1>0, <1>5 DEF BLERegistered
  <1> QED BY <1>1, <1>2, <1>3, <1>4, <1>5

(* Every call of an operation, every cancellation and every restart keeps  *)
(* the ownership of the registrations.                                     *)
THEOREM DiscoveryInvariance == DiscoverySpec => []DiscoveryInv
  <1>1. DiscoveryInitial => DiscoveryInv
    <2> SUFFICES ASSUME DiscoveryInitial PROVE DiscoveryInv
      OBVIOUS
    <2> USE DEF DiscoveryInitial, IdleOp
    <2>1. DiscoveryTypeOK
      BY DEF DiscoveryTypeOK, OpPhases, DiscoveryStates
    <2>2. Ownership
      BY DEF Ownership, MDNSPhases, BLEPhases
    <2>3. OperationInv
      BY DEF OperationInv, MDNSPhases, BLEPhases
    <2> QED BY <2>1, <2>2, <2>3 DEF DiscoveryInv
  <1>2. DiscoveryInv /\ [DiscoveryNext]_discoveryVars => DiscoveryInv'
    <2> SUFFICES ASSUME DiscoveryInv, [DiscoveryNext]_discoveryVars
                 PROVE  DiscoveryInv'
      OBVIOUS
    <2> USE DiscoveryAssumption DEF DiscoveryInv, DiscoveryTypeOK, Ownership,
          OperationInv, IdleOp, OpPhases, DiscoveryStates, MDNSPhases, BLEPhases,
          handles
    <2>1. CASE StartBroadcast
      BY <2>1 DEF StartBroadcast, Continue
    <2>2. CASE StopBroadcast
      BY <2>2 DEF StopBroadcast
    <2>3. CASE CancelOp
      BY <2>3 DEF CancelOp
    <2>4. ASSUME NEW s \in Servers, RegisterMDNS,
                 OpBecomes("mdnsUp", s, broadcastOp.ble),
                 mdnsServer' = [mdnsServer EXCEPT ![s] = "up"],
                 UNCHANGED <<discoveryState, handles, bleSession>>
          PROVE  DiscoveryInv'
      BY <2>4 DEF RegisterMDNS, OpBecomes
    <2>5. CASE RegisterMDNS /\ EndStopped /\ UNCHANGED <<mdnsServer, bleSession>>
      BY <2>5 DEF RegisterMDNS, EndStopped
    <2>6. CASE MDNSRegistered
      BY <2>6, OpEffects DEF MDNSRegistered, OpBecomes
    <2>7. ASSUME NEW b \in Sessions, DialBlueZ,
                 OpBecomes("register", broadcastOp.mdns, b),
                 bleSession' = [bleSession EXCEPT ![b] = "open"]
          PROVE  DiscoveryInv'
      <3>1. broadcastOp.pc = "dial" /\ UNCHANGED <<discoveryState, handles, mdnsServer>>
        BY <2>7 DEF DialBlueZ
      <3> QED BY <2>7, <3>1 DEF OpBecomes
    <2>8. CASE DialBlueZ /\ OpBecomes("mdnsStop", broadcastOp.mdns, NoHandle)
                         /\ UNCHANGED bleSession
      BY <2>8 DEF DialBlueZ, OpBecomes
    <2>9. CASE RegisterBLE
      BY <2>9, OpEffects DEF RegisterBLE, OpBecomes
    <2>10. CASE BLERegistered
      BY <2>10, OpEffects DEF BLERegistered, OpBecomes
    <2>11. CASE CommitStart
      BY <2>11 DEF CommitStart
    <2>12. CASE StopBLE
      BY <2>12 DEF StopBLE
    <2>13. CASE StopMDNS
      BY <2>13 DEF StopMDNS, Continue
    <2>14. CASE AwaitMDNS
      BY <2>14 DEF AwaitMDNS, EndStopped
    <2>15. ASSUME NEW s \in Servers, ShutdownDone(s) PROVE DiscoveryInv'
      BY <2>15 DEF ShutdownDone
    <2>16. ASSUME NEW b \in Sessions, BlueZRelease(b) PROVE DiscoveryInv'
      BY <2>16 DEF BlueZRelease
    <2>17. CASE RestartDiscovery
      BY <2>17 DEF RestartDiscovery
    <2>18. CASE UNCHANGED discoveryVars
      BY <2>18 DEF discoveryVars
    <2> HIDE DEF DiscoveryInv
    <2> QED BY <2>1, <2>2, <2>3, <2>4, <2>5, <2>6, <2>7, <2>8, <2>9, <2>10,
               <2>11, <2>12, <2>13, <2>14, <2>15, <2>16, <2>17, <2>18, OpEffects
            DEF DiscoveryNext, OpStep, DiscoveryInv
  <1> QED BY <1>1, <1>2, PTL DEF DiscoverySpec

(* No registration is forgotten by Start or Stop, wherever they are        *)
(* canceled or fail.                                                       *)
THEOREM RegistrationsOwned == DiscoverySpec => []NoOrphanRegistration
  <1>1. DiscoveryInv => NoOrphanRegistration
    BY DiscoveryAssumption DEF DiscoveryInv, DiscoveryTypeOK, Ownership,
       OperationInv, NoOrphanRegistration
  <1> QED BY <1>1, DiscoveryInvariance, PTL

-----------------------------------------------------------------------------
(* The IPFS service.                                                       *)

(* The lock file is what tells the instances apart: from acquireServiceLease *)
(* to the release an instance holds the lease of the directory it anchored,  *)
(* and what it has published there is in place until it stops.               *)
LeaseInv ==
    \A i \in Instances :
       /\ ipfs[i].pc \in {"publish", "check", "run", "stop", "release"}
             => serviceLease[ipfs[i].dir] = i
       /\ ipfs[i].pc \in {"check", "run"} => readyFile[ipfs[i].dir] = "live"

IpfsServiceInv == IpfsServiceTypeOK /\ LeaseInv

(* An instance that is down is well typed.                                 *)
LEMMA IpfsDownTyped ==
  /\ IpfsDown \in [pc : ServicePhases, kubo : {"none", "up", "dead"},
                   dir : ServiceDirs]
  /\ IpfsDown.pc = "down"
  /\ [IpfsDown EXCEPT !.pc = "lease", !.kubo = "up"]
        \in [pc : ServicePhases, kubo : {"none", "up", "dead"}, dir : ServiceDirs]
  /\ [IpfsDown EXCEPT !.pc = "lease", !.kubo = "up"].pc = "lease"
  BY IpfsServiceAssumption DEF IpfsDown, ServicePhases

(* The lease and the readiness record survive every step of every other    *)
(* instance, kills, reboots and moved directories included.                *)
THEOREM IpfsServiceInvariance == IpfsServiceSpec => []IpfsServiceInv
  <1>1. IpfsServiceInitial => IpfsServiceInv
    BY IpfsServiceAssumption, IpfsDownTyped
    DEF IpfsServiceInitial, IpfsServiceInv, IpfsServiceTypeOK, LeaseInv
  <1>2. IpfsServiceInv /\ [IpfsServiceNext]_ipfsServiceVars => IpfsServiceInv'
    <2> SUFFICES ASSUME IpfsServiceInv, [IpfsServiceNext]_ipfsServiceVars
                 PROVE  IpfsServiceInv'
      OBVIOUS
    <2> USE IpfsServiceAssumption, IpfsDownTyped
        DEF IpfsServiceInv, IpfsServiceTypeOK, LeaseInv, InPhase, Enter,
            ServiceFault, Unleased, Orphaned
    <2>1. ASSUME NEW i \in Instances, OpenNode(i) PROVE IpfsServiceInv'
      BY <2>1 DEF OpenNode
    <2>2. ASSUME NEW i \in Instances, AcquireServiceLease(i) PROVE IpfsServiceInv'
      <3>1. CASE ipfs[i].kubo = "up" /\ serviceLease[serviceDir] = NoInstance
        <4>1. /\ serviceLease' = [serviceLease EXCEPT ![serviceDir] = i]
              /\ ipfs' = [ipfs EXCEPT ![i].pc = "publish", ![i].dir = serviceDir]
              /\ UNCHANGED <<serviceDir, readyFile, serviceFaults>>
          BY <2>2, <3>1 DEF AcquireServiceLease, openSecureDirectory
        <4>2. /\ ipfs' \in [Instances -> [pc : ServicePhases,
                                 kubo : {"none", "up", "dead"}, dir : ServiceDirs]]
              /\ ipfs'[i].pc = "publish" /\ ipfs'[i].dir = serviceDir
              /\ \A j \in Instances \ {i} : ipfs'[j] = ipfs[j]
          BY <4>1 DEF ServicePhases
        <4> QED BY <3>1, <4>1, <4>2
      <3>2. CASE ~(ipfs[i].kubo = "up" /\ serviceLease[serviceDir] = NoInstance)
        BY <2>2, <3>2 DEF AcquireServiceLease, openSecureDirectory
      <3> QED BY <3>1, <3>2
    <2>3. ASSUME NEW i \in Instances, PublishReadiness(i) PROVE IpfsServiceInv'
      BY <2>3 DEF PublishReadiness, ServicePhases
    <2>4. ASSUME NEW i \in Instances, CheckPublished(i) PROVE IpfsServiceInv'
      BY <2>4 DEF CheckPublished, ServicePhases
    <2>5. ASSUME NEW i \in Instances, CancelService(i) \/ MonitorKubo(i)
          PROVE  IpfsServiceInv'
      BY <2>5 DEF CancelService, MonitorKubo, ServicePhases
    <2>6. ASSUME NEW i \in Instances, RemoveReadiness(i) PROVE IpfsServiceInv'
      BY <2>6 DEF RemoveReadiness, ServicePhases
    <2>7. ASSUME NEW i \in Instances, ReleaseServiceLease(i) PROVE IpfsServiceInv'
      BY <2>7 DEF ReleaseServiceLease, ServicePhases
    <2>8. ASSUME NEW i \in Instances, CloseNode(i) PROVE IpfsServiceInv'
      BY <2>8 DEF CloseNode
    <2>9. ASSUME NEW i \in Instances, KuboTerminates(i) PROVE IpfsServiceInv'
      BY <2>9 DEF KuboTerminates
    <2>10. ASSUME NEW i \in Instances, KillInstance(i) PROVE IpfsServiceInv'
      BY <2>10 DEF KillInstance
    <2>11. CASE RebootService
      BY <2>11 DEF RebootService
    <2>12. CASE MoveRuntimeDirectory
      BY <2>12 DEF MoveRuntimeDirectory
    <2>13. CASE UNCHANGED ipfsServiceVars
      BY <2>13 DEF ipfsServiceVars
    <2> QED BY <2>1, <2>2, <2>3, <2>4, <2>5, <2>6, <2>7, <2>8, <2>9, <2>10,
               <2>11, <2>12, <2>13
            DEF IpfsServiceNext, InstanceStep
  <1> QED BY <1>1, <1>2, PTL DEF IpfsServiceSpec

(* A running service keeps its readiness record, although the records of   *)
(* two instances cannot be told apart.                                     *)
THEOREM ReadinessKept == IpfsServiceSpec => []ReadinessHeld
  <1>1. IpfsServiceInv => ReadinessHeld
    BY DEF IpfsServiceInv, LeaseInv, ReadinessHeld, InPhase
  <1> QED BY <1>1, IpfsServiceInvariance, PTL

-----------------------------------------------------------------------------
(* libp2p-init.                                                            *)

ServingPhases == {"publish", "verify", "run", "check", "remove", "release"}
PinnedPhases == {"linked", "static", "transient"} \cup ServingPhases

(* A process that serves holds the lease of the directory it anchored from *)
(* acquireRuntimeLease on; only a process that serves gets to publish.     *)
RuntimeLeaseInv ==
    \A p \in Processes :
       /\ proc[p].pc \in ServingPhases => proc[p].serving
       /\ proc[p].serving /\ proc[p].pc # "host" => lease[proc[p].root] = p

(* Once ensureIdentityState has returned, the state file names the key of  *)
(* the process, and the hostnames it has set are still that name: whoever  *)
(* sets them afterwards has passed the same comparison.                    *)
IdentityInv ==
    \A p \in Processes :
       /\ proc[p].pc # "down" => proc[p].key \in Keys
       /\ proc[p].pc \in PinnedPhases => record = proc[p].key
       /\ proc[p].pc \in {"transient"} \cup ServingPhases
             => hostname.static = proc[p].key
       /\ proc[p].pc \in ServingPhases => hostname.transient = proc[p].key

(* What a power loss can leave is the record or nothing, and every name    *)
(* ever given is the one in the record as long as none was lost.           *)
AnnouncedInv ==
    /\ recordSurvivors \subseteq {NoKey, record}
    /\ ~identityLost => announced \subseteq {record}

Libp2pInv == Libp2pTypeOK /\ RuntimeLeaseInv /\ IdentityInv /\ AnnouncedInv

(* There is always a nonce that no process and no visible record has: the  *)
(* model's nonces stand for random ones.                                   *)
LEMMA FreshNonceExists ==
  /\ FreshNonce \in Nonces
  /\ \A p \in Processes : proc[p].nonce # FreshNonce
  /\ \A d \in RuntimeDirs : endpoint[d].nonce # FreshNonce
  <1> DEFINE P == {proc[p].nonce : p \in Processes}
             D == {endpoint[d].nonce : d \in RuntimeDirs}
             f == [p \in Processes |-> proc[p].nonce]
             g == [d \in RuntimeDirs |-> endpoint[d].nonce]
             c == Cardinality(Processes) + Cardinality(RuntimeDirs) + 1
  <1>1. f \in Surjection(Processes, P) /\ g \in Surjection(RuntimeDirs, D)
    BY DEF Surjection
  <1> HIDE DEF f, g
  <1>2. /\ IsFiniteSet(P) /\ Cardinality(P) <= Cardinality(Processes)
        /\ IsFiniteSet(D) /\ Cardinality(D) <= Cardinality(RuntimeDirs)
    BY <1>1, FS_Surjection, Libp2pAssumption
  <1>3. /\ Cardinality(P) \in Nat /\ Cardinality(Processes) \in Nat
        /\ Cardinality(D) \in Nat /\ Cardinality(RuntimeDirs) \in Nat
    BY <1>2, FS_CardinalityType, Libp2pAssumption
  <1>4. IsFiniteSet(P \cup D)
        /\ Cardinality(P \cup D) = Cardinality(P) + Cardinality(D) - Cardinality(P \cap D)
    BY <1>2, FS_Union
  <1>5. IsFiniteSet(P \cap D) /\ Cardinality(P \cap D) \in Nat
    BY <1>2, FS_Subset, FS_CardinalityType
  <1>6. Cardinality(P \cup D) < c
    BY <1>2, <1>3, <1>4, <1>5
  <1>7. Nonces = 1 .. c /\ IsFiniteSet(Nonces) /\ Cardinality(Nonces) = c
    <2>1. Nonces = 1 .. c /\ c \in Int /\ 1 \in Int /\ ~(1 > c) /\ c - 1 + 1 = c
      BY <1>3 DEF Nonces
    <2> HIDE DEF c
    <2>2. IsFiniteSet(1 .. c) /\ Cardinality(1 .. c) = c - 1 + 1
      BY <2>1, FS_Interval
    <2> QED BY <2>1, <2>2
  <1>8. \E n \in Nonces : n \notin P \cup D
    <2> SUFFICES ASSUME Nonces \in SUBSET (P \cup D) PROVE FALSE
      OBVIOUS
    <2>1. Cardinality(Nonces) <= Cardinality(P \cup D)
      BY <1>4, FS_Subset
    <2>2. Cardinality(P \cup D) \in Nat
      BY <1>4, FS_CardinalityType
    <2> QED BY <1>3, <1>6, <1>7, <2>1, <2>2
  <1> QED BY <1>8 DEF FreshNonce

ProcRecords == [pc : PhaseSet, serving : BOOLEAN, key : Keys \cup {NoKey},
                root : RuntimeDirs, nonce : Nonces \cup {0}]

(* A process that is down is well typed, and so is one that starts.        *)
LEMMA DownTyped ==
  LET Start(k) == [Down EXCEPT !.pc = "host", !.serving = TRUE, !.key = k]
      Ensure(k) == [Down EXCEPT !.pc = "ensure", !.key = k]
  IN  /\ Down \in ProcRecords /\ Down.pc = "down" /\ Down.serving = FALSE
      /\ \A k \in Keys :
            /\ Start(k) \in ProcRecords /\ Start(k).pc = "host" /\ Start(k).key = k
            /\ Ensure(k) \in ProcRecords /\ Ensure(k).pc = "ensure"
            /\ Ensure(k).key = k /\ Ensure(k).serving = FALSE
  BY Libp2pAssumption, Zenon DEF Down, PhaseSet, ProcRecords

(* What a step may do to one process and the others' leases.               *)
Becomes(p, r) ==
    /\ proc' \in [Processes -> ProcRecords]
    /\ proc'[p] = r
    /\ \A q \in Processes \ {p} : proc'[q] = proc[q]

(* Leaving releases the lease of the process and no other.                 *)
LEMMA AbandonEffect ==
  ASSUME Libp2pTypeOK, NEW p \in Processes, Abandon(p)
  PROVE  /\ Becomes(p, Down)
         /\ lease' \in [RuntimeDirs -> Processes \cup {NoProcess}]
         /\ \A q \in Processes \ {p}, d \in RuntimeDirs :
               lease[d] = q => lease'[d] = q
  <1>1. proc \in [Processes -> ProcRecords]
    BY DEF Libp2pTypeOK, ProcRecords
  <1>2. Becomes(p, Down)
    BY <1>1, DownTyped DEF Abandon, Becomes
  <1>3. lease' = [d \in RuntimeDirs |-> IF lease[d] = p THEN NoProcess ELSE lease[d]]
    BY DEF Abandon
  <1> QED BY <1>2, <1>3 DEF Libp2pTypeOK

(* Entering a phase changes nothing else.                                  *)
LEMMA ToEffect ==
  ASSUME Libp2pTypeOK, NEW p \in Processes, NEW phase \in PhaseSet, To(p, phase)
  PROVE  /\ Becomes(p, [proc[p] EXCEPT !.pc = phase])
         /\ proc'[p].pc = phase /\ proc'[p].serving = proc[p].serving
         /\ proc'[p].key = proc[p].key /\ proc'[p].root = proc[p].root
  BY DEF Libp2pTypeOK, To, Becomes, ProcRecords

(* Steps that give up keep the invariant.                                  *)
LEMMA AbandonStep ==
  ASSUME Libp2pInv, NEW p \in Processes, Abandon(p),
         identityFaults' \in 0 .. MaxIdentityFaults,
         recordSurvivors' \in {recordSurvivors, {record}},
         UNCHANGED <<record, tpmKey, hostname, runtimeRoot, endpoint,
                     announced, identityLost>>
  PROVE  Libp2pInv'
  <1>1. /\ proc' \in [Processes -> ProcRecords]
        /\ proc'[p].pc = "down" /\ proc'[p].serving = FALSE
        /\ \A q \in Processes \ {p} : proc'[q] = proc[q]
        /\ lease' \in [RuntimeDirs -> Processes \cup {NoProcess}]
        /\ \A q \in Processes \ {p}, d \in RuntimeDirs :
               lease[d] = q => lease'[d] = q
        /\ \A q \in Processes : proc[q].root \in RuntimeDirs
    BY AbandonEffect, DownTyped DEF Libp2pInv, Becomes, Libp2pTypeOK
  <1>2. Libp2pTypeOK'
    BY <1>1 DEF Libp2pInv, Libp2pTypeOK, ProcRecords
  <1>3. RuntimeLeaseInv'
    BY <1>1 DEF Libp2pInv, RuntimeLeaseInv, ServingPhases
  <1>4. IdentityInv'
    BY <1>1 DEF Libp2pInv, IdentityInv, ServingPhases, PinnedPhases
  <1>5. AnnouncedInv'
    BY DEF Libp2pInv, AnnouncedInv
  <1> QED BY <1>2, <1>3, <1>4, <1>5 DEF Libp2pInv

(* What the process must have, to be in a phase.                           *)
MayEnter(p, phase) ==
    /\ proc[p].key \in Keys
    /\ phase \in ServingPhases => proc[p].serving
    /\ proc[p].serving => lease[proc[p].root] = p
    /\ phase \in PinnedPhases => record = proc[p].key
    /\ phase \in {"transient"} \cup ServingPhases => hostname.static = proc[p].key
    /\ phase \in ServingPhases => hostname.transient = proc[p].key

(* A process that goes from one phase to the next, and what it may do to   *)
(* the endpoint records meanwhile, keep the invariant.                     *)
LEMMA PhaseStep ==
  ASSUME Libp2pInv, NEW p \in Processes, NEW phase \in PhaseSet,
         Becomes(p, proc'[p]), proc'[p].pc = phase, proc'[p].key = proc[p].key,
         proc'[p].serving = proc[p].serving, proc'[p].root = proc[p].root,
         MayEnter(p, phase),
         endpoint' \in [RuntimeDirs -> EndpointRecords \cup {ForeignRecord, NoEndpoint}],
         identityFaults' \in 0 .. MaxIdentityFaults,
         UNCHANGED <<identityFiles, tpmKey, hostname, runtimeRoot, lease,
                     announced, identityLost>>
  PROVE  Libp2pInv'
  <1>1. /\ proc' \in [Processes -> ProcRecords]
        /\ \A q \in Processes \ {p} : proc'[q] = proc[q]
    BY DEF Becomes
  <1>2. Libp2pTypeOK'
    BY <1>1 DEF Libp2pInv, Libp2pTypeOK, ProcRecords, identityFiles
  <1>3. RuntimeLeaseInv'
    BY <1>1 DEF Libp2pInv, RuntimeLeaseInv, MayEnter
  <1>4. IdentityInv'
    BY <1>1 DEF Libp2pInv, IdentityInv, identityFiles, MayEnter
  <1>5. AnnouncedInv'
    BY DEF Libp2pInv, AnnouncedInv, identityFiles
  <1> QED BY <1>2, <1>3, <1>4, <1>5 DEF Libp2pInv

(* A fault is counted, within its bound.                                   *)
LEMMA FaultCounted ==
  ASSUME Libp2pTypeOK, IdentityFault
  PROVE  identityFaults' \in 0 .. MaxIdentityFaults
  BY Libp2pAssumption DEF Libp2pTypeOK, IdentityFault

(* Starting, with or without serving.                                      *)
LEMMA StartStep ==
  ASSUME Libp2pInv, NEW p \in Processes, StartIdentity(p) \/ Initialize(p)
  PROVE  Libp2pInv'
  <1>1. /\ proc' \in [Processes -> ProcRecords]
        /\ \A q \in Processes \ {p} : proc'[q] = proc[q]
        /\ proc'[p].pc \in {"host", "ensure"} /\ proc'[p].key \in Keys
        /\ proc'[p].pc = "ensure" => proc'[p].serving = FALSE
    <2>1. tpmKey \in Keys /\ proc \in [Processes -> ProcRecords]
      BY DEF Libp2pInv, Libp2pTypeOK, ProcRecords
    <2>2. \E r \in ProcRecords :
             /\ proc' = [proc EXCEPT ![p] = r]
             /\ r.pc \in {"host", "ensure"} /\ r.key \in Keys
             /\ r.pc = "ensure" => r.serving = FALSE
      <3>1. CASE StartIdentity(p)
        <4> DEFINE r == [Down EXCEPT !.pc = "host", !.serving = TRUE, !.key = tpmKey]
        <4>1. r \in ProcRecords /\ r.pc \in {"host", "ensure"} /\ r.key \in Keys
              /\ (r.pc = "ensure" => r.serving = FALSE)
          BY <2>1, DownTyped
        <4>2. proc' = [proc EXCEPT ![p] = r]
          BY <3>1 DEF StartIdentity, prepareIdentity
        <4> HIDE DEF r
        <4> QED BY <4>1, <4>2
      <3>2. CASE Initialize(p)
        <4> DEFINE r == [Down EXCEPT !.pc = "ensure", !.key = tpmKey]
        <4>1. r \in ProcRecords /\ r.pc \in {"host", "ensure"} /\ r.key \in Keys
              /\ (r.pc = "ensure" => r.serving = FALSE)
          BY <2>1, DownTyped
        <4>2. proc' = [proc EXCEPT ![p] = r]
          BY <3>2 DEF Initialize, prepareIdentity
        <4> HIDE DEF r
        <4> QED BY <4>1, <4>2
      <3> QED BY <3>1, <3>2
    <2> QED BY <2>1, <2>2
  <1>2. UNCHANGED <<identityFiles, tpmKey, hostname, runtimeRoot, lease, endpoint,
                    announced, identityLost, identityFaults>>
    BY DEF StartIdentity, Initialize
  <1>3. Libp2pTypeOK'
    BY <1>1, <1>2 DEF Libp2pInv, Libp2pTypeOK, ProcRecords, identityFiles
  <1>4. RuntimeLeaseInv'
    BY <1>1, <1>2 DEF Libp2pInv, RuntimeLeaseInv, ServingPhases
  <1>5. IdentityInv'
    BY <1>1, <1>2 DEF Libp2pInv, IdentityInv, identityFiles, PinnedPhases, ServingPhases
  <1>6. AnnouncedInv'
    BY <1>2 DEF Libp2pInv, AnnouncedInv, identityFiles
  <1> QED BY <1>3, <1>4, <1>5, <1>6 DEF Libp2pInv

(* Taking the lease of a directory that nobody has.                        *)
LEMMA AcquireStep ==
  ASSUME Libp2pInv, NEW p \in Processes, AcquireRuntimeLease(p)
  PROVE  Libp2pInv'
  <1>1. CASE lease[runtimeRoot] = NoProcess
    <2>1. /\ proc \in [Processes -> ProcRecords] /\ runtimeRoot \in RuntimeDirs
          /\ lease \in [RuntimeDirs -> Processes \cup {NoProcess}]
          /\ proc[p].pc = "host" /\ proc[p].key \in Keys
      BY DEF Libp2pInv, Libp2pTypeOK, ProcRecords, IdentityInv, AcquireRuntimeLease, At
    <2>2. /\ lease' = [lease EXCEPT ![runtimeRoot] = p]
          /\ proc' = [proc EXCEPT ![p].pc = "ensure", ![p].root = runtimeRoot]
          /\ UNCHANGED <<identityFiles, tpmKey, hostname, runtimeRoot, endpoint,
                         announced, identityLost, identityFaults>>
      BY <1>1 DEF AcquireRuntimeLease, openPrivateDirectory
    <2>3. /\ proc' \in [Processes -> ProcRecords]
          /\ \A q \in Processes \ {p} : proc'[q] = proc[q]
          /\ proc'[p].pc = "ensure" /\ proc'[p].root = runtimeRoot
          /\ proc'[p].key = proc[p].key
      BY <2>1, <2>2 DEF ProcRecords, PhaseSet
    <2>4. /\ lease' \in [RuntimeDirs -> Processes \cup {NoProcess}]
          /\ lease'[runtimeRoot] = p
          /\ \A q \in Processes, d \in RuntimeDirs : lease[d] = q => lease'[d] = q
      BY <1>1, <2>1, <2>2, Libp2pAssumption
    <2>5. Libp2pTypeOK'
      BY <2>2, <2>3, <2>4 DEF Libp2pInv, Libp2pTypeOK, ProcRecords, identityFiles
    <2>6. RuntimeLeaseInv'
      BY <2>1, <2>3, <2>4 DEF Libp2pInv, RuntimeLeaseInv, ServingPhases, ProcRecords
    <2>7. IdentityInv'
      BY <2>1, <2>2, <2>3
      DEF Libp2pInv, IdentityInv, identityFiles, PinnedPhases, ServingPhases
    <2>8. AnnouncedInv'
      BY <2>2 DEF Libp2pInv, AnnouncedInv, identityFiles
    <2> QED BY <2>5, <2>6, <2>7, <2>8 DEF Libp2pInv
  <1>2. CASE lease[runtimeRoot] # NoProcess
    BY <1>2, AbandonStep
    DEF AcquireRuntimeLease, openPrivateDirectory, Libp2pInv, Libp2pTypeOK, identityFiles
  <1> QED BY <1>1, <1>2

(* Reading, creating and syncing the identity record: whoever goes on to   *)
(* the hostnames has found its own key in the state file.                  *)
LEMMA RecordStep ==
  ASSUME Libp2pInv, NEW p \in Processes,
         ReadIdentityRecord(p) \/ AtomicCreate(p) \/ SyncCreated(p)
  PROVE  Libp2pInv'
  <1>0. /\ Libp2pTypeOK /\ RuntimeLeaseInv /\ IdentityInv /\ AnnouncedInv
        /\ identityFaults \in 0 .. MaxIdentityFaults
        /\ endpoint \in [RuntimeDirs -> EndpointRecords \cup {ForeignRecord, NoEndpoint}]
        /\ proc \in [Processes -> ProcRecords]
    BY DEF Libp2pInv, Libp2pTypeOK, ProcRecords
  <1>1. CASE ReadIdentityRecord(p)
    <2>1. CASE \E phase \in {"create", "static"} :
                  /\ To(p, phase) /\ UNCHANGED lease
                  /\ phase = "static" => record = proc[p].key
      <3> PICK phase \in {"create", "static"} :
                  /\ To(p, phase) /\ UNCHANGED lease
                  /\ phase = "static" => record = proc[p].key
        BY <2>1
      <3>1. phase \in PhaseSet
        BY DEF PhaseSet
      <3>2. MayEnter(p, phase)
        BY <1>0, <1>1 DEF MayEnter, RuntimeLeaseInv, IdentityInv, ReadIdentityRecord,
                          At, ServingPhases, PinnedPhases
      <3> QED BY <1>0, <1>1, <3>1, <3>2, ToEffect, PhaseStep
              DEF ReadIdentityRecord, Becomes
    <2>2. CASE Abandon(p)
      BY <1>0, <1>1, <2>2, AbandonStep DEF ReadIdentityRecord, identityFiles
    <2> QED BY <1>1, <2>1, <2>2
            DEF ReadIdentityRecord, readIdentityRecord, compareIdentityRecords
  <1>2. CASE AtomicCreate(p)
    <2>1. CASE record = NoKey
      <3>1. /\ record' = proc[p].key
            /\ recordSurvivors' = recordSurvivors \cup {proc[p].key}
            /\ To(p, "linked")
            /\ UNCHANGED <<tpmKey, hostname, runtimeRoot, lease, endpoint, announced,
                           identityLost, identityFaults>>
            /\ proc[p].pc = "create" /\ proc[p].key \in Keys
        BY <1>0, <1>2, <2>1 DEF AtomicCreate, At, IdentityInv
      <3>2. /\ proc' \in [Processes -> ProcRecords]
            /\ proc'[p].pc = "linked" /\ proc'[p].serving = proc[p].serving
            /\ proc'[p].key = proc[p].key /\ proc'[p].root = proc[p].root
            /\ \A q \in Processes \ {p} : proc'[q] = proc[q]
        BY <1>0, <3>1, ToEffect DEF PhaseSet, Becomes
      <3>3. /\ announced \subseteq Keys /\ recordSurvivors \subseteq {NoKey}
            /\ ~identityLost => announced = {}
        BY <1>0, <2>1, Libp2pAssumption DEF AnnouncedInv, Libp2pTypeOK
      <3>4. Libp2pTypeOK'
        BY <1>0, <3>1, <3>2 DEF Libp2pTypeOK, ProcRecords
      <3>5. RuntimeLeaseInv'
        BY <1>0, <3>1, <3>2 DEF RuntimeLeaseInv, ServingPhases
      <3>6. IdentityInv'
        BY <1>0, <2>1, <3>1, <3>2, Libp2pAssumption
        DEF IdentityInv, ServingPhases, PinnedPhases
      <3>7. AnnouncedInv'
        BY <3>1, <3>3 DEF AnnouncedInv
      <3> QED BY <3>4, <3>5, <3>6, <3>7 DEF Libp2pInv
    <2>2. CASE record # NoKey
      <3>1. MayEnter(p, "reread") /\ "reread" \in PhaseSet
        BY <1>0, <1>2 DEF MayEnter, RuntimeLeaseInv, IdentityInv, AtomicCreate,
                          At, ServingPhases, PinnedPhases, PhaseSet
      <3> QED BY <1>0, <1>2, <2>2, <3>1, ToEffect, PhaseStep DEF AtomicCreate, Becomes
    <2> QED BY <2>1, <2>2
  <1>3. CASE SyncCreated(p)
    <2>1. CASE recordSurvivors' = {record} /\ To(p, "static")
               /\ UNCHANGED <<lease, identityFaults>>
      <3>1. /\ proc' \in [Processes -> ProcRecords]
            /\ proc'[p].pc = "static" /\ proc'[p].serving = proc[p].serving
            /\ proc'[p].key = proc[p].key /\ proc'[p].root = proc[p].root
            /\ \A q \in Processes \ {p} : proc'[q] = proc[q]
        BY <1>0, <2>1, ToEffect DEF PhaseSet, Becomes
      <3>2. /\ proc[p].pc = "linked"
            /\ UNCHANGED <<record, tpmKey, hostname, runtimeRoot, endpoint, announced,
                           identityLost>>
        BY <1>3 DEF SyncCreated, At
      <3>3. Libp2pTypeOK'
        BY <1>0, <2>1, <3>1, <3>2 DEF Libp2pTypeOK, ProcRecords
      <3>4. RuntimeLeaseInv'
        BY <1>0, <2>1, <3>1, <3>2 DEF RuntimeLeaseInv, ServingPhases
      <3>5. IdentityInv'
        BY <1>0, <3>1, <3>2 DEF IdentityInv, ServingPhases, PinnedPhases
      <3>6. AnnouncedInv'
        BY <1>0, <2>1, <3>2 DEF AnnouncedInv
      <3> QED BY <3>3, <3>4, <3>5, <3>6 DEF Libp2pInv
    <2>2. CASE /\ IdentityFault /\ Abandon(p)
               /\ recordSurvivors' \in {recordSurvivors, {record}}
      BY <1>0, <1>3, <2>2, AbandonStep, FaultCounted DEF SyncCreated
    <2> QED BY <1>3, <2>1, <2>2 DEF SyncCreated
  <1> QED BY <1>1, <1>2, <1>3

(* Setting the hostnames: the name is the one in the record.               *)
LEMMA HostnameStep ==
  ASSUME Libp2pInv, NEW p \in Processes,
         SetStaticHostname(p) \/ SetTransientHostname(p)
  PROVE  Libp2pInv'
  <1> DEFINE rest == <<identityFiles, tpmKey, runtimeRoot, endpoint, identityLost>>
  <1>0. /\ Libp2pTypeOK /\ RuntimeLeaseInv /\ IdentityInv /\ AnnouncedInv
        /\ identityFaults \in 0 .. MaxIdentityFaults
        /\ endpoint \in [RuntimeDirs -> EndpointRecords \cup {ForeignRecord, NoEndpoint}]
        /\ proc \in [Processes -> ProcRecords]
        /\ hostname \in [static : Keys \cup {NoKey}, transient : Keys \cup {NoKey}]
        /\ proc[p].pc \in {"static", "transient"}
        /\ record = proc[p].key /\ proc[p].key \in Keys
        /\ UNCHANGED rest
    BY DEF Libp2pInv, Libp2pTypeOK, ProcRecords, IdentityInv, PinnedPhases,
           SetStaticHostname, SetTransientHostname, At
  <1> DEFINE named(h) ==
               /\ h \in [static : Keys \cup {NoKey}, transient : Keys \cup {NoKey}]
               /\ h.static \in {hostname.static, record}
               /\ h.transient \in {hostname.transient, record}
  <1>1. /\ named(hostname')
        /\ announced' \in {announced, announced \cup {record}}
    <2>1. CASE UNCHANGED <<hostname, announced>>
      BY <1>0, <2>1
    <2>2. CASE SetStaticHostname(p)
               /\ hostname' = [hostname EXCEPT !.static = proc[p].key]
               /\ announced' = announced \cup {proc[p].key}
      BY <1>0, <2>2
    <2>3. CASE SetTransientHostname(p) /\ UNCHANGED announced
               /\ hostname' = [hostname EXCEPT !.transient = proc[p].key]
      BY <1>0, <2>3 DEF SetStaticHostname, SetTransientHostname, At
    <2> QED BY <2>1, <2>2, <2>3 DEF SetStaticHostname, SetTransientHostname
  <1>2. announced' \subseteq Keys /\ AnnouncedInv'
    BY <1>0, <1>1 DEF AnnouncedInv, Libp2pTypeOK, identityFiles
  <1>3. CASE \E phase \in {"transient", "publish"} :
                /\ To(p, phase) /\ UNCHANGED <<lease, identityFaults>>
                /\ phase = "transient" => hostname'.static = record
                /\ phase = "publish" => /\ proc[p].pc = "transient"
                                        /\ proc[p].serving
                                        /\ hostname'.transient = record
    <2> PICK phase \in {"transient", "publish"} :
                /\ To(p, phase) /\ UNCHANGED <<lease, identityFaults>>
                /\ phase = "transient" => hostname'.static = record
                /\ phase = "publish" => /\ proc[p].pc = "transient"
                                        /\ proc[p].serving
                                        /\ hostname'.transient = record
      BY <1>3
    <2>1. /\ proc' \in [Processes -> ProcRecords]
          /\ proc'[p].pc = phase /\ proc'[p].serving = proc[p].serving
          /\ proc'[p].key = proc[p].key /\ proc'[p].root = proc[p].root
          /\ \A q \in Processes \ {p} : proc'[q] = proc[q]
      BY <1>0, ToEffect DEF PhaseSet, Becomes
    <2>2. Libp2pTypeOK'
      BY <1>0, <1>1, <1>2, <2>1 DEF Libp2pTypeOK, ProcRecords, identityFiles
    <2>3. RuntimeLeaseInv'
      BY <1>0, <2>1 DEF RuntimeLeaseInv, ServingPhases
    <2>4. IdentityInv'
      BY <1>0, <1>1, <2>1 DEF IdentityInv, ServingPhases, PinnedPhases, identityFiles
    <2> QED BY <1>2, <2>2, <2>3, <2>4 DEF Libp2pInv
  <1>4. CASE Abandon(p) /\ identityFaults' \in 0 .. MaxIdentityFaults
    <2>1. /\ proc' \in [Processes -> ProcRecords]
          /\ proc'[p].pc = "down" /\ proc'[p].serving = FALSE
          /\ \A q \in Processes \ {p} : proc'[q] = proc[q]
          /\ lease' \in [RuntimeDirs -> Processes \cup {NoProcess}]
          /\ \A q \in Processes \ {p}, d \in RuntimeDirs :
                 lease[d] = q => lease'[d] = q
          /\ \A q \in Processes : proc[q].root \in RuntimeDirs
      BY <1>0, <1>4, AbandonEffect, DownTyped DEF Becomes, ProcRecords
    <2>2. Libp2pTypeOK'
      BY <1>0, <1>1, <1>2, <1>4, <2>1 DEF Libp2pTypeOK, ProcRecords, identityFiles
    <2>3. RuntimeLeaseInv'
      BY <1>0, <2>1 DEF RuntimeLeaseInv, ServingPhases
    <2>4. IdentityInv'
      BY <1>0, <1>1, <2>1 DEF IdentityInv, ServingPhases, PinnedPhases, identityFiles
    <2> QED BY <1>2, <2>2, <2>3, <2>4 DEF Libp2pInv
  <1>5. IdentityFault => identityFaults' \in 0 .. MaxIdentityFaults
    BY <1>0, FaultCounted
  <1>6. \/ \E phase \in {"transient", "publish"} :
                /\ To(p, phase) /\ UNCHANGED <<lease, identityFaults>>
                /\ phase = "transient" => hostname'.static = record
                /\ phase = "publish" => /\ proc[p].pc = "transient"
                                        /\ proc[p].serving
                                        /\ hostname'.transient = record
        \/ Abandon(p) /\ identityFaults' \in 0 .. MaxIdentityFaults
    <2>1. CASE SetStaticHostname(p)
      BY <1>0, <1>5, <2>1 DEF SetStaticHostname
    <2>2. CASE SetTransientHostname(p)
      BY <1>0, <1>5, <2>2 DEF SetTransientHostname, At
    <2> QED BY <2>1, <2>2
  <1> QED BY <1>3, <1>4, <1>6

(* Publishing the endpoint record, under the lease.                        *)
LEMMA PublishStep ==
  ASSUME Libp2pInv, NEW p \in Processes, PublishEndpoint(p)
  PROVE  Libp2pInv'
  <1>0. /\ Libp2pTypeOK /\ RuntimeLeaseInv /\ IdentityInv
        /\ identityFaults \in 0 .. MaxIdentityFaults
        /\ endpoint \in [RuntimeDirs -> EndpointRecords \cup {ForeignRecord, NoEndpoint}]
        /\ proc \in [Processes -> ProcRecords]
        /\ proc[p].pc = "publish" /\ proc[p].key \in Keys
        /\ proc[p].root \in RuntimeDirs
        /\ UNCHANGED <<identityFiles, tpmKey, hostname, runtimeRoot, announced,
                       identityLost>>
    BY DEF Libp2pInv, Libp2pTypeOK, ProcRecords, IdentityInv, PublishEndpoint, At
  <1>1. IdentityFault => identityFaults' \in 0 .. MaxIdentityFaults
    BY <1>0, FaultCounted
  <1>2. CASE \E phase \in {"verify", "check"} :
                /\ proc' = [proc EXCEPT ![p].pc = phase, ![p].nonce = FreshNonce]
                /\ endpoint' = [endpoint EXCEPT ![proc[p].root] =
                                   [nonce |-> FreshNonce, key |-> proc[p].key]]
                /\ identityFaults' \in 0 .. MaxIdentityFaults
                /\ UNCHANGED lease
    <2> PICK phase \in {"verify", "check"} :
                /\ proc' = [proc EXCEPT ![p].pc = phase, ![p].nonce = FreshNonce]
                /\ endpoint' = [endpoint EXCEPT ![proc[p].root] =
                                   [nonce |-> FreshNonce, key |-> proc[p].key]]
                /\ identityFaults' \in 0 .. MaxIdentityFaults
                /\ UNCHANGED lease
      BY <1>2
    <2>1. FreshNonce \in Nonces
      BY FreshNonceExists
    <2>2. endpoint' \in [RuntimeDirs -> EndpointRecords \cup {ForeignRecord, NoEndpoint}]
      BY <1>0, <2>1 DEF EndpointRecords
    <2>3. /\ Becomes(p, proc'[p]) /\ phase \in PhaseSet /\ proc'[p].pc = phase
          /\ proc'[p].serving = proc[p].serving
          /\ proc'[p].key = proc[p].key /\ proc'[p].root = proc[p].root
      BY <1>0, <2>1 DEF Becomes, ProcRecords, PhaseSet
    <2>4. MayEnter(p, phase)
      BY <1>0 DEF MayEnter, RuntimeLeaseInv, IdentityInv, ServingPhases, PinnedPhases
    <2> QED BY <1>0, <2>2, <2>3, <2>4, PhaseStep
  <1>3. CASE IdentityFault /\ Abandon(p) /\ UNCHANGED endpoint
    BY <1>0, <1>1, <1>3, AbandonStep DEF identityFiles
  <1> QED BY <1>0, <1>1, <1>2, <1>3 DEF PublishEndpoint, atomicReplaceTracked

(* Checking, withdrawing and leaving.                                      *)
LEMMA ServingStep ==
  ASSUME Libp2pInv, NEW p \in Processes,
         \/ VerifyPublished(p) \/ CloseService(p) \/ CheckOwned(p)
         \/ RemoveEndpoint(p)
  PROVE  Libp2pInv'
  <1>0. /\ Libp2pTypeOK /\ RuntimeLeaseInv /\ IdentityInv
        /\ identityFaults \in 0 .. MaxIdentityFaults
        /\ endpoint \in [RuntimeDirs -> EndpointRecords \cup {ForeignRecord, NoEndpoint}]
        /\ proc[p].pc \in {"verify", "run", "check", "remove"}
        /\ UNCHANGED <<identityFiles, tpmKey, hostname, runtimeRoot, lease,
                       announced, identityLost>>
    BY DEF Libp2pInv, Libp2pTypeOK, VerifyPublished, CloseService, CheckOwned,
           RemoveEndpoint, At
  <1>1. IdentityFault => identityFaults' \in 0 .. MaxIdentityFaults
    BY <1>0, FaultCounted
  <1>2. /\ endpoint' \in [RuntimeDirs -> EndpointRecords \cup {ForeignRecord, NoEndpoint}]
        /\ identityFaults' \in 0 .. MaxIdentityFaults
        /\ \E phase \in {"run", "check", "remove", "release"} : To(p, phase)
    BY <1>0, <1>1 DEF VerifyPublished, CloseService, CheckOwned, RemoveEndpoint
  <1>3. PICK phase \in {"run", "check", "remove", "release"} : To(p, phase)
    BY <1>2
  <1>4. MayEnter(p, phase) /\ phase \in PhaseSet
    BY <1>0 DEF MayEnter, RuntimeLeaseInv, IdentityInv, ServingPhases, PinnedPhases,
                PhaseSet
  <1> QED BY <1>0, <1>2, <1>3, <1>4, ToEffect, PhaseStep DEF Becomes

(* The environment: what it does to files, directories and the key.        *)
LEMMA EnvironmentStep ==
  ASSUME Libp2pInv, LosePower \/ ReplaceRoot \/ OverwriteEndpoint \/ ReplaceKey
  PROVE  Libp2pInv'
  <1>0. /\ Libp2pTypeOK /\ RuntimeLeaseInv /\ IdentityInv /\ AnnouncedInv
        /\ identityFaults' \in 0 .. MaxIdentityFaults
    BY FaultCounted
    DEF Libp2pInv, LosePower, ReplaceRoot, OverwriteEndpoint, ReplaceKey
  <1>1. CASE LosePower
    <2> PICK r \in recordSurvivors :
          /\ record' = r /\ recordSurvivors' = {r}
          /\ identityLost' = (identityLost \/ (r = NoKey /\ announced # {}))
      BY <1>1 DEF LosePower
    <2>1. /\ hostname' \in [static : Keys \cup {NoKey}, transient : Keys \cup {NoKey}]
          /\ proc' = [p \in Processes |-> Down]
          /\ lease' = [d \in RuntimeDirs |-> NoProcess]
          /\ endpoint' = [d \in RuntimeDirs |-> NoEndpoint]
          /\ UNCHANGED <<tpmKey, runtimeRoot, announced>>
      BY <1>0, <1>1 DEF LosePower, Libp2pTypeOK
    <2>2. /\ proc' \in [Processes -> ProcRecords]
          /\ \A p \in Processes : proc'[p].pc = "down" /\ proc'[p].serving = FALSE
      BY <2>1, DownTyped
    <2>3. identityLost' \in BOOLEAN
      OBVIOUS
    <2>4. Libp2pTypeOK'
      BY <1>0, <2>1, <2>2, <2>3 DEF Libp2pTypeOK, ProcRecords
    <2>5. RuntimeLeaseInv'
      BY <2>2 DEF RuntimeLeaseInv, ServingPhases
    <2>6. IdentityInv'
      BY <2>2 DEF IdentityInv, ServingPhases, PinnedPhases
    <2>7. AnnouncedInv'
      BY <1>0, <2>1 DEF AnnouncedInv
    <2> QED BY <2>4, <2>5, <2>6, <2>7 DEF Libp2pInv
  <1>2. CASE ReplaceRoot \/ OverwriteEndpoint \/ ReplaceKey
    <2>1. Libp2pTypeOK'
      BY <1>0, <1>2 DEF Libp2pTypeOK, ReplaceRoot, OverwriteEndpoint, ReplaceKey,
                        identityFiles
    <2>2. RuntimeLeaseInv'
      BY <1>0, <1>2 DEF RuntimeLeaseInv, ReplaceRoot, OverwriteEndpoint, ReplaceKey
    <2>3. IdentityInv' /\ AnnouncedInv'
      BY <1>0, <1>2 DEF IdentityInv, AnnouncedInv, ReplaceRoot, OverwriteEndpoint,
                        ReplaceKey, identityFiles
    <2> QED BY <2>1, <2>2, <2>3 DEF Libp2pInv
  <1> QED BY <1>1, <1>2

(* The lease, the pinned identity and the names given are kept by every    *)
(* step of every process and of the environment.                           *)
THEOREM Libp2pInvariance == Libp2pSpec => []Libp2pInv
  <1>1. Libp2pInitial => Libp2pInv
    <2> SUFFICES ASSUME Libp2pInitial PROVE Libp2pInv
      OBVIOUS
    <2>1. /\ proc \in [Processes -> ProcRecords]
          /\ \A p \in Processes : proc[p].pc = "down" /\ proc[p].serving = FALSE
          /\ runtimeRoot \in RuntimeDirs
      BY DownTyped DEF Libp2pInitial, ProcRecords
    <2>2. Libp2pTypeOK
      <3>1. identityLost \in BOOLEAN
        BY Zenon DEF Libp2pInitial
      <3>2. identityFaults \in 0 .. MaxIdentityFaults
        BY Libp2pAssumption DEF Libp2pInitial
      <3>3. hostname \in [static : Keys \cup {NoKey}, transient : Keys \cup {NoKey}]
        BY DEF Libp2pInitial
      <3> QED BY <2>1, <3>1, <3>2, <3>3 DEF Libp2pInitial, Libp2pTypeOK, ProcRecords
    <2>3. RuntimeLeaseInv
      BY <2>1 DEF RuntimeLeaseInv, ServingPhases
    <2>4. IdentityInv
      BY <2>1 DEF IdentityInv, ServingPhases, PinnedPhases
    <2>5. AnnouncedInv
      BY DEF Libp2pInitial, AnnouncedInv
    <2> QED BY <2>2, <2>3, <2>4, <2>5 DEF Libp2pInv
  <1>2. Libp2pInv /\ [Libp2pNext]_libp2pVars => Libp2pInv'
    <2> SUFFICES ASSUME Libp2pInv, [Libp2pNext]_libp2pVars PROVE Libp2pInv'
      OBVIOUS
    <2>1. ASSUME NEW p \in Processes, ReleaseLease(p) \/ KillProcess(p)
          PROVE  Libp2pInv'
      BY <2>1, AbandonStep, FaultCounted
      DEF ReleaseLease, KillProcess, Libp2pInv, Libp2pTypeOK, identityFiles
    <2>2. CASE UNCHANGED libp2pVars
      BY <2>2 DEF libp2pVars, Libp2pInv, Libp2pTypeOK, RuntimeLeaseInv, IdentityInv,
                  AnnouncedInv
    <2> QED BY <2>1, <2>2, StartStep, AcquireStep, RecordStep, HostnameStep,
               PublishStep, ServingStep, EnvironmentStep
            DEF Libp2pNext
  <1> QED BY <1>1, <1>2, PTL DEF Libp2pSpec

(* A running libp2p service has its identity pinned, both hostnames set    *)
(* and its lease.                                                          *)
THEOREM ReadyComplete == Libp2pSpec => []ReadyIsComplete
  <1>1. Libp2pInv => ReadyIsComplete
    BY DEF Libp2pInv, RuntimeLeaseInv, IdentityInv, ReadyIsComplete, At,
           ServingPhases, PinnedPhases
  <1> QED BY <1>1, Libp2pInvariance, PTL

(* The device is never given a second name, unless a power loss took back  *)
(* a record that was not yet durable.                                      *)
THEOREM OneName == Libp2pSpec => []IdentityForLife
  <1>1. ASSUME Libp2pInv, ~identityLost PROVE Cardinality(announced) <= 1
    <2>1. announced \in SUBSET {record}
      BY <1>1 DEF Libp2pInv, AnnouncedInv
    <2>2. IsFiniteSet({record}) /\ Cardinality({record}) = 1
      BY FS_Singleton
    <2> QED BY <2>1, <2>2, FS_Subset
  <1>2. Libp2pInv => IdentityForLife
    BY <1>1 DEF IdentityForLife
  <1> QED BY <1>2, Libp2pInvariance, PTL

(* The lease is exclusive: a process that publishes or removes an endpoint *)
(* record never does so in the directory of another service that runs.     *)
THEOREM EndpointSafe == Libp2pSpec => EndpointKept
  <1>1. ASSUME Libp2pInv, [Libp2pNext]_libp2pVars, NEW p \in Processes,
               At(p, "run"), Owned(p), proc'[p].pc = "run"
        PROVE  endpoint'[proc[p].root].nonce \in {proc[p].nonce, 0}
    <2>0. /\ proc[p].root \in RuntimeDirs /\ lease[proc[p].root] = p
          /\ endpoint \in [RuntimeDirs -> EndpointRecords \cup {ForeignRecord, NoEndpoint}]
          /\ endpoint[proc[p].root].nonce = proc[p].nonce
      BY <1>1 DEF Libp2pInv, Libp2pTypeOK, RuntimeLeaseInv, At, Owned, ServingPhases
    <2>1. ASSUME NEW q \in Processes, PublishEndpoint(q) \/ RemoveEndpoint(q)
          PROVE  endpoint'[proc[p].root] = endpoint[proc[p].root]
      <3>1. proc[q].root \in RuntimeDirs /\ lease[proc[q].root] = q /\ q # p
        BY <1>1, <2>1 DEF Libp2pInv, Libp2pTypeOK, RuntimeLeaseInv, At,
                          PublishEndpoint, RemoveEndpoint, ServingPhases
      <3>2. \/ UNCHANGED endpoint
            \/ \E e : endpoint' = [endpoint EXCEPT ![proc[q].root] = e]
        BY <2>1 DEF PublishEndpoint, RemoveEndpoint, atomicReplaceTracked
      <3> QED BY <2>0, <3>1, <3>2
    <2>2. CASE LosePower
      BY <1>1, <2>2, DownTyped DEF LosePower
    <2>3. CASE OverwriteEndpoint
      BY <2>0, <2>3 DEF OverwriteEndpoint, ForeignRecord
    <2>4. CASE UNCHANGED endpoint
      BY <2>0, <2>4
    <2>5. ASSUME NEW q \in Processes,
                 \/ StartIdentity(q) \/ Initialize(q) \/ AcquireRuntimeLease(q)
                 \/ ReadIdentityRecord(q) \/ AtomicCreate(q) \/ SyncCreated(q)
                 \/ SetStaticHostname(q) \/ SetTransientHostname(q)
                 \/ VerifyPublished(q) \/ CloseService(q) \/ CheckOwned(q)
                 \/ ReleaseLease(q) \/ KillProcess(q)
          PROVE  UNCHANGED endpoint
      BY <2>5 DEF StartIdentity, Initialize, AcquireRuntimeLease, ReadIdentityRecord,
                  AtomicCreate, SyncCreated, SetStaticHostname, SetTransientHostname,
                  VerifyPublished, CloseService, CheckOwned, ReleaseLease, KillProcess
    <2>6. ReplaceRoot \/ ReplaceKey \/ UNCHANGED libp2pVars => UNCHANGED endpoint
      BY DEF ReplaceRoot, ReplaceKey, libp2pVars
    <2> QED BY <1>1, <2>0, <2>1, <2>2, <2>3, <2>4, <2>5, <2>6 DEF Libp2pNext
  <1> DEFINE A == \A p \in Processes :
                     At(p, "run") /\ Owned(p) /\ proc'[p].pc = "run"
                        => endpoint'[proc[p].root].nonce \in {proc[p].nonce, 0}
  <1>2. Libp2pInv /\ [Libp2pNext]_libp2pVars => [A]_libp2pVars
    BY <1>1
  <1> QED BY <1>2, Libp2pInvariance, PTL DEF Libp2pSpec, EndpointKept
=============================================================================
