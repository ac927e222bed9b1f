------------------------------ MODULE IpfsService ------------------------------
(***************************************************************************)
(* The life of the IPFS service (internal/ipfs/service.go, cmd/ipfs): a    *)
(* process opens the signer and the Kubo node, checks both, takes the      *)
(* lease of the runtime directory, publishes a readiness record and then   *)
(* stands by until it is cancelled or Kubo terminates.  The readiness      *)
(* records of two instances have the same bytes (there is no nonce), so    *)
(* removeReadinessIfOwned cannot tell them apart: the lease must.          *)
(*                                                                         *)
(* What the service publishes while it runs is module IpfsPublisher.       *)
(***************************************************************************)
EXTENDS Naturals

CONSTANTS
    Instances,      \* processes running cmd/ipfs
    NoInstance,     \* stands for a free lease
    ServiceDirs,    \* directories that can be found at RuntimePath
    MaxServiceFaults \* bound: failed calls, kills, power losses, moves

ASSUME IpfsServiceAssumption ==
    /\ NoInstance \notin Instances /\ ServiceDirs # {}
    /\ MaxServiceFaults \in Nat

VARIABLES
    serviceDir,    \* directory now at RuntimePath
    serviceLease,  \* serviceLease[d]: instance that holds the lock of d
    readyFile,     \* readyFile[d]: "none", "live" (its writer stands behind
                   \* it) or "stale" (its writer is gone); same bytes
    ipfs,          \* ipfs[i]: where i is, its directory and its Kubo node
    serviceFaults  \* faults injected so far

ipfsServiceVars == <<serviceDir, serviceLease, readyFile, ipfs, serviceFaults>>

-----------------------------------------------------------------------------
IpfsDown == [pc |-> "down", kubo |-> "none", dir |-> CHOOSE d \in ServiceDirs : TRUE]

ServicePhases == {"down", "lease", "publish", "check", "run", "stop", "release",
                  "close"}

ServiceFault ==
    /\ serviceFaults < MaxServiceFaults
    /\ serviceFaults' = serviceFaults + 1

InPhase(i, phase) == ipfs[i].pc = phase
Enter(i, phase) == ipfs' = [ipfs EXCEPT ![i].pc = phase]

Unleased(i) == [d \in ServiceDirs |-> IF serviceLease[d] = i THEN NoInstance
                                                         ELSE serviceLease[d]]

(* A record without its writer.                                            *)
Orphaned(i) == [d \in ServiceDirs |->
                   IF serviceLease[d] = i /\ readyFile[d] = "live"
                   THEN "stale" ELSE readyFile[d]]

(* The directory that is anchored, and whether it is still at the path.    *)
openSecureDirectory == serviceDir
requireDirectoryStillAtPath(i) == ipfs[i].dir = serviceDir

-----------------------------------------------------------------------------
(* runWithConfig opens the signer and the node; StartService proves the    *)
(* signer, validates the node's descriptor, asks the node whether it is    *)
(* ready and loads the publication state.  Any refusal closes the node     *)
(* again and changes nothing.                                              *)
OpenNode(i) ==
    /\ InPhase(i, "down")
    /\ ipfs' = [ipfs EXCEPT ![i] = [IpfsDown EXCEPT !.pc = "lease", !.kubo = "up"]]
    /\ UNCHANGED <<serviceDir, serviceLease, readyFile, serviceFaults>>

(* The last pollKuboTermination before the lease, then acquireServiceLease *)
(* on the directory now at the path; the lock is not waited for.           *)
AcquireServiceLease(i) ==
    LET d == openSecureDirectory IN
    /\ InPhase(i, "lease")
    /\ IF ipfs[i].kubo = "up" /\ serviceLease[d] = NoInstance
       THEN /\ serviceLease' = [serviceLease EXCEPT ![d] = i]
            /\ ipfs' = [ipfs EXCEPT ![i].pc = "publish", ![i].dir = d]
       ELSE ipfs' = [ipfs EXCEPT ![i] = IpfsDown] /\ UNCHANGED serviceLease
    /\ UNCHANGED <<serviceDir, readyFile, serviceFaults>>

(* atomicReplaceInRoot; when only the directory sync failed the record is  *)
(* removed again.                                                          *)
PublishReadiness(i) ==
    /\ InPhase(i, "publish")
    /\ \/ /\ readyFile' = [readyFile EXCEPT ![ipfs[i].dir] = "live"]
          /\ \/ Enter(i, "check") /\ UNCHANGED serviceFaults
             \/ Enter(i, "stop") /\ ServiceFault
       \/ Enter(i, "release") /\ ServiceFault /\ UNCHANGED readyFile
    /\ UNCHANGED <<serviceDir, serviceLease>>

(* requireDirectoryStillAtPath and the last pollKuboTermination.           *)
CheckPublished(i) ==
    /\ InPhase(i, "check")
    /\ Enter(i, IF requireDirectoryStillAtPath(i) /\ ipfs[i].kubo = "up"
                THEN "run" ELSE "stop")
    /\ UNCHANGED <<serviceDir, serviceLease, readyFile, serviceFaults>>

(* Run or Close: the context is cancelled.  stop runs once.                *)
CancelService(i) ==
    /\ InPhase(i, "run")
    /\ Enter(i, "stop")
    /\ UNCHANGED <<serviceDir, serviceLease, readyFile, serviceFaults>>

(* Mutant: only a caller blocked in Run would notice that Kubo stopped.    *)
NoMonitor(i) == FALSE /\ UNCHANGED ipfsServiceVars

(* monitorKubo receives from the node's termination channel.               *)
MonitorKubo(i) ==
    /\ InPhase(i, "run") /\ ipfs[i].kubo = "dead"
    /\ Enter(i, "stop")
    /\ UNCHANGED <<serviceDir, serviceLease, readyFile, serviceFaults>>

(* Mutant: stop releases the lease before it removes the readiness record. *)
RemoveAfterRelease(i) ==
    /\ InPhase(i, "stop")
    /\ \/ /\ serviceLease[ipfs[i].dir] = i
          /\ serviceLease' = Unleased(i) /\ UNCHANGED <<readyFile, ipfs>>
       \/ /\ serviceLease[ipfs[i].dir] # i
          /\ readyFile' = [readyFile EXCEPT ![ipfs[i].dir] = "none"]
          /\ Enter(i, "release") /\ UNCHANGED serviceLease
    /\ UNCHANGED <<serviceDir, serviceFaults>>

(* removeReadinessIfOwned; stop goes on when it fails.                     *)
RemoveReadiness(i) ==
    /\ InPhase(i, "stop")
    /\ \/ /\ readyFile' = [readyFile EXCEPT ![ipfs[i].dir] = "none"]
          /\ UNCHANGED serviceFaults
       \/ readyFile' = Orphaned(i) /\ ServiceFault
    /\ Enter(i, "release")
    /\ UNCHANGED <<serviceDir, serviceLease>>

ReleaseServiceLease(i) ==
    /\ InPhase(i, "release")
    /\ serviceLease' = Unleased(i)
    /\ Enter(i, "close")
    /\ UNCHANGED <<serviceDir, readyFile, serviceFaults>>

(* node.Close, and the process ends.                                       *)
CloseNode(i) ==
    /\ InPhase(i, "close")
    /\ ipfs' = [ipfs EXCEPT ![i] = IpfsDown]
    /\ UNCHANGED <<serviceDir, serviceLease, readyFile, serviceFaults>>

-----------------------------------------------------------------------------
(* The environment.                                                        *)

KuboTerminates(i) ==
    /\ ipfs[i].kubo = "up"
    /\ ipfs' = [ipfs EXCEPT ![i].kubo = "dead"]
    /\ UNCHANGED <<serviceDir, serviceLease, readyFile, serviceFaults>>

KillInstance(i) ==
    /\ ~InPhase(i, "down") /\ ServiceFault
    /\ ipfs' = [ipfs EXCEPT ![i] = IpfsDown]
    /\ serviceLease' = Unleased(i)
    /\ readyFile' = Orphaned(i)
    /\ UNCHANGED serviceDir

(* The runtime directory does not outlive the boot.                        *)
RebootService ==
    /\ ServiceFault
    /\ ipfs' = [i \in Instances |-> IpfsDown]
    /\ serviceLease' = [d \in ServiceDirs |-> NoInstance]
    /\ readyFile' = [d \in ServiceDirs |-> "none"]
    /\ UNCHANGED serviceDir

MoveRuntimeDirectory ==
    /\ ServiceFault
    /\ \E d \in ServiceDirs \ {serviceDir} : serviceDir' = d
    /\ UNCHANGED <<serviceLease, readyFile, ipfs>>

-----------------------------------------------------------------------------
IpfsServiceInitial ==
    /\ serviceDir = IpfsDown.dir
    /\ serviceLease = [d \in ServiceDirs |-> NoInstance]
    /\ readyFile = [d \in ServiceDirs |-> "none"]
    /\ ipfs = [i \in Instances |-> IpfsDown]
    /\ serviceFaults = 0

(* The steps an instance takes once it was started.                        *)
InstanceStep(i) ==
    \/ AcquireServiceLease(i) \/ PublishReadiness(i) \/ CheckPublished(i)
    \/ MonitorKubo(i) \/ RemoveReadiness(i) \/ ReleaseServiceLease(i)
    \/ CloseNode(i)

IpfsServiceNext ==
    \/ \E i \in Instances :
          \/ OpenNode(i) \/ InstanceStep(i) \/ CancelService(i)
          \/ KuboTerminates(i) \/ KillInstance(i)
    \/ RebootService \/ MoveRuntimeDirectory

(* A started process keeps running its goroutines until it is killed;      *)
(* nobody has to start or cancel one.                                      *)
IpfsServiceFairness == \A i \in Instances : WF_ipfsServiceVars(InstanceStep(i))

IpfsServiceSpec ==
    IpfsServiceInitial /\ [][IpfsServiceNext]_ipfsServiceVars /\ IpfsServiceFairness

-----------------------------------------------------------------------------
(* Types of the state.                                                     *)
IpfsServiceTypeOK ==
    /\ serviceDir \in ServiceDirs
    /\ serviceLease \in [ServiceDirs -> Instances \cup {NoInstance}]
    /\ readyFile \in [ServiceDirs -> {"none", "live", "stale"}]
    /\ ipfs \in [Instances -> [pc : ServicePhases, kubo : {"none", "up", "dead"},
                               dir : ServiceDirs]]
    /\ serviceFaults \in 0 .. MaxServiceFaults

(* A running service has its readiness record in the directory it serves:  *)
(* a predecessor that is still stopping, or a start that gives up, never   *)
(* takes it away although it could not tell the records apart              *)
(* (removeReadinessIfOwned under the lease).                               *)
ReadinessHeld ==
    \A i \in Instances : InPhase(i, "run") => readyFile[ipfs[i].dir] = "live"

(* When Kubo terminates under a running service, its readiness record is   *)
(* withdrawn or taken over by an instance with a living node, even when no *)
(* caller waits in Run (monitorKubo); a record whose removal failed or     *)
(* whose writer was killed stays behind.                                   *)
KuboDeathWithdraws ==
    \A d \in ServiceDirs :
       (\E i \in Instances : InPhase(i, "run") /\ ipfs[i].dir = d
                             /\ ipfs[i].kubo = "dead")
       ~> \/ readyFile[d] # "live"
          \/ \E i \in Instances : serviceLease[d] = i /\ ipfs[i].kubo = "up"
=============================================================================
