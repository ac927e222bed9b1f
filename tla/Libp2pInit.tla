------------------------------ MODULE Libp2pInit ------------------------------
(***************************************************************************)
(* libp2p-init (internal/libp2p, cmd/libp2p-init): the process that gives  *)
(* the device its identity.  Start proves the TPM key, launches the libp2p *)
(* host, takes the lease of the runtime directory, pins the identity in a  *)
(* state file, sets both hostnames and publishes an endpoint record;       *)
(* Initialize pins the identity and sets the hostnames only, without the   *)
(* lease.  Several processes may do either at once.                        *)
(*                                                                         *)
(* The state file is linked into place and its directory is synced         *)
(* afterwards, so a power loss may leave any of recordSurvivors.  The      *)
(* runtime directory is boot scoped: a power loss empties it.              *)
(***************************************************************************)
EXTENDS Integers, FiniteSets

CONSTANTS
    Processes,       \* processes running libp2p-init
    Keys,            \* TPM keys; a name, a peer ID and a record stand for one
    NoKey,           \* stands for "no record", "no hostname"
    NoProcess,       \* stands for a free lease
    RuntimeDirs,     \* directories that can be found at the runtime path
    MaxIdentityFaults \* bound: failures, crashes, power losses, interference

ASSUME Libp2pAssumption ==
    /\ NoKey \notin Keys /\ NoProcess \notin Processes
    /\ Keys # {} /\ RuntimeDirs # {}
    /\ IsFiniteSet(Processes) /\ IsFiniteSet(RuntimeDirs)
    /\ MaxIdentityFaults \in Nat

VARIABLES
    record,          \* key in the identity state file, as a read returns it
    recordSurvivors, \* what a power loss could leave in the state file
    tpmKey,          \* the key behind the TPM handle
    hostname,        \* static and transient host name
    runtimeRoot,     \* directory now at the runtime path
    lease,           \* lease[d]: process that holds the lock file of d
    endpoint,        \* endpoint[d]: the endpoint record in d
    proc,            \* proc[p]: where p is, and what it holds
    announced,       \* names the device was ever given
    identityLost,    \* a power loss took an announced identity away
    identityFaults   \* faults injected so far

identityFiles == <<record, recordSurvivors>>
libp2pVars == <<record, recordSurvivors, tpmKey, hostname, runtimeRoot, lease,
                endpoint, proc, announced, identityLost, identityFaults>>

-----------------------------------------------------------------------------
(* An endpoint record is told apart by its instance nonce; nonce 0 is a    *)
(* file some other program wrote at its name.                              *)
Nonces == 1 .. (Cardinality(Processes) + Cardinality(RuntimeDirs) + 1)
NoEndpoint == [nonce |-> -1, key |-> NoKey]
ForeignRecord == [nonce |-> 0, key |-> NoKey]
EndpointRecords == [nonce : Nonces, key : Keys]

Down == [pc |-> "down", serving |-> FALSE, key |-> NoKey,
         root |-> CHOOSE d \in RuntimeDirs : TRUE, nonce |-> 0]

PhaseSet == {"down", "host", "ensure", "create", "linked", "reread", "static",
             "transient", "publish", "verify", "run", "check", "remove",
             "release"}

(* newInstanceNonce: random, so unlike every nonce still visible.          *)
FreshNonce ==
    CHOOSE n \in Nonces : /\ \A p \in Processes : proc[p].nonce # n
                          /\ \A d \in RuntimeDirs : endpoint[d].nonce # n

IdentityFault ==
    /\ identityFaults < MaxIdentityFaults
    /\ identityFaults' = identityFaults + 1

At(p, phase) == proc[p].pc = phase
To(p, phase) == proc' = [proc EXCEPT ![p].pc = phase]

(* Leaving before anything was published: the deferred functions release   *)
(* the lease and close the host.                                           *)
Abandon(p) ==
    /\ proc' = [proc EXCEPT ![p] = Down]
    /\ lease' = [d \in RuntimeDirs |-> IF lease[d] = p THEN NoProcess
                                                       ELSE lease[d]]

(* The files: the directory that is anchored, whether it is still the one  *)
(* at the path, the pinned identity, and a record renamed into place.      *)
openPrivateDirectory == runtimeRoot
requireRootStillAtPath(p) == runtimeRoot = proc[p].root
readIdentityRecord == record
atomicReplaceTracked(d, e) == [endpoint EXCEPT ![d] = e]

-----------------------------------------------------------------------------
(* The key behind the handle signs a challenge, and the identity is        *)
(* derived from its public half.                                           *)
prepareIdentity == tpmKey

(* Start also launches the libp2p host; a host with another peer ID is     *)
(* closed again.                                                           *)
StartIdentity(p) ==
    /\ At(p, "down")
    /\ proc' = [proc EXCEPT ![p] = [Down EXCEPT !.pc = "host", !.serving = TRUE,
                                                !.key = prepareIdentity]]
    /\ UNCHANGED <<identityFiles, tpmKey, hostname, runtimeRoot, lease, endpoint,
                   announced, identityLost, identityFaults>>

Initialize(p) ==
    /\ At(p, "down")
    /\ proc' = [proc EXCEPT ![p] = [Down EXCEPT !.pc = "ensure",
                                                !.key = prepareIdentity]]
    /\ UNCHANGED <<identityFiles, tpmKey, hostname, runtimeRoot, lease, endpoint,
                   announced, identityLost, identityFaults>>

(* Mutant: a shared lock, which every process gets.                        *)
SharedLease(p) ==
    /\ At(p, "host")
    /\ lease' = [lease EXCEPT ![runtimeRoot] = p]
    /\ proc' = [proc EXCEPT ![p].pc = "ensure", ![p].root = runtimeRoot]
    /\ UNCHANGED <<identityFiles, tpmKey, hostname, runtimeRoot, endpoint,
                   announced, identityLost, identityFaults>>

(* openPrivateDirectory anchors the directory now at the path; the lock    *)
(* is then taken without waiting, ErrServiceAlreadyRunning when it is      *)
(* held.                                                                   *)
AcquireRuntimeLease(p) ==
    LET d == openPrivateDirectory IN
    /\ At(p, "host")
    /\ IF lease[d] = NoProcess
       THEN /\ lease' = [lease EXCEPT ![d] = p]
            /\ proc' = [proc EXCEPT ![p].pc = "ensure", ![p].root = d]
       ELSE Abandon(p)
    /\ UNCHANGED <<identityFiles, tpmKey, hostname, runtimeRoot, endpoint,
                   announced, identityLost, identityFaults>>

(* Mutant: any record will do.                                             *)
AnyRecord(persisted, key) == TRUE

(* compareIdentityRecords, of the persisted record and the key's own.      *)
compareIdentityRecords(persisted, key) == persisted = key

(* readIdentityRecord, first and after losing the race to create it; the   *)
(* second time there is a record, which nothing removes before a reboot.   *)
ReadIdentityRecord(p) ==
    /\ At(p, "ensure") \/ At(p, "reread")
    /\ \/ readIdentityRecord = NoKey /\ To(p, "create") /\ UNCHANGED lease
       \/ /\ readIdentityRecord # NoKey
          /\ IF compareIdentityRecords(readIdentityRecord, proc[p].key)
             THEN To(p, "static") /\ UNCHANGED lease
             ELSE Abandon(p)
    /\ UNCHANGED <<identityFiles, tpmKey, hostname, runtimeRoot, endpoint,
                   announced, identityLost, identityFaults>>

(* atomicCreate links a synced temporary file; link refuses to replace.    *)
AtomicCreate(p) ==
    /\ At(p, "create")
    /\ IF record = NoKey
       THEN /\ record' = proc[p].key
            /\ recordSurvivors' = recordSurvivors \cup {proc[p].key}
            /\ To(p, "linked")
       ELSE To(p, "reread") /\ UNCHANGED identityFiles
    /\ UNCHANGED <<tpmKey, hostname, runtimeRoot, lease, endpoint, announced,
                   identityLost, identityFaults>>

(* syncRoot after the link, and ensureIdentityState's own check that the   *)
(* state root is still at its path.  When one of them fails the record     *)
(* stays linked.                                                           *)
SyncCreated(p) ==
    /\ At(p, "linked")
    /\ \/ /\ recordSurvivors' = {record}
          /\ To(p, "static")
          /\ UNCHANGED <<lease, identityFaults>>
       \/ /\ IdentityFault /\ Abandon(p)
          /\ recordSurvivors' \in {recordSurvivors, {record}}
    /\ UNCHANGED <<record, tpmKey, hostname, runtimeRoot, endpoint, announced,
                   identityLost>>

(* SetHostname: hostname1's SetStaticHostname, then SetHostname.  A call   *)
(* that fails may have taken effect.                                       *)
SetStaticHostname(p) ==
    /\ At(p, "static")
    /\ \/ /\ hostname' = [hostname EXCEPT !.static = proc[p].key]
          /\ announced' = announced \cup {proc[p].key}
          /\ \/ To(p, "transient") /\ UNCHANGED <<lease, identityFaults>>
             \/ IdentityFault /\ Abandon(p)
       \/ IdentityFault /\ Abandon(p) /\ UNCHANGED <<hostname, announced>>
    /\ UNCHANGED <<identityFiles, tpmKey, runtimeRoot, endpoint, identityLost>>

(* Mutant: the transient name is left to the next boot.                    *)
SkipTransientHostname(p) ==
    /\ At(p, "transient")
    /\ \/ proc[p].serving /\ To(p, "publish") /\ UNCHANGED lease
       \/ ~proc[p].serving /\ Abandon(p)
    /\ UNCHANGED <<identityFiles, tpmKey, hostname, runtimeRoot, endpoint,
                   announced, identityLost, identityFaults>>

SetTransientHostname(p) ==
    /\ At(p, "transient")
    /\ \/ /\ hostname' = [hostname EXCEPT !.transient = proc[p].key]
          /\ \/ /\ proc[p].serving /\ To(p, "publish")
                /\ UNCHANGED <<lease, identityFaults>>
             \/ ~proc[p].serving /\ Abandon(p) /\ UNCHANGED identityFaults
             \/ IdentityFault /\ Abandon(p)
       \/ IdentityFault /\ Abandon(p) /\ UNCHANGED hostname
    /\ UNCHANGED <<identityFiles, tpmKey, runtimeRoot, endpoint, announced,
                   identityLost>>

(* The readiness listener is bound and the endpoint record renamed into    *)
(* the anchored directory.  A failed sync leaves it there to be cleaned.   *)
PublishEndpoint(p) ==
    /\ At(p, "publish")
    /\ \/ /\ endpoint' = atomicReplaceTracked(proc[p].root,
                             [nonce |-> FreshNonce, key |-> proc[p].key])
          /\ \/ /\ proc' = [proc EXCEPT ![p].pc = "verify", ![p].nonce = FreshNonce]
                /\ UNCHANGED identityFaults
             \/ /\ IdentityFault
                /\ proc' = [proc EXCEPT ![p].pc = "check", ![p].nonce = FreshNonce]
          /\ UNCHANGED lease
       \/ IdentityFault /\ Abandon(p) /\ UNCHANGED endpoint
    /\ UNCHANGED <<identityFiles, tpmKey, hostname, runtimeRoot, announced,
                   identityLost>>

Owned(p) == endpoint[proc[p].root].nonce = proc[p].nonce

(* requireOwnedRegularFile and requireRootStillAtPath.                     *)
VerifyPublished(p) ==
    /\ At(p, "verify")
    /\ To(p, IF Owned(p) /\ requireRootStillAtPath(p) THEN "run" ELSE "check")
    /\ UNCHANGED <<identityFiles, tpmKey, hostname, runtimeRoot, lease, endpoint,
                   announced, identityLost, identityFaults>>

(* Run: cancellation or a failed Accept closes the service, once.          *)
CloseService(p) ==
    /\ At(p, "run")
    /\ To(p, "check")
    /\ UNCHANGED <<identityFiles, tpmKey, hostname, runtimeRoot, lease, endpoint,
                   announced, identityLost, identityFaults>>

(* removeIfOwnedFileMatches: compare the file, then remove its name.       *)
CheckOwned(p) ==
    /\ At(p, "check")
    /\ To(p, IF Owned(p) THEN "remove" ELSE "release")
    /\ UNCHANGED <<identityFiles, tpmKey, hostname, runtimeRoot, lease, endpoint,
                   announced, identityLost, identityFaults>>

RemoveEndpoint(p) ==
    /\ At(p, "remove")
    /\ \/ /\ endpoint' = [endpoint EXCEPT ![proc[p].root] = NoEndpoint]
          /\ UNCHANGED identityFaults
       \/ IdentityFault /\ UNCHANGED endpoint
    /\ To(p, "release")
    /\ UNCHANGED <<identityFiles, tpmKey, hostname, runtimeRoot, lease, announced,
                   identityLost>>

ReleaseLease(p) ==
    /\ At(p, "release")
    /\ Abandon(p)
    /\ UNCHANGED <<identityFiles, tpmKey, hostname, runtimeRoot, endpoint,
                   announced, identityLost, identityFaults>>

-----------------------------------------------------------------------------
(* The environment.                                                        *)

(* A killed process, or an error of a call that has changed nothing.       *)
KillProcess(p) ==
    /\ ~At(p, "down") /\ IdentityFault
    /\ Abandon(p)
    /\ UNCHANGED <<identityFiles, tpmKey, hostname, runtimeRoot, endpoint,
                   announced, identityLost>>

(* The machine loses power: every process ends, the state file is one of   *)
(* those that could survive, and the static name becomes the host name.    *)
LosePower ==
    /\ IdentityFault
    /\ \E r \in recordSurvivors :
          /\ record' = r /\ recordSurvivors' = {r}
          /\ identityLost' = (identityLost \/ (r = NoKey /\ announced # {}))
    /\ hostname' = [hostname EXCEPT !.transient = hostname.static]
    /\ proc' = [p \in Processes |-> Down]
    /\ lease' = [d \in RuntimeDirs |-> NoProcess]
    /\ endpoint' = [d \in RuntimeDirs |-> NoEndpoint]
    /\ UNCHANGED <<tpmKey, runtimeRoot, announced>>

(* Another program moves the runtime directory, or writes the file.        *)
ReplaceRoot ==
    /\ IdentityFault
    /\ \E d \in RuntimeDirs \ {runtimeRoot} : runtimeRoot' = d
    /\ UNCHANGED <<identityFiles, tpmKey, hostname, lease, endpoint, proc,
                   announced, identityLost>>

OverwriteEndpoint ==
    /\ IdentityFault
    /\ endpoint' = [endpoint EXCEPT ![runtimeRoot] = ForeignRecord]
    /\ UNCHANGED <<identityFiles, tpmKey, hostname, runtimeRoot, lease, proc,
                   announced, identityLost>>

(* The handle is provisioned with another key.                             *)
ReplaceKey ==
    /\ IdentityFault
    /\ \E k \in Keys \ {tpmKey} : tpmKey' = k
    /\ UNCHANGED <<identityFiles, hostname, runtimeRoot, lease, endpoint, proc,
                   announced, identityLost>>

-----------------------------------------------------------------------------
Libp2pInitial ==
    /\ record = NoKey /\ recordSurvivors = {NoKey}
    /\ tpmKey \in Keys
    /\ hostname = [static |-> NoKey, transient |-> NoKey]
    /\ runtimeRoot = Down.root
    /\ lease = [d \in RuntimeDirs |-> NoProcess]
    /\ endpoint = [d \in RuntimeDirs |-> NoEndpoint]
    /\ proc = [p \in Processes |-> Down]
    /\ announced = {} /\ identityLost = FALSE /\ identityFaults = 0

Libp2pNext ==
    \/ \E p \in Processes :
          \/ StartIdentity(p) \/ Initialize(p) \/ AcquireRuntimeLease(p)
          \/ ReadIdentityRecord(p) \/ AtomicCreate(p) \/ SyncCreated(p)
          \/ SetStaticHostname(p) \/ SetTransientHostname(p)
          \/ PublishEndpoint(p) \/ VerifyPublished(p) \/ CloseService(p)
          \/ CheckOwned(p) \/ RemoveEndpoint(p) \/ ReleaseLease(p)
          \/ KillProcess(p)
    \/ LosePower \/ ReplaceRoot \/ OverwriteEndpoint \/ ReplaceKey

Libp2pSpec == Libp2pInitial /\ [][Libp2pNext]_libp2pVars

-----------------------------------------------------------------------------
(* Types of the state.                                                     *)
Libp2pTypeOK ==
    /\ record \in Keys \cup {NoKey} /\ tpmKey \in Keys
    /\ record \in recordSurvivors /\ recordSurvivors \subseteq Keys \cup {NoKey}
    /\ hostname \in [static : Keys \cup {NoKey}, transient : Keys \cup {NoKey}]
    /\ runtimeRoot \in RuntimeDirs
    /\ lease \in [RuntimeDirs -> Processes \cup {NoProcess}]
    /\ endpoint \in [RuntimeDirs -> EndpointRecords
                                    \cup {ForeignRecord, NoEndpoint}]
    /\ proc \in [Processes -> [pc : PhaseSet, serving : BOOLEAN,
                               key : Keys \cup {NoKey}, root : RuntimeDirs,
                               nonce : Nonces \cup {0}]]
    /\ announced \subseteq Keys /\ identityLost \in BOOLEAN
    /\ identityFaults \in 0 .. MaxIdentityFaults

(* The identity is for life: whatever is done to the TPM handle, and       *)
(* however many processes initialize at once, the device is never given a  *)
(* second name, unless a power loss has taken back an identity record that *)
(* was read before its directory was synced (ensureIdentityState).         *)
IdentityForLife == Cardinality(announced) <= 1 \/ identityLost

(* A service that is running has its identity pinned in the state file and *)
(* applied to both hostnames, and holds the lease of the directory its     *)
(* endpoint record went to (Start).                                        *)
ReadyIsComplete ==
    \A p \in Processes :
       At(p, "run") => /\ record = proc[p].key
                       /\ hostname.static = proc[p].key
                       /\ hostname.transient = proc[p].key
                       /\ lease[proc[p].root] = p

(* While a service runs, no start and no stop of another process replaces  *)
(* or removes its endpoint record: only another program or the loss of     *)
(* power does (acquireRuntimeLease, removeIfOwnedFileMatches).             *)
EndpointKept ==
    [][\A p \in Processes :
          At(p, "run") /\ Owned(p) /\ proc'[p].pc = "run"
             => endpoint'[proc[p].root].nonce \in {proc[p].nonce, 0}]_libp2pVars
=============================================================================
