------------------------------ MODULE Discovery ------------------------------
(***************************************************************************)
(* The discovery service (internal/discovery, cmd/discovery): it announces *)
(* the device over mDNS and Bluetooth LE.  Start and Stop are serialized   *)
(* by operationMu, so one operation is in progress at a time, but the      *)
(* state is read while it runs, its context may be cancelled at any point, *)
(* and the shutdown of an mDNS server goes on in a goroutine of its own    *)
(* after Stop has given up waiting for it.                                 *)
(***************************************************************************)
EXTENDS Integers

CONSTANTS
    Servers,     \* zeroconf servers; the bound on those not yet shut down
    Sessions,    \* private D-Bus connections to BlueZ
    NoHandle     \* the nil Registration

ASSUME DiscoveryAssumption == NoHandle \notin Servers \cup Sessions

VARIABLES
    discoveryState, \* Service.state
    broadcastOp,    \* the operation that holds operationMu
    mdnsHandle,     \* Service.mdnsHandle
    bleHandle,      \* Service.bleHandle
    mdnsServer,     \* mdnsServer[s]: "free", "up" or "closing"
    bleSession      \* bleSession[b]: "free", "open", "registered", "released"

discoveryVars == <<discoveryState, broadcastOp, mdnsHandle, bleHandle,
                   mdnsServer, bleSession>>
handles == <<mdnsHandle, bleHandle>>

-----------------------------------------------------------------------------
(* pc is the next call of the operation; mdns and ble are its local        *)
(* registrations; canceled says whether its context is done.               *)
IdleOp == [pc |-> "idle", mdns |-> NoHandle, ble |-> NoHandle, canceled |-> FALSE]

DiscoveryStates == {"stopped", "starting", "running", "stopping"}

OpPhases == {"idle", "mdns", "mdnsUp", "dial", "register", "registered", "commit",
             "bleStop", "mdnsStop", "await"}

Continue(pc) == broadcastOp' = [broadcastOp EXCEPT !.pc = pc]

(* Undo what was registered, under a fresh cleanupContext.                 *)
Rollback(pc, ble) ==
    broadcastOp' = [broadcastOp EXCEPT !.pc = pc, !.ble = ble, !.canceled = FALSE]

(* setState(StateStopped), or the last assignments of Stop.                *)
EndStopped ==
    /\ discoveryState' = "stopped"
    /\ broadcastOp' = IdleOp
    /\ mdnsHandle' = NoHandle /\ bleHandle' = NoHandle

-----------------------------------------------------------------------------
(* Start.  A second Start is refused with ErrAlreadyRunning.               *)
StartBroadcast ==
    /\ broadcastOp = IdleOp
    /\ discoveryState = "stopped"
    /\ discoveryState' = "starting"
    /\ Continue("mdns")
    /\ UNCHANGED <<handles, mdnsServer, bleSession>>

(* The context of the operation is done: the caller went away, the process *)
(* was asked to stop or a timeout has passed.                              *)
CancelOp ==
    /\ broadcastOp.pc # "idle" /\ ~broadcastOp.canceled
    /\ broadcastOp' = [broadcastOp EXCEPT !.canceled = TRUE]
    /\ UNCHANGED <<discoveryState, handles, mdnsServer, bleSession>>

(* ZeroconfBroadcaster.Start, up to b.register.                            *)
RegisterMDNS ==
    /\ broadcastOp.pc = "mdns"
    /\ \/ \E s \in Servers :
             /\ ~broadcastOp.canceled /\ mdnsServer[s] = "free"
             /\ mdnsServer' = [mdnsServer EXCEPT ![s] = "up"]
             /\ broadcastOp' = [broadcastOp EXCEPT !.pc = "mdnsUp", !.mdns = s]
             /\ UNCHANGED <<discoveryState, handles>>
       \/ EndStopped /\ UNCHANGED mdnsServer
    /\ UNCHANGED bleSession

(* The ctx.Err() checks of the broadcaster and of Start: a canceled start  *)
(* stops the server it has just registered.                                *)
MDNSRegistered ==
    /\ broadcastOp.pc = "mdnsUp"
    /\ IF broadcastOp.canceled THEN Rollback("mdnsStop", NoHandle)
                               ELSE Continue("dial")
    /\ UNCHANGED <<discoveryState, handles, mdnsServer, bleSession>>

(* BlueZBroadcaster.Start: dialSystemBlueZ makes a private connection.     *)
(* When it fails Start rolls the mDNS registration back.                   *)
DialBlueZ ==
    /\ broadcastOp.pc = "dial"
    /\ \/ \E b \in Sessions :
             /\ ~broadcastOp.canceled /\ bleSession[b] = "free"
             /\ bleSession' = [bleSession EXCEPT ![b] = "open"]
             /\ broadcastOp' = [broadcastOp EXCEPT !.pc = "register", !.ble = b]
       \/ Rollback("mdnsStop", NoHandle) /\ UNCHANGED bleSession
    /\ UNCHANGED <<discoveryState, handles, mdnsServer>>

(* Mutant: when BLE fails, Start leaves the mDNS registration in place.    *)
RegisterBLENoRollback ==
    /\ broadcastOp.pc = "register"
    /\ \/ /\ ~broadcastOp.canceled
          /\ bleSession' = [bleSession EXCEPT ![broadcastOp.ble] = "registered"]
          /\ Continue("registered") /\ UNCHANGED <<discoveryState, handles>>
       \/ /\ bleSession' = [bleSession EXCEPT ![broadcastOp.ble] = "free"]
          /\ EndStopped
    /\ UNCHANGED mdnsServer

(* ExportAdvertisement and RegisterAdvertisement.  A failure, or a context *)
(* that is done, closes the connection, and BlueZ drops whatever was       *)
(* registered on it, also when the reply to the call was lost.             *)
RegisterBLE ==
    /\ broadcastOp.pc = "register"
    /\ \/ /\ ~broadcastOp.canceled
          /\ bleSession' = [bleSession EXCEPT ![broadcastOp.ble] = "registered"]
          /\ Continue("registered")
       \/ /\ bleSession' = [bleSession EXCEPT ![broadcastOp.ble] = "free"]
          /\ Rollback("mdnsStop", NoHandle)
    /\ UNCHANGED <<discoveryState, handles, mdnsServer>>

(* The ctx.Err() checks after registration: both are stopped, BLE first.   *)
BLERegistered ==
    /\ broadcastOp.pc = "registered"
    /\ IF broadcastOp.canceled THEN Rollback("bleStop", broadcastOp.ble)
                               ELSE Continue("commit")
    /\ UNCHANGED <<discoveryState, handles, mdnsServer, bleSession>>

CommitStart ==
    /\ broadcastOp.pc = "commit"
    /\ mdnsHandle' = broadcastOp.mdns /\ bleHandle' = broadcastOp.ble
    /\ discoveryState' = "running"
    /\ broadcastOp' = IdleOp
    /\ UNCHANGED <<mdnsServer, bleSession>>

-----------------------------------------------------------------------------
(* Stop, of a service that is running; a stopped one returns at once.      *)
StopBroadcast ==
    /\ broadcastOp = IdleOp
    /\ discoveryState = "running"
    /\ discoveryState' = "stopping"
    /\ broadcastOp' = [IdleOp EXCEPT !.pc = "bleStop", !.mdns = mdnsHandle,
                                     !.ble = bleHandle]
    /\ UNCHANGED <<handles, mdnsServer, bleSession>>

(* blueZRegistration.Stop: unregister, and close the connection whatever   *)
(* the answer was.                                                         *)
StopBLE ==
    /\ broadcastOp.pc = "bleStop"
    /\ bleSession' = [bleSession EXCEPT ![broadcastOp.ble] = "free"]
    /\ broadcastOp' = [broadcastOp EXCEPT !.pc = "mdnsStop", !.ble = NoHandle]
    /\ UNCHANGED <<discoveryState, handles, mdnsServer>>

(* Mutant: a Stop whose context is done returns before it starts anything. *)
StopMDNSIfTime ==
    /\ broadcastOp.pc = "mdnsStop"
    /\ \/ /\ ~broadcastOp.canceled
          /\ mdnsServer' = [mdnsServer EXCEPT ![broadcastOp.mdns] = "closing"]
          /\ Continue("await")
       \/ broadcastOp.canceled /\ Continue("await") /\ UNCHANGED mdnsServer
    /\ UNCHANGED <<discoveryState, handles, bleSession>>

(* zeroconfRegistration.Stop starts the goroutine that shuts the server    *)
(* down, and waits for it or for the context.                              *)
StopMDNS ==
    /\ broadcastOp.pc = "mdnsStop"
    /\ mdnsServer' = [mdnsServer EXCEPT ![broadcastOp.mdns] = "closing"]
    /\ Continue("await")
    /\ UNCHANGED <<discoveryState, handles, bleSession>>

AwaitMDNS ==
    /\ broadcastOp.pc = "await"
    /\ broadcastOp.canceled \/ mdnsServer[broadcastOp.mdns] = "free"
    /\ EndStopped
    /\ UNCHANGED <<mdnsServer, bleSession>>

(* The goroutine: Shutdown sends the goodbye records and closes.           *)
ShutdownDone(s) ==
    /\ mdnsServer[s] = "closing"
    /\ mdnsServer' = [mdnsServer EXCEPT ![s] = "free"]
    /\ UNCHANGED <<discoveryState, broadcastOp, handles, bleSession>>

(* BlueZ withdraws the advertisement; Release answers and does nothing.    *)
BlueZRelease(b) ==
    /\ bleSession[b] = "registered"
    /\ bleSession' = [bleSession EXCEPT ![b] = "released"]
    /\ UNCHANGED <<discoveryState, broadcastOp, handles, mdnsServer>>

(* run returns after Stop, or the process is killed, and is started anew.  *)
RestartDiscovery ==
    /\ discoveryState' = "stopped" /\ broadcastOp' = IdleOp
    /\ mdnsHandle' = NoHandle /\ bleHandle' = NoHandle
    /\ mdnsServer' = [s \in Servers |-> "free"]
    /\ bleSession' = [b \in Sessions |-> "free"]

-----------------------------------------------------------------------------
DiscoveryInitial ==
    /\ discoveryState = "stopped" /\ broadcastOp = IdleOp
    /\ mdnsHandle = NoHandle /\ bleHandle = NoHandle
    /\ mdnsServer = [s \in Servers |-> "free"]
    /\ bleSession = [b \in Sessions |-> "free"]

(* The calls of the operation in progress.                                 *)
OpStep ==
    \/ RegisterMDNS \/ MDNSRegistered \/ DialBlueZ \/ RegisterBLE
    \/ BLERegistered \/ CommitStart \/ StopBLE \/ StopMDNS \/ AwaitMDNS

DiscoveryNext ==
    \/ StartBroadcast \/ StopBroadcast \/ CancelOp \/ OpStep
    \/ \E s \in Servers : ShutdownDone(s)
    \/ \E b \in Sessions : BlueZRelease(b)
    \/ RestartDiscovery

(* An operation in progress goes on and a shutdown ends; nobody has to     *)
(* start or stop a broadcast.                                              *)
DiscoveryFairness ==
    /\ WF_discoveryVars(OpStep)
    /\ \A s \in Servers : WF_discoveryVars(ShutdownDone(s))

DiscoverySpec == DiscoveryInitial /\ [][DiscoveryNext]_discoveryVars /\ DiscoveryFairness

-----------------------------------------------------------------------------
(* Types of the state.                                                     *)
DiscoveryTypeOK ==
    /\ discoveryState \in DiscoveryStates
    /\ broadcastOp \in [pc : OpPhases, mdns : Servers \cup {NoHandle},
                        ble : Sessions \cup {NoHandle}, canceled : BOOLEAN]
    /\ mdnsHandle \in Servers \cup {NoHandle}
    /\ bleHandle \in Sessions \cup {NoHandle}
    /\ mdnsServer \in [Servers -> {"free", "up", "closing"}]
    /\ bleSession \in [Sessions -> {"free", "open", "registered", "released"}]

NothingRegistered ==
    /\ \A s \in Servers : mdnsServer[s] = "free"
    /\ \A b \in Sessions : bleSession[b] = "free"

(* No registration is forgotten: at every cancellation and failure point   *)
(* of Start and Stop, a server that is up and a BlueZ connection belong to *)
(* the running service or to the operation in progress, and a service that *)
(* says it is running has both.                                            *)
NoOrphanRegistration ==
    /\ \A s \in Servers :
          mdnsServer[s] = "up" => s \in {mdnsHandle, broadcastOp.mdns}
    /\ \A b \in Sessions :
          bleSession[b] # "free" => b \in {bleHandle, broadcastOp.ble}
    /\ discoveryState = "running" =>
          /\ mdnsHandle # NoHandle /\ mdnsServer[mdnsHandle] = "up"
          /\ bleHandle # NoHandle /\ bleSession[bleHandle] \in {"registered", "released"}

(* A broadcast that is being stopped, or rolled back, is over some time    *)
(* later unless it is started again, however often Stop gives up waiting   *)
(* for the mDNS server.                                                    *)
StoppedDrains ==
    (broadcastOp.pc = "mdnsStop") ~> (NothingRegistered \/ discoveryState = "starting")
=============================================================================
