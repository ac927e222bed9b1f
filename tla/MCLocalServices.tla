--------------------------- MODULE MCLocalServices ---------------------------
(***************************************************************************)
(* libp2p-init, the IPFS service and discovery share no state.  They are   *)
(* checked together, each from its own initial state: the component that   *)
(* focus names moves and the others stay where they are.                   *)
(***************************************************************************)
EXTENDS Libp2pInit, IpfsService, Discovery

CONSTANT Focus   \* the components to explore

VARIABLE focus

vars == <<libp2pVars, ipfsServiceVars, discoveryVars, focus>>

Init ==
    /\ Libp2pInitial /\ IpfsServiceInitial /\ DiscoveryInitial
    /\ focus \in Focus

Next ==
    /\ UNCHANGED focus
    /\ \/ /\ focus = "libp2p" /\ Libp2pNext
          /\ UNCHANGED <<ipfsServiceVars, discoveryVars>>
       \/ /\ focus = "ipfs" /\ IpfsServiceNext
          /\ UNCHANGED <<libp2pVars, discoveryVars>>
       \/ /\ focus = "discovery" /\ DiscoveryNext
          /\ UNCHANGED <<libp2pVars, ipfsServiceVars>>

Spec == Init /\ [][Next]_vars /\ IpfsServiceFairness /\ DiscoveryFairness
=============================================================================
