------------------------- MODULE MCClusterControllers -------------------------
(***************************************************************************)
(* The ShipCrew controllers and the TPM signers share no state.  They are  *)
(* checked together, each from its own initial state: the component that   *)
(* focus names moves and the other stays where it is.                      *)
(***************************************************************************)
EXTENDS ShipCrew, TpmSigners

CONSTANT Focus   \* the components to explore

VARIABLE focus

vars == <<shipCrewVars, tpmSignersVars, focus>>

Init ==
    /\ focus \in Focus
    /\ ShipCrewInitial
    /\ TpmSignersInitial
    /\ focus = "shipcrew" => signer = "csr" /\ policy.spec.requireApproved
                             /\ \A r \in Requests : request[r].fits

Next ==
    /\ UNCHANGED focus
    /\ \/ focus = "shipcrew" /\ ShipCrewNext /\ UNCHANGED tpmSignersVars
       \/ focus = "signers" /\ TpmSignersNext /\ UNCHANGED shipCrewVars

(* TpmSignersFairness, where the signers are the ones that move.           *)
Spec == /\ Init /\ [][Next]_vars
        /\ ShipCrewFairness
        /\ WF_tpmSignersVars(focus = "signers" /\ PassStep)
=============================================================================
