------------------------------ MODULE TpmSigners ------------------------------
(***************************************************************************)
(* The two TPM-backed certificate signers under controllers/: the CSR      *)
(* signer for Kubernetes CertificateSigningRequests and the cluster issuer *)
(* for cert-manager CertificateRequests.  Both poll: a pass loads the      *)
(* policies, lists the requests once and then works through that list,     *)
(* checking and signing from what it has read while approvers go on        *)
(* deciding, and patching without a resource version.  One replica runs,   *)
(* as the Deployments ask; two that overlap in a rollout are left out.     *)
(*                                                                         *)
(* The variable signer says which of the two a behaviour is about; there   *)
(* is one policy (or issuer), and all requests name it.                    *)
(***************************************************************************)
EXTENDS Integers, FiniteSets

CONSTANTS
    Requests,         \* requests for a certificate
    MaxPolicyEdits,   \* bound: changes of the policy
    MaxSignerFaults   \* bound: failed or unanswered calls, restarts

ASSUME TpmSignersAssumption == MaxPolicyEdits \in Nat /\ MaxSignerFaults \in Nat

VARIABLES
    signer,         \* "csr" or "issuer"
    policy,         \* the policy object: its spec and its signedRequests
    request,        \* request[r]: spec and status in the API server
    pass,           \* the pass in progress: pc, what was read, what is left
    serials,        \* certificates signed so far
    policyEdits,
    signerFaults

tpmSignersVars == <<signer, policy, request, pass, serials, policyEdits, signerFaults>>

-----------------------------------------------------------------------------
(* valid: parsePolicy or parseIssuer accepts it; requireApproved, denyCA   *)
(* and caProfile as in the spec.  Decisions and Ready are the conditions.  *)
PolicySpecs == [valid : BOOLEAN, requireApproved : BOOLEAN, denyCA : BOOLEAN,
                caProfile : BOOLEAN]
Decisions == {"Approved", "Denied"}

(* fits: request, usages, subject and names are inside the limits of the   *)
(* policy; ca: spec.isCA.  cert is the serial, 0 when there is none.       *)
NewRequests ==
    {q \in [fits : BOOLEAN, ca : BOOLEAN, conditions : {{}}, cert : {0}] :
        q.ca => q.fits}

CautiousSpec == [valid |-> FALSE, requireApproved |-> TRUE, denyCA |-> TRUE,
                 caProfile |-> FALSE]

Unlisted == [conditions |-> {}, cert |-> 0]

(* Between two passes.  seen is the list, left what remains of it, cur the *)
(* request being handled and serial the certificate made for it.           *)
IdlePass == [pc |-> "sleep", spec |-> CautiousSpec, signed |-> 0,
             seen |-> [r \in Requests |-> Unlisted], left |-> {},
             cur |-> CHOOSE r \in Requests : TRUE, serial |-> 0]

SignerFault == signerFaults < MaxSignerFaults /\ signerFaults' = signerFaults + 1

-----------------------------------------------------------------------------
(* loadPolicies or loadIssuers: list and parse.  Without a valid policy    *)
(* the CSR signer returns and the issuer skips every request.  The Ready   *)
(* condition the policy gets is read by nobody here.                       *)
LoadPolicies ==
    /\ pass.pc = "sleep"
    /\ \/ /\ policy.spec.valid
          /\ pass' = [IdlePass EXCEPT !.pc = "list", !.spec = policy.spec,
                                      !.signed = policy.signed]
          /\ UNCHANGED signerFaults
       \/ SignerFault /\ UNCHANGED pass
    /\ UNCHANGED <<signer, policy, request, serials, policyEdits>>

ListRequests ==
    /\ pass.pc = "list"
    /\ \/ /\ pass' = [pass EXCEPT !.pc = "next", !.left = Requests,
                        !.seen = [r \in Requests |->
                                    [conditions |-> request[r].conditions,
                                     cert |-> request[r].cert]]]
          /\ UNCHANGED signerFaults
       \/ SignerFault /\ pass' = IdlePass
    /\ UNCHANGED <<signer, policy, request, serials, policyEdits>>

Seen(r) == pass.seen[r].conditions

(* Mutant: a request that is refused ends the pass.                        *)
ReturnError(p) == IdlePass

(* A refusal or an error of one request is logged, and the pass goes on.   *)
NextRequest(p) == [p EXCEPT !.pc = "next", !.serial = 0]

(* Mutant: the signer does not look whether there is a certificate.        *)
NeverSigned(r) == FALSE

(* The listed request already has a certificate.                           *)
AlreadySigned(r) == pass.seen[r].cert # 0

(* The CSR signer approves what nobody has decided when the policy does    *)
(* not ask for an approval; it does so before it holds the request against *)
(* the policy, and also when the certificate is there already.             *)
ApprovalDue(r) ==
    signer = "csr" /\ ~pass.spec.requireApproved /\ Seen(r) \cap Decisions = {}

(* usageSubset, subjectAllowed, ValidateCSR and Usages.                    *)
ValidateCSR(r) == request[r].fits

(* The checks of signCSR and signCertificateRequest: not denied, approved  *)
(* where that is required, inside the policy, and a CA request only if the *)
(* issuer does not deny them and the profile is a CA profile.              *)
Signable(r) ==
    /\ ~AlreadySigned(r)
    /\ "Denied" \notin Seen(r)
    /\ pass.spec.requireApproved => "Approved" \in Seen(r)
    /\ ValidateCSR(r)
    /\ request[r].ca => ~pass.spec.denyCA /\ pass.spec.caProfile

Handled(r, p) == IF Signable(r) THEN [p EXCEPT !.pc = "sign"] ELSE NextRequest(p)

(* The next request of the list.                                           *)
TakeRequest(r) ==
    LET p == [pass EXCEPT !.left = @ \ {r}, !.cur = r] IN
    /\ pass.pc = "next" /\ r \in pass.left
    /\ pass' = IF ApprovalDue(r) THEN [p EXCEPT !.pc = "approve"] ELSE Handled(r, p)
    /\ UNCHANGED <<signer, policy, request, serials, policyEdits, signerFaults>>

(* The API server's rules for the approval subresource: decisions already  *)
(* made are not removed, and there is only one.                            *)
ApprovalAccepted(r, conditions) ==
    /\ request[r].conditions \cap Decisions \subseteq conditions
    /\ ~(Decisions \subseteq conditions)

(* approveCSR writes the conditions that were listed, and Approved; the    *)
(* answer may be lost, or the call may fail without any effect.            *)
ApproveRequest ==
    LET r == pass.cur
        conditions == Seen(r) \cup {"Approved"} IN
    /\ pass.pc = "approve"
    /\ \/ /\ ApprovalAccepted(r, conditions)
          /\ request' = [request EXCEPT ![r].conditions = conditions]
          /\ \/ pass' = Handled(r, pass) /\ UNCHANGED signerFaults
             \/ SignerFault /\ pass' = NextRequest(pass)
       \/ /\ ~ApprovalAccepted(r, conditions)
          /\ pass' = NextRequest(pass) /\ UNCHANGED <<request, signerFaults>>
       \/ SignerFault /\ pass' = NextRequest(pass) /\ UNCHANGED request
    /\ UNCHANGED <<signer, policy, serials, policyEdits>>

(* signing.SignCSR makes a certificate with a fresh serial.                *)
SignRequest ==
    /\ pass.pc = "sign"
    /\ \/ /\ serials' = serials + 1
          /\ pass' = [pass EXCEPT !.pc = "patch", !.serial = serials + 1]
          /\ UNCHANGED signerFaults
       \/ SignerFault /\ pass' = NextRequest(pass) /\ UNCHANGED serials
    /\ UNCHANGED <<signer, policy, request, policyEdits>>

(* Mutant: the issuer's patch sets the list of conditions in every case.   *)
ReplacedConditions(r) ==
    IF signer = "csr" THEN request[r].conditions ELSE {"Ready"}

(* The conditions after the certificate is written: the CSR signer's merge *)
(* patch leaves them; the issuer's JSON patch appends Ready, or sets the   *)
(* whole list when the listed request had none.                            *)
PatchedConditions(r) ==
    CASE signer = "csr" -> request[r].conditions
      [] signer = "issuer" /\ Seen(r) = {} -> {"Ready"}
      [] OTHER -> request[r].conditions \cup {"Ready"}

(* Kubernetes does not let a certificate of a CSR be replaced; nothing     *)
(* protects the one of a CertificateRequest.                               *)
CertificateAccepted(r) == signer = "issuer" \/ request[r].cert = 0

PatchCertificate ==
    LET r == pass.cur IN
    /\ pass.pc = "patch"
    /\ \/ /\ CertificateAccepted(r)
          /\ request' = [request EXCEPT ![r].cert = pass.serial,
                                        ![r].conditions = PatchedConditions(r)]
          /\ \/ /\ pass' = IF signer = "csr" THEN [pass EXCEPT !.pc = "count"]
                                             ELSE NextRequest(pass)
                /\ UNCHANGED signerFaults
             \/ SignerFault /\ pass' = NextRequest(pass)
       \/ SignerFault /\ pass' = NextRequest(pass) /\ UNCHANGED request
    /\ UNCHANGED <<signer, policy, serials, policyEdits>>

(* The CSR signer writes the counter it has read, plus one.                *)
CountSigned ==
    /\ pass.pc = "count"
    /\ \/ policy' = [policy EXCEPT !.signed = pass.signed + 1] /\ UNCHANGED signerFaults
       \/ SignerFault /\ UNCHANGED policy
    /\ pass' = NextRequest(pass)
    /\ UNCHANGED <<signer, request, serials, policyEdits>>

EndPass ==
    /\ pass.pc = "next" /\ pass.left = {}
    /\ pass' = IdlePass
    /\ UNCHANGED <<signer, policy, request, serials, policyEdits, signerFaults>>

-----------------------------------------------------------------------------
(* The environment: approvers, administrators and crashes.                 *)

Decide(r) ==
    /\ request[r].conditions \cap Decisions = {}
    /\ \E d \in Decisions : request' = [request EXCEPT ![r].conditions = @ \cup {d}]
    /\ UNCHANGED <<signer, policy, pass, serials, policyEdits, signerFaults>>

EditPolicy ==
    /\ policyEdits < MaxPolicyEdits /\ policyEdits' = policyEdits + 1
    /\ \E f \in {"valid", "requireApproved"}
                \cup (IF signer = "issuer" THEN {"denyCA", "caProfile"} ELSE {}) :
          policy' = [policy EXCEPT !.spec[f] = ~@]
    /\ UNCHANGED <<signer, request, pass, serials, signerFaults>>

RestartSigner ==
    /\ pass.pc # "sleep" /\ SignerFault
    /\ pass' = IdlePass
    /\ UNCHANGED <<signer, policy, request, serials, policyEdits>>

-----------------------------------------------------------------------------
TpmSignersInitial ==
    /\ signer \in {"csr", "issuer"}
    /\ policy \in [spec : PolicySpecs, signed : {0}]
    /\ policy.spec.valid /\ (signer = "issuer" => ~policy.spec.denyCA)
    /\ request \in [Requests -> NewRequests]
    /\ signer = "csr" => /\ policy.spec.denyCA /\ ~policy.spec.caProfile
                         /\ \A r \in Requests : ~request[r].ca
    /\ pass = IdlePass
    /\ serials = 0 /\ policyEdits = 0 /\ signerFaults = 0

PassStep ==
    \/ LoadPolicies \/ ListRequests \/ ApproveRequest \/ SignRequest
    \/ PatchCertificate \/ CountSigned \/ EndPass
    \/ \E r \in Requests : TakeRequest(r)

TpmSignersNext ==
    \/ PassStep
    \/ \E r \in Requests : Decide(r)
    \/ EditPolicy \/ RestartSigner

(* The loop of main polls for ever.                                        *)
TpmSignersFairness == WF_tpmSignersVars(PassStep)

TpmSignersSpec ==
    TpmSignersInitial /\ [][TpmSignersNext]_tpmSignersVars /\ TpmSignersFairness

-----------------------------------------------------------------------------
(* Types of the state.                                                     *)
TpmSignersTypeOK ==
    /\ signer \in {"csr", "issuer"}
    /\ policy.spec \in PolicySpecs /\ policy.signed \in 0 .. serials
    /\ \A r \in Requests : /\ request[r].cert \in 0 .. serials
                           /\ request[r].conditions \subseteq Decisions \cup {"Ready"}
    /\ pass.left \subseteq Requests /\ pass.cur \in Requests
    /\ pass.serial \in 0 .. serials

(* A certificate, once written, is never replaced: not by a retry after a  *)
(* lost answer, and not by the pass after a restart.                       *)
CertificateWriteOnce ==
    [][\A r \in Requests : request[r].cert # 0
                              => request'[r].cert = request[r].cert]_tpmSignersVars

(* The issuer's JSON patch sets the list of conditions as a whole, because *)
(* it listed the request without any; it gets this far without a decision  *)
(* only when the issuer asks for no approval.                              *)
SetsConditions(r) ==
    /\ signer = "issuer" /\ ~pass.spec.requireApproved
    /\ pass.pc = "patch" /\ pass.cur = r /\ Seen(r) = {}

(* A decision of an approver is not undone by the signers, which approve   *)
(* and patch from a list that may be older than the decision: the CSR      *)
(* signer's approval and patch keep it, and so does the issuer's patch     *)
(* whenever approval is required or the request was listed with some       *)
(* condition.  SetsConditions is the one step that can lose it.            *)
DecisionKept ==
    [][\A r \in Requests :
          \/ request[r].conditions \cap Decisions \subseteq request'[r].conditions
          \/ SetsConditions(r)]_tpmSignersVars

Eligible(r) ==
    /\ policy.spec.valid /\ request[r].fits /\ "Approved" \in request[r].conditions
    /\ request[r].ca => ~policy.spec.denyCA /\ policy.spec.caProfile

(* A request that is approved and stays within a valid policy gets its     *)
(* certificate, whatever other requests are refused before it.             *)
ApprovedIsSigned ==
    \A r \in Requests : <>[]Eligible(r) => <>(request[r].cert # 0)
=============================================================================
