------------------------------ MODULE Bootstrap ------------------------------
(***************************************************************************)
(* The bootstrap coordinator (internal/bootstrap): a transaction of        *)
(* NumSteps ordered steps whose progress lives in one journal file.        *)
(* Several coordinator processes may run StartBootstrap against the same   *)
(* file; Save is a compare-and-swap on the journal revision.  A step is    *)
(* recorded as intended, executed against external dependencies, verified, *)
(* and only then committed.                                                *)
(*                                                                         *)
(* Durability: Save renames a synced temporary file over the journal and   *)
(* then syncs the directory.  When that last sync fails the new journal is *)
(* visible, but a power loss may still bring back the one before: the      *)
(* variable survivors holds every journal a power loss could leave.        *)
(***************************************************************************)
EXTENDS Integers, FiniteSets

CONSTANTS
    Coordinators,   \* processes that call StartBootstrap and GetStatus
    TxIDs,          \* transaction IDs that randomTransactionID may return
    Digests,        \* configuration digests a process may be started with
    None,           \* stands for "no transaction" and "no digest"
    NumSteps,       \* len(orderedSteps); the last step is mark-complete
    PreparedStep,   \* index of StepSPIRETPMConfig
    ApplyStep,      \* index of StepApplyClusterConfigs
    NumComponents,  \* components reconciled by the apply step
    MaxRevision,    \* math.MaxUint64 for Journal.Revision
    MaxAttempts,    \* math.MaxUint64 for Attempt.Attempts
    MaxFaults,      \* bound: I/O errors, dependency errors, crashes, cancels
    MaxBoots        \* bound: boots of the machine

ASSUME BootstrapAssumption ==
    /\ None \notin TxIDs \cup Digests \cup (TxIDs \X Digests)
    /\ NumSteps \in Nat /\ PreparedStep \in Nat /\ ApplyStep \in Nat
    /\ NumComponents \in Nat /\ NumComponents > 0
    /\ 0 < PreparedStep /\ PreparedStep < NumSteps
    /\ 0 < ApplyStep /\ ApplyStep < NumSteps
    /\ MaxRevision \in Nat /\ MaxAttempts \in Nat
    /\ MaxRevision > 0 /\ MaxAttempts > 0
    /\ MaxFaults \in Nat /\ MaxBoots \in Nat \ {0}

VARIABLES
    journal,    \* the journal a Load of the file returns
    survivors,  \* the journals a power loss now could leave in the file
    effects,    \* external results created under an idempotency key
    readiness,  \* boot recorded in prepared.json, 0 when there is no file
    boot,       \* the running kernel's boot ID
    reported,   \* last status GetStatus returned in this boot
    config,     \* config[c]: configuration digest of process c
    pc,         \* pc[c]: where c is in StartBootstrap
    local,      \* local[c]: the journal variable of StartBootstrap
    calls,      \* calls[c]: dependency calls made in the current step
    pending,    \* pending[c]: the failure c is about to persist
    faults      \* faults injected so far

process == <<pc, local, calls, pending>>
disk == <<journal, survivors>>
vars == <<journal, survivors, effects, readiness, boot, reported, config,
          pc, local, calls, pending, faults>>

-----------------------------------------------------------------------------
(* The journal document.                                                   *)

Steps == 1 .. NumSteps

Codes == {"action_failed", "verification_failed", "prepared_failed"}

NoFailure == [step |-> 0, code |-> "none"]

Failures == [step : Steps, code : Codes] \cup {NoFailure}

(* One document; current is Current.Attempts, with 0 for a nil Current     *)
(* (validateJournal pins Current.Step to the step after the committed      *)
(* ones).  Timestamps and evidence bodies are abstracted away.             *)
Journals == [rev      : 0 .. MaxRevision,
             tx       : TxIDs \cup {None},
             digest   : Digests \cup {None},
             state    : {"absent", "in_progress", "complete", "failed"},
             steps    : 0 .. NumSteps,
             prepared : BOOLEAN,
             current  : 0 .. MaxAttempts,
             failure  : Failures]

(* What Load returns when there is no file.                                *)
ZeroJournal == [rev |-> 0, tx |-> None, digest |-> None, state |-> "absent",
                steps |-> 0, prepared |-> FALSE, current |-> 0,
                failure |-> NoFailure]

(* The semantic part of validateJournal: Save refuses any other document.  *)
validateJournal(j) ==
    /\ j.rev > 0
    /\ j.tx # None /\ j.digest # None
    /\ j.steps <= NumSteps
    /\ j.prepared <=> (j.steps >= PreparedStep)
    /\ \/ j.state = "in_progress" /\ j.failure = NoFailure /\ j.steps < NumSteps
       \/ /\ j.state = "complete" /\ j.steps = NumSteps /\ j.current = 0
          /\ j.failure = NoFailure /\ j.prepared
       \/ j.state = "failed" /\ j.failure # NoFailure
    /\ j.current > 0 => j.steps < NumSteps

(* The documents StartBootstrap builds; each one is the next revision.     *)
NewJournal(digest, tx) ==
    [ZeroJournal EXCEPT !.rev = 1, !.tx = tx, !.digest = digest,
                        !.state = "in_progress"]

WithIntent(j) ==
    [j EXCEPT !.rev = @ + 1, !.current = @ + 1, !.state = "in_progress",
              !.failure = NoFailure]

(* Mutant: the step that makes the machine prepared does not say so.       *)
WithStepNotPrepared(j) ==
    [j EXCEPT !.rev = @ + 1, !.steps = @ + 1, !.current = 0,
              !.failure = NoFailure,
              !.state = IF j.steps + 1 = NumSteps THEN "complete"
                                                  ELSE "in_progress"]

WithStep(j) ==
    [j EXCEPT !.rev = @ + 1, !.steps = @ + 1, !.current = 0,
              !.failure = NoFailure,
              !.prepared = (@ \/ j.steps + 1 = PreparedStep),
              !.state = IF j.steps + 1 = NumSteps THEN "complete"
                                                  ELSE "in_progress"]

WithFailure(j, f) ==
    [j EXCEPT !.rev = @ + 1, !.state = "failed", !.failure = f]

(* Mutant: resuming forgets to clear the recorded failure.                 *)
WithStaleFailure(j) ==
    [j EXCEPT !.rev = @ + 1, !.state = "in_progress"]

WithoutFailure(j) ==
    [j EXCEPT !.rev = @ + 1, !.state = "in_progress", !.failure = NoFailure]

WithCompletion(j) ==
    [j EXCEPT !.rev = @ + 1, !.state = "complete", !.failure = NoFailure,
              !.current = 0]

-----------------------------------------------------------------------------
(* External results.  A dependency creates a result for one component of a *)
(* step under the key idempotencyKey(transaction, step).                   *)

Width(s) == IF s = ApplyStep THEN NumComponents ELSE 1

Effect(j, s, k) == [tx |-> j.tx, digest |-> j.digest, step |-> s, part |-> k]

Effects == [tx : TxIDs \cup {None}, digest : Digests \cup {None},
            step : Steps, part : 1 .. NumComponents]

(* A dependency's Verify call succeeds only for results that exist; the    *)
(* last step creates nothing, it re-checks the others.                     *)
Verifiable(j, s) ==
    s < NumSteps => \A k \in 1 .. Width(s) : Effect(j, s, k) \in effects

-----------------------------------------------------------------------------
PCs == {"idle", "initialize", "verify", "publish", "decide", "execute",
        "check", "commit", "fail"}

Statuses == {"none", "not_started", "in_progress", "complete", "failed"}

Fault == /\ faults < MaxFaults
         /\ faults' = faults + 1

(* Continue at label pc with journal j as the process's copy.              *)
Goto(c, label, j) ==
    /\ pc' = [pc EXCEPT ![c] = label]
    /\ local' = [local EXCEPT ![c] = j]
    /\ calls' = [calls EXCEPT ![c] = 0]
    /\ pending' = [pending EXCEPT ![c] = NoFailure]

(* StartBootstrap returns; its journal variable is gone.                   *)
Return(c) == Goto(c, "idle", ZeroJournal)

(* Remember the failure that saveFailure is about to persist.              *)
Fail(c, step, code) ==
    /\ pc' = [pc EXCEPT ![c] = "fail"]
    /\ pending' = [pending EXCEPT ![c] = [step |-> step, code |-> code]]
    /\ calls' = [calls EXCEPT ![c] = 0]
    /\ local' = local

(* Mutant: Save does not compare the revision in the file.                 *)
AcceptedUnchecked(c, next) ==
    /\ local[c].rev < MaxRevision
    /\ validateJournal(next)

(* What advanceAndSave and Save demand of the next document: a revision    *)
(* left to take, a valid document, and no other writer in between.         *)
Accepted(c, next) ==
    /\ local[c].rev < MaxRevision
    /\ validateJournal(next)
    /\ journal.rev = local[c].rev

(* Mutant: a failed directory sync is ignored and the caller goes on.      *)
SaveIgnoringSync(c, next, label) ==
    \/ /\ Accepted(c, next)
       /\ journal' = next
       /\ \/ survivors' = {next} /\ UNCHANGED faults
          \/ survivors' = survivors \cup {next} /\ Fault
       /\ IF label = "idle" THEN Return(c) ELSE Goto(c, label, next)
    \/ /\ Accepted(c, next) => Fault
       /\ ~Accepted(c, next) => UNCHANGED faults
       /\ UNCHANGED disk
       /\ Return(c)

(* Save under the exclusive file lock.  It commits and the caller goes on  *)
(* at label; or the directory sync fails after the rename, and the caller  *)
(* returns with ErrJournalDurabilityUncertain; or nothing is written.      *)
Save(c, next, label) ==
    \/ /\ Accepted(c, next)
       /\ journal' = next
       /\ survivors' = {next}
       /\ IF label = "idle" THEN Return(c) ELSE Goto(c, label, next)
       /\ UNCHANGED faults
    \/ /\ Accepted(c, next)
       /\ Fault
       /\ journal' = next
       /\ survivors' = survivors \cup {next}
       /\ Return(c)
    \/ /\ Accepted(c, next) => Fault
       /\ ~Accepted(c, next) => UNCHANGED faults
       /\ UNCHANGED disk
       /\ Return(c)

-----------------------------------------------------------------------------
(* StartBootstrap, in program order.                                       *)

requireCompatible(c, j) == j.digest = config[c]

(* Load the journal; one of another configuration is refused.              *)
StartBootstrap(c) ==
    /\ pc[c] = "idle"
    /\ \/ journal.rev = 0 /\ Goto(c, "initialize", journal)
       \/ /\ journal.rev > 0 /\ requireCompatible(c, journal)
          /\ Goto(c, "verify", journal)
       \/ /\ journal.rev > 0 /\ ~requireCompatible(c, journal)
          /\ UNCHANGED process
    /\ UNCHANGED <<disk, effects, readiness, boot, reported, config, faults>>

InitializeJournal(c) ==
    /\ pc[c] = "initialize"
    /\ \E tx \in TxIDs : Save(c, NewJournal(config[c], tx), "verify")
    /\ UNCHANGED <<effects, readiness, boot, reported, config>>

(* Mutant: readiness is published on every resume, prepared or not.        *)
AfterVerifyAlwaysPublish(j) == "publish"

(* Mutant: readiness is published only when the step is committed.         *)
AfterVerifyNeverPublish(j) == "decide"

(* The label after a successful verifyCompleted: if journal.Prepared.      *)
AfterVerify(j) == IF j.prepared THEN "publish" ELSE "decide"

(* Every committed step is verified again before anything else happens.    *)
VerifyCompleted(c) ==
    /\ pc[c] = "verify"
    /\ \/ /\ \A s \in 1 .. local[c].steps : Verifiable(local[c], s)
          /\ Goto(c, AfterVerify(local[c]), local[c])
          /\ UNCHANGED faults
       \/ \E s \in 1 .. local[c].steps :
             /\ IF Verifiable(local[c], s) THEN Fault ELSE UNCHANGED faults
             /\ Fail(c, s, "verification_failed")
    /\ UNCHANGED <<disk, effects, readiness, boot, reported, config>>

(* Publish writes prepared.json for this boot and Verify reads it back; a  *)
(* failure may come before or after the file was replaced.                 *)
PublishPrepared(c) ==
    /\ pc[c] = "publish"
    /\ \/ /\ readiness' = boot
          /\ Goto(c, "decide", local[c])
          /\ UNCHANGED faults
       \/ /\ Fault
          /\ readiness' \in {readiness, boot}
          /\ Fail(c, PreparedStep, "prepared_failed")
    /\ UNCHANGED <<disk, effects, boot, reported, config>>

(* All steps committed: restore the complete state if a failure hides it.  *)
RestoreComplete(c) ==
    /\ pc[c] = "decide"
    /\ local[c].steps = NumSteps
    /\ \/ /\ local[c].state # "complete" \/ local[c].failure # NoFailure
          /\ Save(c, WithCompletion(local[c]), "idle")
       \/ /\ local[c].state = "complete" /\ local[c].failure = NoFailure
          /\ Return(c)
          /\ UNCHANGED <<disk, faults>>
    /\ UNCHANGED <<effects, readiness, boot, reported, config>>

ResumeFailed(c) ==
    /\ pc[c] = "decide"
    /\ local[c].steps < NumSteps
    /\ local[c].state = "failed" \/ local[c].failure # NoFailure
    /\ Save(c, WithoutFailure(local[c]), "decide")
    /\ UNCHANGED <<effects, readiness, boot, reported, config>>

(* The loop's check of ctx.Err before the next step.                       *)
Cancel(c) ==
    /\ pc[c] = "decide"
    /\ local[c].steps < NumSteps
    /\ local[c].state = "in_progress"
    /\ Fault
    /\ Return(c)
    /\ UNCHANGED <<disk, effects, readiness, boot, reported, config>>

BeginAttempt(c) ==
    /\ pc[c] = "decide"
    /\ local[c].steps < NumSteps
    /\ local[c].state = "in_progress" /\ local[c].failure = NoFailure
    /\ \/ /\ local[c].current < MaxAttempts
          /\ Save(c, WithIntent(local[c]), "execute")
       \/ /\ local[c].current = MaxAttempts
          /\ Return(c)
          /\ UNCHANGED <<disk, faults>>
    /\ UNCHANGED <<effects, readiness, boot, reported, config>>

(* One dependency call of executeStep.  It creates its result; a faulty    *)
(* one may report an error with or without having created it, or report    *)
(* success for a result that is not there.                                 *)
ExecuteStep(c) ==
    LET s == local[c].steps + 1
        e == Effect(local[c], s, calls[c] + 1)
        Continue == /\ calls' = [calls EXCEPT ![c] = @ + 1]
                    /\ pc' = [pc EXCEPT ![c] =
                                IF calls[c] + 1 = Width(s) THEN "check"
                                                           ELSE "execute"]
                    /\ UNCHANGED <<local, pending>>
    IN  /\ pc[c] = "execute"
        /\ s < NumSteps
        /\ \/ /\ effects' = effects \cup {e}
              /\ Continue
              /\ UNCHANGED faults
           \/ /\ Fault
              /\ UNCHANGED effects
              /\ Continue
           \/ /\ Fault
              /\ effects' \in {effects, effects \cup {e}}
              /\ Fail(c, s, "action_failed")
        /\ UNCHANGED <<disk, readiness, boot, reported, config>>

(* executeStep for mark-complete: verify every step again and ask every    *)
(* component whether it is ready.  Nothing is created.                     *)
CheckAllReady(c) ==
    /\ pc[c] = "execute"
    /\ local[c].steps + 1 = NumSteps
    /\ LET ok == \A s \in 1 .. local[c].steps : Verifiable(local[c], s)
       IN  \/ ok /\ Goto(c, "check", local[c]) /\ UNCHANGED faults
           \/ /\ IF ok THEN Fault ELSE UNCHANGED faults
              /\ Fail(c, NumSteps, "action_failed")
    /\ UNCHANGED <<disk, effects, readiness, boot, reported, config>>

(* Mutant: the evidence a dependency returned is taken at its word.        *)
VerifyResultSkipped(c) ==
    /\ pc[c] = "check"
    /\ Goto(c, "commit", local[c])
    /\ UNCHANGED <<faults, disk, effects, readiness, boot, reported, config>>

(* validateEvidence and verifyRecord on the step just executed.            *)
VerifyResult(c) ==
    /\ pc[c] = "check"
    /\ LET s == local[c].steps + 1
           ok == Verifiable(local[c], s)
       IN  \/ ok /\ Goto(c, "commit", local[c]) /\ UNCHANGED faults
           \/ /\ IF ok THEN Fault ELSE UNCHANGED faults
              /\ Fail(c, s, "verification_failed")
    /\ UNCHANGED <<disk, effects, readiness, boot, reported, config>>

CommitStep(c) ==
    /\ pc[c] = "commit"
    /\ Save(c, WithStep(local[c]),
            IF local[c].steps + 1 = PreparedStep THEN "publish" ELSE "decide")
    /\ UNCHANGED <<effects, readiness, boot, reported, config>>

SaveFailure(c) ==
    /\ pc[c] = "fail"
    /\ Save(c, WithFailure(local[c], pending[c]), "idle")
    /\ UNCHANGED <<effects, readiness, boot, reported, config>>

-----------------------------------------------------------------------------
StatusOf(j) == IF j.rev = 0 THEN "not_started" ELSE j.state

(* GetStatus loads the journal without taking runMu.                       *)
GetStatus(c) ==
    /\ journal.rev > 0 => requireCompatible(c, journal)
    /\ reported' = StatusOf(journal)
    /\ UNCHANGED <<disk, effects, readiness, boot, config, process, faults>>

(* The process dies and is restarted, perhaps with another configuration;  *)
(* systemd may clear the unit's runtime directory on the way.              *)
Crash(c) ==
    /\ Fault
    /\ config' \in {[config EXCEPT ![c] = d] : d \in Digests}
    /\ readiness' \in {0, readiness}
    /\ Return(c)
    /\ UNCHANGED <<disk, effects, boot, reported>>

(* The machine loses power: every process dies, the journal is one of the  *)
(* survivors, and the runtime directory may or may not have been cleared.  *)
PowerLoss ==
    /\ boot < MaxBoots
    /\ boot' = boot + 1
    /\ \E j \in survivors : journal' = j /\ survivors' = {j}
    /\ readiness' \in {0, readiness}
    /\ reported' = "none"
    /\ pc' = [c \in Coordinators |-> "idle"]
    /\ local' = [c \in Coordinators |-> ZeroJournal]
    /\ calls' = [c \in Coordinators |-> 0]
    /\ pending' = [c \in Coordinators |-> NoFailure]
    /\ UNCHANGED <<effects, config, faults>>

-----------------------------------------------------------------------------
Init ==
    /\ journal = ZeroJournal
    /\ survivors = {ZeroJournal}
    /\ effects = {}
    /\ readiness = 0
    /\ boot = 1
    /\ reported = "none"
    /\ config \in [Coordinators -> Digests]
    /\ pc = [c \in Coordinators |-> "idle"]
    /\ local = [c \in Coordinators |-> ZeroJournal]
    /\ calls = [c \in Coordinators |-> 0]
    /\ pending = [c \in Coordinators |-> NoFailure]
    /\ faults = 0

Step(c) ==
    \/ InitializeJournal(c) \/ VerifyCompleted(c) \/ PublishPrepared(c)
    \/ RestoreComplete(c) \/ ResumeFailed(c) \/ BeginAttempt(c)
    \/ ExecuteStep(c) \/ CheckAllReady(c) \/ VerifyResult(c)
    \/ CommitStep(c) \/ SaveFailure(c)

Next ==
    \/ \E c \in Coordinators : StartBootstrap(c) \/ Step(c) \/ Cancel(c)
                               \/ GetStatus(c) \/ Crash(c)
    \/ PowerLoss

Spec == Init /\ [][Next]_vars

(* A started call keeps running, and the client of the StartBootstrap RPC  *)
(* calls again after the call or the process has ended.                    *)
FairSpec == /\ Spec
            /\ \A c \in Coordinators : WF_vars(StartBootstrap(c))
            /\ \A c \in Coordinators : WF_vars(Step(c))

-----------------------------------------------------------------------------
(* Properties.                                                             *)

Active(c) == pc[c] \notin {"idle", "initialize"}

(* Types of the variables.  The attempt and revision counters of the       *)
(* journal stay below their limits because beginAttempt and advanceAndSave *)
(* refuse to pass them.                                                    *)
TypeOK ==
    /\ journal \in Journals
    /\ survivors \in SUBSET Journals
    /\ effects \in SUBSET Effects
    /\ boot \in 1 .. MaxBoots
    /\ readiness \in 0 .. boot
    /\ reported \in Statuses
    /\ config \in [Coordinators -> Digests]
    /\ pc \in [Coordinators -> PCs]
    /\ local \in [Coordinators -> Journals]
    /\ calls \in [Coordinators -> 0 .. NumComponents]
    /\ pending \in [Coordinators -> Failures]
    /\ faults \in 0 .. MaxFaults

(* Within a boot a revision number stands for one document: a coordinator  *)
(* whose copy has the file's revision has the file's content, so the       *)
(* compare-and-swap of Save on the number alone never loses an update.     *)
RevisionIdentifiesContent ==
    \A c \in Coordinators :
        Active(c) => /\ local[c].rev <= journal.rev
                     /\ local[c].rev = journal.rev => local[c] = journal

(* j has committed step s of transaction tx, or records the intent to.     *)
Intended(j, tx, digest, s) ==
    /\ j.tx = tx /\ j.digest = digest
    /\ j.steps >= s \/ (j.steps = s - 1 /\ j.current > 0)

(* beginAttempt before executeStep: nothing is ever created outside unless *)
(* every journal a power loss could leave records the intent for it, under *)
(* the same transaction ID and configuration.  In particular all results   *)
(* belong to one transaction, and no later step is begun on the strength   *)
(* of a commit that a power loss could undo.                               *)
IntentBeforeAction ==
    \A e \in effects : \A j \in survivors :
        Intended(j, e.tx, e.digest, e.step)

(* Every step a journal counts as completed was really carried out: all    *)
(* of its results exist, for the file as it is and for whatever a power    *)
(* loss leaves.                                                            *)
CommittedStepsVerified ==
    \A j \in survivors \cup {journal} :
        \A s \in 1 .. j.steps : Verifiable(j, s)

(* A readiness record for the running boot (which sovereignite-wait-ready  *)
(* takes as permission to start Kubernetes) exists only while the journal  *)
(* has committed the prerequisite steps.                                   *)
PreparedSound == readiness = boot => journal.prepared

(* The comment on GetStatus: complete is impossible unless the ninth       *)
(* verified record is committed; the answer stays right for the boot.      *)
CompleteIsVerified ==
    reported = "complete" =>
        /\ journal.steps = NumSteps
        /\ \A s \in Steps : Verifiable(journal, s)

(* No sequence of calls, failures and resumptions leads StartBootstrap to  *)
(* a document that its own store refuses as invalid, which would wedge the *)
(* transaction for good.                                                   *)
NeverRefusedAsInvalid ==
    \A c \in Coordinators :
        /\ pc[c] = "commit" => validateJournal(WithStep(local[c]))
        /\ pc[c] = "fail" => validateJournal(WithFailure(local[c], pending[c]))
        /\ pc[c] = "decide" =>
              \/ local[c].state = "complete"
              \/ local[c].steps = NumSteps /\ validateJournal(WithCompletion(local[c]))
              \/ local[c].state = "failed" /\ validateJournal(WithoutFailure(local[c]))
              \/ local[c].state = "in_progress" /\ validateJournal(WithIntent(local[c]))

(* While the machine runs the file only moves forward: one revision at a   *)
(* time, never to another transaction or configuration, at most one more   *)
(* step, and only a step whose intent is in the file.                      *)
JournalMovesForward ==
    [][boot' = boot /\ journal' # journal =>
          /\ journal'.rev = journal.rev + 1
          /\ journal.rev > 0 => /\ journal'.tx = journal.tx
                                /\ journal'.digest = journal.digest
          /\ \/ journal'.steps = journal.steps
             \/ journal'.steps = journal.steps + 1 /\ journal.current > 0]_vars

(* With one coordinator, finitely many faults and a client that keeps      *)
(* calling, the transaction completes and stays complete.                  *)
EventuallyComplete == <>[](journal.state = "complete")

(* ... and the readiness record of the last boot is published again.       *)
PreparedRepublished == <>[](readiness = boot)

-----------------------------------------------------------------------------
(* Implementation of BootstrapTransaction: what is durable is what the     *)
(* oldest journal that a power loss could bring back says.                 *)

Durable == CHOOSE j \in survivors : \A k \in survivors : j.rev <= k.rev

Transaction == INSTANCE BootstrapTransaction WITH
    Parts <- LAMBDA s : IF s < NumSteps THEN 1 .. Width(s) ELSE {},
    owner <- IF Durable.rev = 0 THEN None ELSE <<Durable.tx, Durable.digest>>,
    created <- {<<<<e.tx, e.digest>>, e.step, e.part>> : e \in effects},
    committed <- Durable.steps

(* The coordinators, with crashes, failed syncs and power loss, implement  *)
(* the transaction: one owner, strictly ordered steps, nothing undone.     *)
ImplementsTransaction == Transaction!TSpec
=============================================================================
