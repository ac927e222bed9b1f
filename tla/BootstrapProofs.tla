--------------------------- MODULE BootstrapProofs ---------------------------
(***************************************************************************)
(* Machine-checked proofs about Bootstrap, for every number of processes,  *)
(* steps, faults and boots.                                                *)
(***************************************************************************)
EXTENDS Bootstrap, TLAPS

(* The relation between a document and the one that replaces it.           *)
Succeeds(next, j) ==
    /\ next.rev = j.rev + 1
    /\ j.rev > 0 => next.tx = j.tx /\ next.digest = j.digest
    /\ j.prepared => next.prepared
    /\ \/ /\ next.steps = j.steps
          /\ j.current > 0 /\ j.steps < NumSteps => next.current > 0
       \/ next.steps = j.steps + 1 /\ j.current > 0

-----------------------------------------------------------------------------
(* The zero journal is well typed.                                         *)
LEMMA ZeroTyped == ZeroJournal \in Journals /\ NoFailure \in Failures
  BY BootstrapAssumption DEF ZeroJournal, Journals, NoFailure, Failures

(* Every document StartBootstrap builds is well typed, as long as the two  *)
(* counters have room and a step is left to commit.                        *)
LEMMA BuildersTyped ==
  ASSUME NEW j \in Journals, j.rev < MaxRevision
  PROVE  /\ \A d \in Digests, tx \in TxIDs : NewJournal(d, tx) \in Journals
         /\ j.current < MaxAttempts => WithIntent(j) \in Journals
         /\ j.steps < NumSteps => WithStep(j) \in Journals
         /\ \A f \in Failures : WithFailure(j, f) \in Journals
         /\ WithoutFailure(j) \in Journals
         /\ WithCompletion(j) \in Journals
  <1>1. /\ j.rev + 1 \in 0 .. MaxRevision /\ 1 \in 0 .. MaxRevision
        /\ 0 \in 0 .. MaxAttempts
        /\ j.current < MaxAttempts => j.current + 1 \in 0 .. MaxAttempts
        /\ j.steps < NumSteps => j.steps + 1 \in 0 .. NumSteps
    BY BootstrapAssumption DEF Journals
  <1>2. /\ "in_progress" \in {"absent", "in_progress", "complete", "failed"}
        /\ "complete" \in {"absent", "in_progress", "complete", "failed"}
        /\ "failed" \in {"absent", "in_progress", "complete", "failed"}
    OBVIOUS
  <1> USE <1>1, <1>2, ZeroTyped, Zenon DEF Journals
  <1>3. \A d \in Digests, tx \in TxIDs : NewJournal(d, tx) \in Journals
    BY DEF NewJournal
  <1>4. j.current < MaxAttempts => WithIntent(j) \in Journals
    BY DEF WithIntent
  <1>5. j.steps < NumSteps => WithStep(j) \in Journals
    BY DEF WithStep
  <1>6. \A f \in Failures : WithFailure(j, f) \in Journals
    BY DEF WithFailure
  <1>7. WithoutFailure(j) \in Journals
    BY DEF WithoutFailure
  <1>8. WithCompletion(j) \in Journals
    BY DEF WithCompletion
  <1> QED BY <1>3, <1>4, <1>5, <1>6, <1>7, <1>8

(* Every document StartBootstrap builds succeeds the one it is built from. *)
LEMMA BuildersSucceed ==
  ASSUME NEW j \in Journals
  PROVE  /\ \A d, tx : Succeeds(NewJournal(d, tx), ZeroJournal)
         /\ Succeeds(WithIntent(j), j)
         /\ j.current > 0 => Succeeds(WithStep(j), j)
         /\ \A f : Succeeds(WithFailure(j, f), j)
         /\ Succeeds(WithoutFailure(j), j)
         /\ j.steps = NumSteps => Succeeds(WithCompletion(j), j)
  <1> USE BootstrapAssumption DEF Journals, Succeeds
  <1>1. \A d, tx : Succeeds(NewJournal(d, tx), ZeroJournal)
    BY DEF NewJournal, ZeroJournal
  <1>2. Succeeds(WithIntent(j), j)
    BY DEF WithIntent
  <1>3. j.current > 0 => Succeeds(WithStep(j), j)
    BY DEF WithStep
  <1>4. \A f : Succeeds(WithFailure(j, f), j)
    BY DEF WithFailure
  <1>5. Succeeds(WithoutFailure(j), j)
    BY DEF WithoutFailure
  <1>6. j.steps = NumSteps => Succeeds(WithCompletion(j), j)
    BY DEF WithCompletion
  <1> QED BY <1>1, <1>2, <1>3, <1>4, <1>5, <1>6

-----------------------------------------------------------------------------
(* The file and everything a power loss could leave in its place: either   *)
(* no journal yet, or a document that validateJournal accepted.            *)
DiskInv ==
    /\ journal \in survivors
    /\ \A j \in survivors : j = ZeroJournal \/ validateJournal(j)

(* What Save does to the disk: nothing, or it writes an accepted document. *)
Written(c, next) ==
    /\ Accepted(c, next)
    /\ journal' = next
    /\ survivors' = {next} \/ survivors' = survivors \cup {next}

(* Save leaves the disk alone or writes the document it was given.         *)
LEMMA SaveDisk ==
  ASSUME NEW c \in Coordinators, NEW next, NEW label, Save(c, next, label)
  PROVE  UNCHANGED disk \/ Written(c, next)
  BY DEF Save, Written

(* The only steps that touch the disk are the Saves of StartBootstrap and  *)
(* power loss.                                                             *)
LEMMA DiskChanges ==
  ASSUME [Next]_vars
  PROVE  \/ UNCHANGED disk
         \/ PowerLoss
         \/ \E c \in Coordinators :
               \/ /\ pc[c] = "initialize"
                  /\ \E tx \in TxIDs : Written(c, NewJournal(config[c], tx))
               \/ /\ pc[c] = "decide"
                  /\ \/ /\ local[c].steps = NumSteps
                        /\ Written(c, WithCompletion(local[c]))
                     \/ Written(c, WithoutFailure(local[c]))
                     \/ Written(c, WithIntent(local[c]))
               \/ pc[c] = "commit" /\ Written(c, WithStep(local[c]))
               \/ pc[c] = "fail" /\ Written(c, WithFailure(local[c], pending[c]))
  <1>1. ASSUME NEW c \in Coordinators, InitializeJournal(c)
        PROVE  \/ UNCHANGED disk
               \/ /\ pc[c] = "initialize"
                  /\ \E tx \in TxIDs : Written(c, NewJournal(config[c], tx))
    BY <1>1, SaveDisk DEF InitializeJournal
  <1>2. ASSUME NEW c \in Coordinators, RestoreComplete(c)
        PROVE  \/ UNCHANGED disk
               \/ /\ pc[c] = "decide" /\ local[c].steps = NumSteps
                  /\ Written(c, WithCompletion(local[c]))
    BY <1>2, SaveDisk DEF RestoreComplete
  <1>3. ASSUME NEW c \in Coordinators, ResumeFailed(c)
        PROVE  \/ UNCHANGED disk
               \/ pc[c] = "decide" /\ Written(c, WithoutFailure(local[c]))
    BY <1>3, SaveDisk DEF ResumeFailed
  <1>4. ASSUME NEW c \in Coordinators, BeginAttempt(c)
        PROVE  \/ UNCHANGED disk
               \/ pc[c] = "decide" /\ Written(c, WithIntent(local[c]))
    BY <1>4, SaveDisk DEF BeginAttempt
  <1>5. ASSUME NEW c \in Coordinators, CommitStep(c)
        PROVE  \/ UNCHANGED disk
               \/ pc[c] = "commit" /\ Written(c, WithStep(local[c]))
    BY <1>5, SaveDisk DEF CommitStep
  <1>6. ASSUME NEW c \in Coordinators, SaveFailure(c)
        PROVE  \/ UNCHANGED disk
               \/ pc[c] = "fail" /\ Written(c, WithFailure(local[c], pending[c]))
    BY <1>6, SaveDisk DEF SaveFailure
  <1>7. ASSUME NEW c \in Coordinators,
               \/ StartBootstrap(c) \/ VerifyCompleted(c) \/ PublishPrepared(c)
               \/ Cancel(c) \/ ExecuteStep(c) \/ CheckAllReady(c)
               \/ VerifyResult(c) \/ GetStatus(c) \/ Crash(c)
        PROVE  UNCHANGED disk
    BY <1>7 DEF StartBootstrap, VerifyCompleted, PublishPrepared, Cancel,
                ExecuteStep, CheckAllReady, VerifyResult, GetStatus, Crash
  <1>8. ASSUME UNCHANGED vars PROVE UNCHANGED disk
    BY <1>8 DEF vars, disk
  <1> QED BY <1>1, <1>2, <1>3, <1>4, <1>5, <1>6, <1>7, <1>8 DEF Next, Step

(* Only validated documents ever reach the disk.                           *)
LEMMA DiskStep == DiskInv /\ [Next]_vars => DiskInv'
  <1> SUFFICES ASSUME DiskInv, [Next]_vars PROVE DiskInv'
    OBVIOUS
  <1>1. CASE UNCHANGED disk
    BY <1>1 DEF DiskInv, disk, validateJournal
  <1>2. CASE PowerLoss
    BY <1>2 DEF DiskInv, PowerLoss, validateJournal
  <1>3. ASSUME NEW c \in Coordinators, NEW next, Written(c, next)
        PROVE  DiskInv'
    BY <1>3 DEF DiskInv, Written, Accepted, validateJournal
  <1> QED BY <1>1, <1>2, <1>3, DiskChanges

-----------------------------------------------------------------------------
(* Type correctness needs one more fact: a process inside a step has that  *)
(* step left to do, and executeStep is left when its last call is made.    *)
InStep(c) ==
    /\ pc[c] = "execute" => calls[c] < Width(local[c].steps + 1)
    /\ pc[c] \in {"execute", "check"} => local[c].steps < NumSteps

TypeInv ==
    /\ TypeOK
    /\ \A c \in Coordinators : InStep(c)

(* Save keeps the types of what it changes, if the document it may write   *)
(* is well typed.                                                          *)
LEMMA SaveTyped ==
  ASSUME TypeInv, NEW c \in Coordinators, NEW next, NEW label \in PCs,
         Accepted(c, next) => next \in Journals,
         label = "execute" => next.steps < NumSteps,
         label # "check",
         Save(c, next, label)
  PROVE  /\ journal' \in Journals
         /\ survivors' \in SUBSET Journals
         /\ pc' \in [Coordinators -> PCs]
         /\ local' \in [Coordinators -> Journals]
         /\ calls' \in [Coordinators -> 0 .. NumComponents]
         /\ pending' \in [Coordinators -> Failures]
         /\ faults' \in 0 .. MaxFaults
         /\ \A d \in Coordinators : InStep(d)'
  <1> USE BootstrapAssumption, ZeroTyped
  <1>1. "idle" \in PCs
    BY DEF PCs
  <1>2. 0 \in 0 .. NumComponents
    OBVIOUS
  <1>3. \A s : 0 < Width(s)
    BY DEF Width
  <1>4. ASSUME NEW l \in PCs, NEW j \in Journals, Goto(c, l, j),
               l \in {"execute", "check"} => j.steps < NumSteps
        PROVE  /\ pc' \in [Coordinators -> PCs]
               /\ local' \in [Coordinators -> Journals]
               /\ calls' \in [Coordinators -> 0 .. NumComponents]
               /\ pending' \in [Coordinators -> Failures]
               /\ \A d \in Coordinators : InStep(d)'
    BY <1>2, <1>3, <1>4 DEF TypeInv, TypeOK, Goto, InStep
  <1>5. Return(c) => Goto(c, "idle", ZeroJournal)
    BY DEF Return
  <1>6. CASE /\ Accepted(c, next)
             /\ journal' = next
             /\ survivors' = {next}
             /\ IF label = "idle" THEN Return(c) ELSE Goto(c, label, next)
             /\ UNCHANGED faults
    BY <1>1, <1>4, <1>5, <1>6 DEF TypeInv, TypeOK
  <1>7. CASE /\ Accepted(c, next)
             /\ Fault
             /\ journal' = next
             /\ survivors' = survivors \cup {next}
             /\ Return(c)
    BY <1>1, <1>4, <1>5, <1>7 DEF TypeInv, TypeOK, Fault
  <1>8. CASE /\ Accepted(c, next) => Fault
             /\ ~Accepted(c, next) => UNCHANGED faults
             /\ UNCHANGED disk
             /\ Return(c)
    BY <1>1, <1>4, <1>5, <1>8 DEF TypeInv, TypeOK, Fault, disk
  <1> QED BY <1>6, <1>7, <1>8 DEF Save

(* Every step keeps the types.                                             *)
LEMMA TypeStep == TypeInv /\ DiskInv /\ [Next]_vars => TypeInv'
  <1> SUFFICES ASSUME TypeInv, DiskInv, [Next]_vars PROVE TypeInv'
    OBVIOUS
  <1> USE BootstrapAssumption, ZeroTyped
  <1>p. /\ "idle" \in PCs /\ "initialize" \in PCs /\ "verify" \in PCs
        /\ "publish" \in PCs /\ "decide" \in PCs /\ "execute" \in PCs
        /\ "check" \in PCs /\ "commit" \in PCs /\ "fail" \in PCs
    BY DEF PCs
  <1>w. \A s : Width(s) \in 1 .. NumComponents
    BY DEF Width
  <1>g. ASSUME NEW c \in Coordinators, NEW l \in PCs, NEW j \in Journals,
               Goto(c, l, j),
               l \in {"execute", "check"} => j.steps < NumSteps
        PROVE  /\ pc' \in [Coordinators -> PCs]
               /\ local' \in [Coordinators -> Journals]
               /\ calls' \in [Coordinators -> 0 .. NumComponents]
               /\ pending' \in [Coordinators -> Failures]
               /\ \A d \in Coordinators : InStep(d)'
    BY <1>g, <1>w DEF TypeInv, TypeOK, Goto, InStep
  <1>f. ASSUME NEW c \in Coordinators, NEW s \in Steps, NEW code \in Codes,
               Fail(c, s, code)
        PROVE  /\ pc' \in [Coordinators -> PCs]
               /\ local' \in [Coordinators -> Journals]
               /\ calls' \in [Coordinators -> 0 .. NumComponents]
               /\ pending' \in [Coordinators -> Failures]
               /\ \A d \in Coordinators : InStep(d)'
    <2>1. [step |-> s, code |-> code] \in Failures
      BY DEF Failures
    <2> QED BY <1>p, <1>f, <2>1 DEF TypeInv, TypeOK, Fail, InStep
  <1>k. /\ "action_failed" \in Codes /\ "verification_failed" \in Codes
        /\ "prepared_failed" \in Codes
    BY DEF Codes
  <1>1. ASSUME NEW c \in Coordinators, StartBootstrap(c) PROVE TypeInv'
    <2>1. journal \in Journals
      BY DEF TypeInv, TypeOK
    <2>2. CASE UNCHANGED process
      BY <1>1, <2>2 DEF TypeInv, TypeOK, StartBootstrap, disk, process, InStep
    <2>3. CASE Goto(c, "initialize", journal) \/ Goto(c, "verify", journal)
      BY <1>1, <1>p, <1>g, <2>1, <2>3 DEF TypeInv, TypeOK, StartBootstrap, disk
    <2> QED BY <1>1, <2>2, <2>3 DEF StartBootstrap
  <1>2. ASSUME NEW c \in Coordinators, InitializeJournal(c) PROVE TypeInv'
    <2>1. PICK tx \in TxIDs : Save(c, NewJournal(config[c], tx), "verify")
      BY <1>2 DEF InitializeJournal
    <2>2. Accepted(c, NewJournal(config[c], tx)) =>
             NewJournal(config[c], tx) \in Journals
      BY BuildersTyped DEF Accepted, TypeInv, TypeOK
    <2> QED BY <1>2, <1>p, <2>1, <2>2, SaveTyped
            DEF InitializeJournal, TypeInv, TypeOK
  <1>3. ASSUME NEW c \in Coordinators, VerifyCompleted(c) PROVE TypeInv'
    <2>1. /\ AfterVerify(local[c]) \in PCs \ {"execute", "check"}
          /\ local[c] \in Journals
      BY <1>p DEF AfterVerify, TypeInv, TypeOK
    <2>2. 1 .. local[c].steps \subseteq Steps
      BY <2>1 DEF Steps, Journals
    <2>3. CASE Goto(c, AfterVerify(local[c]), local[c]) /\ UNCHANGED faults
      BY <1>3, <1>g, <2>1, <2>3 DEF TypeInv, TypeOK, VerifyCompleted, disk
    <2>4. CASE \E s \in 1 .. local[c].steps :
                  /\ IF Verifiable(local[c], s) THEN Fault ELSE UNCHANGED faults
                  /\ Fail(c, s, "verification_failed")
      <3>1. PICK s \in 1 .. local[c].steps :
                  /\ IF Verifiable(local[c], s) THEN Fault ELSE UNCHANGED faults
                  /\ Fail(c, s, "verification_failed")
        BY <2>4
      <3> QED BY <1>3, <1>f, <1>k, <2>2, <3>1
              DEF TypeInv, TypeOK, VerifyCompleted, disk, Fault
    <2> QED BY <1>3, <2>3, <2>4 DEF VerifyCompleted
  <1>4. ASSUME NEW c \in Coordinators, PublishPrepared(c) PROVE TypeInv'
    <2>1. local[c] \in Journals /\ PreparedStep \in Steps
      BY DEF TypeInv, TypeOK, Steps
    <2>2. CASE readiness' = boot /\ Goto(c, "decide", local[c]) /\ UNCHANGED faults
      BY <1>4, <1>p, <1>g, <2>1, <2>2 DEF TypeInv, TypeOK, PublishPrepared, disk
    <2>3. CASE /\ Fault
               /\ readiness' \in {readiness, boot}
               /\ Fail(c, PreparedStep, "prepared_failed")
      BY <1>4, <1>f, <1>k, <2>1, <2>3
         DEF TypeInv, TypeOK, PublishPrepared, disk, Fault
    <2> QED BY <1>4, <2>2, <2>3 DEF PublishPrepared
  <1>5. ASSUME NEW c \in Coordinators, RestoreComplete(c) PROVE TypeInv'
    <2>1. CASE Save(c, WithCompletion(local[c]), "idle")
      <3>1. Accepted(c, WithCompletion(local[c])) =>
               WithCompletion(local[c]) \in Journals
        BY BuildersTyped DEF Accepted, TypeInv, TypeOK
      <3> QED BY <1>5, <1>p, <2>1, <3>1, SaveTyped
              DEF RestoreComplete, TypeInv, TypeOK
    <2>2. CASE Return(c) /\ UNCHANGED <<disk, faults>>
      BY <1>5, <1>p, <1>g, <2>2 DEF Return, RestoreComplete, TypeInv, TypeOK, disk
    <2> QED BY <1>5, <2>1, <2>2 DEF RestoreComplete
  <1>6. ASSUME NEW c \in Coordinators, ResumeFailed(c) PROVE TypeInv'
    <2>1. Accepted(c, WithoutFailure(local[c])) =>
             WithoutFailure(local[c]) \in Journals
      BY BuildersTyped DEF Accepted, TypeInv, TypeOK
    <2> QED BY <1>6, <1>p, <2>1, SaveTyped DEF ResumeFailed, TypeInv, TypeOK
  <1>7. ASSUME NEW c \in Coordinators, Cancel(c) PROVE TypeInv'
    BY <1>7, <1>p, <1>g DEF Cancel, Return, TypeInv, TypeOK, disk, Fault
  <1>8. ASSUME NEW c \in Coordinators, BeginAttempt(c) PROVE TypeInv'
    <2>1. CASE /\ local[c].current < MaxAttempts
               /\ Save(c, WithIntent(local[c]), "execute")
      <3>1. Accepted(c, WithIntent(local[c])) => WithIntent(local[c]) \in Journals
        BY <2>1, BuildersTyped DEF Accepted, TypeInv, TypeOK
      <3>2. WithIntent(local[c]).steps < NumSteps
        BY <1>8 DEF BeginAttempt, WithIntent, TypeInv, TypeOK, Journals
      <3> QED BY <1>8, <1>p, <2>1, <3>1, <3>2, SaveTyped
              DEF BeginAttempt, TypeInv, TypeOK
    <2>2. CASE Return(c) /\ UNCHANGED <<disk, faults>>
      BY <1>8, <1>p, <1>g, <2>2 DEF Return, BeginAttempt, TypeInv, TypeOK, disk
    <2> QED BY <1>8, <2>1, <2>2 DEF BeginAttempt
  <1>9. ASSUME NEW c \in Coordinators, ExecuteStep(c) PROVE TypeInv'
    <2> DEFINE s == local[c].steps + 1
               e == Effect(local[c], s, calls[c] + 1)
    <2>1. /\ local[c] \in Journals /\ s \in Steps
          /\ calls[c] + 1 \in 1 .. NumComponents
      BY <1>9, <1>w DEF ExecuteStep, TypeInv, TypeOK, Journals, Steps, InStep
    <2>2. e \in Effects
      BY <2>1 DEF Effect, Effects, Journals
    <2>3. effects' \in SUBSET Effects
      BY <1>9, <2>2 DEF ExecuteStep, TypeInv, TypeOK
    <2>4. faults' \in 0 .. MaxFaults
      BY <1>9 DEF ExecuteStep, TypeInv, TypeOK, Fault
    <2>5. CASE /\ calls' = [calls EXCEPT ![c] = @ + 1]
               /\ pc' = [pc EXCEPT ![c] =
                           IF calls[c] + 1 = Width(s) THEN "check" ELSE "execute"]
               /\ UNCHANGED <<local, pending>>
      <3>1. calls[c] + 1 # Width(s) => calls[c] + 1 < Width(s)
        BY <1>9, <1>w, <2>1 DEF ExecuteStep, TypeInv, TypeOK, InStep
      <3>2. pc' \in [Coordinators -> PCs] /\ calls' \in [Coordinators -> 0 .. NumComponents]
        BY <1>p, <2>1, <2>5 DEF TypeInv, TypeOK
      <3>3. \A d \in Coordinators : InStep(d)'
        BY <1>9, <2>5, <3>1 DEF TypeInv, TypeOK, InStep, ExecuteStep
      <3> QED BY <1>9, <2>3, <2>4, <2>5, <3>2, <3>3
              DEF ExecuteStep, TypeInv, TypeOK, disk
    <2>6. CASE Fail(c, s, "action_failed")
      BY <1>9, <1>f, <1>k, <2>1, <2>3, <2>4, <2>6
         DEF ExecuteStep, TypeInv, TypeOK, disk
    <2> QED BY <1>9, <2>5, <2>6 DEF ExecuteStep
  <1>10. ASSUME NEW c \in Coordinators, CheckAllReady(c) PROVE TypeInv'
    <2>1. local[c] \in Journals /\ NumSteps \in Steps
      BY DEF TypeInv, TypeOK, Steps
    <2>2. CASE Goto(c, "check", local[c])
      BY <1>10, <1>p, <1>g, <2>1, <2>2
         DEF CheckAllReady, TypeInv, TypeOK, InStep, disk, Fault
    <2>3. CASE Fail(c, NumSteps, "action_failed")
      BY <1>10, <1>f, <1>k, <2>1, <2>3 DEF CheckAllReady, TypeInv, TypeOK, disk, Fault
    <2> QED BY <1>10, <2>2, <2>3 DEF CheckAllReady
  <1>11. ASSUME NEW c \in Coordinators, VerifyResult(c) PROVE TypeInv'
    <2>1. local[c] \in Journals /\ local[c].steps + 1 \in Steps
      BY <1>11 DEF VerifyResult, TypeInv, TypeOK, InStep, Steps, Journals
    <2>2. CASE Goto(c, "commit", local[c])
      BY <1>11, <1>p, <1>g, <2>1, <2>2 DEF VerifyResult, TypeInv, TypeOK, disk, Fault
    <2>3. CASE Fail(c, local[c].steps + 1, "verification_failed")
      BY <1>11, <1>f, <1>k, <2>1, <2>3 DEF VerifyResult, TypeInv, TypeOK, disk, Fault
    <2> QED BY <1>11, <2>2, <2>3 DEF VerifyResult
  <1>12. ASSUME NEW c \in Coordinators, CommitStep(c) PROVE TypeInv'
    <2> DEFINE label == IF local[c].steps + 1 = PreparedStep THEN "publish" ELSE "decide"
    <2>1. WithStep(local[c]).steps = local[c].steps + 1
      BY DEF WithStep, TypeInv, TypeOK, Journals
    <2>2. Accepted(c, WithStep(local[c])) => WithStep(local[c]) \in Journals
      <3>1. Accepted(c, WithStep(local[c])) => local[c].steps < NumSteps
        BY <2>1 DEF Accepted, validateJournal, TypeInv, TypeOK, Journals
      <3> QED BY <3>1, BuildersTyped DEF Accepted, TypeInv, TypeOK
    <2>3. label \in PCs /\ label # "execute" /\ label # "check"
      BY <1>p
    <2>4. Save(c, WithStep(local[c]), label)
      BY <1>12 DEF CommitStep
    <2> HIDE DEF label
    <2> QED BY <1>12, <2>2, <2>3, <2>4, SaveTyped DEF CommitStep, TypeInv, TypeOK
  <1>13. ASSUME NEW c \in Coordinators, SaveFailure(c) PROVE TypeInv'
    <2>1. Accepted(c, WithFailure(local[c], pending[c])) =>
             WithFailure(local[c], pending[c]) \in Journals
      BY BuildersTyped DEF Accepted, TypeInv, TypeOK
    <2> QED BY <1>13, <1>p, <2>1, SaveTyped DEF SaveFailure, TypeInv, TypeOK
  <1>14. ASSUME NEW c \in Coordinators, GetStatus(c) PROVE TypeInv'
    <2>1. StatusOf(journal) \in Statuses
      BY DEF StatusOf, Statuses, DiskInv, ZeroJournal, validateJournal
    <2> QED BY <1>14, <2>1 DEF GetStatus, TypeInv, TypeOK, InStep, disk, process
  <1>15. ASSUME NEW c \in Coordinators, Crash(c) PROVE TypeInv'
    <2>1. config' \in [Coordinators -> Digests]
      BY <1>15 DEF Crash, TypeInv, TypeOK
    <2>2. Goto(c, "idle", ZeroJournal)
      BY <1>15 DEF Crash, Return
    <2> QED BY <1>15, <1>p, <1>g, <2>1, <2>2 DEF Crash, TypeInv, TypeOK, disk, Fault
  <1>16. ASSUME PowerLoss PROVE TypeInv'
    BY <1>16, <1>p DEF PowerLoss, TypeInv, TypeOK, InStep, Statuses
  <1>17. ASSUME UNCHANGED vars PROVE TypeInv'
    BY <1>17 DEF vars, TypeInv, TypeOK, InStep
  <1> QED BY <1>1, <1>2, <1>3, <1>4, <1>5, <1>6, <1>7, <1>8, <1>9, <1>10, <1>11,
             <1>12, <1>13, <1>14, <1>15, <1>16, <1>17 DEF Next, Step

-----------------------------------------------------------------------------
(* The inductive invariant behind the safety properties.  A process's copy *)
(* of the journal is a valid document no newer than the file, equal to it  *)
(* at equal revisions, and prepared only if the file is; inside a step,    *)
(* every journal a power loss could leave records the intent for it; and a *)
(* step about to be committed has been verified.                           *)
ProcessInv(c) ==
    /\ pc[c] = "initialize" => local[c] = ZeroJournal
    /\ Active(c) => /\ validateJournal(local[c])
                    /\ local[c].rev <= journal.rev
                    /\ local[c].rev = journal.rev => local[c] = journal
                    /\ local[c].prepared => journal.prepared
    /\ pc[c] = "publish" => local[c].prepared
    /\ pc[c] \in {"execute", "check", "commit"} =>
          /\ local[c].steps < NumSteps
          /\ local[c].current > 0
          /\ \A j \in survivors :
                Intended(j, local[c].tx, local[c].digest, local[c].steps + 1)
    /\ pc[c] = "commit" => Verifiable(local[c], local[c].steps + 1)

Inv ==
    /\ TypeInv
    /\ DiskInv
    /\ \A c \in Coordinators : ProcessInv(c)

(* A step that writes the file writes a successor of the journal in it,    *)
(* and counts a step more only if the results of that step exist and every *)
(* survivor has the intent for it.                                         *)
Moves(next) ==
    /\ journal' = next
    /\ survivors' = {next} \/ survivors' = survivors \cup {next}
    /\ validateJournal(next)
    /\ Succeeds(next, journal)
    /\ next.steps > journal.steps =>
          /\ Verifiable(journal, journal.steps + 1)
          /\ \A j \in survivors :
                Intended(j, journal.tx, journal.digest, journal.steps + 1)

(* The compare-and-swap is sound: the document that Save writes was built  *)
(* from the journal that is in the file.                                   *)
LEMMA WritesMove ==
  ASSUME Inv, [Next]_vars
  PROVE  UNCHANGED disk \/ PowerLoss \/ \E next : Moves(next)
  <1> USE DEF Inv
  <1>t. journal \in Journals /\ \A c \in Coordinators : local[c] \in Journals
    BY DEF TypeInv, TypeOK
  <1>1. ASSUME NEW c \in Coordinators, NEW tx \in TxIDs, pc[c] = "initialize",
               Written(c, NewJournal(config[c], tx))
        PROVE  Moves(NewJournal(config[c], tx))
    <2>1. journal.rev = 0
      BY <1>1 DEF ProcessInv, Written, Accepted, ZeroJournal
    <2>2. journal = ZeroJournal
      BY <2>1 DEF DiskInv, validateJournal
    <2>3. NewJournal(config[c], tx).steps = 0 /\ ZeroJournal.steps = 0
      BY DEF NewJournal, ZeroJournal
    <2> QED BY <1>1, <1>t, <2>2, <2>3, BuildersSucceed DEF Moves, Written, Accepted
  <1>2. ASSUME NEW c \in Coordinators, pc[c] \in {"decide", "commit", "fail"},
               NEW next, Written(c, next)
        PROVE  local[c] = journal
    BY <1>2 DEF ProcessInv, Active, Written, Accepted
  <1>3. ASSUME NEW c \in Coordinators, pc[c] = "decide", local[c].steps = NumSteps,
               Written(c, WithCompletion(local[c]))
        PROVE  Moves(WithCompletion(local[c]))
    <2>1. WithCompletion(local[c]).steps = local[c].steps /\ local[c].steps \in Int
      BY <1>t DEF WithCompletion, Journals
    <2> QED BY <1>t, <1>2, <1>3, <2>1, BuildersSucceed DEF Moves, Written, Accepted
  <1>4. ASSUME NEW c \in Coordinators, pc[c] = "decide",
               Written(c, WithoutFailure(local[c]))
        PROVE  Moves(WithoutFailure(local[c]))
    <2>1. WithoutFailure(local[c]).steps = local[c].steps /\ local[c].steps \in Int
      BY <1>t DEF WithoutFailure, Journals
    <2> QED BY <1>t, <1>2, <1>4, <2>1, BuildersSucceed DEF Moves, Written, Accepted
  <1>5. ASSUME NEW c \in Coordinators, pc[c] = "decide",
               Written(c, WithIntent(local[c]))
        PROVE  Moves(WithIntent(local[c]))
    <2>1. WithIntent(local[c]).steps = local[c].steps /\ local[c].steps \in Int
      BY <1>t DEF WithIntent, Journals
    <2> QED BY <1>t, <1>2, <1>5, <2>1, BuildersSucceed DEF Moves, Written, Accepted
  <1>6. ASSUME NEW c \in Coordinators, pc[c] = "commit",
               Written(c, WithStep(local[c]))
        PROVE  Moves(WithStep(local[c]))
    <2>1. /\ local[c].current > 0 /\ Verifiable(local[c], local[c].steps + 1)
          /\ \A j \in survivors :
                Intended(j, local[c].tx, local[c].digest, local[c].steps + 1)
      BY <1>6 DEF ProcessInv
    <2> QED BY <1>t, <1>2, <1>6, <2>1, BuildersSucceed DEF Moves, Written, Accepted
  <1>7. ASSUME NEW c \in Coordinators, pc[c] = "fail",
               Written(c, WithFailure(local[c], pending[c]))
        PROVE  Moves(WithFailure(local[c], pending[c]))
    <2>1. /\ WithFailure(local[c], pending[c]).steps = local[c].steps
          /\ local[c].steps \in Int
      BY <1>t DEF WithFailure, Journals
    <2> QED BY <1>t, <1>2, <1>7, <2>1, BuildersSucceed DEF Moves, Written, Accepted
  <1> QED BY <1>1, <1>3, <1>4, <1>5, <1>6, <1>7, DiskChanges

(* A recorded intent is never lost: a successor of a document that intends *)
(* or has committed step s does too.                                       *)
LEMMA IntentKept ==
  ASSUME NEW j \in Journals, NEW next \in Journals, NEW tx, NEW d, NEW s \in Steps,
         j = ZeroJournal \/ validateJournal(j),
         Succeeds(next, j), Intended(j, tx, d, s)
  PROVE  Intended(next, tx, d, s)
  <1>1. j.rev > 0
    BY BootstrapAssumption DEF ZeroJournal, validateJournal, Intended, Steps
  <1> QED BY <1>1, BootstrapAssumption DEF Succeeds, Intended, Journals, Steps

(* Whatever another process does, a process that stays where it is keeps   *)
(* its part of the invariant; only power loss, which kills it, does not.   *)
LEMMA BystanderKept ==
  ASSUME Inv, journal' \in Journals, NEW d \in Coordinators,
         pc'[d] = pc[d], local'[d] = local[d], effects \subseteq effects',
         UNCHANGED disk \/ \E next : Moves(next)
  PROVE  ProcessInv(d)'
  <1> USE BootstrapAssumption
  <1>t. /\ journal \in Journals /\ local[d] \in Journals /\ journal' \in Journals
        /\ survivors \subseteq Journals /\ ProcessInv(d)
        /\ journal \in survivors
        /\ \A j \in survivors : j = ZeroJournal \/ validateJournal(j)
    BY DEF Inv, TypeInv, TypeOK, DiskInv
  <1>1. pc[d] = "commit" => Verifiable(local[d], local[d].steps + 1)'
    BY <1>t DEF ProcessInv, Verifiable, Effect
  <1>2. CASE UNCHANGED disk
    BY <1>t, <1>1, <1>2 DEF ProcessInv, Active, disk, Intended, validateJournal
  <1>3. ASSUME NEW next, Moves(next) PROVE ProcessInv(d)'
    <2>1. next \in Journals /\ journal'.rev = journal.rev + 1
      BY <1>t, <1>3 DEF Moves, Succeeds
    <2>2. journal.prepared => journal'.prepared
      BY <1>3 DEF Moves, Succeeds
    <2>3. Active(d) => /\ validateJournal(local[d])
                       /\ local[d].rev <= journal'.rev
                       /\ local[d].rev # journal'.rev
                       /\ local[d].prepared => journal'.prepared
      BY <1>t, <2>1, <2>2 DEF ProcessInv, Journals
    <2>4. ASSUME pc[d] \in {"execute", "check", "commit"}, NEW j \in survivors'
          PROVE  Intended(j, local[d].tx, local[d].digest, local[d].steps + 1)
      <3>1. \A k \in survivors :
               Intended(k, local[d].tx, local[d].digest, local[d].steps + 1)
        BY <1>t, <2>4 DEF ProcessInv
      <3>2. local[d].steps + 1 \in Steps
        BY <1>t, <2>4 DEF ProcessInv, Journals, Steps
      <3>3. Intended(next, local[d].tx, local[d].digest, local[d].steps + 1)
        BY <1>t, <1>3, <2>1, <3>1, <3>2, IntentKept DEF Moves
      <3> QED BY <1>3, <2>4, <3>1, <3>3 DEF Moves
    <2>5. Active(d)' <=> Active(d)
      BY DEF Active
    <2>6. pc[d] = "initialize" => local[d] = ZeroJournal
      BY <1>t DEF ProcessInv
    <2>7. pc[d] = "publish" => local[d].prepared
      BY <1>t DEF ProcessInv
    <2>8. pc[d] \in {"execute", "check", "commit"} =>
             local[d].steps < NumSteps /\ local[d].current > 0
      BY <1>t DEF ProcessInv
    <2> QED BY <1>1, <2>3, <2>4, <2>5, <2>6, <2>7, <2>8
            DEF ProcessInv, Intended, validateJournal
  <1> QED BY <1>2, <1>3

(* The four ways in which an acting process moves on keep its part of the  *)
(* invariant: returning, turning to saveFailure, going on with the same    *)
(* copy of the journal, and going on with the document it just saved.      *)
LEMMA ReturnKept ==
  ASSUME Inv, NEW c \in Coordinators, Return(c)
  PROVE  ProcessInv(c)'
  BY DEF Inv, TypeInv, TypeOK, Return, Goto, ProcessInv, Active

(* See ReturnKept: a step failed and the failure is about to be recorded.  *)
LEMMA FailKept ==
  ASSUME Inv, NEW c \in Coordinators, NEW s, NEW code,
         Fail(c, s, code), UNCHANGED disk, Active(c)
  PROVE  ProcessInv(c)'
  <1>1. pc'[c] = "fail" /\ local'[c] = local[c]
    BY DEF Inv, TypeInv, TypeOK, Fail
  <1> QED BY <1>1 DEF Inv, ProcessInv, Active, disk, validateJournal

(* See ReturnKept: the process goes on with the journal it has.            *)
LEMMA GotoKept ==
  ASSUME Inv, NEW c \in Coordinators, NEW label \in {"publish", "decide"},
         Goto(c, label, local[c]), UNCHANGED disk, Active(c),
         label = "publish" => local[c].prepared
  PROVE  ProcessInv(c)'
  <1>1. pc'[c] = label /\ local'[c] = local[c]
    BY DEF Inv, TypeInv, TypeOK, Goto
  <1> QED BY <1>1 DEF Inv, ProcessInv, Active, disk, validateJournal

(* See ReturnKept: the process goes on with the document it just saved.    *)
LEMMA SavedKept ==
  ASSUME Inv, NEW c \in Coordinators, NEW next, NEW label,
         Save(c, next, label), next.rev \in Nat,
         label \in {"idle", "verify", "decide", "publish", "execute"},
         label = "publish" => next.prepared,
         label = "execute" => /\ next.steps < NumSteps
                              /\ next.steps \in Nat
                              /\ next.current > 0
  PROVE  ProcessInv(c)'
  <1>1. CASE Return(c)
    BY <1>1, ReturnKept
  <1>2. CASE /\ Accepted(c, next) /\ journal' = next /\ survivors' = {next}
             /\ Goto(c, label, next)
    <2>1. pc'[c] = label /\ local'[c] = next
      BY <1>2 DEF Inv, TypeInv, TypeOK, Goto
    <2>2. next.rev <= next.rev
      OBVIOUS
    <2>3. validateJournal(next)
      BY <1>2 DEF Accepted
    <2>4. label = "execute" =>
             Intended(next, next.tx, next.digest, next.steps + 1)
      BY DEF Intended
    <2> QED BY <1>2, <2>1, <2>2, <2>3, <2>4
            DEF ProcessInv, Active, validateJournal, Intended
  <1> QED BY <1>1, <1>2 DEF Save

(* Every step keeps the part of the invariant that is about processes.     *)
LEMMA ProcessStep ==
  ASSUME Inv, [Next]_vars
  PROVE  \A d \in Coordinators : ProcessInv(d)'
  <1> USE BootstrapAssumption
  <1>t. /\ journal \in Journals /\ journal' \in Journals
        /\ \A c \in Coordinators : local[c] \in Journals
        /\ \A c \in Coordinators : ProcessInv(c)
    BY TypeStep DEF Inv, TypeInv, TypeOK
  <1>r. \A c \in Coordinators :
           /\ WithIntent(local[c]).rev \in Nat /\ WithStep(local[c]).rev \in Nat
           /\ WithoutFailure(local[c]).rev \in Nat
           /\ WithCompletion(local[c]).rev \in Nat
           /\ \A f : WithFailure(local[c], f).rev \in Nat
    BY <1>t DEF WithIntent, WithStep, WithoutFailure, WithCompletion, WithFailure,
                Journals
  <1>b. ASSUME NEW c \in Coordinators, StartBootstrap(c) \/ Step(c) \/ Cancel(c)
                                       \/ GetStatus(c) \/ Crash(c),
               ProcessInv(c)'
        PROVE  \A d \in Coordinators : ProcessInv(d)'
    <2> SUFFICES ASSUME NEW d \in Coordinators, d # c PROVE ProcessInv(d)'
      BY <1>b
    <2>1. pc'[d] = pc[d] /\ local'[d] = local[d]
      BY <1>b DEF Inv, TypeInv, TypeOK, Step, StartBootstrap, Cancel, GetStatus, Crash,
           InitializeJournal, VerifyCompleted, PublishPrepared, RestoreComplete,
           ResumeFailed, BeginAttempt, ExecuteStep, CheckAllReady, VerifyResult,
           CommitStep, SaveFailure, Save, Return, Goto, Fail, process
    <2>2. effects \subseteq effects'
      BY <1>b DEF Step, StartBootstrap, Cancel, GetStatus, Crash,
           InitializeJournal, VerifyCompleted, PublishPrepared, RestoreComplete,
           ResumeFailed, BeginAttempt, ExecuteStep, CheckAllReady, VerifyResult,
           CommitStep, SaveFailure
    <2>3. ~PowerLoss
      BY <1>b DEF Inv, TypeInv, TypeOK, PowerLoss, Step, StartBootstrap, Cancel,
           GetStatus, Crash, InitializeJournal, VerifyCompleted, PublishPrepared,
           RestoreComplete, ResumeFailed, BeginAttempt, ExecuteStep, CheckAllReady,
           VerifyResult, CommitStep, SaveFailure
    <2> QED BY <1>t, <2>1, <2>2, <2>3, WritesMove, BystanderKept
  <1>1. ASSUME NEW c \in Coordinators, StartBootstrap(c) PROVE ProcessInv(c)'
    <2>1. CASE UNCHANGED process
      BY <1>1, <1>t, <2>1 DEF StartBootstrap, ProcessInv, Active, process, disk,
                              Intended, validateJournal, Verifiable, Effect
    <2>2. CASE journal.rev = 0 /\ Goto(c, "initialize", journal)
      <3>1. journal = ZeroJournal
        BY <2>2 DEF Inv, DiskInv, validateJournal
      <3> QED BY <2>2, <3>1 DEF Goto, ProcessInv, Active, Inv, TypeInv, TypeOK
    <2>3. CASE journal.rev > 0 /\ Goto(c, "verify", journal)
      <3>1. pc'[c] = "verify" /\ local'[c] = journal /\ journal' = journal
        BY <1>1, <2>3 DEF StartBootstrap, Goto, Inv, TypeInv, TypeOK, disk
      <3>2. validateJournal(journal) /\ journal.rev <= journal.rev
        BY <1>t, <2>3 DEF Inv, DiskInv, ZeroJournal, Journals
      <3> QED BY <3>1, <3>2 DEF ProcessInv, Active, validateJournal
    <2> QED BY <1>1, <2>1, <2>2, <2>3 DEF StartBootstrap
  <1>2. ASSUME NEW c \in Coordinators, InitializeJournal(c) PROVE ProcessInv(c)'
    <2>1. \A tx : NewJournal(config[c], tx).rev \in Nat
      BY DEF NewJournal, ZeroJournal
    <2> QED BY <1>2, <2>1, SavedKept DEF InitializeJournal
  <1>3. ASSUME NEW c \in Coordinators, VerifyCompleted(c) PROVE ProcessInv(c)'
    BY <1>3, GotoKept, FailKept DEF VerifyCompleted, AfterVerify, Active
  <1>4. ASSUME NEW c \in Coordinators, PublishPrepared(c) PROVE ProcessInv(c)'
    BY <1>4, GotoKept, FailKept DEF PublishPrepared, Active
  <1>5. ASSUME NEW c \in Coordinators, RestoreComplete(c) PROVE ProcessInv(c)'
    BY <1>5, <1>r, SavedKept, ReturnKept DEF RestoreComplete
  <1>6. ASSUME NEW c \in Coordinators, ResumeFailed(c) PROVE ProcessInv(c)'
    BY <1>6, <1>r, SavedKept DEF ResumeFailed
  <1>7. ASSUME NEW c \in Coordinators, Cancel(c) PROVE ProcessInv(c)'
    BY <1>7, ReturnKept DEF Cancel
  <1>8. ASSUME NEW c \in Coordinators, BeginAttempt(c) PROVE ProcessInv(c)'
    <2>1. /\ WithIntent(local[c]).steps = local[c].steps /\ local[c].steps \in Nat
          /\ WithIntent(local[c]).current > 0
      BY <1>t DEF WithIntent, Journals
    <2> QED BY <1>8, <1>r, <2>1, SavedKept, ReturnKept DEF BeginAttempt
  <1>9. ASSUME NEW c \in Coordinators, ExecuteStep(c) PROVE ProcessInv(c)'
    <2>1. CASE Fail(c, local[c].steps + 1, "action_failed")
      BY <1>9, <2>1, FailKept DEF ExecuteStep, Active
    <2>2. CASE /\ calls' = [calls EXCEPT ![c] = @ + 1]
               /\ pc' = [pc EXCEPT ![c] =
                           IF calls[c] + 1 = Width(local[c].steps + 1)
                           THEN "check" ELSE "execute"]
               /\ UNCHANGED <<local, pending>>
      <3>1. UNCHANGED disk /\ pc[c] = "execute"
        BY <1>9 DEF ExecuteStep
      <3>2. pc'[c] \in {"check", "execute"} /\ local' = local
        BY <2>2 DEF Inv, TypeInv, TypeOK
      <3> QED BY <1>t, <3>1, <3>2
              DEF ProcessInv, Active, disk, Intended, validateJournal
    <2> QED BY <1>9, <2>1, <2>2 DEF ExecuteStep
  <1>10. ASSUME NEW c \in Coordinators, CheckAllReady(c) PROVE ProcessInv(c)'
    <2>1. CASE Goto(c, "check", local[c])
      <3>1. /\ UNCHANGED disk /\ pc[c] = "execute" /\ pc'[c] = "check"
            /\ local'[c] = local[c]
        BY <1>10, <2>1 DEF CheckAllReady, Goto, Inv, TypeInv, TypeOK
      <3> QED BY <1>t, <3>1 DEF ProcessInv, Active, disk, Intended, validateJournal
    <2>2. CASE Fail(c, NumSteps, "action_failed")
      BY <1>10, <2>2, FailKept DEF CheckAllReady, Active
    <2> QED BY <1>10, <2>1, <2>2 DEF CheckAllReady
  <1>11. ASSUME NEW c \in Coordinators, VerifyResult(c) PROVE ProcessInv(c)'
    <2>1. CASE /\ Verifiable(local[c], local[c].steps + 1)
               /\ Goto(c, "commit", local[c])
      <3>1. /\ UNCHANGED <<disk, effects>> /\ pc[c] = "check" /\ pc'[c] = "commit"
            /\ local'[c] = local[c]
        BY <1>11, <2>1 DEF VerifyResult, Goto, Inv, TypeInv, TypeOK
      <3> QED BY <1>t, <2>1, <3>1
              DEF ProcessInv, Active, disk, Intended, validateJournal, Verifiable, Effect
    <2>2. CASE Fail(c, local[c].steps + 1, "verification_failed")
      BY <1>11, <2>2, FailKept DEF VerifyResult, Active
    <2> QED BY <1>11, <2>1, <2>2 DEF VerifyResult
  <1>12. ASSUME NEW c \in Coordinators, CommitStep(c) PROVE ProcessInv(c)'
    <2>1. local[c].steps + 1 = PreparedStep => WithStep(local[c]).prepared
      BY <1>t DEF WithStep, Journals
    <2> DEFINE label == IF local[c].steps + 1 = PreparedStep THEN "publish" ELSE "decide"
    <2>2. /\ label \in {"publish", "decide"}
          /\ label = "publish" => WithStep(local[c]).prepared
      BY <2>1
    <2>3. Save(c, WithStep(local[c]), label)
      BY <1>12 DEF CommitStep
    <2> HIDE DEF label
    <2> QED BY <1>r, <2>2, <2>3, SavedKept
  <1>13. ASSUME NEW c \in Coordinators, SaveFailure(c) PROVE ProcessInv(c)'
    BY <1>13, <1>r, SavedKept DEF SaveFailure
  <1>14. ASSUME NEW c \in Coordinators, GetStatus(c) PROVE ProcessInv(c)'
    BY <1>14, <1>t DEF GetStatus, ProcessInv, Active, process, disk, Intended,
                       validateJournal, Verifiable, Effect
  <1>15. ASSUME NEW c \in Coordinators, Crash(c) PROVE ProcessInv(c)'
    BY <1>15, ReturnKept DEF Crash
  <1>16. ASSUME PowerLoss PROVE \A d \in Coordinators : ProcessInv(d)'
    BY <1>16 DEF PowerLoss, ProcessInv, Active
  <1>17. ASSUME UNCHANGED vars PROVE \A d \in Coordinators : ProcessInv(d)'
    BY <1>17, <1>t DEF vars, ProcessInv, Active, Intended, validateJournal,
                       Verifiable, Effect
  <1> QED BY <1>b, <1>1, <1>2, <1>3, <1>4, <1>5, <1>6, <1>7, <1>8, <1>9, <1>10,
             <1>11, <1>12, <1>13, <1>14, <1>15, <1>16, <1>17 DEF Next, Step

-----------------------------------------------------------------------------
(* The invariant holds initially.                                          *)
LEMMA InvInit == Init => Inv
  <1> SUFFICES ASSUME Init PROVE Inv
    OBVIOUS
  <1> USE BootstrapAssumption, ZeroTyped
  <1>1. TypeOK
    BY DEF Init, TypeOK, PCs, Statuses
  <1>2. \A c \in Coordinators : InStep(c) /\ ProcessInv(c)
    BY DEF Init, InStep, ProcessInv, Active
  <1>3. DiskInv
    BY DEF Init, DiskInv
  <1> QED BY <1>1, <1>2, <1>3 DEF Inv, TypeInv

(* Every step keeps the invariant.                                         *)
LEMMA InvStep == Inv /\ [Next]_vars => Inv'
  BY TypeStep, DiskStep, ProcessStep DEF Inv

(* The inductive invariant, from which everything below follows.           *)
THEOREM Invariance == Spec => []Inv
  BY InvInit, InvStep, PTL DEF Spec

(* Type correctness; the revision and attempt counters never pass the      *)
(* limits at which beginAttempt and advanceAndSave refuse to go on.        *)
THEOREM TypeCorrect == Spec => []TypeOK
  <1>1. Inv => TypeOK
    BY DEF Inv, TypeInv
  <1> QED BY <1>1, Invariance, PTL

(* Within a boot a revision number stands for one document, so Save's      *)
(* compare-and-swap on the number never loses an update.                   *)
THEOREM NoLostUpdate == Spec => []RevisionIdentifiesContent
  <1>1. Inv => RevisionIdentifiesContent
    BY DEF Inv, ProcessInv, RevisionIdentifiesContent
  <1> QED BY <1>1, Invariance, PTL

(* While the machine runs, the journal file only moves forward, one        *)
(* revision and at most one intended step at a time, and it never changes  *)
(* transaction or configuration.                                           *)
THEOREM MovesForward == Spec => JournalMovesForward
  <1>1. ASSUME Inv, [Next]_vars, boot' = boot, journal' # journal
        PROVE  /\ journal'.rev = journal.rev + 1
               /\ journal.rev > 0 => /\ journal'.tx = journal.tx
                                     /\ journal'.digest = journal.digest
               /\ \/ journal'.steps = journal.steps
                  \/ journal'.steps = journal.steps + 1 /\ journal.current > 0
    <2>1. ~PowerLoss /\ ~UNCHANGED disk
      BY <1>1 DEF PowerLoss, disk, Inv, TypeInv, TypeOK
    <2>2. PICK next : Moves(next)
      BY <1>1, <2>1, WritesMove
    <2> QED BY <2>2 DEF Moves, Succeeds
  <1>2. Inv /\ [Next]_vars =>
          [boot' = boot /\ journal' # journal =>
             /\ journal'.rev = journal.rev + 1
             /\ journal.rev > 0 => /\ journal'.tx = journal.tx
                                   /\ journal'.digest = journal.digest
             /\ \/ journal'.steps = journal.steps
                \/ journal'.steps = journal.steps + 1 /\ journal.current > 0]_vars
    BY <1>1
  <1> QED BY <1>2, Invariance, PTL DEF Spec, JournalMovesForward

(* The results that exist outside change only by executeStep, which adds   *)
(* one of the step that its process has open.                              *)
LEMMA EffectsGrow ==
  ASSUME Inv, [Next]_vars
  PROVE  \/ UNCHANGED effects
         \/ /\ UNCHANGED disk /\ UNCHANGED <<readiness, boot, reported>>
            /\ \E c \in Coordinators :
                  /\ pc[c] = "execute"
                  /\ local[c].steps + 1 < NumSteps
                  /\ effects' = effects \cup
                        {Effect(local[c], local[c].steps + 1, calls[c] + 1)}
  BY DEF Next, vars, Step, StartBootstrap, Cancel, GetStatus, Crash, PowerLoss,
         InitializeJournal, VerifyCompleted, PublishPrepared, RestoreComplete,
         ResumeFailed, BeginAttempt, ExecuteStep, CheckAllReady, VerifyResult,
         CommitStep, SaveFailure

(* beginAttempt before executeStep: whatever exists outside is intended by *)
(* every journal that a power loss could leave.                            *)
THEOREM IntentFirst == Spec => []IntentBeforeAction
  <1>1. Init => IntentBeforeAction
    BY DEF Init, IntentBeforeAction
  <1>2. ASSUME Inv, IntentBeforeAction, [Next]_vars
        PROVE  IntentBeforeAction'
    <2>t. /\ journal \in Journals /\ journal' \in Journals
          /\ journal \in survivors
          /\ \A e \in effects : e.step \in Steps
          /\ \A j \in survivors : j = ZeroJournal \/ validateJournal(j)
      BY <1>2, TypeStep DEF Inv, TypeInv, TypeOK, DiskInv, Effects
    <2>1. CASE UNCHANGED disk /\ ~UNCHANGED effects
      <3>1. PICK c \in Coordinators :
                  /\ pc[c] = "execute"
                  /\ effects' = effects \cup
                        {Effect(local[c], local[c].steps + 1, calls[c] + 1)}
        BY <1>2, <2>1, EffectsGrow
      <3>2. \A j \in survivors :
               Intended(j, local[c].tx, local[c].digest, local[c].steps + 1)
        BY <1>2, <3>1 DEF Inv, ProcessInv
      <3> QED BY <1>2, <2>1, <3>1, <3>2 DEF IntentBeforeAction, Effect, disk, Intended
    <2>2. CASE UNCHANGED disk /\ UNCHANGED effects
      BY <1>2, <2>2 DEF IntentBeforeAction, disk, Intended
    <2>3. CASE PowerLoss
      BY <1>2, <2>3 DEF IntentBeforeAction, PowerLoss, Intended
    <2>4. ASSUME NEW next, Moves(next), UNCHANGED effects
          PROVE  IntentBeforeAction'
      <3>1. \A e \in effects : Intended(journal, e.tx, e.digest, e.step)
        BY <1>2, <2>t DEF IntentBeforeAction
      <3>2. next \in Journals /\ Succeeds(next, journal)
        BY <2>t, <2>4 DEF Moves
      <3>3. \A e \in effects : Intended(next, e.tx, e.digest, e.step)
        BY <2>t, <3>1, <3>2, IntentKept
      <3> QED BY <1>2, <2>4, <3>3 DEF IntentBeforeAction, Moves, Intended
    <2> QED BY <1>2, <2>1, <2>2, <2>3, <2>4, WritesMove, EffectsGrow
  <1> QED BY <1>1, <1>2, Invariance, PTL DEF Spec

(* Counted steps stay carried out: nothing that exists outside goes away,  *)
(* and a write counts a step more only if its results exist.               *)
LEMMA CommittedStep ==
  Inv /\ CommittedStepsVerified /\ [Next]_vars => CommittedStepsVerified'
  <1>1. ASSUME Inv, CommittedStepsVerified, [Next]_vars
        PROVE  CommittedStepsVerified'
    <2>t. /\ journal \in Journals /\ journal \in survivors
          /\ survivors \subseteq Journals
          /\ journal = ZeroJournal \/ validateJournal(journal)
      BY <1>1 DEF Inv, TypeInv, TypeOK, DiskInv
    <2>e. effects \subseteq effects'
      BY <1>1, EffectsGrow
    <2>v. \A j \in Journals : \A s : Verifiable(j, s) => Verifiable(j, s)'
      BY <2>e DEF Verifiable, Effect
    <2>1. CASE UNCHANGED disk
      BY <1>1, <2>t, <2>v, <2>1 DEF CommittedStepsVerified, disk, Verifiable, Effect
    <2>2. CASE PowerLoss
      BY <1>1, <2>t, <2>v, <2>2 DEF CommittedStepsVerified, PowerLoss, Verifiable, Effect
    <2>3. ASSUME NEW next, Moves(next) PROVE CommittedStepsVerified'
      <3>1. \A s \in 1 .. journal.steps : Verifiable(journal, s)
        BY <1>1 DEF CommittedStepsVerified
      <3>2. \A s \in 1 .. next.steps : Verifiable(journal, s)
        BY <2>t, <2>3, <3>1 DEF Moves, Succeeds, Journals
      <3>3. journal.rev > 0 \/ next.steps = 0
        BY <2>t, <2>3 DEF Moves, Succeeds, ZeroJournal, validateJournal
      <3>4. \A s \in 1 .. next.steps : Verifiable(next, s)
        <4>1. CASE journal.rev > 0
          BY <2>3, <3>2, <4>1 DEF Moves, Succeeds, Verifiable, Effect
        <4>2. CASE next.steps = 0
          BY <4>2
        <4> QED BY <3>3, <4>1, <4>2
      <3>5. \A s \in 1 .. next.steps : Verifiable(next, s)'
        BY <2>e, <3>4 DEF Verifiable, Effect
      <3>6. \A j \in survivors : \A s \in 1 .. j.steps : Verifiable(j, s)'
        BY <1>1, <2>t, <2>v DEF CommittedStepsVerified
      <3>7. journal' = next /\ survivors' \subseteq survivors \cup {next}
        BY <2>3 DEF Moves
      <3> QED BY <3>5, <3>6, <3>7 DEF CommittedStepsVerified, Verifiable, Effect
    <2> QED BY <1>1, <2>1, <2>2, <2>3, WritesMove
  <1> QED BY <1>1

(* Every step that a journal counts, in the file or after a power loss,    *)
(* was carried out: all of its results exist.                              *)
THEOREM CommittedVerified == Spec => []CommittedStepsVerified
  <1>1. Init => CommittedStepsVerified
    BY BootstrapAssumption DEF Init, CommittedStepsVerified, ZeroJournal
  <1> QED BY <1>1, CommittedStep, Invariance, PTL DEF Spec

(* A readiness record for the running boot exists only while the journal   *)
(* has committed the prerequisite steps.                                   *)
THEOREM PreparedIsSound == Spec => []PreparedSound
  <1>1. Init => PreparedSound
    BY DEF Init, PreparedSound
  <1>2. ASSUME Inv, PreparedSound, [Next]_vars
        PROVE  PreparedSound'
    <2>t. boot \in Nat /\ readiness \in Nat /\ readiness <= boot /\ boot > 0
      BY <1>2, BootstrapAssumption DEF Inv, TypeInv, TypeOK
    <2>1. CASE PowerLoss
      BY <2>t, <2>1 DEF PowerLoss, PreparedSound
    <2>2. CASE \E c \in Coordinators : PublishPrepared(c)
      <3>1. PICK c \in Coordinators : PublishPrepared(c)
        BY <2>2
      <3>2. journal.prepared
        BY <1>2, <3>1 DEF Inv, ProcessInv, Active, PublishPrepared
      <3> QED BY <3>1, <3>2 DEF PublishPrepared, PreparedSound, disk
    <2>3. CASE ~PowerLoss /\ ~\E c \in Coordinators : PublishPrepared(c)
      <3>1. boot' = boot /\ readiness' \in {0, readiness}
        BY <1>2, <2>3
           DEF Next, vars, Step, StartBootstrap, Cancel, GetStatus, Crash,
               InitializeJournal, VerifyCompleted, RestoreComplete, ResumeFailed,
               BeginAttempt, ExecuteStep, CheckAllReady, VerifyResult, CommitStep,
               SaveFailure
      <3>2. journal.prepared => journal'.prepared
        BY <1>2, <2>3, WritesMove DEF Moves, Succeeds, disk
      <3> QED BY <1>2, <2>t, <3>1, <3>2 DEF PreparedSound
    <2> QED BY <2>1, <2>2, <2>3
  <1> QED BY <1>1, <1>2, Invariance, PTL DEF Spec

(* The journal that GetStatus has reported complete has all of its steps   *)
(* committed and verified for as long as the machine runs.                 *)
THEOREM CompleteVerified == Spec => []CompleteIsVerified
  <1> DEFINE AllSteps == reported = "complete" => journal.steps = NumSteps
  <1>1. Init => AllSteps
    BY DEF Init
  <1>2. ASSUME Inv, AllSteps, [Next]_vars
        PROVE  AllSteps'
    <2>t. journal \in Journals /\ journal' \in Journals
      BY <1>2, TypeStep DEF Inv, TypeInv, TypeOK
    <2>1. CASE PowerLoss
      BY <2>1 DEF PowerLoss
    <2>2. CASE \E c \in Coordinators : GetStatus(c)
      <3>1. StatusOf(journal) = "complete" => journal.steps = NumSteps
        BY <1>2 DEF StatusOf, Inv, DiskInv, ZeroJournal, validateJournal
      <3> QED BY <2>2, <3>1 DEF GetStatus, disk
    <2>3. CASE ~PowerLoss /\ ~\E c \in Coordinators : GetStatus(c)
      <3>1. reported' = reported
        BY <1>2, <2>3
           DEF Next, vars, Step, StartBootstrap, Cancel, PublishPrepared, Crash,
               InitializeJournal, VerifyCompleted, RestoreComplete, ResumeFailed,
               BeginAttempt, ExecuteStep, CheckAllReady, VerifyResult, CommitStep,
               SaveFailure
      <3>2. journal.steps = NumSteps => journal'.steps = NumSteps
        BY <1>2, <2>t, <2>3, WritesMove, BootstrapAssumption
           DEF Moves, Succeeds, disk, Journals
      <3> QED BY <1>2, <3>1, <3>2
    <2> QED BY <2>1, <2>2, <2>3
  <1>3. AllSteps /\ CommittedStepsVerified => CompleteIsVerified
    BY DEF CommittedStepsVerified, CompleteIsVerified, Steps
  <1>4. Spec => []AllSteps
    <2> HIDE DEF AllSteps
    <2> QED BY <1>1, <1>2, Invariance, PTL DEF Spec
  <1> HIDE DEF AllSteps
  <1> QED BY <1>3, <1>4, CommittedVerified, PTL

(* A process that is about to record a failure has one to record.          *)
FailureInv == \A c \in Coordinators : pc[c] = "fail" => pending[c] # NoFailure

(* Only Fail leads to saveFailure, and it names the step that failed.      *)
LEMMA FailureStep ==
  ASSUME Inv, FailureInv, [Next]_vars
  PROVE  FailureInv'
  <1> USE BootstrapAssumption
  <1>t. /\ pc \in [Coordinators -> PCs] /\ pending \in [Coordinators -> Failures]
        /\ \A c \in Coordinators : local[c].steps \in Nat
    BY DEF Inv, TypeInv, TypeOK, Journals
  <1>1. ASSUME NEW c \in Coordinators, NEW label, NEW j, Goto(c, label, j), label # "fail"
        PROVE  FailureInv'
    BY <1>t, <1>1 DEF Goto, FailureInv
  <1>2. ASSUME NEW c \in Coordinators, NEW s, NEW code, Fail(c, s, code), s # 0
        PROVE  FailureInv'
    <2>1. [step |-> s, code |-> code].step # NoFailure.step
      BY <1>2 DEF NoFailure
    <2>2. [step |-> s, code |-> code] # NoFailure
      BY <2>1
    <2> QED BY <1>t, <1>2, <2>2 DEF Fail, FailureInv
  <1>3. ASSUME NEW c \in Coordinators, NEW next, NEW label, Save(c, next, label), label # "fail"
        PROVE  FailureInv'
    BY <1>1, <1>3 DEF Save, Return
  <1>4. ASSUME NEW c \in Coordinators, StartBootstrap(c) PROVE FailureInv'
    BY <1>1, <1>4 DEF StartBootstrap, process, FailureInv
  <1>5. ASSUME NEW c \in Coordinators,
               \/ InitializeJournal(c) \/ RestoreComplete(c) \/ ResumeFailed(c)
               \/ BeginAttempt(c) \/ SaveFailure(c) \/ Cancel(c) \/ Crash(c)
        PROVE  FailureInv'
    BY <1>1, <1>3, <1>5 DEF InitializeJournal, RestoreComplete, ResumeFailed, BeginAttempt,
                            SaveFailure, Cancel, Crash, Return
  <1>6. ASSUME NEW c \in Coordinators, CommitStep(c) PROVE FailureInv'
    <2> DEFINE label == IF local[c].steps + 1 = PreparedStep THEN "publish" ELSE "decide"
    <2>1. Save(c, WithStep(local[c]), label) /\ label # "fail"
      BY <1>6 DEF CommitStep
    <2> QED BY <1>3, <2>1
  <1>7. ASSUME NEW c \in Coordinators, VerifyCompleted(c) PROVE FailureInv'
    <2>1. AfterVerify(local[c]) # "fail" /\ \A s \in 1 .. local[c].steps : s # 0
      BY DEF AfterVerify
    <2> QED BY <1>1, <1>2, <1>7, <2>1 DEF VerifyCompleted
  <1>8. ASSUME NEW c \in Coordinators, PublishPrepared(c) PROVE FailureInv'
    BY <1>1, <1>2, <1>8 DEF PublishPrepared
  <1>9. ASSUME NEW c \in Coordinators, ExecuteStep(c) PROVE FailureInv'
    <2>1. local[c].steps + 1 # 0
      BY <1>t
    <2>2. CASE Fail(c, local[c].steps + 1, "action_failed")
      BY <1>2, <2>1, <2>2
    <2>3. CASE /\ pc' = [pc EXCEPT ![c] = IF calls[c] + 1 = Width(local[c].steps + 1)
                                          THEN "check" ELSE "execute"]
               /\ UNCHANGED pending
      BY <1>t, <2>3 DEF FailureInv
    <2> QED BY <1>9, <2>2, <2>3 DEF ExecuteStep
  <1>10. ASSUME NEW c \in Coordinators, CheckAllReady(c) PROVE FailureInv'
    BY <1>1, <1>2, <1>10 DEF CheckAllReady
  <1>11. ASSUME NEW c \in Coordinators, VerifyResult(c) PROVE FailureInv'
    <2>1. local[c].steps + 1 # 0
      BY <1>t
    <2> QED BY <1>1, <1>2, <1>11, <2>1 DEF VerifyResult
  <1>12. ASSUME NEW c \in Coordinators, GetStatus(c) PROVE FailureInv'
    BY <1>12 DEF GetStatus, process, FailureInv
  <1>13. CASE PowerLoss
    BY <1>13 DEF PowerLoss, FailureInv
  <1>14. CASE UNCHANGED vars
    BY <1>14 DEF vars, FailureInv
  <1> QED BY <1>4, <1>5, <1>6, <1>7, <1>8, <1>9, <1>10, <1>11, <1>12, <1>13, <1>14
          DEF Next, Step

(* The documents that StartBootstrap builds from a valid one are valid.    *)
LEMMA BuildersValid ==
  ASSUME NEW j \in Journals, validateJournal(j)
  PROVE  /\ j.steps < NumSteps => validateJournal(WithStep(j))
         /\ \A f : f # NoFailure => validateJournal(WithFailure(j, f))
         /\ \/ j.state = "complete"
            \/ j.steps = NumSteps /\ validateJournal(WithCompletion(j))
            \/ j.state = "failed" /\ validateJournal(WithoutFailure(j))
            \/ j.state = "in_progress" /\ validateJournal(WithIntent(j))
  <1> USE BootstrapAssumption
  <1>t. /\ j.rev \in Nat /\ j.rev > 0 /\ j.tx # None /\ j.digest # None
        /\ j.steps \in Nat /\ j.steps <= NumSteps /\ j.current \in Nat
        /\ j.prepared \in BOOLEAN /\ (j.prepared <=> (j.steps >= PreparedStep))
        /\ j.current > 0 => j.steps < NumSteps
        /\ j.state \in {"in_progress", "complete", "failed"}
        /\ j.state = "in_progress" => j.steps < NumSteps /\ j.failure = NoFailure
        /\ j.state = "complete" => j.steps = NumSteps
    BY DEF Journals, validateJournal
  <1>1. ASSUME j.steps < NumSteps PROVE validateJournal(WithStep(j))
    <2> DEFINE x == WithStep(j)
    <2>1. /\ x.rev = j.rev + 1 /\ x.tx = j.tx /\ x.digest = j.digest /\ x.steps = j.steps + 1
          /\ x.current = 0 /\ x.failure = NoFailure
          /\ x.prepared = (j.prepared \/ j.steps + 1 = PreparedStep)
          /\ x.state = IF j.steps + 1 = NumSteps THEN "complete" ELSE "in_progress"
      BY DEF WithStep, Journals
    <2> HIDE DEF x
    <2>2. x.prepared <=> (x.steps >= PreparedStep)
      <3>1. (j.steps >= PreparedStep \/ j.steps + 1 = PreparedStep)
               <=> (j.steps + 1 >= PreparedStep)
        BY <1>t
      <3>2. (j.prepared \/ j.steps + 1 = PreparedStep) <=> (j.steps + 1 >= PreparedStep)
        BY <1>t, <3>1, Zenon
      <3> QED BY <2>1, <3>2, Zenon
    <2>3. x.rev > 0 /\ x.steps <= NumSteps
      BY <1>t, <1>1, <2>1
    <2>4. \/ x.state = "in_progress" /\ x.steps < NumSteps
          \/ x.state = "complete" /\ x.steps = NumSteps /\ x.prepared
      BY <1>t, <1>1, <2>1, <2>2
    <2> QED BY <1>t, <2>1, <2>2, <2>3, <2>4 DEF validateJournal, x
  <1>2. ASSUME NEW f, f # NoFailure PROVE validateJournal(WithFailure(j, f))
    <2> DEFINE x == WithFailure(j, f)
    <2>1. /\ x.rev = j.rev + 1 /\ x.tx = j.tx /\ x.digest = j.digest /\ x.steps = j.steps
          /\ x.current = j.current /\ x.failure = f /\ x.prepared = j.prepared
          /\ x.state = "failed"
      BY DEF WithFailure, Journals
    <2> HIDE DEF x
    <2> QED BY <1>t, <1>2, <2>1 DEF validateJournal, x
  <1>3. ASSUME j.steps = NumSteps PROVE validateJournal(WithCompletion(j))
    <2> DEFINE x == WithCompletion(j)
    <2>1. /\ x.rev = j.rev + 1 /\ x.tx = j.tx /\ x.digest = j.digest /\ x.steps = j.steps
          /\ x.current = 0 /\ x.failure = NoFailure /\ x.prepared = j.prepared
          /\ x.state = "complete"
      BY DEF WithCompletion, Journals
    <2> HIDE DEF x
    <2> QED BY <1>t, <1>3, <2>1 DEF validateJournal, x
  <1>4. ASSUME j.steps < NumSteps PROVE validateJournal(WithoutFailure(j))
    <2> DEFINE x == WithoutFailure(j)
    <2>1. /\ x.rev = j.rev + 1 /\ x.tx = j.tx /\ x.digest = j.digest /\ x.steps = j.steps
          /\ x.current = j.current /\ x.failure = NoFailure /\ x.prepared = j.prepared
          /\ x.state = "in_progress"
      BY DEF WithoutFailure, Journals
    <2> HIDE DEF x
    <2> QED BY <1>t, <1>4, <2>1 DEF validateJournal, x
  <1>5. ASSUME j.steps < NumSteps PROVE validateJournal(WithIntent(j))
    <2> DEFINE x == WithIntent(j)
    <2>1. /\ x.rev = j.rev + 1 /\ x.tx = j.tx /\ x.digest = j.digest /\ x.steps = j.steps
          /\ x.current = j.current + 1 /\ x.failure = NoFailure /\ x.prepared = j.prepared
          /\ x.state = "in_progress"
      BY DEF WithIntent, Journals
    <2> HIDE DEF x
    <2> QED BY <1>t, <1>5, <2>1 DEF validateJournal, x
  <1> QED BY <1>t, <1>1, <1>2, <1>3, <1>4, <1>5

(* No sequence of calls, failures and resumptions leads StartBootstrap to  *)
(* a document that its own validateJournal refuses.                        *)
THEOREM NeverRefused == Spec => []NeverRefusedAsInvalid
  <1>1. Init => FailureInv
    BY DEF Init, FailureInv
  <1>2. Inv /\ FailureInv => NeverRefusedAsInvalid
    <2> SUFFICES ASSUME Inv, FailureInv, NEW c \in Coordinators
                 PROVE  /\ pc[c] = "commit" => validateJournal(WithStep(local[c]))
                        /\ pc[c] = "fail" => validateJournal(WithFailure(local[c], pending[c]))
                        /\ pc[c] = "decide" =>
                              \/ local[c].state = "complete"
                              \/ local[c].steps = NumSteps /\ validateJournal(WithCompletion(local[c]))
                              \/ local[c].state = "failed" /\ validateJournal(WithoutFailure(local[c]))
                              \/ local[c].state = "in_progress" /\ validateJournal(WithIntent(local[c]))
      BY DEF NeverRefusedAsInvalid
    <2>1. local[c] \in Journals /\ (Active(c) => validateJournal(local[c]))
      BY DEF Inv, TypeInv, TypeOK, ProcessInv
    <2>2. pc[c] = "commit" => local[c].steps < NumSteps
      BY DEF Inv, ProcessInv
    <2>3. pc[c] = "fail" => pending[c] # NoFailure
      BY DEF FailureInv
    <2>4. pc[c] \in {"commit", "fail", "decide"} => Active(c)
      BY DEF Active
    <2> QED BY <2>1, <2>2, <2>3, <2>4, BuildersValid
  <1>3. Inv /\ FailureInv /\ [Next]_vars => FailureInv'
    BY FailureStep
  <1>4. Spec => []FailureInv
    BY <1>1, <1>3, Invariance, PTL DEF Spec
  <1> QED BY <1>2, <1>4, Invariance, PTL

-----------------------------------------------------------------------------
(* Implementation of BootstrapTransaction.                                 *)

(* j may replace m after a power loss: same owner and at most one step     *)
(* more.                                                                   *)
Follows(m, j) ==
    /\ m.rev = 0 => j.steps = 0
    /\ m.rev > 0 => /\ j.tx = m.tx /\ j.digest = m.digest
                    /\ j.steps = m.steps \/ j.steps = m.steps + 1

(* The survivors of a power loss are told apart by their revisions, and    *)
(* none is more than one step behind.                                      *)
SurvivorInv ==
    /\ \E m \in survivors : \A j \in survivors : m.rev <= j.rev
    /\ \A j \in survivors : j.rev <= journal.rev
    /\ \A j, k \in survivors : j.rev = k.rev => j = k
    /\ \A m, j \in survivors : m.rev <= j.rev => Follows(m, j)

(* What a write adds follows every survivor.                               *)
LEMMA MoveFollows ==
  ASSUME Inv, SurvivorInv, NEW next \in Journals, Moves(next), NEW m \in survivors
  PROVE  Follows(m, next)
  <1> USE BootstrapAssumption
  <1>1. /\ journal \in Journals /\ m \in Journals /\ journal \in survivors
        /\ m.rev \in Nat /\ journal.rev \in Nat /\ m.steps \in Nat
        /\ journal.steps \in Nat /\ next.steps \in Nat /\ next.rev \in Nat
    BY DEF Inv, TypeInv, TypeOK, DiskInv, Journals
  <1>2. /\ m.rev <= journal.rev
        /\ m.rev = 0 => journal.steps = 0
        /\ m.rev > 0 => /\ journal.tx = m.tx /\ journal.digest = m.digest
                        /\ journal.steps = m.steps \/ journal.steps = m.steps + 1
    BY <1>1 DEF SurvivorInv, Follows
  <1>3. /\ journal.rev > 0 => next.tx = journal.tx /\ next.digest = journal.digest
        /\ next.steps = journal.steps \/ next.steps = journal.steps + 1
    BY DEF Moves, Succeeds
  <1>4. CASE next.steps = journal.steps
    BY <1>1, <1>2, <1>3, <1>4 DEF Follows
  <1>5. CASE next.steps = journal.steps + 1
    <2>1. Intended(m, journal.tx, journal.digest, journal.steps + 1)
      BY <1>1, <1>5 DEF Moves
    <2>2. m.tx = journal.tx /\ (m.steps >= journal.steps + 1 \/ m.steps = journal.steps)
      BY <1>1, <2>1 DEF Intended
    <2>3. journal.current > 0
      BY <1>1, <1>5 DEF Moves, Succeeds
    <2>4. journal.rev > 0 /\ journal.tx # None
      BY <2>3 DEF Inv, DiskInv, ZeroJournal, validateJournal
    <2>5. m.rev # 0
      <3> SUFFICES ASSUME m.rev = 0 PROVE FALSE
        OBVIOUS
      <3>1. m = ZeroJournal
        BY <1>1 DEF Inv, DiskInv, validateJournal
      <3> QED BY <2>2, <2>4, <3>1 DEF ZeroJournal
    <2> QED BY <1>1, <1>2, <1>3, <1>5, <2>2, <2>4, <2>5 DEF Follows
  <1> QED BY <1>3, <1>4, <1>5

(* Every step keeps the survivors in line.                                 *)
LEMMA SurvivorStep ==
  ASSUME Inv, SurvivorInv, [Next]_vars
  PROVE  SurvivorInv'
  <1>t. /\ journal \in Journals /\ journal' \in Journals /\ survivors \subseteq Journals
        /\ \A j \in Journals : j.rev \in Nat
    BY TypeStep, BootstrapAssumption DEF Inv, TypeInv, TypeOK, Journals
  <1>1. CASE UNCHANGED disk
    BY <1>1 DEF disk, SurvivorInv, Follows
  <1>2. CASE PowerLoss
    <2>1. PICK s \in survivors : journal' = s /\ survivors' = {s}
      BY <1>2 DEF PowerLoss
    <2>2. s.rev \in Nat /\ s.rev <= s.rev /\ Follows(s, s)
      BY <1>t DEF SurvivorInv
    <2> QED BY <2>1, <2>2 DEF SurvivorInv, Follows
  <1>3. ASSUME NEW next, Moves(next) PROVE SurvivorInv'
    <2>1. /\ journal' = next /\ next \in Journals /\ next.rev = journal.rev + 1
          /\ survivors' = {next} \/ survivors' = survivors \cup {next}
      BY <1>t, <1>3 DEF Moves, Succeeds
    <2>2. \A j \in survivors : /\ j.rev \in Nat /\ j.rev <= journal.rev
                               /\ j.rev < next.rev
      BY <1>t, <2>1 DEF SurvivorInv
    <2>3. \A m \in survivors : Follows(m, next)
      BY <1>3, <2>1, MoveFollows
    <2>4. Follows(next, next)
      <3>1. next.rev > 0
        BY <1>3 DEF Moves, validateJournal
      <3> QED BY <1>t, <2>1, <3>1 DEF Follows
    <2>5. next.rev \in Nat
      BY <1>t, <2>1
    <2>6. \E m \in survivors' : \A j \in survivors' : m.rev <= j.rev
      <3>1. PICK m \in survivors : \A j \in survivors : m.rev <= j.rev
        BY DEF SurvivorInv
      <3> QED BY <2>1, <2>2, <2>5, <3>1
    <2>7. \A j \in survivors' : j.rev <= journal'.rev
      BY <2>1, <2>2, <2>5
    <2>8. \A j, k \in survivors' : j.rev = k.rev => j = k
      BY <2>1, <2>2, <2>5 DEF SurvivorInv
    <2>9. \A m, j \in survivors' : m.rev <= j.rev => Follows(m, j)
      BY <2>1, <2>2, <2>3, <2>4, <2>5 DEF SurvivorInv
    <2> QED BY <2>6, <2>7, <2>8, <2>9 DEF SurvivorInv, Follows
  <1> QED BY <1>1, <1>2, <1>3, WritesMove

(* The oldest member of a set of documents with distinct revisions.        *)
LEMMA OldestIs ==
  ASSUME NEW S, \A j \in S : j.rev \in Nat, \A j, k \in S : j.rev = k.rev => j = k,
         NEW m \in S, \A k \in S : m.rev <= k.rev
  PROVE  (CHOOSE j \in S : \A k \in S : j.rev <= k.rev) = m
  <1> DEFINE d == CHOOSE j \in S : \A k \in S : j.rev <= k.rev
  <1>1. d \in S /\ \A k \in S : d.rev <= k.rev
    OBVIOUS
  <1> HIDE DEF d
  <1>2. d.rev = m.rev
    BY <1>1
  <1>3. d = m
    BY <1>1, <1>2
  <1> QED BY <1>3 DEF d

(* What is durable is the oldest survivor, and it is the same until the    *)
(* set of survivors is cut down.                                           *)
LEMMA DurableIs ==
  ASSUME Inv, SurvivorInv
  PROVE  /\ Durable \in survivors /\ Durable \in Journals
         /\ \A k \in survivors : Durable.rev <= k.rev
         /\ Durable = ZeroJournal \/ validateJournal(Durable)
  <1>1. survivors \subseteq Journals /\ \A j \in survivors : j.rev \in Nat
    BY BootstrapAssumption DEF Inv, TypeInv, TypeOK, Journals
  <1>2. PICK m \in survivors : \A k \in survivors : m.rev <= k.rev
    BY DEF SurvivorInv
  <1>3. \A j, k \in survivors : j.rev = k.rev => j = k
    BY DEF SurvivorInv
  <1>4. (CHOOSE j \in survivors : \A k \in survivors : j.rev <= k.rev) = m
    BY <1>1, <1>2, <1>3, OldestIs
  <1>5. Durable = m
    BY <1>4 DEF Durable
  <1> QED BY <1>1, <1>2, <1>5 DEF Inv, DiskInv

(* A step that leaves what is durable, and what exists, is a stutter.      *)
LEMMA StutterMapped ==
  ASSUME Durable' = Durable, effects' = effects
  PROVE  UNCHANGED Transaction!tvars
  BY DEF Transaction!tvars

(* The first durable journal adopts its transaction.                       *)
LEMMA AdoptMapped ==
  ASSUME Durable.rev = 0, Durable'.rev # 0, Durable'.tx \in TxIDs,
         Durable'.digest \in Digests, Durable'.steps = Durable.steps, effects' = effects
  PROVE  Transaction!Adopt
  BY DEF Transaction!Adopt

(* One durable step more, with its results in place, is a commit.          *)
LEMMA CommitMapped ==
  ASSUME Durable.rev # 0, Durable'.rev # 0, Durable'.tx = Durable.tx,
         Durable'.digest = Durable.digest, Durable.tx \in TxIDs, Durable.digest \in Digests,
         Durable.steps < NumSteps, Durable'.steps = Durable.steps + 1,
         Verifiable(Durable, Durable.steps + 1), effects' = effects
  PROVE  Transaction!Commit
  <1>1. <<Durable.tx, Durable.digest>> # None
    BY BootstrapAssumption
  <1>2. ASSUME NEW k \in IF Durable.steps + 1 < NumSteps THEN 1 .. Width(Durable.steps + 1) ELSE {}
        PROVE  <<<<Durable.tx, Durable.digest>>, Durable.steps + 1, k>>
                  \in {<<<<e.tx, e.digest>>, e.step, e.part>> : e \in effects}
    <2>1. Effect(Durable, Durable.steps + 1, k) \in effects
      BY <1>2 DEF Verifiable
    <2> QED BY <2>1 DEF Effect
  <1> QED BY <1>1, <1>2 DEF Transaction!Commit

(* A result of the open step is created.                                   *)
LEMMA CreateMapped ==
  ASSUME Durable' = Durable, Durable.rev # 0, Durable.tx \in TxIDs, Durable.digest \in Digests,
         Durable.steps + 1 < NumSteps, NEW k \in 1 .. Width(Durable.steps + 1),
         effects' = effects \cup {Effect(Durable, Durable.steps + 1, k)}
  PROVE  Transaction!Create
  <1>1. <<Durable.tx, Durable.digest>> # None
    BY BootstrapAssumption
  <1>2. {<<<<e.tx, e.digest>>, e.step, e.part>> : e \in effects'}
           = {<<<<e.tx, e.digest>>, e.step, e.part>> : e \in effects}
                \cup {<<<<Durable.tx, Durable.digest>>, Durable.steps + 1, k>>}
    <2> DEFINE x == Effect(Durable, Durable.steps + 1, k)
    <2>1. /\ x.tx = Durable.tx /\ x.digest = Durable.digest
          /\ x.step = Durable.steps + 1 /\ x.part = k
      BY DEF Effect
    <2>2. effects' = effects \cup {x}
      OBVIOUS
    <2> HIDE DEF x
    <2>3. {<<<<e.tx, e.digest>>, e.step, e.part>> : e \in effects \cup {x}}
             = {<<<<e.tx, e.digest>>, e.step, e.part>> : e \in effects}
                  \cup {<<<<x.tx, x.digest>>, x.step, x.part>>}
      BY Zenon
    <2> QED BY <2>1, <2>2, <2>3
  <1> QED BY <1>1, <1>2 DEF Transaction!Create

(* Every step of the coordinators is a step of the transaction, or none.   *)
LEMMA StepMapped ==
  ASSUME Inv, SurvivorInv, CommittedStepsVerified, [Next]_vars
  PROVE  [Transaction!TNext]_(Transaction!tvars)
  <1> USE BootstrapAssumption
  <1>i. Inv' /\ SurvivorInv'
    BY InvStep, SurvivorStep
  <1>d. /\ Durable \in survivors /\ Durable \in Journals
        /\ \A k \in survivors : Durable.rev <= k.rev
        /\ Durable = ZeroJournal \/ validateJournal(Durable)
    BY DurableIs
  <1>f. /\ Durable.rev \in Nat /\ Durable.steps \in Nat /\ Durable.steps <= NumSteps
        /\ Durable.rev # 0 => Durable.tx \in TxIDs /\ Durable.digest \in Digests
        /\ Durable.rev = 0 => Durable.steps = 0
    BY <1>d DEF Journals, validateJournal, ZeroJournal
  <1>1. ASSUME NEW n \in survivors', NEW m \in Journals, survivors' = {n}, n = m,
               n = ZeroJournal \/ validateJournal(m), Follows(Durable, m),
               \A s \in 1 .. m.steps : Verifiable(m, s), effects' = effects
        PROVE  [Transaction!TNext]_(Transaction!tvars)
    <2>1. Durable' = m
      <3>1. m.rev \in Nat
        BY <1>1 DEF Journals
      <3>2. (CHOOSE j \in survivors' : \A k \in survivors' : j.rev <= k.rev) = m
        BY <1>1, <3>1, OldestIs
      <3> QED BY <3>2 DEF Durable
    <2>2. /\ m.rev \in Nat /\ m.steps \in Nat /\ m.steps <= NumSteps
          /\ m.rev # 0 => m.tx \in TxIDs /\ m.digest \in Digests
          /\ m.rev = 0 => m = ZeroJournal
      BY <1>1 DEF Journals, validateJournal, ZeroJournal
    <2>3. CASE Durable.rev = 0 /\ m.rev = 0
      <3>1. Durable = ZeroJournal /\ Durable' = ZeroJournal
        BY <1>d, <2>1, <2>2, <2>3 DEF validateJournal
      <3> QED BY <1>1, <3>1, StutterMapped
    <2>4. CASE Durable.rev = 0 /\ m.rev # 0
      <3>1. m.steps = 0
        BY <1>1, <2>4 DEF Follows
      <3>2. Transaction!Adopt
        BY <1>1, <1>f, <2>1, <2>2, <2>4, <3>1, AdoptMapped
      <3> QED BY <3>2 DEF Transaction!TNext
    <2>5. CASE Durable.rev # 0
      <3>1. /\ m.tx = Durable.tx /\ m.digest = Durable.digest
            /\ m.steps = Durable.steps \/ m.steps = Durable.steps + 1
        BY <1>1, <1>f, <2>5 DEF Follows
      <3>2. m.rev # 0
        <4>1. m.rev = 0 => m.tx = None
          BY <2>2 DEF ZeroJournal
        <4> QED BY <1>f, <2>5, <3>1, <4>1
      <3>3. CASE m.steps = Durable.steps
        <4>1. UNCHANGED Transaction!tvars
          BY <1>1, <2>1, <2>5, <3>1, <3>2, <3>3 DEF Transaction!tvars
        <4> QED BY <4>1
      <3>4. CASE m.steps = Durable.steps + 1
        <4>1. Verifiable(m, m.steps)
          BY <1>1, <1>f, <2>2, <3>4
        <4>2. Verifiable(Durable, Durable.steps + 1)
          BY <3>1, <3>4, <4>1 DEF Verifiable, Effect
        <4>3. Durable.steps < NumSteps
          BY <1>f, <2>2, <3>4
        <4>4. Transaction!Commit
          BY <1>1, <1>f, <2>1, <2>5, <3>1, <3>2, <3>4, <4>2, <4>3, CommitMapped
        <4> QED BY <4>4 DEF Transaction!TNext
      <3> QED BY <3>1, <3>3, <3>4
    <2> QED BY <2>3, <2>4, <2>5
  <1>2. CASE UNCHANGED disk /\ effects' = effects
    <2>1. Durable' = Durable
      BY <1>2 DEF Durable, disk
    <2> QED BY <1>2, <2>1, StutterMapped
  <1>3. CASE UNCHANGED disk /\ effects' # effects
    <2>1. PICK c \in Coordinators :
             /\ pc[c] = "execute" /\ local[c].steps + 1 < NumSteps
             /\ effects' = effects \cup
                   {Effect(local[c], local[c].steps + 1, calls[c] + 1)}
      BY <1>3, EffectsGrow
    <2> DEFINE s == local[c].steps + 1
               k == calls[c] + 1
    <2>2. Durable' = Durable
      BY <1>3 DEF Durable, disk
    <2>3. Intended(Durable, local[c].tx, local[c].digest, s) /\ Active(c)
      BY <1>d, <2>1 DEF Inv, ProcessInv, Active
    <2>4. local[c].tx # None /\ local[c].digest # None /\ local[c].steps \in Nat
      BY <2>3 DEF Inv, ProcessInv, validateJournal, TypeInv, TypeOK, Journals
    <2>5. k \in 1 .. Width(s)
      <3>1. calls[c] < Width(s) /\ calls[c] \in Nat /\ Width(s) \in Nat
        BY <2>1 DEF Inv, TypeInv, TypeOK, InStep, Width
      <3> QED BY <3>1
    <2>6. /\ Durable.tx = local[c].tx /\ Durable.digest = local[c].digest
          /\ Durable.steps >= s \/ Durable.steps = local[c].steps
      BY <2>3, <2>4 DEF Intended
    <2>7. Durable.rev # 0
      BY <1>d, <2>4, <2>6 DEF ZeroJournal, validateJournal
    <2>8. Effect(local[c], s, k) = Effect(Durable, s, k)
      BY <2>6 DEF Effect
    <2>9. CASE Durable.steps = local[c].steps
      <3>1. Transaction!Create
        BY <1>f, <2>1, <2>2, <2>5, <2>7, <2>8, <2>9, CreateMapped
      <3> QED BY <3>1 DEF Transaction!TNext
    <2>10. CASE Durable.steps >= s
      <3>1. Verifiable(Durable, s)
        BY <1>d, <1>f, <2>4, <2>10 DEF CommittedStepsVerified
      <3>2. Effect(Durable, s, k) \in effects
        BY <2>1, <2>5, <3>1 DEF Verifiable
      <3> QED BY <1>3, <2>1, <2>8, <3>2
    <2> QED BY <2>6, <2>9, <2>10
  <1>4. CASE PowerLoss
    <2>1. PICK j \in survivors : journal' = j /\ survivors' = {j}
      BY <1>4 DEF PowerLoss
    <2>2. /\ effects' = effects /\ j \in Journals /\ j \in survivors'
          /\ j = ZeroJournal \/ validateJournal(j)
      BY <1>4, <2>1 DEF PowerLoss, Inv, TypeInv, TypeOK, DiskInv
    <2>3. Follows(Durable, j)
      BY <1>d DEF SurvivorInv
    <2>4. \A s \in 1 .. j.steps : Verifiable(j, s)
      BY DEF CommittedStepsVerified
    <2> QED BY <1>1, <2>1, <2>2, <2>3, <2>4
  <1>5. ASSUME NEW next, Moves(next), effects' = effects
        PROVE  [Transaction!TNext]_(Transaction!tvars)
    <2>1. /\ next \in Journals /\ journal \in Journals /\ journal \in survivors
          /\ next \in survivors' /\ validateJournal(next) /\ next.rev = journal.rev + 1
      BY <1>5, <1>i DEF Moves, Succeeds, Inv, TypeInv, TypeOK, DiskInv
    <2>2. Follows(Durable, next)
      BY <1>5, <1>d, <2>1, MoveFollows
    <2>3. CASE survivors' = {next}
      <3>1. \A s \in 1 .. next.steps : Verifiable(next, s)
        <4>1. CommittedStepsVerified'
          BY CommittedStep
        <4> QED BY <1>5, <2>1, <4>1 DEF CommittedStepsVerified, Moves, Verifiable, Effect
      <3> QED BY <1>1, <1>5, <2>1, <2>2, <2>3, <3>1
    <2>4. CASE survivors' = survivors \cup {next}
      <3>1. Durable \in survivors' /\ \A k \in survivors' : Durable.rev <= k.rev
        <4>1. Durable.rev <= journal.rev /\ journal.rev \in Nat
          BY <1>d, <2>1 DEF Journals
        <4> QED BY <1>d, <1>f, <2>1, <2>4, <4>1
      <3>2. /\ \A j \in survivors' : j.rev \in Nat
            /\ \A j, k \in survivors' : j.rev = k.rev => j = k
        BY <1>i DEF SurvivorInv, Inv, TypeInv, TypeOK, Journals
      <3>3. (CHOOSE j \in survivors' : \A k \in survivors' : j.rev <= k.rev) = Durable
        BY <3>1, <3>2, OldestIs
      <3>4. Durable' = Durable
        BY <3>3 DEF Durable
      <3> QED BY <1>5, <3>4, StutterMapped
    <2> QED BY <1>5, <2>3, <2>4 DEF Moves
  <1> QED BY <1>2, <1>3, <1>4, <1>5, WritesMove, EffectsGrow

(* The coordinators implement the transaction of BootstrapTransaction: one *)
(* owner, steps created and committed strictly in order, and nothing       *)
(* undone by a crash, a failed sync or a power loss.                       *)
THEOREM Refinement == Spec => ImplementsTransaction
  <1>1. Init => Transaction!TInit /\ SurvivorInv
    <2> SUFFICES ASSUME Init PROVE Transaction!TInit /\ SurvivorInv
      OBVIOUS
    <2>1. survivors = {ZeroJournal} /\ journal = ZeroJournal /\ effects = {}
          /\ ZeroJournal.rev = 0 /\ ZeroJournal.steps = 0
      BY DEF Init, ZeroJournal
    <2>2. SurvivorInv
      BY <2>1 DEF SurvivorInv, Follows
    <2>3. Durable = ZeroJournal
      BY <2>1, <2>2, InvInit, DurableIs
    <2> QED BY <2>1, <2>2, <2>3 DEF Transaction!TInit
  <1>2. Inv /\ SurvivorInv /\ [Next]_vars => SurvivorInv'
    BY SurvivorStep
  <1>3. Inv /\ SurvivorInv /\ CommittedStepsVerified /\ [Next]_vars
           => [Transaction!TNext]_(Transaction!tvars)
    BY StepMapped
  <1>4. Spec => []SurvivorInv
    BY <1>1, <1>2, Invariance, PTL DEF Spec
  <1> QED BY <1>1, <1>3, <1>4, Invariance, CommittedVerified, PTL
          DEF Spec, ImplementsTransaction, Transaction!TSpec
=============================================================================
