------------------------------- MODULE ShipCrew -------------------------------
(***************************************************************************)
(* The ShipCrew controllers (internal/shipcrew/controller, the controller  *)
(* mode of cmd/shipcrew): three reconcilers in one process, for a model    *)
(* backend, a crew that refers to it, and the runs of that crew.  Objects  *)
(* live in the API server; a reconciler reads them from an informer cache  *)
(* that may lag, and writes their status back with the resource version it *)
(* has read.  The runner that a crew's reconciliation builds is kept in    *)
(* memory and lost with the process.                                       *)
(*                                                                         *)
(* A spec is "good" when the models and agents can be built from it, "bad" *)
(* when they cannot and "gone" when there is no such object.               *)
(***************************************************************************)
EXTENDS Integers

CONSTANTS
    Backend,        \* the ModelBackend object
    Crew,           \* the Crew object; its ModelRef is Backend
    CrewRuns,       \* the CrewRun objects; their CrewRef is Crew
    MaxCrewEdits,   \* bound: edits and deletions by users
    MaxCrewFaults   \* bound: failed or unanswered updates, restarts

CrewObjects == {Backend, Crew} \cup CrewRuns

ASSUME ShipCrewAssumption ==
    /\ Backend # Crew /\ {Backend, Crew} \cap CrewRuns = {}
    /\ MaxCrewEdits \in Nat /\ MaxCrewFaults \in Nat

VARIABLES
    api,         \* api[o]: resource version, spec and status in the API server
    cache,       \* cache[o]: the informer's copy
    workQueue,   \* objects to be reconciled
    job,         \* job[k]: what the one worker of controller k is doing
    hasRunner,   \* the runnerRegistry has an entry for the crew
    executions,  \* executions[r]: times runner.Run was called for r
    crewEdits,
    crewFaults

shipCrewVars == <<api, cache, workQueue, job, hasRunner, executions, crewEdits,
                  crewFaults>>

-----------------------------------------------------------------------------
Controllers == {"backend", "crew", "run"}
Watched(k) == CASE k = "backend" -> {Backend} [] k = "crew" -> {Crew}
                [] k = "run" -> CrewRuns

Terminal == {"succeeded", "failed"}
CrewStatuses == {"new", "ready", "notReady", "running"} \cup Terminal

(* A job holds the copy of the object that it works on.                    *)
NoJob == [pc |-> "idle", obj |-> Backend, rv |-> 0, spec |-> "gone", status |-> "new"]

GotoJob(k, pc) == job' = [job EXCEPT ![k].pc = pc]

(* The worker is done with its object; an error puts it back (rate limited).*)
Finish(k) == job' = [job EXCEPT ![k] = NoJob] /\ UNCHANGED workQueue
Requeue(k) == /\ job' = [job EXCEPT ![k] = NoJob]
              /\ workQueue' = workQueue \cup {job[k].obj}

CrewFault == crewFaults < MaxCrewFaults /\ crewFaults' = crewFaults + 1

(* Mutant: the status is written without a resource version.               *)
BlindWrite(o, rv, status) ==
    /\ api[o].spec # "gone"
    /\ api' = [api EXCEPT ![o] = [@ EXCEPT !.rv = IF @ = api[o].rv THEN @ + 1 ELSE @,
                                           !.status = status]]

(* An accepted Status().Update: the object still has the version that was  *)
(* read, and a write that changes nothing makes no new version.            *)
Written(o, rv, status) ==
    /\ api[o].spec # "gone" /\ api[o].rv = rv
    /\ api' = [api EXCEPT ![o] = IF @.status = status THEN @
                                 ELSE [@ EXCEPT !.rv = rv + 1, !.status = status]]

(* A refused one: a conflict, or the API server cannot be reached.         *)
Refused(o, rv) ==
    /\ \/ (api[o].spec = "gone" \/ api[o].rv # rv) /\ UNCHANGED crewFaults
       \/ CrewFault
    /\ UNCHANGED api

(* The update as its caller sees it: answered, or not (refused, or the     *)
(* answer was lost).                                                       *)
UpdateAnswered(k, status) ==
    Written(job[k].obj, job[k].rv, status) /\ UNCHANGED crewFaults
UpdateFailed(k, status) ==
    \/ Refused(job[k].obj, job[k].rv)
    \/ Written(job[k].obj, job[k].rv, status) /\ CrewFault

-----------------------------------------------------------------------------
(* Users.  A run is created once; objects are deleted and edited, and an   *)
(* edit may make a backend or crew unusable or usable again.               *)
CreateRun(r) ==
    /\ api[r].rv = 0
    /\ api' = [api EXCEPT ![r].spec = "good", ![r].rv = 1]
    /\ UNCHANGED <<cache, workQueue, job, hasRunner, executions, crewEdits, crewFaults>>

EditSpec(o, spec) ==
    /\ crewEdits < MaxCrewEdits /\ crewEdits' = crewEdits + 1
    /\ api[o].spec # "gone" /\ (o \notin CrewRuns => spec # api[o].spec)
    /\ (o \in CrewRuns => spec # "bad")
    /\ api' = [api EXCEPT ![o].spec = spec, ![o].rv = @ + 1]
    /\ UNCHANGED <<cache, workQueue, job, hasRunner, executions, crewFaults>>

(* The watch delivers an event: the cache catches up and the object is     *)
(* queued for its own controller, and for no other.                        *)
WatchEvent(o) ==
    /\ cache[o] # api[o]
    /\ cache' = [cache EXCEPT ![o] = api[o]]
    /\ workQueue' = workQueue \cup {o}
    /\ UNCHANGED <<api, job, hasRunner, executions, crewEdits, crewFaults>>

(* The process restarts: caches are listed anew and everything is queued.  *)
RestartController ==
    /\ CrewFault
    /\ cache' = api /\ workQueue' = {o \in CrewObjects : api[o].spec # "gone"}
    /\ job' = [k \in Controllers |-> NoJob]
    /\ hasRunner' = FALSE
    /\ UNCHANGED <<api, executions, crewEdits>>

(* A worker takes an object and reads it from the cache.                   *)
Take(k, o) ==
    /\ job[k] = NoJob /\ o \in workQueue /\ o \in Watched(k)
    /\ workQueue' = workQueue \ {o}
    /\ job' = [job EXCEPT ![k] = [pc |-> "got", obj |-> o, rv |-> cache[o].rv,
                                  spec |-> cache[o].spec,
                                  status |-> cache[o].status]]
    /\ UNCHANGED <<api, cache, hasRunner, executions, crewEdits, crewFaults>>

-----------------------------------------------------------------------------
(* buildModel, for one of the known providers and with its key.            *)
buildModel(spec) == spec = "good"

(* ModelBackendReconciler.Reconcile: build the model, record whether that  *)
(* worked.  The error of an update to not-ready is ignored, but the build  *)
(* error is returned.  Without its key (resolveAPIKey) nothing is written. *)
ReconcileBackend ==
    LET built == buildModel(job["backend"].spec)
        status == IF built THEN "ready" ELSE "notReady" IN
    /\ job["backend"].pc = "got"
    /\ \/ /\ job["backend"].spec = "gone"
          /\ Finish("backend") /\ UNCHANGED <<api, crewFaults>>
       \/ /\ job["backend"].spec # "gone"
          /\ \/ /\ UpdateAnswered("backend", status)
                /\ IF built THEN Finish("backend") ELSE Requeue("backend")
             \/ UpdateFailed("backend", status) /\ Requeue("backend")
             \/ CrewFault /\ Requeue("backend") /\ UNCHANGED api
    /\ UNCHANGED <<cache, hasRunner, executions, crewEdits>>

(* resolveModel: the backend is ready, and its model is built once more.   *)
ModelResolves == cache[Backend].status = "ready" /\ buildModel(cache[Backend].spec)

(* Mutant: a crew that stopped being ready takes its runner along and does *)
(* not come back to say so.                                                *)
ReconcileCrewDropsRunner ==
    /\ job["crew"].pc = "got"
    /\ \/ job["crew"].spec = "gone" /\ hasRunner' = FALSE /\ Finish("crew")
       \/ /\ job["crew"].spec = "good" /\ ModelResolves
          /\ hasRunner' = TRUE /\ GotoJob("crew", "built") /\ UNCHANGED workQueue
       \/ /\ job["crew"].spec = "bad" \/ (job["crew"].spec = "good" /\ ~ModelResolves)
          /\ hasRunner' = FALSE /\ Finish("crew")
    /\ UNCHANGED <<api, cache, executions, crewEdits, crewFaults>>

(* CrewReconciler.Reconcile, up to Runners.set: resolve the models through *)
(* the backend's cached status, build the agents and register the runner.  *)
(* A runner that cannot be rebuilt stays as it was; any error of Get takes *)
(* it away, also one that is returned and tried again.                     *)
ReconcileCrew ==
    /\ job["crew"].pc = "got"
    /\ \/ /\ job["crew"].spec = "gone" /\ hasRunner' = FALSE /\ Finish("crew")
          /\ UNCHANGED crewFaults
       \/ /\ job["crew"].spec = "good" /\ ModelResolves
          /\ hasRunner' = TRUE /\ GotoJob("crew", "built")
          /\ UNCHANGED <<workQueue, crewFaults>>
       \/ /\ job["crew"].spec = "bad" \/ (job["crew"].spec = "good" /\ ~ModelResolves)
          /\ GotoJob("crew", "broken") /\ UNCHANGED <<hasRunner, workQueue, crewFaults>>
       \/ CrewFault /\ hasRunner' = FALSE /\ Requeue("crew")
    /\ UNCHANGED <<api, cache, executions, crewEdits>>

CrewReady ==
    /\ job["crew"].pc = "built"
    /\ \/ UpdateAnswered("crew", "ready") /\ Finish("crew")
       \/ UpdateFailed("crew", "ready") /\ Requeue("crew")
    /\ UNCHANGED <<cache, hasRunner, executions, crewEdits>>

(* setNotReady: the update's own error is ignored, an error is returned.   *)
SetNotReady ==
    /\ job["crew"].pc = "broken"
    /\ UpdateAnswered("crew", "notReady") \/ UpdateFailed("crew", "notReady")
    /\ Requeue("crew")
    /\ UNCHANGED <<cache, hasRunner, executions, crewEdits>>

-----------------------------------------------------------------------------
(* CrewRunReconciler.Reconcile: a run that is over, or gone, is skipped.   *)
ReconcileRun ==
    /\ job["run"].pc = "got"
    /\ IF job["run"].spec = "gone" \/ job["run"].status \in Terminal
       THEN Finish("run")
       ELSE GotoJob("run", "mark") /\ UNCHANGED workQueue
    /\ UNCHANGED <<api, cache, hasRunner, executions, crewEdits, crewFaults>>

(* Mutant: the run is executed without being marked first.                 *)
SkipMark ==
    /\ job["run"].pc = "mark"
    /\ GotoJob("run", "resolve")
    /\ UNCHANGED <<api, cache, workQueue, hasRunner, executions, crewEdits, crewFaults>>

(* Mutant: the error of the update is logged and dropped.                  *)
MarkOrForget ==
    /\ job["run"].pc = "mark"
    /\ \/ /\ UpdateAnswered("run", "running")
          /\ job' = [job EXCEPT !["run"].pc = "resolve",
                                !["run"].rv = api'[job["run"].obj].rv]
          /\ UNCHANGED workQueue
       \/ UpdateFailed("run", "running") /\ Finish("run")
    /\ UNCHANGED <<cache, hasRunner, executions, crewEdits>>

(* Mark running; the copy then carries the version of that update.         *)
MarkRunning ==
    /\ job["run"].pc = "mark"
    /\ \/ /\ UpdateAnswered("run", "running")
          /\ job' = [job EXCEPT !["run"].pc = "resolve",
                                !["run"].rv = api'[job["run"].obj].rv]
          /\ UNCHANGED workQueue
       \/ UpdateFailed("run", "running") /\ Requeue("run")
    /\ UNCHANGED <<cache, hasRunner, executions, crewEdits>>

(* Runners.get, and the execution of the runner.                           *)
ExecuteRun ==
    /\ job["run"].pc = "resolve"
    /\ \/ /\ ~hasRunner
          /\ GotoJob("run", "failed") /\ UNCHANGED executions
       \/ /\ hasRunner
          /\ executions' = [executions EXCEPT ![job["run"].obj] = @ + 1]
          /\ GotoJob("run", "succeeded") \/ GotoJob("run", "failed")
    /\ UNCHANGED <<api, cache, workQueue, hasRunner, crewEdits, crewFaults>>

(* The outcome.  The error of an update to failed is ignored, but an error *)
(* is returned anyway.                                                     *)
RecordSucceeded ==
    /\ job["run"].pc = "succeeded"
    /\ \/ UpdateAnswered("run", "succeeded") /\ Finish("run")
       \/ UpdateFailed("run", "succeeded") /\ Requeue("run")
    /\ UNCHANGED <<cache, hasRunner, executions, crewEdits>>

RecordFailed ==
    /\ job["run"].pc = "failed"
    /\ UpdateAnswered("run", "failed") \/ UpdateFailed("run", "failed")
    /\ Requeue("run")
    /\ UNCHANGED <<cache, hasRunner, executions, crewEdits>>

-----------------------------------------------------------------------------
ShipCrewInitial ==
    /\ api = [o \in CrewObjects |->
                IF o \in CrewRuns THEN [rv |-> 0, spec |-> "gone", status |-> "new"]
                                  ELSE [rv |-> 1, spec |-> "good", status |-> "new"]]
    /\ cache = api
    /\ workQueue = {Backend, Crew}
    /\ job = [k \in Controllers |-> NoJob]
    /\ hasRunner = FALSE
    /\ executions = [r \in CrewRuns |-> 0]
    /\ crewEdits = 0 /\ crewFaults = 0

RunStep == ReconcileRun \/ MarkRunning \/ ExecuteRun \/ RecordSucceeded \/ RecordFailed
CrewStep == ReconcileCrew \/ CrewReady \/ SetNotReady

ShipCrewNext ==
    \/ \E r \in CrewRuns : CreateRun(r)
    \/ \E o \in CrewObjects :
          \/ \E spec \in {"good", "bad", "gone"} : EditSpec(o, spec)
          \/ WatchEvent(o)
          \/ \E k \in Controllers : Take(k, o)
    \/ ReconcileBackend \/ CrewStep \/ RunStep
    \/ RestartController

(* controller-runtime keeps its workers and watches going.                 *)
ShipCrewFairness ==
    /\ WF_shipCrewVars(RunStep)
    /\ \A o \in CrewRuns : /\ WF_shipCrewVars(WatchEvent(o))
                           /\ SF_shipCrewVars(Take("run", o))

ShipCrewSpec == ShipCrewInitial /\ [][ShipCrewNext]_shipCrewVars /\ ShipCrewFairness

-----------------------------------------------------------------------------
(* Types of the state.                                                     *)
ShipCrewTypeOK ==
    /\ \A o \in CrewObjects : /\ api[o].rv \in Nat /\ cache[o].rv \in 0 .. api[o].rv
                              /\ api[o].status \in CrewStatuses
                              /\ api[o].spec \in {"good", "bad", "gone"}
    /\ workQueue \subseteq CrewObjects
    /\ \A k \in Controllers : job[k] # NoJob => job[k].obj \in Watched(k)
    /\ hasRunner \in BOOLEAN
    /\ executions \in [CrewRuns -> Nat]

(* A run that has succeeded or failed stays that way, although reconcilers *)
(* act on cached copies that may be older (Status().Update with the        *)
(* resource version that was read).                                        *)
TerminalIsFinal ==
    [][\A r \in CrewRuns : api[r].status \in Terminal
                              => api'[r].status = api[r].status]_shipCrewVars

(* A run is executed once, and once more at most for each restart, update  *)
(* error or edit that got in its way: lagging caches and repeated watch    *)
(* events alone never execute it again (MarkRunning).                      *)
ExecutionsJustified ==
    \A r \in CrewRuns : executions[r] <= 1 + crewEdits + crewFaults

(* A crew that the API server shows as ready has a runner in this process, *)
(* or its reconciliation is still to come (runnerRegistry, after restarts  *)
(* and failed rebuilds).                                                   *)
ReadyHasRunner ==
    (api[Crew].spec # "gone" /\ api[Crew].status = "ready") =>
       \/ hasRunner
       \/ Crew \in workQueue
       \/ job["crew"].pc \in {"got", "broken"}

(* Every run that is created and not deleted succeeds or fails in the end, *)
(* through finitely many conflicts, errors and restarts.                   *)
RunsFinish ==
    \A r \in CrewRuns :
       (api[r].spec = "good") ~> (api[r].status \in Terminal \/ api[r].spec = "gone")
=============================================================================
