---------------------- MODULE ClusterControllersProofs ----------------------
(***************************************************************************)
(* Machine-checked proofs about ShipCrew and TpmSigners, for any number of *)
(* runs, requests, edits and faults.                                       *)
(***************************************************************************)
EXTENDS ShipCrew, TpmSigners, TLAPS

-----------------------------------------------------------------------------
(* ShipCrew.  Types of the objects, of their cached copies and of the jobs. *)
ApiObjects == [rv : Nat, spec : {"good", "bad", "gone"}, status : CrewStatuses]
JobPCs == {"idle", "got", "built", "broken", "mark", "resolve", "succeeded", "failed"}
Jobs == [pc : JobPCs, obj : CrewObjects, rv : Nat, spec : {"good", "bad", "gone"},
         status : CrewStatuses]

CrewTypes ==
    /\ api \in [CrewObjects -> ApiObjects]
    /\ cache \in [CrewObjects -> ApiObjects]
    /\ workQueue \in SUBSET CrewObjects
    /\ job \in [Controllers -> Jobs]
    /\ hasRunner \in BOOLEAN
    /\ executions \in [CrewRuns -> Nat]
    /\ crewEdits \in Nat /\ crewFaults \in Nat

(* A resource version stands for one value of its object: a cached copy,   *)
(* or that of a job, is older than the object or equal to it.  What was    *)
(* deleted stays deleted, but for a run that does not exist yet.           *)
CopyInv ==
    /\ \A o \in CrewObjects :
          /\ cache[o].rv <= api[o].rv
          /\ cache[o].rv = api[o].rv => cache[o] = api[o]
          /\ o \in CrewRuns /\ api[o].rv = 0 => api[o].spec = "gone"
    /\ cache[Crew].spec = "gone" => api[Crew].spec = "gone"

(* A job, by its position.  A run that is past MarkRunning holds the       *)
(* version under which it is running.                                      *)
JobOK(k) ==
    LET j == job[k] IN
    j.pc # "idle" =>
       /\ j.obj \in Watched(k) /\ j.rv <= api[j.obj].rv
       /\ j.rv = api[j.obj].rv /\ j.pc \in {"got", "mark"} => j.status = api[j.obj].status
       /\ j.rv = api[j.obj].rv /\ j.pc \in {"resolve", "succeeded", "failed"} =>
             api[j.obj].status = "running"
       /\ k = "run" => j.pc \in {"got", "mark", "resolve", "succeeded", "failed"}
       /\ k = "crew" => j.pc \in {"got", "built", "broken"}
       /\ k = "backend" => j.pc = "got"
       /\ j.pc = "mark" => j.status \notin Terminal
       /\ j.pc = "built" => hasRunner
       /\ k = "crew" /\ j.spec = "gone" => api[Crew].spec = "gone"

JobInv == \A k \in Controllers : JobOK(k)

(* What the executions of a run are counted against: every edit and every  *)
(* fault may cost one.  The count is exhausted only while the outcome can  *)
(* be written, or once it is.                                              *)
Budget == crewEdits + crewFaults
Current == LET j == job["run"] IN api[j.obj].rv = j.rv /\ api[j.obj].spec # "gone"
At(r, pcs) == job["run"].pc \in pcs /\ job["run"].obj = r

ExecutionInv ==
    \A r \in CrewRuns :
       /\ executions[r] <= 1 + Budget
       /\ At(r, {"resolve"}) => /\ executions[r] <= Budget
                                /\ executions[r] = Budget => Current
       /\ executions[r] = 1 + Budget =>
             \/ api[r].status \in Terminal
             \/ At(r, {"succeeded", "failed"}) /\ Current

CrewInv == CrewTypes /\ CopyInv /\ JobInv /\ ExecutionInv /\ ReadyHasRunner

-----------------------------------------------------------------------------
(* TpmSigners.  Types of the requests and of the pass.                     *)
Conditions == SUBSET (Decisions \cup {"Ready"})
Passes == [pc : {"sleep", "list", "next", "approve", "sign", "patch", "count"},
           spec : PolicySpecs, signed : Nat,
           seen : [Requests -> [conditions : Conditions, cert : Nat]],
           left : SUBSET Requests, cur : Requests \cup {IdlePass.cur}, serial : Nat]

SignerTypes ==
    /\ signer \in {"csr", "issuer"}
    /\ policy \in [spec : PolicySpecs, signed : Nat]
    /\ request \in [Requests -> [fits : BOOLEAN, ca : BOOLEAN, conditions : Conditions,
                                 cert : Nat]]
    /\ pass \in Passes
    /\ serials \in Nat

(* The only pass there is writes every certificate once: for the requests  *)
(* it has not come to, and for the one it works on until the patch, the    *)
(* list is right about the certificate.  A request that is being signed    *)
(* has none, and has the approval that the policy asks for.                *)
PassInv ==
    /\ \A r \in pass.left : pass.seen[r].cert = request[r].cert
    /\ pass.pc \in {"sleep", "list"} => pass.left = {}
    /\ pass.pc \in {"approve", "sign", "patch"} =>
          /\ pass.cur \in Requests \ pass.left
          /\ pass.seen[pass.cur].cert = request[pass.cur].cert
    /\ pass.pc \in {"sign", "patch"} =>
          /\ pass.seen[pass.cur].cert = 0
          /\ pass.spec.requireApproved => "Approved" \in Seen(pass.cur)

SignersInv == SignerTypes /\ PassInv

-----------------------------------------------------------------------------
(* Objects and jobs.                                                       *)
LEMMA CrewFacts ==
  /\ Crew \in CrewObjects /\ Backend \in CrewObjects /\ CrewRuns \subseteq CrewObjects
  /\ Crew \notin CrewRuns /\ Backend \notin CrewRuns /\ Backend # Crew
  /\ Watched("backend") = {Backend} /\ Watched("crew") = {Crew}
  /\ Watched("run") = CrewRuns
  /\ \A k \in Controllers : Watched(k) \subseteq CrewObjects
  /\ NoJob \in Jobs /\ NoJob.pc = "idle"
  <1>1. /\ Watched("backend") = {Backend} /\ Watched("crew") = {Crew}
        /\ Watched("run") = CrewRuns
    BY DEF Watched
  <1>2. NoJob \in Jobs /\ NoJob.pc = "idle"
    BY DEF NoJob, Jobs, JobPCs, CrewObjects, CrewStatuses
  <1> QED BY <1>1, <1>2, ShipCrewAssumption DEF CrewObjects, Controllers

(* What every step of the API server does: a version changes with every    *)
(* change, and only a run is ever created.                                 *)
ApiGrows ==
    /\ api' \in [CrewObjects -> ApiObjects]
    /\ \A o \in CrewObjects :
          /\ api[o].rv <= api'[o].rv
          /\ api'[o].rv = api[o].rv => api'[o] = api[o]
          /\ o \notin CrewRuns /\ api[o].spec = "gone" => api'[o].spec = "gone"

(* The types of one object and one job.                                    *)
LEMMA CrewElements ==
  ASSUME CrewInv
  PROVE  /\ \A o \in CrewObjects :
               /\ api[o] \in ApiObjects /\ api[o].rv \in Nat
               /\ api[o].spec \in {"good", "bad", "gone"} /\ api[o].status \in CrewStatuses
               /\ cache[o] \in ApiObjects /\ cache[o].rv \in Nat
         /\ \A k \in Controllers :
               /\ job[k] \in Jobs /\ job[k].rv \in Nat /\ job[k].obj \in CrewObjects
               /\ JobOK(k)
               /\ job[k].pc # "idle" => job[k].obj \in Watched(k)
         /\ \A r \in CrewRuns : executions[r] \in Nat
         /\ crewEdits \in Nat /\ crewFaults \in Nat /\ Budget \in Nat
         /\ UNCHANGED api => ApiGrows
  <1>1. \A o \in CrewObjects :
           /\ api[o] \in ApiObjects /\ api[o].rv \in Nat
           /\ api[o].spec \in {"good", "bad", "gone"} /\ api[o].status \in CrewStatuses
           /\ cache[o] \in ApiObjects /\ cache[o].rv \in Nat
    BY DEF CrewInv, CrewTypes, ApiObjects
  <1>2. \A k \in Controllers :
           job[k] \in Jobs /\ job[k].rv \in Nat /\ job[k].obj \in CrewObjects
    BY DEF CrewInv, CrewTypes, Jobs
  <1>3. \A k \in Controllers : JobOK(k)
    BY DEF CrewInv, JobInv
  <1>4. \A k \in Controllers : job[k].pc # "idle" => job[k].obj \in Watched(k)
    BY <1>3 DEF JobOK
  <1>5. UNCHANGED api => ApiGrows
    BY <1>1 DEF CrewInv, CrewTypes, ApiGrows
  <1> QED BY <1>1, <1>2, <1>3, <1>4, <1>5 DEF CrewInv, CrewTypes, Budget

(* The caches stay copies of older versions.                               *)
LEMMA CopyKept ==
  ASSUME CrewInv, ApiGrows, UNCHANGED cache
  PROVE  CopyInv'
  <1>1. ASSUME NEW o \in CrewObjects
        PROVE  /\ cache[o].rv <= api'[o].rv
               /\ cache[o].rv = api'[o].rv => cache[o] = api'[o]
               /\ o \in CrewRuns /\ api'[o].rv = 0 => api'[o].spec = "gone"
    <2>1. /\ cache[o].rv \in Nat /\ api[o].rv \in Nat /\ api'[o].rv \in Nat
          /\ cache[o].rv <= api[o].rv /\ api[o].rv <= api'[o].rv
          /\ cache[o].rv = api[o].rv => cache[o] = api[o]
          /\ o \in CrewRuns /\ api[o].rv = 0 => api[o].spec = "gone"
          /\ api'[o].rv = api[o].rv => api'[o] = api[o]
      BY CrewElements DEF CrewInv, CopyInv, ApiGrows, ApiObjects
    <2> QED BY <2>1
  <1>2. cache[Crew].spec = "gone" => api'[Crew].spec = "gone"
    BY CrewFacts DEF CrewInv, CopyInv, ApiGrows
  <1> QED BY <1>1, <1>2 DEF CopyInv

(* A job that is not touched stays as good as it was.                      *)
LEMMA JobKept ==
  ASSUME CrewInv, ApiGrows, NEW k \in Controllers, job'[k] = job[k],
         job[k].pc = "built" => hasRunner'
  PROVE  JobOK(k)'
  <1> DEFINE j == job[k]
  <1> SUFFICES ASSUME j.pc # "idle" PROVE JobOK(k)'
    BY DEF JobOK
  <1>1. /\ j.obj \in CrewObjects /\ j.rv \in Nat /\ j.obj \in Watched(k)
        /\ api[j.obj].rv \in Nat /\ api'[j.obj].rv \in Nat
        /\ j.rv <= api[j.obj].rv /\ api[j.obj].rv <= api'[j.obj].rv
        /\ api'[j.obj].rv = api[j.obj].rv => api'[j.obj] = api[j.obj]
    BY CrewElements DEF ApiGrows, ApiObjects, JobOK
  <1>2. j.rv <= api'[j.obj].rv
        /\ (j.rv = api'[j.obj].rv => j.rv = api[j.obj].rv /\ api'[j.obj] = api[j.obj])
    BY <1>1
  <1>3. api[Crew].spec = "gone" => api'[Crew].spec = "gone"
    BY CrewFacts DEF ApiGrows
  <1>4. JobOK(k)
    BY CrewElements
  <1> QED BY <1>1, <1>2, <1>3, <1>4 DEF JobOK

(* A finished job has nothing to keep.                                     *)
LEMMA NoJobOK ==
  ASSUME NEW k \in Controllers, job'[k] = NoJob
  PROVE  JobOK(k)'
  BY CrewFacts DEF JobOK

(* An object with a new status.                                            *)
LEMMA UpdatedObject ==
  ASSUME NEW a \in ApiObjects, NEW status \in CrewStatuses
  PROVE  LET b == [a EXCEPT !.rv = a.rv + 1, !.status = status]
         IN  b \in ApiObjects /\ b.rv = a.rv + 1 /\ b.status = status /\ b.spec = a.spec
  <1>1. a.rv \in Nat /\ a.rv + 1 \in Nat
    BY DEF ApiObjects
  <1> QED BY <1>1 DEF ApiObjects

(* What a status update does, answered or not.                             *)
LEMMA UpdateEffect ==
  ASSUME CrewInv, NEW k \in Controllers, job[k].pc # "idle", NEW status \in CrewStatuses,
         UpdateAnswered(k, status) \/ UpdateFailed(k, status)
  PROVE  /\ ApiGrows
         /\ \A o \in CrewObjects \ {job[k].obj} : api'[o] = api[o]
         /\ api'[job[k].obj].spec = api[job[k].obj].spec
         /\ \/ api'[job[k].obj] = api[job[k].obj]
            \/ /\ api[job[k].obj].rv = job[k].rv
               /\ api'[job[k].obj].status = status
         /\ crewFaults' \in {crewFaults, crewFaults + 1}
         /\ UpdateAnswered(k, status) =>
               /\ crewFaults' = crewFaults
               /\ api[job[k].obj].rv = job[k].rv /\ api[job[k].obj].spec # "gone"
               /\ api'[job[k].obj].status = status
         /\ UpdateFailed(k, status) =>
               \/ crewFaults' = crewFaults + 1
               \/ /\ crewFaults' = crewFaults /\ UNCHANGED api
                  /\ api[job[k].obj].spec = "gone" \/ api[job[k].obj].rv # job[k].rv
  <1> DEFINE o == job[k].obj
  <1>0. o \in CrewObjects /\ api[o] \in ApiObjects /\ api \in [CrewObjects -> ApiObjects]
    BY CrewElements DEF CrewInv, CrewTypes
  <1>1. CASE Written(o, job[k].rv, status)
    <2>1. /\ api[o].spec # "gone" /\ api[o].rv = job[k].rv
          /\ api' = [api EXCEPT ![o] = IF api[o].status = status THEN api[o]
                        ELSE [api[o] EXCEPT !.rv = job[k].rv + 1, !.status = status]]
      BY <1>1 DEF Written
    <2>2. CASE api[o].status = status
      <3>1. api' = api
        BY <1>0, <2>1, <2>2
      <3> QED BY <2>1, <2>2, <3>1, CrewElements
              DEF UpdateAnswered, UpdateFailed, Refused, CrewFault
    <2>3. CASE api[o].status # status
      <3>1. /\ api' = [api EXCEPT ![o] = [api[o] EXCEPT !.rv = api[o].rv + 1,
                                                        !.status = status]]
        BY <2>1, <2>3
      <3>2. /\ [api[o] EXCEPT !.rv = api[o].rv + 1, !.status = status] \in ApiObjects
            /\ [api[o] EXCEPT !.rv = api[o].rv + 1, !.status = status].rv = api[o].rv + 1
            /\ [api[o] EXCEPT !.rv = api[o].rv + 1, !.status = status].status = status
            /\ [api[o] EXCEPT !.rv = api[o].rv + 1, !.status = status].spec = api[o].spec
        BY <1>0, UpdatedObject
      <3>3. /\ api' \in [CrewObjects -> ApiObjects]
            /\ \A p \in CrewObjects \ {o} : api'[p] = api[p]
            /\ api'[o].rv = api[o].rv + 1 /\ api'[o].status = status
            /\ api'[o].spec = api[o].spec
        BY <1>0, <3>1, <3>2
      <3>4. ApiGrows
        BY <1>0, <3>3, CrewElements DEF ApiGrows
      <3>5. ~UNCHANGED api
        BY <1>0, <3>3, CrewElements
      <3> QED BY <1>0, <2>1, <3>3, <3>4, <3>5 DEF UpdateAnswered, UpdateFailed, Refused, CrewFault
    <2> QED BY <2>2, <2>3
  <1>2. CASE Refused(o, job[k].rv)
    BY <1>2, CrewElements DEF UpdateAnswered, UpdateFailed, Refused, CrewFault, Written
  <1> QED BY <1>1, <1>2 DEF UpdateAnswered, UpdateFailed

(* A fault or an edit pays for whatever it disturbs.                       *)
LEMMA SlackKept ==
  ASSUME CrewInv, Budget' = Budget + 1, UNCHANGED executions,
         job'["run"] = job["run"] \/ job'["run"].pc # "resolve"
  PROVE  ExecutionInv'
  <1> SUFFICES ASSUME NEW r \in CrewRuns
               PROVE  /\ executions[r] <= Budget' /\ executions[r] # 1 + Budget'
                      /\ At(r, {"resolve"})' => executions[r] < Budget'
    BY CrewElements DEF ExecutionInv
  <1>1. executions[r] <= 1 + Budget /\ executions[r] \in Nat /\ Budget \in Nat
    BY CrewElements DEF CrewInv, ExecutionInv
  <1>2. At(r, {"resolve"})' => At(r, {"resolve"})
    BY DEF At
  <1>3. At(r, {"resolve"}) => executions[r] <= Budget
    BY DEF CrewInv, ExecutionInv
  <1> QED BY <1>1, <1>2, <1>3

(* A step that does not concern the runs.                                  *)
LEMMA UntouchedRuns ==
  ASSUME CrewInv, Budget' = Budget, UNCHANGED executions, job'["run"] = job["run"],
         \A r \in CrewRuns : api'[r] = api[r]
  PROVE  ExecutionInv'
  BY DEF CrewInv, ExecutionInv, At, Current

(* A job that moves on, and one that is over.                              *)
LEMMA GotoJobEffect ==
  ASSUME CrewInv, NEW k \in Controllers, NEW pc \in JobPCs, GotoJob(k, pc)
  PROVE  /\ job' \in [Controllers -> Jobs]
         /\ job'[k].pc = pc /\ job'[k].obj = job[k].obj /\ job'[k].rv = job[k].rv
         /\ job'[k].spec = job[k].spec /\ job'[k].status = job[k].status
         /\ \A l \in Controllers \ {k} : job'[l] = job[l]
  <1>1. job' = [job EXCEPT ![k] = [job[k] EXCEPT !.pc = pc]] /\ job[k] \in Jobs
    BY CrewElements DEF GotoJob
  <1>2. LET j == [job[k] EXCEPT !.pc = pc]
        IN  /\ j \in Jobs /\ j.pc = pc /\ j.obj = job[k].obj /\ j.rv = job[k].rv
            /\ j.spec = job[k].spec /\ j.status = job[k].status
    BY <1>1 DEF Jobs
  <1> QED BY <1>1, <1>2 DEF CrewInv, CrewTypes

(* The same for a job that is over, put back or not.                       *)
LEMMA EndJobEffect ==
  ASSUME CrewInv, NEW k \in Controllers, Finish(k) \/ Requeue(k)
  PROVE  /\ job' \in [Controllers -> Jobs] /\ job'[k] = NoJob
         /\ \A l \in Controllers \ {k} : job'[l] = job[l]
         /\ workQueue' \in SUBSET CrewObjects /\ workQueue \subseteq workQueue'
         /\ Requeue(k) => job[k].obj \in workQueue'
  <1>1. job' = [job EXCEPT ![k] = NoJob] /\ NoJob \in Jobs
    BY CrewFacts DEF Finish, Requeue
  <1>2. job' \in [Controllers -> Jobs] /\ job'[k] = NoJob
        /\ \A l \in Controllers \ {k} : job'[l] = job[l]
    BY <1>1 DEF CrewInv, CrewTypes
  <1> QED BY <1>2, CrewElements DEF Finish, Requeue, CrewInv, CrewTypes

-----------------------------------------------------------------------------
(* A user creates a run: no job has seen it.                               *)
LEMMA CreateRunStep ==
  ASSUME CrewInv, NEW r \in CrewRuns, CreateRun(r)
  PROVE  CrewInv'
  <1>0. r \in CrewObjects /\ api[r].rv = 0 /\ api[r].spec = "gone" /\ r # Crew
        /\ UNCHANGED <<cache, workQueue, job, hasRunner, executions, crewEdits, crewFaults>>
    BY CrewFacts DEF CreateRun, CrewInv, CopyInv
  <1>1. /\ api' = [api EXCEPT ![r] = [api[r] EXCEPT !.spec = "good", !.rv = 1]]
        /\ api[r] \in ApiObjects /\ api \in [CrewObjects -> ApiObjects]
    BY <1>0, CrewElements DEF CreateRun, CrewInv, CrewTypes
  <1>2. LET b == [api[r] EXCEPT !.spec = "good", !.rv = 1]
        IN  b \in ApiObjects /\ b.rv = 1 /\ b.status = api[r].status
    BY <1>1 DEF ApiObjects
  <1>3. /\ api' \in [CrewObjects -> ApiObjects] /\ api'[r].rv = 1
        /\ api'[r].status = api[r].status
        /\ \A o \in CrewObjects \ {r} : api'[o] = api[o]
    BY <1>0, <1>1, <1>2
  <1>4. ApiGrows
    BY <1>0, <1>3, CrewElements DEF ApiGrows
  <1>5. CrewTypes' /\ CopyInv'
    BY <1>0, <1>3, <1>4, CopyKept DEF CrewInv, CrewTypes
  <1>6. JobInv'
    <2>1. \A k \in Controllers : job[k].pc = "built" => hasRunner
      BY CrewElements DEF JobOK
    <2> QED BY <1>0, <1>4, <2>1, JobKept DEF JobInv
  <1>7. ExecutionInv'
    <2> SUFFICES ASSUME NEW q \in CrewRuns
                 PROVE  /\ executions[q] <= 1 + Budget
                        /\ At(q, {"resolve"}) => /\ executions[q] <= Budget
                                                 /\ executions[q] = Budget => Current'
                        /\ executions[q] = 1 + Budget =>
                              \/ api'[q].status \in Terminal
                              \/ At(q, {"succeeded", "failed"}) /\ Current'
      BY <1>0 DEF ExecutionInv, Budget, At
    <2>1. q \in CrewObjects /\ (At(q, {"resolve"}) \/ At(q, {"succeeded", "failed"})
             => job["run"].obj = q)
      BY CrewFacts DEF At
    <2>2. Current /\ job["run"].obj = q => q # r /\ Current'
      BY <1>0, <1>3, <2>1 DEF Current
    <2>3. api'[q].status = api[q].status
      BY <1>3, <2>1
    <2> QED BY <2>1, <2>2, <2>3 DEF CrewInv, ExecutionInv
  <1>8. ReadyHasRunner'
    BY <1>0, <1>3, CrewFacts DEF CrewInv, ReadyHasRunner
  <1> QED BY <1>5, <1>6, <1>7, <1>8 DEF CrewInv

(* An object with a new spec.                                              *)
LEMMA EditedObject ==
  ASSUME NEW a \in ApiObjects, NEW spec \in {"good", "bad", "gone"}
  PROVE  LET b == [a EXCEPT !.spec = spec, !.rv = a.rv + 1]
         IN  b \in ApiObjects /\ b.rv = a.rv + 1 /\ b.status = a.status
  <1>1. a.rv \in Nat /\ a.rv + 1 \in Nat
    BY DEF ApiObjects
  <1> QED BY <1>1 DEF ApiObjects

(* A user edits or deletes an object.                                      *)
LEMMA EditSpecStep ==
  ASSUME CrewInv, NEW o \in CrewObjects, NEW spec \in {"good", "bad", "gone"},
         EditSpec(o, spec)
  PROVE  CrewInv'
  <1>0. /\ crewEdits' = crewEdits + 1 /\ api[o].spec # "gone"
        /\ UNCHANGED <<cache, workQueue, job, hasRunner, executions, crewFaults>>
    BY DEF EditSpec
  <1>1. /\ api' = [api EXCEPT ![o] = [api[o] EXCEPT !.spec = spec, !.rv = api[o].rv + 1]]
        /\ api[o] \in ApiObjects /\ api \in [CrewObjects -> ApiObjects]
        /\ api[o].rv \in Nat
    BY CrewElements DEF EditSpec, CrewInv, CrewTypes
  <1>2. LET b == [api[o] EXCEPT !.spec = spec, !.rv = api[o].rv + 1]
        IN  b \in ApiObjects /\ b.rv = api[o].rv + 1 /\ b.status = api[o].status
    BY <1>1, EditedObject
  <1>3. /\ api' \in [CrewObjects -> ApiObjects] /\ api'[o].rv = api[o].rv + 1
        /\ api'[o].status = api[o].status
        /\ \A p \in CrewObjects \ {o} : api'[p] = api[p]
    BY <1>1, <1>2
  <1>4. ApiGrows
    BY <1>0, <1>1, <1>3, CrewElements DEF ApiGrows
  <1>5. CrewTypes' /\ CopyInv'
    BY <1>0, <1>3, <1>4, CopyKept DEF CrewInv, CrewTypes
  <1>6. JobInv'
    <2>1. \A k \in Controllers : job[k].pc = "built" => hasRunner
      BY CrewElements DEF JobOK
    <2> QED BY <1>0, <1>4, <2>1, JobKept DEF JobInv
  <1>7. ExecutionInv'
    <2>1. Budget' = Budget + 1
      BY <1>0, CrewElements DEF Budget
    <2> QED BY <1>0, <2>1, SlackKept
  <1>8. ReadyHasRunner'
    BY <1>0, <1>3, CrewFacts DEF CrewInv, ReadyHasRunner
  <1> QED BY <1>5, <1>6, <1>7, <1>8 DEF CrewInv

(* The cache of an object catches up.                                      *)
LEMMA WatchEventStep ==
  ASSUME CrewInv, NEW o \in CrewObjects, WatchEvent(o)
  PROVE  CrewInv'
  <1>0. /\ cache' = [cache EXCEPT ![o] = api[o]] /\ workQueue' = workQueue \cup {o}
        /\ UNCHANGED <<api, job, hasRunner, executions, crewEdits, crewFaults>>
    BY DEF WatchEvent
  <1>1. CrewTypes'
    BY <1>0, CrewElements DEF CrewInv, CrewTypes
  <1>2. CopyInv'
    <2>1. \A p \in CrewObjects : cache'[p] = api[p] \/ cache'[p] = cache[p]
      BY <1>0 DEF CrewInv, CrewTypes
    <2> QED BY <1>0, <2>1, CrewFacts, CrewElements DEF CrewInv, CopyInv
  <1>3. JobInv'
    <2>1. \A k \in Controllers : job[k].pc = "built" => hasRunner
      BY CrewElements DEF JobOK
    <2> QED BY <1>0, <2>1, CrewElements, JobKept DEF JobInv
  <1>4. ExecutionInv'
    <2>1. Budget' = Budget
      BY <1>0 DEF Budget
    <2> QED BY <1>0, <2>1, UntouchedRuns
  <1>5. ReadyHasRunner'
    BY <1>0 DEF CrewInv, ReadyHasRunner
  <1> QED BY <1>1, <1>2, <1>3, <1>4, <1>5 DEF CrewInv

(* A worker takes an object with the cached copy.                          *)
LEMMA TakeStep ==
  ASSUME CrewInv, NEW k \in Controllers, NEW o \in CrewObjects, Take(k, o)
  PROVE  CrewInv'
  <1> DEFINE j == [pc |-> "got", obj |-> o, rv |-> cache[o].rv, spec |-> cache[o].spec,
                   status |-> cache[o].status]
  <1>0. /\ job[k] = NoJob /\ o \in Watched(k) /\ workQueue' = workQueue \ {o}
        /\ job' = [job EXCEPT ![k] = j]
        /\ UNCHANGED <<api, cache, hasRunner, executions, crewEdits, crewFaults>>
    BY DEF Take
  <1>1. j \in Jobs
    BY CrewElements DEF Jobs, JobPCs, ApiObjects
  <1>2. /\ job' \in [Controllers -> Jobs] /\ job'[k] = j
        /\ \A l \in Controllers \ {k} : job'[l] = job[l]
    BY <1>0, <1>1 DEF CrewInv, CrewTypes
  <1>3. CrewTypes' /\ CopyInv'
    BY <1>0, <1>2, CrewElements, CopyKept DEF CrewInv, CrewTypes
  <1>4. JobInv'
    <2>1. JobOK(k)'
      <3>1. /\ cache[o].rv <= api[o].rv /\ (cache[o].rv = api[o].rv => cache[o] = api[o])
            /\ (cache[Crew].spec = "gone" => api[Crew].spec = "gone")
        BY DEF CrewInv, CopyInv
      <3>2. k = "crew" => o = Crew
        BY <1>0, CrewFacts
      <3> QED BY <1>0, <1>2, <3>1, <3>2 DEF JobOK
    <2>2. \A l \in Controllers : job[l].pc = "built" => hasRunner
      BY CrewElements DEF JobOK
    <2> QED BY <1>0, <1>2, <2>1, <2>2, CrewElements, JobKept DEF JobInv
  <1>5. ExecutionInv'
    <2>1. Budget' = Budget /\ "run" \in Controllers
      BY <1>0 DEF Budget, Controllers
    <2>2. CASE k # "run"
      BY <1>0, <1>2, <2>1, <2>2, UntouchedRuns
    <2>3. CASE k = "run"
      <3>1. \A r \in CrewRuns : ~At(r, {"succeeded", "failed"})
        BY <1>0, <2>3, CrewFacts DEF At
      <3>2. \A r \in CrewRuns : ~At(r, {"resolve"})'
        BY <1>2, <2>3 DEF At
      <3> QED BY <1>0, <2>1, <3>1, <3>2 DEF CrewInv, ExecutionInv
    <2> QED BY <2>2, <2>3
  <1>6. ReadyHasRunner'
    <2>1. CASE k = "crew"
      BY <1>2, <2>1 DEF ReadyHasRunner
    <2>2. CASE k # "crew"
      <3>1. o # Crew /\ job'["crew"] = job["crew"]
        BY <1>0, <1>2, <2>2, CrewFacts DEF Controllers
      <3> QED BY <1>0, <3>1 DEF CrewInv, ReadyHasRunner
    <2> QED BY <2>1, <2>2
  <1> QED BY <1>3, <1>4, <1>5, <1>6 DEF CrewInv

(* The process restarts with fresh caches and everything queued.           *)
LEMMA RestartStep ==
  ASSUME CrewInv, RestartController
  PROVE  CrewInv'
  <1>0. /\ crewFaults' = crewFaults + 1 /\ cache' = api /\ hasRunner' = FALSE
        /\ workQueue' = {o \in CrewObjects : api[o].spec # "gone"}
        /\ job' = [k \in Controllers |-> NoJob]
        /\ UNCHANGED <<api, executions, crewEdits>>
    BY DEF RestartController, CrewFault
  <1>1. CrewTypes'
    <2>1. job' \in [Controllers -> Jobs]
      BY <1>0, CrewFacts
    <2>2. crewFaults' \in Nat
      BY <1>0, CrewElements
    <2>3. hasRunner' \in BOOLEAN
      BY <1>0
    <2> QED BY <1>0, <2>1, <2>2, <2>3 DEF CrewInv, CrewTypes
  <1>2. CopyInv'
    BY <1>0, CrewElements DEF CrewInv, CopyInv
  <1>3. JobInv'
    BY <1>0, NoJobOK DEF JobInv
  <1>4. ExecutionInv'
    <2>1. Budget' = Budget + 1 /\ job'["run"].pc # "resolve"
      BY <1>0, CrewElements, CrewFacts DEF Budget, Controllers
    <2> QED BY <1>0, <2>1, SlackKept
  <1>5. ReadyHasRunner'
    BY <1>0, CrewFacts DEF ReadyHasRunner
  <1> QED BY <1>1, <1>2, <1>3, <1>4, <1>5 DEF CrewInv

(* The last update of a reconciliation, whose job is then over: all but    *)
(* the last conjunct, where the three controllers differ.                  *)
LEMMA LastUpdate ==
  ASSUME CrewInv, NEW k \in Controllers, job[k].pc # "idle", NEW status \in CrewStatuses,
         UpdateAnswered(k, status) \/ UpdateFailed(k, status),
         Finish(k) \/ Requeue(k),
         UNCHANGED <<cache, hasRunner, executions, crewEdits>>
  PROVE  /\ CrewTypes' /\ CopyInv' /\ JobInv'
         /\ k # "run" => ExecutionInv' /\ \A r \in CrewRuns : api'[r] = api[r]
  <1>1. /\ ApiGrows /\ crewFaults' \in {crewFaults, crewFaults + 1}
        /\ \A o \in CrewObjects \ {job[k].obj} : api'[o] = api[o]
    BY UpdateEffect
  <1>2. /\ job' \in [Controllers -> Jobs] /\ job'[k] = NoJob
        /\ \A l \in Controllers \ {k} : job'[l] = job[l]
        /\ workQueue' \in SUBSET CrewObjects
    BY EndJobEffect
  <1>3. CrewTypes'
    <2>1. crewFaults' \in Nat
      BY <1>1, CrewElements
    <2> QED BY <1>1, <1>2, <2>1 DEF CrewInv, CrewTypes, ApiGrows
  <1>4. CopyInv'
    BY <1>1, CopyKept
  <1>5. JobInv'
    <2>1. \A l \in Controllers : job[l].pc = "built" => hasRunner
      BY CrewElements DEF JobOK
    <2> QED BY <1>1, <1>2, <2>1, JobKept, NoJobOK DEF JobInv
  <1>6. ASSUME k # "run" PROVE ExecutionInv' /\ \A r \in CrewRuns : api'[r] = api[r]
    <2>1. job[k].obj \notin CrewRuns
      BY <1>6, CrewElements, CrewFacts DEF Controllers
    <2>2. /\ \A r \in CrewRuns : api'[r] = api[r]
          /\ job'["run"] = job["run"]
      BY <1>1, <1>2, <1>6, <2>1, CrewFacts DEF Controllers
    <2>3. Budget' = Budget \/ Budget' = Budget + 1
      BY <1>1, CrewElements DEF Budget
    <2> QED BY <2>2, <2>3, SlackKept, UntouchedRuns
  <1> QED BY <1>3, <1>4, <1>5, <1>6

(* Strings that are statuses and positions.                                *)
LEMMA CrewStrings ==
  /\ {"ready", "notReady", "running", "succeeded", "failed"} \subseteq CrewStatuses
  /\ Terminal = {"succeeded", "failed"}
  /\ {"backend", "crew", "run"} = Controllers
  BY DEF CrewStatuses, Terminal, Controllers

(* A step that moves the job k on and leaves the API server alone.         *)
LEMMA MovedJob ==
  ASSUME CrewInv, NEW k \in Controllers, NEW pc \in JobPCs, GotoJob(k, pc), JobOK(k)',
         hasRunner' \in BOOLEAN, hasRunner => hasRunner',
         UNCHANGED <<api, cache, workQueue, executions, crewEdits, crewFaults>>
  PROVE  CrewTypes' /\ CopyInv' /\ JobInv' /\ (k # "run" => ExecutionInv')
  <1>1. /\ job' \in [Controllers -> Jobs]
        /\ \A l \in Controllers \ {k} : job'[l] = job[l]
    BY GotoJobEffect
  <1>2. CrewTypes'
    BY <1>1 DEF CrewInv, CrewTypes
  <1>3. CopyInv'
    BY CrewElements, CopyKept
  <1>4. JobInv'
    <2>1. \A l \in Controllers : job[l].pc = "built" => hasRunner
      BY CrewElements DEF JobOK
    <2> QED BY <1>1, <2>1, CrewElements, JobKept DEF JobInv
  <1>5. ASSUME k # "run" PROVE ExecutionInv'
    <2>1. Budget' = Budget /\ job'["run"] = job["run"]
      BY <1>1, <1>5, CrewStrings DEF Budget
    <2> QED BY <2>1, UntouchedRuns
  <1> QED BY <1>2, <1>3, <1>4, <1>5

(* A job that is over without an update.                                   *)
LEMMA EndedJob ==
  ASSUME CrewInv, NEW k \in Controllers, Finish(k) \/ Requeue(k),
         hasRunner' \in BOOLEAN, k # "crew" => UNCHANGED hasRunner,
         crewFaults' \in {crewFaults, crewFaults + 1},
         UNCHANGED <<api, cache, executions, crewEdits>>
  PROVE  CrewTypes' /\ CopyInv' /\ JobInv' /\ (k # "run" => ExecutionInv')
  <1>1. /\ job' \in [Controllers -> Jobs] /\ job'[k] = NoJob
        /\ \A l \in Controllers \ {k} : job'[l] = job[l]
        /\ workQueue' \in SUBSET CrewObjects
    BY EndJobEffect
  <1>2. CrewTypes'
    <2>1. crewFaults' \in Nat
      BY CrewElements
    <2> QED BY <1>1, <2>1 DEF CrewInv, CrewTypes
  <1>3. CopyInv'
    BY CrewElements, CopyKept
  <1>4. JobInv'
    <2>1. \A l \in Controllers : job[l].pc = "built" => hasRunner /\ l = "crew"
      BY CrewElements, CrewStrings DEF JobOK
    <2>2. \A l \in Controllers \ {k} : job[l].pc = "built" => hasRunner'
      BY <2>1
    <2> QED BY <1>1, <2>2, CrewElements, JobKept, NoJobOK DEF JobInv
  <1>5. ASSUME k # "run" PROVE ExecutionInv'
    <2>1. job'["run"] = job["run"]
      BY <1>1, <1>5, CrewStrings
    <2>2. Budget' = Budget \/ Budget' = Budget + 1
      BY CrewElements DEF Budget
    <2> QED BY <2>1, <2>2, SlackKept, UntouchedRuns
  <1> QED BY <1>2, <1>3, <1>4, <1>5

(* The backend's controller.                                               *)
LEMMA BackendStep ==
  ASSUME CrewInv, ReconcileBackend
  PROVE  CrewInv'
  <1> DEFINE status == IF buildModel(job["backend"].spec) THEN "ready" ELSE "notReady"
  <1>0. /\ job["backend"].pc = "got" /\ "backend" \in Controllers
        /\ UNCHANGED <<cache, hasRunner, executions, crewEdits>>
        /\ status \in CrewStatuses /\ job["backend"].obj = Backend
    BY CrewStrings, CrewElements, CrewFacts DEF ReconcileBackend
  <1>1. Finish("backend") \/ Requeue("backend")
    BY DEF ReconcileBackend
  <1>2. /\ workQueue \subseteq workQueue' /\ job'["crew"] = job["crew"]
    BY <1>0, <1>1, EndJobEffect, CrewStrings
  <1>3. CASE UNCHANGED api /\ (UNCHANGED crewFaults \/ CrewFault)
    <2>1. CrewTypes' /\ CopyInv' /\ JobInv' /\ ExecutionInv'
      BY <1>0, <1>1, <1>3, EndedJob DEF CrewInv, CrewTypes, CrewFault
    <2>2. ReadyHasRunner'
      BY <1>0, <1>2, <1>3 DEF CrewInv, ReadyHasRunner
    <2> QED BY <2>1, <2>2 DEF CrewInv
  <1>4. CASE UpdateAnswered("backend", status) \/ UpdateFailed("backend", status)
    <2>1. CrewTypes' /\ CopyInv' /\ JobInv' /\ ExecutionInv'
      BY <1>0, <1>1, <1>4, LastUpdate
    <2>2. api'[Crew] = api[Crew]
      BY <1>0, <1>4, UpdateEffect, CrewFacts
    <2>3. ReadyHasRunner'
      BY <1>0, <1>2, <2>2 DEF CrewInv, ReadyHasRunner
    <2> QED BY <2>1, <2>3 DEF CrewInv
  <1> QED BY <1>3, <1>4 DEF ReconcileBackend

(* The crew's controller: a registered runner goes only with the crew.     *)
LEMMA CrewControllerStep ==
  ASSUME CrewInv, CrewStep
  PROVE  CrewInv'
  <1>0. /\ "crew" \in Controllers /\ hasRunner \in BOOLEAN
        /\ "built" \in JobPCs /\ "broken" \in JobPCs
        /\ "ready" \in CrewStatuses /\ "notReady" \in CrewStatuses
    BY CrewStrings DEF CrewInv, CrewTypes, JobPCs
  <1>1. job["crew"].pc # "idle" => job["crew"].obj = Crew
    BY <1>0, CrewElements, CrewFacts
  <1>2. CASE ReconcileCrew
    <2>0. /\ job["crew"].pc = "got"
          /\ UNCHANGED <<api, cache, executions, crewEdits>>
      BY <1>2 DEF ReconcileCrew
    <2>1. CASE /\ job["crew"].spec = "gone" /\ hasRunner' = FALSE /\ Finish("crew")
               /\ UNCHANGED crewFaults
      <3>0. hasRunner' \in BOOLEAN
        BY <2>1
      <3>1. CrewTypes' /\ CopyInv' /\ JobInv' /\ ExecutionInv'
        BY <1>0, <2>0, <2>1, <3>0, EndedJob
      <3>2. api[Crew].spec = "gone"
        BY <1>0, <2>0, <2>1, CrewElements DEF JobOK
      <3> QED BY <2>0, <3>1, <3>2 DEF CrewInv, ReadyHasRunner
    <2>2. CASE /\ hasRunner' = TRUE /\ GotoJob("crew", "built")
               /\ job["crew"].spec # "gone" /\ UNCHANGED <<workQueue, crewFaults>>
      <3>1. JobOK("crew")'
        BY <1>0, <2>0, <2>2, CrewElements, GotoJobEffect DEF JobOK
      <3>0. hasRunner' \in BOOLEAN
        BY <2>2
      <3>2. CrewTypes' /\ CopyInv' /\ JobInv' /\ ExecutionInv'
        BY <1>0, <2>0, <2>2, <3>0, <3>1, MovedJob
      <3> QED BY <2>2, <3>2 DEF CrewInv, ReadyHasRunner
    <2>3. CASE /\ GotoJob("crew", "broken") /\ job["crew"].spec # "gone"
               /\ UNCHANGED <<hasRunner, workQueue, crewFaults>>
      <3>1. JobOK("crew")' /\ job'["crew"].pc = "broken"
        BY <1>0, <2>0, <2>3, CrewElements, GotoJobEffect DEF JobOK
      <3>2. CrewTypes' /\ CopyInv' /\ JobInv' /\ ExecutionInv'
        BY <1>0, <2>0, <2>3, <3>1, MovedJob
      <3> QED BY <3>1, <3>2 DEF CrewInv, ReadyHasRunner
    <2>4. CASE CrewFault /\ hasRunner' = FALSE /\ Requeue("crew")
      <3>1. CrewTypes' /\ CopyInv' /\ JobInv' /\ ExecutionInv'
        BY <1>0, <2>0, <2>4, EndedJob, CrewStrings DEF CrewFault
      <3>2. Crew \in workQueue'
        BY <1>0, <1>1, <2>0, <2>4, EndJobEffect
      <3> QED BY <3>1, <3>2 DEF CrewInv, ReadyHasRunner
    <2> QED BY <1>2, <2>1, <2>2, <2>3, <2>4 DEF ReconcileCrew
  <1>3. CASE CrewReady
    <2>0. /\ job["crew"].pc = "built" /\ hasRunner
          /\ UpdateAnswered("crew", "ready") \/ UpdateFailed("crew", "ready")
          /\ Finish("crew") \/ Requeue("crew")
          /\ UNCHANGED <<cache, hasRunner, executions, crewEdits>>
      BY <1>0, <1>3, CrewElements DEF CrewReady, JobOK
    <2>1. CrewTypes' /\ CopyInv' /\ JobInv' /\ ExecutionInv'
      BY <1>0, <2>0, LastUpdate
    <2> QED BY <2>0, <2>1 DEF CrewInv, ReadyHasRunner
  <1>4. CASE SetNotReady
    <2>0. /\ job["crew"].pc = "broken"
          /\ UpdateAnswered("crew", "notReady") \/ UpdateFailed("crew", "notReady")
          /\ Requeue("crew")
          /\ UNCHANGED <<cache, hasRunner, executions, crewEdits>>
      BY <1>4 DEF SetNotReady
    <2>1. CrewTypes' /\ CopyInv' /\ JobInv' /\ ExecutionInv'
      BY <1>0, <2>0, LastUpdate
    <2>2. Crew \in workQueue'
      BY <1>0, <1>1, <2>0, EndJobEffect
    <2> QED BY <2>1, <2>2 DEF CrewInv, ReadyHasRunner
  <1> QED BY <1>2, <1>3, <1>4 DEF CrewStep

-----------------------------------------------------------------------------
(* The runs' controller leaves the crew alone.                             *)
LEMMA CrewUntouched ==
  ASSUME CrewInv, api'[Crew] = api[Crew], hasRunner' = hasRunner,
         job'["crew"] = job["crew"], workQueue \subseteq workQueue'
  PROVE  ReadyHasRunner'
  BY DEF CrewInv, ReadyHasRunner

(* An update of the run that is being reconciled.                          *)
LEMMA RunUpdate ==
  ASSUME CrewInv, job["run"].pc # "idle", NEW status \in CrewStatuses,
         UpdateAnswered("run", status) \/ UpdateFailed("run", status)
  PROVE  /\ job["run"].obj \in CrewRuns /\ api'[Crew] = api[Crew]
         /\ \A r \in CrewRuns \ {job["run"].obj} : api'[r] = api[r]
  BY UpdateEffect, CrewElements, CrewFacts, CrewStrings

(* A refused or unanswered update of the run, which is then put back.      *)
LEMMA RunRequeued ==
  ASSUME CrewInv, job["run"].pc \in {"mark", "succeeded", "failed"},
         NEW status \in CrewStatuses, UpdateFailed("run", status), Requeue("run"),
         UNCHANGED <<cache, hasRunner, executions, crewEdits>>
  PROVE  CrewInv'
  <1>1. CrewTypes' /\ CopyInv' /\ JobInv' /\ "run" \in Controllers
    BY LastUpdate, CrewStrings
  <1>2. /\ job'["run"] = NoJob /\ job'["crew"] = job["crew"] /\ workQueue \subseteq workQueue'
    BY EndJobEffect, CrewStrings
  <1>3. ReadyHasRunner'
    BY <1>2, RunUpdate, CrewUntouched
  <1>4. ExecutionInv'
    <2>1. CASE crewFaults' = crewFaults + 1
      <3>1. Budget' = Budget + 1
        BY <2>1, CrewElements DEF Budget
      <3>2. job'["run"].pc # "resolve"
        BY <1>2, CrewFacts
      <3> QED BY <3>1, <3>2, SlackKept
    <2>2. CASE /\ crewFaults' = crewFaults /\ UNCHANGED api
               /\ \/ api[job["run"].obj].spec = "gone"
                  \/ api[job["run"].obj].rv # job["run"].rv
      <3>1. Budget' = Budget /\ ~Current
        BY <2>2 DEF Budget, Current
      <3>2. \A r \in CrewRuns : ~At(r, {"resolve"})'
        BY <1>2, CrewFacts DEF At
      <3> QED BY <2>2, <3>1, <3>2 DEF CrewInv, ExecutionInv
    <2> QED BY <1>1, <2>1, <2>2, UpdateEffect
  <1> QED BY <1>1, <1>3, <1>4 DEF CrewInv

(* The outcome is written: the run is over.                                *)
LEMMA RunRecorded ==
  ASSUME CrewInv, job["run"].pc \in {"succeeded", "failed"}, NEW status \in Terminal,
         UpdateAnswered("run", status), Finish("run") \/ Requeue("run"),
         UNCHANGED <<cache, hasRunner, executions, crewEdits>>
  PROVE  CrewInv'
  <1>0. "run" \in Controllers /\ status \in CrewStatuses
    BY CrewStrings
  <1>1. CrewTypes' /\ CopyInv' /\ JobInv'
    BY <1>0, LastUpdate
  <1>2. /\ job'["run"] = NoJob /\ job'["crew"] = job["crew"] /\ workQueue \subseteq workQueue'
    BY EndJobEffect, CrewStrings
  <1>3. ReadyHasRunner'
    BY <1>0, <1>2, RunUpdate, CrewUntouched
  <1>4. ExecutionInv'
    <2>1. /\ crewFaults' = crewFaults /\ api'[job["run"].obj].status = status
          /\ \A r \in CrewRuns \ {job["run"].obj} : api'[r] = api[r]
      BY <1>0, UpdateEffect, RunUpdate
    <2>2. \A r \in CrewRuns : ~At(r, {"resolve"})'
      BY <1>2, CrewFacts DEF At
    <2>3. \A r \in CrewRuns : executions[r] = 1 + Budget => api'[r].status \in Terminal
      BY <2>1 DEF CrewInv, ExecutionInv, At
    <2>4. Budget' = Budget
      BY <2>1 DEF Budget
    <2> QED BY <2>2, <2>3, <2>4 DEF CrewInv, ExecutionInv
  <1> QED BY <1>1, <1>3, <1>4 DEF CrewInv

(* The run is marked: it was not over, so it has not used up its count.    *)
LEMMA RunMarked ==
  ASSUME CrewInv, job["run"].pc = "mark", UpdateAnswered("run", "running"),
         job' = [job EXCEPT !["run"].pc = "resolve",
                            !["run"].rv = api'[job["run"].obj].rv],
         UNCHANGED <<cache, workQueue, hasRunner, executions, crewEdits>>
  PROVE  CrewInv'
  <1> DEFINE o == job["run"].obj
  <1>0. "run" \in Controllers /\ "crew" \in Controllers /\ "running" \in CrewStatuses
        /\ "resolve" \in JobPCs
    BY CrewStrings DEF JobPCs
  <1>1. /\ ApiGrows /\ crewFaults' = crewFaults /\ api[o].rv = job["run"].rv
        /\ api[o].spec # "gone" /\ api'[o].status = "running" /\ api'[o].spec = api[o].spec
        /\ o \in CrewRuns /\ o \in CrewObjects /\ api'[Crew] = api[Crew]
        /\ \A r \in CrewRuns \ {o} : api'[r] = api[r]
    BY <1>0, UpdateEffect, RunUpdate, CrewFacts
  <1>2. /\ api'[o].rv \in Nat /\ job["run"] \in Jobs
    BY <1>0, <1>1, CrewElements DEF ApiGrows, ApiObjects
  <1>3. /\ job' \in [Controllers -> Jobs] /\ job'["run"].pc = "resolve"
        /\ job'["run"].obj = o /\ job'["run"].rv = api'[o].rv
        /\ \A l \in Controllers \ {"run"} : job'[l] = job[l]
    <2>1. job' = [job EXCEPT !["run"] = [job["run"] EXCEPT !.pc = "resolve",
                                                           !.rv = api'[o].rv]]
      BY <1>0, <1>2 DEF CrewInv, CrewTypes, Jobs
    <2>2. ASSUME NEW n \in Nat, NEW j \in Jobs
          PROVE  /\ [j EXCEPT !.pc = "resolve", !.rv = n] \in Jobs
                 /\ [j EXCEPT !.pc = "resolve", !.rv = n].pc = "resolve"
                 /\ [j EXCEPT !.pc = "resolve", !.rv = n].obj = j.obj
                 /\ [j EXCEPT !.pc = "resolve", !.rv = n].rv = n
      BY <1>0, <2>2 DEF Jobs
    <2> HIDE DEF o
    <2>3. LET b == [job["run"] EXCEPT !.pc = "resolve", !.rv = api'[o].rv]
          IN  b \in Jobs /\ b.pc = "resolve" /\ b.obj = job["run"].obj /\ b.rv = api'[o].rv
      BY <1>2, <2>2
    <2> QED BY <1>0, <2>1, <2>3 DEF CrewInv, CrewTypes, o
  <1>4. CrewTypes' /\ CopyInv'
    BY <1>1, <1>3, CopyKept DEF CrewInv, CrewTypes, ApiGrows
  <1>5. JobInv'
    <2>1. JobOK("run")'
      BY <1>0, <1>1, <1>2, <1>3, CrewFacts DEF JobOK
    <2>2. \A l \in Controllers : job[l].pc = "built" => hasRunner
      BY CrewElements DEF JobOK
    <2> QED BY <1>1, <1>3, <2>1, <2>2, JobKept DEF JobInv
  <1>6. ExecutionInv'
    <2>1. api[o].status \notin Terminal
      BY <1>0, <1>1, CrewElements DEF JobOK
    <2>2. \A r \in CrewRuns : ~At(r, {"succeeded", "failed"})
      BY DEF At
    <2>3. executions[o] <= Budget
      BY <1>1, <2>1, <2>2, CrewElements DEF CrewInv, ExecutionInv
    <2>4. Current' /\ Budget' = Budget
      BY <1>1, <1>3 DEF Current, Budget
    <2>5. ASSUME NEW r \in CrewRuns
          PROVE  /\ executions[r] <= 1 + Budget
                 /\ At(r, {"resolve"})' => executions[r] <= Budget
                 /\ executions[r] = 1 + Budget => api'[r].status \in Terminal
      <3>1. CASE r = o
        BY <2>3, <3>1, CrewElements
      <3>2. CASE r # o
        BY <1>1, <1>3, <2>2, <3>2 DEF CrewInv, ExecutionInv, At
      <3> QED BY <3>1, <3>2
    <2> QED BY <2>4, <2>5 DEF ExecutionInv
  <1>7. ReadyHasRunner'
    BY <1>0, <1>1, <1>3, CrewUntouched
  <1> QED BY <1>4, <1>5, <1>6, <1>7 DEF CrewInv

(* The runner is executed, or there is none.                               *)
LEMMA ExecuteStep ==
  ASSUME CrewInv, ExecuteRun
  PROVE  CrewInv'
  <1> DEFINE o == job["run"].obj
  <1>0. /\ job["run"].pc = "resolve" /\ "run" \in Controllers /\ o \in CrewRuns
        /\ {"succeeded", "failed"} \subseteq JobPCs /\ executions \in [CrewRuns -> Nat]
        /\ UNCHANGED <<api, cache, workQueue, hasRunner, crewEdits, crewFaults>>
    BY CrewStrings, CrewElements, CrewFacts DEF ExecuteRun, JobPCs, CrewInv, CrewTypes
  <1>1. PICK pc \in {"succeeded", "failed"} : GotoJob("run", pc)
    BY DEF ExecuteRun
  <1>2. /\ job' \in [Controllers -> Jobs] /\ job'["run"].pc = pc
        /\ job'["run"].obj = o /\ job'["run"].rv = job["run"].rv
        /\ \A l \in Controllers \ {"run"} : job'[l] = job[l]
    BY <1>0, <1>1, GotoJobEffect
  <1>3. executions' \in {executions, [executions EXCEPT ![o] = @ + 1]}
    BY DEF ExecuteRun
  <1>4. /\ executions' \in [CrewRuns -> Nat]
        /\ executions'[o] \in {executions[o], executions[o] + 1}
        /\ \A r \in CrewRuns \ {o} : executions'[r] = executions[r]
    BY <1>0, <1>3
  <1>5. CrewTypes' /\ CopyInv'
    BY <1>0, <1>2, <1>4, CrewElements, CopyKept DEF CrewInv, CrewTypes
  <1>6. JobInv'
    <2>1. JobOK("run")'
      BY <1>0, <1>1, <1>2, CrewElements DEF JobOK
    <2>2. \A l \in Controllers : job[l].pc = "built" => hasRunner
      BY CrewElements DEF JobOK
    <2> QED BY <1>0, <1>2, <2>1, <2>2, CrewElements, JobKept DEF JobInv
  <1>7. ExecutionInv'
    <2>1. Budget' = Budget /\ Current' = Current
      BY <1>0, <1>2 DEF Budget, Current
    <2>2. \A r \in CrewRuns : ~At(r, {"resolve"})' /\ (At(r, {"succeeded", "failed"})' <=> r = o)
      BY <1>1, <1>2 DEF At
    <2>3. executions[o] <= Budget /\ (executions[o] = Budget => Current)
      BY <1>0 DEF CrewInv, ExecutionInv, At
    <2>4. ASSUME NEW r \in CrewRuns
          PROVE  /\ executions'[r] <= 1 + Budget
                 /\ executions'[r] = 1 + Budget =>
                       api[r].status \in Terminal \/ (r = o /\ Current)
      <3>1. CASE r = o
        BY <1>0, <1>4, <2>3, <3>1, CrewElements
      <3>2. CASE r # o
        BY <1>4, <3>2 DEF CrewInv, ExecutionInv, At
      <3> QED BY <3>1, <3>2
    <2> QED BY <1>0, <2>1, <2>2, <2>4 DEF ExecutionInv
  <1>8. ReadyHasRunner'
    BY <1>0, <1>2, CrewStrings, CrewUntouched
  <1> QED BY <1>5, <1>6, <1>7, <1>8 DEF CrewInv

(* The runs' controller looks at the copy of the run.                      *)
LEMMA ReconcileRunStep ==
  ASSUME CrewInv, ReconcileRun
  PROVE  CrewInv'
  <1>0. /\ job["run"].pc = "got" /\ "run" \in Controllers /\ "mark" \in JobPCs
        /\ hasRunner \in BOOLEAN
        /\ UNCHANGED <<api, cache, hasRunner, executions, crewEdits, crewFaults>>
    BY CrewStrings DEF ReconcileRun, JobPCs, CrewInv, CrewTypes
  <1>1. \A r \in CrewRuns : ~At(r, {"succeeded", "failed"})
    BY <1>0 DEF At
  <1>2. CASE Finish("run")
    <2>1. CrewTypes' /\ CopyInv' /\ JobInv'
      BY <1>0, <1>2, EndedJob
    <2>2. job'["run"] = NoJob /\ job'["crew"] = job["crew"] /\ workQueue \subseteq workQueue'
      BY <1>0, <1>2, EndJobEffect, CrewStrings
    <2>3. \A r \in CrewRuns : ~At(r, {"resolve"})'
      BY <2>2, CrewFacts DEF At
    <2>4. ExecutionInv'
      BY <1>0, <1>1, <2>3 DEF CrewInv, ExecutionInv, Budget
    <2>5. ReadyHasRunner'
      BY <1>0, <2>2, CrewUntouched
    <2> QED BY <2>1, <2>4, <2>5 DEF CrewInv
  <1>3. CASE /\ GotoJob("run", "mark") /\ UNCHANGED workQueue
             /\ job["run"].status \notin Terminal
    <2>1. /\ job'["run"].pc = "mark" /\ job'["crew"] = job["crew"] /\ JobOK("run")'
      BY <1>0, <1>3, GotoJobEffect, CrewElements, CrewStrings DEF JobOK
    <2>2. CrewTypes' /\ CopyInv' /\ JobInv'
      BY <1>0, <1>3, <2>1, MovedJob
    <2>3. \A r \in CrewRuns : ~At(r, {"resolve"})'
      BY <2>1 DEF At
    <2>4. ExecutionInv'
      BY <1>0, <1>1, <2>3 DEF CrewInv, ExecutionInv, Budget
    <2>5. ReadyHasRunner'
      BY <1>0, <1>3, <2>1, CrewUntouched
    <2> QED BY <2>2, <2>4, <2>5 DEF CrewInv
  <1> QED BY <1>2, <1>3 DEF ReconcileRun

(* The runs' controller.                                                   *)
LEMMA RunControllerStep ==
  ASSUME CrewInv, RunStep
  PROVE  CrewInv'
  <1>1. CASE MarkRunning
    BY <1>1, RunMarked, RunRequeued, CrewStrings DEF MarkRunning
  <1>2. CASE RecordSucceeded
    BY <1>2, RunRecorded, RunRequeued, CrewStrings DEF RecordSucceeded
  <1>3. CASE RecordFailed
    BY <1>3, RunRecorded, RunRequeued, CrewStrings DEF RecordFailed
  <1> QED BY <1>1, <1>2, <1>3, ReconcileRunStep, ExecuteStep DEF RunStep

(* The invariant of the three controllers.                                 *)
THEOREM CrewInvariance == ShipCrewSpec => []CrewInv
  <1>1. ShipCrewInitial => CrewInv
    <2> SUFFICES ASSUME ShipCrewInitial PROVE CrewInv
      OBVIOUS
    <2>1. api \in [CrewObjects -> ApiObjects]
          /\ (\A r \in CrewRuns : api[r].spec = "gone" /\ api[r].status = "new")
          /\ api[Crew].status = "new"
      BY CrewFacts DEF ShipCrewInitial, ApiObjects, CrewStatuses
    <2>2. job \in [Controllers -> Jobs] /\ \A k \in Controllers : job[k].pc = "idle"
      BY CrewFacts DEF ShipCrewInitial
    <2>3. CrewTypes
      BY <2>1, <2>2, CrewFacts DEF ShipCrewInitial, CrewTypes
    <2>4. CopyInv
      BY <2>1, CrewFacts DEF ShipCrewInitial, CopyInv, ApiObjects
    <2>5. JobInv
      BY <2>2 DEF JobInv, JobOK
    <2>6. ExecutionInv
      BY <2>2, CrewStrings DEF ShipCrewInitial, ExecutionInv, Budget, At
    <2>7. ReadyHasRunner
      BY <2>1 DEF ReadyHasRunner
    <2> QED BY <2>3, <2>4, <2>5, <2>6, <2>7 DEF CrewInv
  <1>2. CrewInv /\ [ShipCrewNext]_shipCrewVars => CrewInv'
    <2> SUFFICES ASSUME CrewInv, [ShipCrewNext]_shipCrewVars PROVE CrewInv'
      OBVIOUS
    <2>1. CASE UNCHANGED shipCrewVars
      BY <2>1 DEF shipCrewVars, CrewInv, CrewTypes, CopyInv, JobInv, JobOK, ExecutionInv,
                  Budget, At, Current, ReadyHasRunner
    <2> QED BY <2>1, CreateRunStep, EditSpecStep, WatchEventStep, TakeStep, BackendStep,
               CrewControllerStep, RunControllerStep, RestartStep, CrewFacts
            DEF ShipCrewNext
  <1> QED BY <1>1, <1>2, PTL DEF ShipCrewSpec

(* Lagging caches and repeated events never execute a run again: each      *)
(* execution but the first is paid for by an edit, a fault or a restart.   *)
THEOREM RunsNotRepeated == ShipCrewSpec => []ExecutionsJustified
  <1>1. CrewInv => ExecutionsJustified
    BY CrewElements DEF CrewInv, ExecutionInv, ExecutionsJustified, Budget
  <1> QED BY <1>1, CrewInvariance, PTL

(* A crew that is shown as ready has a runner, or is about to be           *)
(* reconciled.                                                             *)
THEOREM ReadyCrewHasRunner == ShipCrewSpec => []ReadyHasRunner
  <1>1. CrewInv => ReadyHasRunner
    BY DEF CrewInv
  <1> QED BY <1>1, CrewInvariance, PTL

(* An outcome that was recorded is never overwritten, although jobs work   *)
(* on old copies: the copy of a job whose update is accepted is current.   *)
THEOREM OutcomeIsFinal == ShipCrewSpec => TerminalIsFinal
  <1> DEFINE Final == \A r \in CrewRuns : api[r].status \in Terminal
                                             => api'[r].status = api[r].status
  <1>1. CrewInv /\ [ShipCrewNext]_shipCrewVars => [Final]_shipCrewVars
    <2> SUFFICES ASSUME CrewInv, ShipCrewNext, NEW r \in CrewRuns,
                        api[r].status \in Terminal
                 PROVE  api'[r].status = api[r].status
      OBVIOUS
    <2>0. r \in CrewObjects
      BY CrewFacts
    <2>1. ASSUME NEW q \in CrewRuns, CreateRun(q) PROVE api'[r].status = api[r].status
      BY <2>0, <2>1, CrewElements DEF CreateRun, CrewInv, CrewTypes, ApiObjects
    <2>2. ASSUME NEW o \in CrewObjects, NEW spec \in {"good", "bad", "gone"}, EditSpec(o, spec)
          PROVE  api'[r].status = api[r].status
      BY <2>0, <2>2, CrewElements DEF EditSpec, CrewInv, CrewTypes, ApiObjects
    <2>3. ASSUME NEW k \in {"backend", "crew"}, job[k].pc # "idle",
                 NEW status \in CrewStatuses,
                 UpdateAnswered(k, status) \/ UpdateFailed(k, status)
          PROVE  api'[r].status = api[r].status
      <3>1. k \in Controllers /\ job[k].obj \notin CrewRuns
        BY <2>3, CrewElements, CrewFacts, CrewStrings
      <3> QED BY <2>0, <2>3, <3>1, UpdateEffect
    <2>4. ASSUME job["run"].pc \in {"mark", "succeeded", "failed"},
                 NEW status \in CrewStatuses,
                 UpdateAnswered("run", status) \/ UpdateFailed("run", status)
          PROVE  api'[r].status = api[r].status
      <3>1. "run" \in Controllers
        BY CrewStrings
      <3>2. api[job["run"].obj].rv = job["run"].rv => api[job["run"].obj].status \notin Terminal
        BY <2>4, <3>1, CrewElements, CrewStrings DEF JobOK
      <3>3. r # job["run"].obj => api'[r] = api[r]
        BY <2>0, <2>4, <3>1, UpdateEffect
      <3> QED BY <2>4, <3>1, <3>2, <3>3, UpdateEffect
    <2>5. CASE ReconcileBackend
      BY <2>3, <2>5, CrewStrings DEF ReconcileBackend
    <2>6. CASE CrewStep
      BY <2>3, <2>6, CrewStrings DEF CrewStep, ReconcileCrew, CrewReady, SetNotReady
    <2>7. CASE RunStep
      BY <2>4, <2>7, CrewStrings
      DEF RunStep, ReconcileRun, MarkRunning, ExecuteRun, RecordSucceeded, RecordFailed
    <2>8. ASSUME NEW o \in CrewObjects, NEW k \in Controllers, WatchEvent(o) \/ Take(k, o)
          PROVE  api'[r].status = api[r].status
      BY <2>8 DEF WatchEvent, Take
    <2>9. CASE RestartController
      BY <2>9 DEF RestartController
    <2> QED BY <2>1, <2>2, <2>5, <2>6, <2>7, <2>8, <2>9, CrewStrings DEF ShipCrewNext
  <1> QED BY <1>1, CrewInvariance, PTL DEF ShipCrewSpec, TerminalIsFinal

-----------------------------------------------------------------------------
(* A pass is a record; the idle one is a pass.                             *)
LEMMA PassFacts ==
  /\ IdlePass \in Passes /\ IdlePass.pc = "sleep" /\ IdlePass.left = {}
  /\ \A p \in Passes :
        /\ p.spec \in PolicySpecs /\ p.signed \in Nat /\ p.left \subseteq Requests
        /\ p.seen \in [Requests -> [conditions : Conditions, cert : Nat]]
        /\ \A r \in Requests : p.seen[r].cert \in Nat /\ p.seen[r].conditions \in Conditions
  <1>1. CautiousSpec \in PolicySpecs
    BY DEF CautiousSpec, PolicySpecs
  <1>2. [r \in Requests |-> Unlisted] \in [Requests -> [conditions : Conditions, cert : Nat]]
    BY DEF Unlisted, Conditions
  <1>3. IdlePass \in Passes
    <2> DEFINE first == CHOOSE r \in Requests : TRUE
    <2> HIDE DEF first
    <2>1. IdlePass = [pc |-> "sleep", spec |-> CautiousSpec, signed |-> 0,
                      seen |-> [r \in Requests |-> Unlisted], left |-> {},
                      cur |-> first, serial |-> 0]
      BY DEF IdlePass, first
    <2>2. IdlePass.cur = first
      BY <2>1
    <2> QED BY <1>1, <1>2, <2>1, <2>2 DEF Passes
  <1>4. IdlePass.pc = "sleep" /\ IdlePass.left = {}
    BY DEF IdlePass
  <1>5. ASSUME NEW p \in Passes
        PROVE  /\ p.spec \in PolicySpecs /\ p.signed \in Nat /\ p.left \subseteq Requests
               /\ p.seen \in [Requests -> [conditions : Conditions, cert : Nat]]
               /\ \A r \in Requests : p.seen[r].cert \in Nat /\ p.seen[r].conditions \in Conditions
    BY <1>5 DEF Passes
  <1> QED BY <1>3, <1>4, <1>5

(* The pass goes on with the next request.                                 *)
LEMMA NextRequestFacts ==
  ASSUME NEW p \in Passes
  PROVE  /\ NextRequest(p) \in Passes /\ NextRequest(p).pc = "next"
         /\ NextRequest(p).left = p.left /\ NextRequest(p).seen = p.seen
         /\ NextRequest(p).spec = p.spec
  BY DEF NextRequest, Passes

(* Whatever is skipped: nothing is claimed about the current request.      *)
LEMMA SkipKept ==
  ASSUME SignersInv, pass' \in Passes,
         \/ pass' = IdlePass
         \/ pass' = NextRequest(pass) /\ pass.pc \in {"approve", "sign", "patch", "count"},
         \A r \in pass.left : request'[r].cert = request[r].cert
  PROVE  PassInv'
  <1>1. pass \in Passes
    BY DEF SignersInv, SignerTypes
  <1>2. CASE pass' = IdlePass
    BY <1>2, PassFacts DEF PassInv
  <1>3. CASE pass' = NextRequest(pass)
    <2>1. pass'.pc = "next" /\ pass'.left = pass.left /\ pass'.seen = pass.seen
      BY <1>1, <1>3, NextRequestFacts
    <2> QED BY <2>1 DEF SignersInv, PassInv
  <1> QED BY <1>2, <1>3

(* Where the checks lead: a request that passes them has no certificate    *)
(* and the approval the policy asks for.                                   *)
LEMMA HandledFacts ==
  ASSUME SignersInv, NEW r \in Requests, NEW p \in Passes,
         p.seen = pass.seen, p.spec = pass.spec, p.cur = r, r \notin p.left
  PROVE  /\ Handled(r, p) \in Passes
         /\ Handled(r, p).left = p.left /\ Handled(r, p).seen = pass.seen
         /\ Handled(r, p).spec = pass.spec
         /\ \/ Handled(r, p).pc = "next"
            \/ /\ Handled(r, p).pc = "sign" /\ Handled(r, p).cur = r
               /\ pass.seen[r].cert = 0
               /\ pass.spec.requireApproved => "Approved" \in pass.seen[r].conditions
  <1>1. CASE Signable(r)
    <2>1. Handled(r, p) = [p EXCEPT !.pc = "sign"]
      BY <1>1 DEF Handled
    <2>2. /\ Handled(r, p) \in Passes /\ Handled(r, p).left = p.left
          /\ Handled(r, p).seen = p.seen /\ Handled(r, p).spec = p.spec
          /\ Handled(r, p).pc = "sign" /\ Handled(r, p).cur = p.cur
      BY <2>1 DEF Passes
    <2> QED BY <1>1, <2>2 DEF Signable, AlreadySigned, Seen
  <1>2. CASE ~Signable(r)
    BY <1>2, NextRequestFacts DEF Handled
  <1> QED BY <1>1, <1>2

(* The list is right about the requests that were not handled yet.         *)
LEMMA PassStepInv ==
  ASSUME SignersInv, PassStep
  PROVE  SignersInv'
  <1>0. /\ pass \in Passes /\ signer \in {"csr", "issuer"} /\ serials \in Nat
        /\ policy \in [spec : PolicySpecs, signed : Nat]
        /\ request \in [Requests -> [fits : BOOLEAN, ca : BOOLEAN, conditions : Conditions,
                                     cert : Nat]]
        /\ policy.spec \in PolicySpecs /\ policy.signed \in Nat
        /\ \A r \in Requests : request[r].cert \in Nat /\ request[r].conditions \in Conditions
        /\ UNCHANGED signer
    BY DEF SignersInv, SignerTypes, PassStep, LoadPolicies, ListRequests, ApproveRequest,
           SignRequest, PatchCertificate, CountSigned, EndPass, TakeRequest
  <1>1. CASE LoadPolicies
    <2>1. UNCHANGED <<policy, request, serials>>
      BY <1>1 DEF LoadPolicies
    <2>2. CASE UNCHANGED pass
      BY <1>0, <2>1, <2>2 DEF SignersInv, SignerTypes, PassInv, Seen
    <2>3. CASE pass' = [IdlePass EXCEPT !.pc = "list", !.spec = policy.spec,
                                        !.signed = policy.signed]
      <3>1. IdlePass \in Passes /\ IdlePass.left = {}
        BY PassFacts
      <3>2. pass' \in Passes /\ pass'.pc = "list" /\ pass'.left = {}
        BY <1>0, <2>3, <3>1 DEF Passes
      <3> QED BY <1>0, <2>1, <3>2 DEF SignersInv, SignerTypes, PassInv
    <2> QED BY <1>1, <2>2, <2>3 DEF LoadPolicies
  <1>2. CASE ListRequests
    <2>1. UNCHANGED <<policy, request, serials>>
      BY <1>2 DEF ListRequests
    <2>2. CASE pass' = IdlePass
      BY <1>0, <2>1, <2>2, PassFacts, SkipKept DEF SignersInv, SignerTypes
    <2> DEFINE list == [r \in Requests |-> [conditions |-> request[r].conditions,
                                            cert |-> request[r].cert]]
    <2>3. CASE pass' = [pass EXCEPT !.pc = "next", !.left = Requests, !.seen = list]
      <3>1. list \in [Requests -> [conditions : Conditions, cert : Nat]]
            /\ \A r \in Requests : list[r].cert = request[r].cert
        BY <1>0
      <3> HIDE DEF list
      <3>2. pass' \in Passes /\ pass'.pc = "next" /\ pass'.left = Requests /\ pass'.seen = list
        BY <1>0, <2>3, <3>1 DEF Passes
      <3> QED BY <1>0, <2>1, <3>1, <3>2 DEF SignersInv, SignerTypes, PassInv
    <2> QED BY <1>2, <2>2, <2>3 DEF ListRequests
  <1>3. ASSUME NEW r \in Requests, TakeRequest(r) PROVE SignersInv'
    <2> DEFINE p == [pass EXCEPT !.left = @ \ {r}, !.cur = r]
    <2>1. /\ pass.pc = "next" /\ r \in pass.left /\ UNCHANGED <<policy, request, serials>>
          /\ \/ pass' = [p EXCEPT !.pc = "approve"]
             \/ pass' = Handled(r, p)
      BY <1>3 DEF TakeRequest
    <2>2. /\ p \in Passes /\ p.left = pass.left \ {r} /\ p.cur = r
          /\ p.seen = pass.seen /\ p.spec = pass.spec
      BY <1>0 DEF Passes
    <2> HIDE DEF p
    <2>3. /\ \A q \in pass.left : pass.seen[q].cert = request[q].cert
      BY DEF SignersInv, PassInv
    <2>4. CASE pass' = [p EXCEPT !.pc = "approve"]
      <3>1. /\ pass' \in Passes /\ pass'.pc = "approve" /\ pass'.left = p.left
            /\ pass'.cur = r /\ pass'.seen = p.seen
        BY <2>2, <2>4 DEF Passes
      <3>2. PassInv'
        BY <2>1, <2>2, <2>3, <3>1 DEF PassInv
      <3> QED BY <1>0, <2>1, <3>1, <3>2 DEF SignersInv, SignerTypes
    <2>5. CASE pass' = Handled(r, p)
      <3>1. /\ pass' \in Passes /\ pass'.left = pass.left \ {r} /\ pass'.seen = pass.seen
            /\ pass'.spec = pass.spec
            /\ \/ pass'.pc = "next"
               \/ /\ pass'.pc = "sign" /\ pass'.cur = r /\ pass.seen[r].cert = 0
                  /\ pass.spec.requireApproved => "Approved" \in pass.seen[r].conditions
        BY <2>2, <2>5, HandledFacts
      <3>2. PassInv'
        BY <2>1, <2>3, <3>1 DEF PassInv, Seen
      <3> QED BY <1>0, <2>1, <3>1, <3>2 DEF SignersInv, SignerTypes
    <2> QED BY <2>1, <2>4, <2>5
  <1>4. CASE ApproveRequest
    <2> DEFINE r == pass.cur
               conditions == Seen(r) \cup {"Approved"}
    <2>1. /\ pass.pc = "approve" /\ r \in Requests \ pass.left /\ UNCHANGED <<policy, serials>>
          /\ pass.seen[r].cert = request[r].cert
      BY <1>4 DEF ApproveRequest, SignersInv, PassInv
    <2>2. pass' = Handled(r, pass) \/ pass' = NextRequest(pass)
      BY <1>4 DEF ApproveRequest
    <2>3. request' = [request EXCEPT ![r].conditions = conditions] \/ request' = request
      BY <1>4 DEF ApproveRequest
    <2>4. conditions \in Conditions
      BY <1>0, <2>1, PassFacts DEF Seen, Conditions, Decisions
    <2> HIDE DEF conditions
    <2>5. /\ request' \in [Requests -> [fits : BOOLEAN, ca : BOOLEAN, conditions : Conditions,
                                        cert : Nat]]
          /\ \A q \in Requests : request'[q].cert = request[q].cert
      BY <1>0, <2>1, <2>3, <2>4
    <2>6. CASE pass' = NextRequest(pass)
      <3>1. pass' \in Passes /\ PassInv'
        BY <1>0, <2>1, <2>5, <2>6, NextRequestFacts, SkipKept, PassFacts
      <3> QED BY <1>0, <2>1, <2>5, <3>1 DEF SignersInv, SignerTypes
    <2>7. CASE pass' = Handled(r, pass)
      <3>1. /\ pass' \in Passes /\ pass'.left = pass.left /\ pass'.seen = pass.seen
            /\ pass'.spec = pass.spec
            /\ \/ pass'.pc = "next"
               \/ /\ pass'.pc = "sign" /\ pass'.cur = r /\ pass.seen[r].cert = 0
                  /\ pass.spec.requireApproved => "Approved" \in pass.seen[r].conditions
        BY <1>0, <2>1, <2>7, HandledFacts
      <3>2. PassInv'
        BY <1>0, <2>1, <2>5, <3>1, PassFacts DEF SignersInv, PassInv, Seen
      <3> QED BY <1>0, <2>1, <2>5, <3>1, <3>2 DEF SignersInv, SignerTypes
    <2> QED BY <2>2, <2>6, <2>7
  <1>5. CASE SignRequest
    <2>1. pass.pc = "sign" /\ UNCHANGED <<policy, request>> /\ serials' \in Nat
      BY <1>0, <1>5 DEF SignRequest
    <2>2. CASE pass' = NextRequest(pass)
      <3>1. pass' \in Passes /\ PassInv'
        BY <1>0, <2>1, <2>2, NextRequestFacts, SkipKept, PassFacts
      <3> QED BY <1>0, <2>1, <3>1 DEF SignersInv, SignerTypes
    <2>3. CASE pass' = [pass EXCEPT !.pc = "patch", !.serial = serials + 1]
      <3>0. serials + 1 \in Nat
        BY <1>0
      <3>1. ASSUME NEW n \in Nat
            PROVE  LET q == [pass EXCEPT !.pc = "patch", !.serial = n]
                   IN  /\ q \in Passes /\ q.pc = "patch" /\ q.left = pass.left
                       /\ q.seen = pass.seen /\ q.cur = pass.cur /\ q.spec = pass.spec
        BY <1>0, <3>1 DEF Passes
      <3>2. /\ pass' \in Passes /\ pass'.pc = "patch" /\ pass'.left = pass.left
            /\ pass'.seen = pass.seen /\ pass'.cur = pass.cur /\ pass'.spec = pass.spec
        BY <2>3, <3>0, <3>1
      <3>3. PassInv'
        BY <2>1, <3>2 DEF SignersInv, PassInv, Seen
      <3> QED BY <1>0, <2>1, <3>2, <3>3 DEF SignersInv, SignerTypes
    <2> QED BY <1>5, <2>2, <2>3 DEF SignRequest
  <1>6. CASE PatchCertificate
    <2> DEFINE r == pass.cur
    <2>1. /\ pass.pc = "patch" /\ r \in Requests \ pass.left /\ UNCHANGED <<policy, serials>>
          /\ pass.serial \in Nat
      BY <1>0, <1>6 DEF PatchCertificate, SignersInv, PassInv, Passes
    <2>2. /\ \/ request' = request
             \/ request' = [request EXCEPT ![r].cert = pass.serial,
                                           ![r].conditions = PatchedConditions(r)]
          /\ \/ pass' = NextRequest(pass)
             \/ pass' = [pass EXCEPT !.pc = "count"]
      BY <1>6 DEF PatchCertificate
    <2>3. PatchedConditions(r) \in Conditions
      BY <1>0, <2>1 DEF PatchedConditions, Conditions
    <2>4. /\ request' \in [Requests -> [fits : BOOLEAN, ca : BOOLEAN, conditions : Conditions,
                                        cert : Nat]]
          /\ \A q \in Requests \ {r} : request'[q].cert = request[q].cert
      BY <1>0, <2>1, <2>2, <2>3
    <2>5. CASE pass' = NextRequest(pass)
      <3>1. pass' \in Passes /\ PassInv'
        BY <1>0, <2>1, <2>4, <2>5, NextRequestFacts, SkipKept, PassFacts
      <3> QED BY <1>0, <2>1, <2>4, <3>1 DEF SignersInv, SignerTypes
    <2>6. CASE pass' = [pass EXCEPT !.pc = "count"]
      <3>1. /\ pass' \in Passes /\ pass'.pc = "count" /\ pass'.left = pass.left
            /\ pass'.seen = pass.seen
        BY <1>0, <2>6 DEF Passes
      <3>2. PassInv'
        BY <1>0, <2>1, <2>4, <3>1, PassFacts DEF SignersInv, PassInv
      <3> QED BY <1>0, <2>1, <2>4, <3>1, <3>2 DEF SignersInv, SignerTypes
    <2> QED BY <2>2, <2>5, <2>6
  <1>7. CASE CountSigned
    <2>1. /\ pass.pc = "count" /\ UNCHANGED <<request, serials>> /\ pass' = NextRequest(pass)
          /\ policy' = policy \/ policy' = [policy EXCEPT !.signed = pass.signed + 1]
      BY <1>7 DEF CountSigned
    <2>2. policy' \in [spec : PolicySpecs, signed : Nat]
      <3>1. pass.signed + 1 \in Nat
        BY <1>0, PassFacts
      <3> QED BY <1>0, <2>1, <3>1
    <2>3. pass' \in Passes /\ PassInv'
      BY <1>0, <2>1, NextRequestFacts, SkipKept, PassFacts
    <2> QED BY <1>0, <2>1, <2>2, <2>3 DEF SignersInv, SignerTypes
  <1>8. CASE EndPass
    BY <1>0, <1>8, PassFacts, SkipKept DEF EndPass, SignersInv, SignerTypes
  <1> QED BY <1>1, <1>2, <1>3, <1>4, <1>5, <1>6, <1>7, <1>8 DEF PassStep

(* Approvers, administrators and crashes keep the invariant as well.       *)
THEOREM SignersInvariance == TpmSignersSpec => []SignersInv
  <1>1. TpmSignersInitial => SignersInv
    <2> SUFFICES ASSUME TpmSignersInitial PROVE SignersInv
      OBVIOUS
    <2>1. request \in [Requests -> [fits : BOOLEAN, ca : BOOLEAN, conditions : Conditions,
                                    cert : Nat]]
      BY DEF TpmSignersInitial, NewRequests, Conditions
    <2>2. SignerTypes
      BY <2>1, PassFacts DEF TpmSignersInitial, SignerTypes
    <2>3. PassInv
      BY PassFacts DEF TpmSignersInitial, PassInv
    <2> QED BY <2>2, <2>3 DEF SignersInv
  <1>2. SignersInv /\ [TpmSignersNext]_tpmSignersVars => SignersInv'
    <2> SUFFICES ASSUME SignersInv, [TpmSignersNext]_tpmSignersVars PROVE SignersInv'
      OBVIOUS
    <2>0. /\ pass \in Passes
          /\ policy \in [spec : PolicySpecs, signed : Nat]
          /\ request \in [Requests -> [fits : BOOLEAN, ca : BOOLEAN,
                                       conditions : Conditions, cert : Nat]]
      BY DEF SignersInv, SignerTypes
    <2>1. ASSUME NEW r \in Requests, Decide(r) PROVE SignersInv'
      <3>1. PICK d \in Decisions : request' = [request EXCEPT ![r].conditions = @ \cup {d}]
        BY <2>1 DEF Decide
      <3>2. UNCHANGED <<signer, policy, pass, serials>>
        BY <2>1 DEF Decide
      <3>3. request[r].conditions \cup {d} \in Conditions
        BY <2>0 DEF Conditions
      <3>4. /\ request' \in [Requests -> [fits : BOOLEAN, ca : BOOLEAN,
                                          conditions : Conditions, cert : Nat]]
            /\ \A q \in Requests : request'[q].cert = request[q].cert
        BY <2>0, <3>1, <3>3
      <3>5. PassInv'
        BY <2>0, <3>2, <3>4, PassFacts DEF SignersInv, PassInv, Seen
      <3> QED BY <3>2, <3>4, <3>5 DEF SignersInv, SignerTypes
    <2>2. CASE EditPolicy
      <3>1. UNCHANGED <<signer, request, pass, serials>>
        BY <2>2 DEF EditPolicy
      <3>2. PICK f \in {"valid", "requireApproved", "denyCA", "caProfile"} :
                   policy' = [policy EXCEPT !.spec[f] = ~@]
        BY <2>2 DEF EditPolicy
      <3>3. policy.spec \in PolicySpecs
        BY <2>0
      <3>4. [policy.spec EXCEPT ![f] = ~policy.spec[f]] \in PolicySpecs
        BY <3>3 DEF PolicySpecs
      <3>5. policy' \in [spec : PolicySpecs, signed : Nat]
        BY <2>0, <3>2, <3>4
      <3>6. PassInv'
        BY <3>1 DEF SignersInv, PassInv, Seen
      <3> QED BY <3>1, <3>5, <3>6 DEF SignersInv, SignerTypes
    <2>3. CASE RestartSigner
      BY <2>3, PassFacts, SkipKept DEF RestartSigner, SignersInv, SignerTypes
    <2>4. CASE UNCHANGED tpmSignersVars
      BY <2>4 DEF tpmSignersVars, SignersInv, SignerTypes, PassInv, Seen
    <2> QED BY <2>1, <2>2, <2>3, <2>4, PassStepInv DEF TpmSignersNext
  <1> QED BY <1>1, <1>2, PTL DEF TpmSignersSpec

(* No step but the patch touches a certificate, and no step but the patch, *)
(* the signer's approval and an approver's decision touches conditions.    *)
LEMMA RequestFrame ==
  ASSUME SignersInv, TpmSignersNext
  PROVE  \/ UNCHANGED request
         \/ ApproveRequest
         \/ PatchCertificate
         \/ \E r \in Requests : Decide(r)
  BY DEF TpmSignersNext, PassStep, LoadPolicies, ListRequests, SignRequest, CountSigned,
         EndPass, TakeRequest, EditPolicy, RestartSigner

(* A certificate is never replaced, even where the API server would let    *)
(* it: the list that the only pass works through is right about it.        *)
THEOREM CertificateKept == TpmSignersSpec => CertificateWriteOnce
  <1> DEFINE Kept == \A r \in Requests : request[r].cert # 0
                                            => request'[r].cert = request[r].cert
  <1>1. SignersInv /\ [TpmSignersNext]_tpmSignersVars => [Kept]_tpmSignersVars
    <2> SUFFICES ASSUME SignersInv, TpmSignersNext, NEW r \in Requests, request[r].cert # 0
                 PROVE  request'[r].cert = request[r].cert
      OBVIOUS
    <2>0. request \in [Requests -> [fits : BOOLEAN, ca : BOOLEAN,
                                    conditions : Conditions, cert : Nat]]
      BY DEF SignersInv, SignerTypes
    <2>1. CASE ApproveRequest
      BY <2>0, <2>1 DEF ApproveRequest
    <2>2. ASSUME NEW q \in Requests, Decide(q) PROVE request'[r].cert = request[r].cert
      BY <2>0, <2>2 DEF Decide
    <2>3. CASE PatchCertificate
      <3>1. r # pass.cur /\ pass.cur \in Requests
        BY <2>3 DEF PatchCertificate, SignersInv, PassInv
      <3>2. \/ request' = request
            \/ request' = [request EXCEPT ![pass.cur].cert = pass.serial,
                                          ![pass.cur].conditions = PatchedConditions(pass.cur)]
        BY <2>3 DEF PatchCertificate
      <3> QED BY <2>0, <3>1, <3>2
    <2> QED BY <2>1, <2>2, <2>3, RequestFrame
  <1> QED BY <1>1, SignersInvariance, PTL DEF TpmSignersSpec, CertificateWriteOnce

(* A decision survives every step of the signers but SetsConditions: a     *)
(* request that needed an approval was listed with it, and a request that  *)
(* was listed with a condition gets Ready appended.                        *)
THEOREM DecisionsSurvive == TpmSignersSpec => DecisionKept
  <1> DEFINE Kept == \A r \in Requests :
                        \/ request[r].conditions \cap Decisions \subseteq request'[r].conditions
                        \/ SetsConditions(r)
  <1>1. SignersInv /\ [TpmSignersNext]_tpmSignersVars => [Kept]_tpmSignersVars
    <2> SUFFICES ASSUME SignersInv, TpmSignersNext, NEW r \in Requests,
                        ~SetsConditions(r)
                 PROVE  request[r].conditions \cap Decisions \subseteq request'[r].conditions
      OBVIOUS
    <2>0. request \in [Requests -> [fits : BOOLEAN, ca : BOOLEAN,
                                    conditions : Conditions, cert : Nat]]
          /\ signer \in {"csr", "issuer"}
      BY DEF SignersInv, SignerTypes
    <2>1. CASE ApproveRequest
      <3>1. \/ request' = request
            \/ /\ ApprovalAccepted(pass.cur, Seen(pass.cur) \cup {"Approved"})
               /\ request' = [request EXCEPT ![pass.cur].conditions =
                                                Seen(pass.cur) \cup {"Approved"}]
        BY <2>1 DEF ApproveRequest
      <3> QED BY <2>0, <3>1 DEF ApprovalAccepted
    <2>2. ASSUME NEW q \in Requests, Decide(q)
          PROVE  request[r].conditions \cap Decisions \subseteq request'[r].conditions
      <3>1. PICK d \in Decisions : request' = [request EXCEPT ![q].conditions = @ \cup {d}]
        BY <2>2 DEF Decide
      <3> QED BY <2>0, <3>1
    <2>3. CASE PatchCertificate
      <3>1. pass.cur \in Requests /\ pass.pc = "patch"
            /\ (signer = "issuer" /\ pass.spec.requireApproved => Seen(pass.cur) # {})
        BY <2>3 DEF PatchCertificate, SignersInv, PassInv
      <3>2. pass.cur = r => request[r].conditions \subseteq PatchedConditions(r)
        BY <2>0, <3>1 DEF PatchedConditions, SetsConditions
      <3>3. \/ request' = request
            \/ request' = [request EXCEPT ![pass.cur].cert = pass.serial,
                                          ![pass.cur].conditions = PatchedConditions(pass.cur)]
        BY <2>3 DEF PatchCertificate
      <3> QED BY <2>0, <3>1, <3>2, <3>3
    <2> QED BY <2>1, <2>2, <2>3, RequestFrame
  <1> QED BY <1>1, SignersInvariance, PTL DEF TpmSignersSpec, DecisionKept
=============================================================================
