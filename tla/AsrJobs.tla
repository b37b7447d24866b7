------------------------------- MODULE AsrJobs -------------------------------
(***************************************************************************)
(* Transcriptions (job.store.ts, asr.service.ts, asr.controller.ts): jobs  *)
(* in the memory of the process, one at a time for an account, each run in *)
(* the background through phases its account is told of over its socket.   *)
(* The account may cancel; finished jobs are kept for ten minutes.  A step *)
(* is what runs between two awaits.                                        *)
(***************************************************************************)
EXTENDS Naturals, FiniteSets

CONSTANTS AsrJob,       \* jobs ever created
          AsrUser

VARIABLES
    jobs,       \* the store: owner, phase, result, aborted, age when finished
    runs,       \* what a job's run waits for; it outlives a cancelled job
    progress    \* the phase the account was told last, per job

asrVars == <<jobs, runs, progress>>

NoJob == [phase |-> "none"]
Terminal == {"completed", "failed", "cancelled"}
isTerminal(phase) == phase \in Terminal
InStore(j) == jobs[j].phase # "none"
Active(u) == {j \in AsrJob : InStore(j) /\ jobs[j].user = u /\ ~isTerminal(jobs[j].phase)}

AsrInit ==
    /\ jobs = [j \in AsrJob |-> NoJob]
    /\ runs = [j \in AsrJob |-> "new"]
    /\ progress = [j \in AsrJob |-> "none"]

(* setPhase, and emitProgress of what the store then says. *)
PhaseSet(j, phase) ==
    IF ~InStore(j) \/ isTerminal(jobs[j].phase) THEN jobs
    ELSE [jobs EXCEPT ![j].phase = phase, ![j].result = (phase = "completed"), ![j].fresh = isTerminal(phase)]
transition(j, phase) ==
    /\ jobs' = PhaseSet(j, phase)
    /\ progress' = IF InStore(j) THEN [progress EXCEPT ![j] = jobs'[j].phase] ELSE progress

-----------------------------------------------------------------------------
(* startStampJob: one that is not over refuses another; the run begins
   before the answer is sent.  A stored upload is fetched first. *)
startStampJob(j, u, kind) ==
    /\ runs[j] = "new" /\ Active(u) = {}
    /\ LET phase == IF kind = "cloudinary" THEN "fetching_audio" ELSE "transcribing" IN
       /\ jobs' = [jobs EXCEPT ![j] = [user |-> u, phase |-> phase, result |-> FALSE,
                                       aborted |-> FALSE, fresh |-> FALSE]]
       /\ progress' = [progress EXCEPT ![j] = phase]
       /\ runs' = [runs EXCEPT ![j] = phase]

(* runJob: what the run waited for has come; if it was cancelled meanwhile
   it says no more.  Its own reference to the job outlives the store's. *)
Aborted(j) == ~InStore(j) \/ jobs[j].aborted

Ends(j) == runs' = [runs EXCEPT ![j] = "over"]
fetched(j) ==
    /\ runs[j] = "fetching_audio"
    /\ IF Aborted(j) THEN Ends(j) /\ UNCHANGED <<jobs, progress>>
       ELSE transition(j, "transcribing") /\ runs' = [runs EXCEPT ![j] = "transcribing"]

transcribed(j) ==
    /\ runs[j] = "transcribing"
    /\ IF Aborted(j) THEN UNCHANGED <<jobs, progress>>
       ELSE transition(j, "completed")
    /\ Ends(j)

threw(j) ==
    /\ runs[j] \in {"fetching_audio", "transcribing"}
    /\ IF Aborted(j) THEN UNCHANGED <<jobs, progress>>
       ELSE transition(j, "failed")
    /\ Ends(j)

-----------------------------------------------------------------------------
(* cancelJobHandler. *)
cancelJob(j, u) ==
    /\ InStore(j) /\ jobs[j].user = u /\ ~isTerminal(jobs[j].phase)
    /\ jobs' = [PhaseSet(j, "cancelled") EXCEPT ![j].aborted = TRUE]
    /\ progress' = [progress EXCEPT ![j] = "cancelled"]
    /\ UNCHANGED runs

tenMinutes(j) ==
    /\ InStore(j) /\ jobs[j].fresh
    /\ jobs' = [jobs EXCEPT ![j].fresh = FALSE]
    /\ UNCHANGED <<runs, progress>>

sweepJobs ==
    /\ jobs' = [j \in AsrJob |-> IF InStore(j) /\ isTerminal(jobs[j].phase) /\ ~jobs[j].fresh
                                 THEN NoJob ELSE jobs[j]]
    /\ jobs' # jobs
    /\ UNCHANGED <<runs, progress>>

(* A restart loses store and runs; nobody is told. *)
restartAsr ==
    /\ \E j \in AsrJob : InStore(j)
    /\ jobs' = [j \in AsrJob |-> NoJob]
    /\ runs' = [j \in AsrJob |-> IF runs[j] = "new" THEN "new" ELSE "over"]
    /\ UNCHANGED progress

AsrNext ==
    \/ sweepJobs \/ restartAsr
    \/ \E j \in AsrJob :
         \/ \E u \in AsrUser : cancelJob(j, u) \/ \E kind \in {"cloudinary", "buffer"} : startStampJob(j, u, kind)
         \/ fetched(j) \/ transcribed(j) \/ threw(j) \/ tenMinutes(j)
AsrSpec == AsrInit /\ [][AsrNext]_asrVars

-----------------------------------------------------------------------------
(* An account has one job under way, even while the run of one it has
   cancelled is still waiting; that run changes neither the cancelled job
   nor the next one; a result is there exactly when the job completed; the
   account was told last what the store says; and a job nobody runs any
   more is over, so that it keeps nobody from starting another
   (job.store.ts, runJob). *)
JobsSettle ==
    /\ \A u \in AsrUser : Cardinality(Active(u)) <= 1
    /\ \A j \in AsrJob : InStore(j) =>
         /\ jobs[j].result <=> jobs[j].phase = "completed"
         /\ progress[j] = jobs[j].phase
         /\ runs[j] = "over" => isTerminal(jobs[j].phase)
         /\ jobs[j].aborted => jobs[j].phase = "cancelled"
=============================================================================
