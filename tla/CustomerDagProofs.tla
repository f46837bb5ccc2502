------------------------- MODULE CustomerDagProofs -------------------------
(***************************************************************************)
(* Proofs about CustomerDag, for any number of retries and executions, any *)
(* faults, and with tasks that Airflow loses or not.                       *)
(***************************************************************************)
EXTENDS CustomerDag, TLAPS

-----------------------------------------------------------------------------
(***************************************************************************)
(* What Airflow does: the tasks follow one another, and a try works for    *)
(* its task only.                                                          *)
(***************************************************************************)
TaskCalls(t) ==
  CASE t = "prepare_run"          -> {"start_run", "claim", "push_info"}
    [] t \in {"bronze", "silver"} -> {"load"}
    [] t = "complete_success"     -> {"complete_batch", "complete_run"}
    [] t = "complete_failure"     -> {"fail_batch", "fail_run", "alert"}

\* The processes are of this execution or an earlier one, of tries that were started.
ProcessesKnown ==
  \A p \in procs :
    /\ p.call \in TaskCalls(p.task)
    /\ p.gen <= run
    /\ p.gen = run => p.try <= tries[p.task]
    /\ p.task = "prepare_run" => p.id = p.gen

\* tries and states agree.
TriesMatch ==
  \A t \in Task :
    /\ tries[t] = 0 <=> state[t] \in {"none", "upstream_failed", "skipped"}
    /\ state[t] = "up_for_retry" => tries[t] < MaxTries(t)

\* A task has been tried only after the tasks in front of it have ended.
TasksInOrder ==
  /\ state["prepare_run"] \in {"none", "running", "success", "failed"}
  /\ state["bronze"] # "none" => state["prepare_run"] \in {"success", "failed"}
  /\ tries["bronze"] > 0 => state["prepare_run"] = "success"
  /\ state["silver"] # "none" => state["bronze"] \in {"success", "failed", "upstream_failed"}
  /\ tries["silver"] > 0 => state["bronze"] = "success"
  /\ tries["complete_success"] > 0 => state["silver"] = "success"
  /\ tries["complete_failure"] > 0 =>
       Failed("prepare_run") \/ Failed("bronze") \/ Failed("silver")

\* run_info, when there is one, is of this execution or an earlier one.
InfoKnown ==
  /\ info <= run
  /\ state["prepare_run"] = "success" => info # 0

AirflowInv == TypeOK /\ ProcessesKnown /\ TriesMatch /\ TasksInOrder /\ InfoKnown

\* A layer whose task has succeeded is loaded, and so are both when complete_success
\* is at work.
LoadedByTask ==
  /\ \A t \in {"bronze", "silver"} : state[t] = "success" => t \in loaded
  /\ \A p \in procs : p.task = "complete_success" => loaded = {"bronze", "silver"}

-----------------------------------------------------------------------------
(***************************************************************************)
(* The rights that the execution r passes on, from prepare_run by XCom to  *)
(* one completion task.                                                    *)
(***************************************************************************)
\* p may still write the row of run p.id.
Owner(p) == p.task \notin {"bronze", "silver"} /\ p.call # "alert"

\* p is about to pass the batch on or to report on it.
Reporter(p) == p.call \in {"push_info", "complete_batch", "fail_batch"}

\* The right of r waits in XCom.
Waiting(r) ==
  /\ info = r
  /\ tries["prepare_run"] = 1
  /\ tries["complete_success"] = 0 /\ tries["complete_failure"] = 0

\* The execution has not begun to work as run r.
Fresh(r) == r > run \/ (r = run /\ tries["prepare_run"] = 0)

OneOwner ==
  /\ \A p, q \in procs : Owner(p) /\ Owner(q) /\ p.id = q.id => p = q
  /\ \A p \in procs : Owner(p) => ~Waiting(p.id)

OwnedRun ==
  /\ \A p \in procs : Owner(p) =>
       runs[p.id] = IF p.call = "start_run" THEN "none" ELSE "RUNNING"
  /\ \A r \in Run : Waiting(r) => runs[r] = "RUNNING"
  /\ \A r \in Run : Fresh(r) =>
       runs[r] = "none" /\ info # r /\ \A p \in procs : p.id # r

OneReporter ==
  /\ \A p, q \in procs : Reporter(p) /\ Reporter(q) => p = q
  /\ \A p \in procs : Reporter(p) => batch = "RUNNING" /\ \A r \in Run : ~Waiting(r)
  /\ \A r \in Run : Waiting(r) => batch = "RUNNING"

\* The run that has claimed a RUNNING batch, and that nobody is about to end.
ClaimantRuns ==
  batch = "RUNNING" =>
    \E r \in Run : /\ runs[r] = "RUNNING"
                   /\ \A p \in procs : p.id = r => p.call \notin {"complete_run", "fail_run"}

RightsInv == AirflowInv /\ OneOwner /\ OwnedRun /\ OneReporter

-----------------------------------------------------------------------------
(***************************************************************************)
(* What the completion tasks of this execution have done.                  *)
(***************************************************************************)
OwnInfo ==
  /\ state["prepare_run"] = "success"
  /\ tries["complete_success"] = 0 /\ tries["complete_failure"] = 0
  => info = run

SuccessSettled ==
  /\ \A p \in procs : p.call = "complete_run" => batch = "SUCCESS"
  /\ \A p \in procs : p.task = "complete_success" /\ IsCurrent(p) => p.id = run
  /\ state["complete_success"] = "success" => batch = "SUCCESS" /\ runs[run] = "SUCCESS"

FailureSettled ==
  /\ state["prepare_run"] = "success" =>
       /\ tries["complete_failure"] > 0 =>
            /\ batch \in {"RUNNING", "FAILED"}
            /\ \A p \in procs : p.call # "complete_batch"
       /\ \A p \in procs : p.task = "complete_failure" /\ IsCurrent(p) =>
            /\ p.id = run
            /\ p.call = "alert" => runs[run] = "FAILED"
       /\ state["complete_failure"] = "success" => runs[run] = "FAILED"
  /\ state["complete_failure"] = "success" => run \in alerted

SettledInv == RightsInv /\ ClaimantRuns /\ OwnInfo /\ SuccessSettled /\ FailureSettled

-----------------------------------------------------------------------------
(***************************************************************************)
(* The wiring, task by task, and the shape of a step.                      *)
(***************************************************************************)
LEMMA Wiring ==
  /\ Upstream("prepare_run") = {}
  /\ Upstream("bronze") = {"prepare_run"}
  /\ Upstream("silver") = {"bronze"}
  /\ Upstream("complete_success") = {"silver"}
  /\ Upstream("complete_failure") = {"prepare_run", "bronze", "silver"}
BY DEF Upstream

LEMMA OneTry ==
  /\ \A t \in Task : MaxTries(t) \in Nat \ {0}
  /\ \A t \in {"prepare_run", "complete_success", "complete_failure"} : MaxTries(t) = 1
BY DagAssumption DEF MaxTries, Task

LEMMA CallsOfTasks ==
  /\ TaskCalls("prepare_run") = {"start_run", "claim", "push_info"}
  /\ TaskCalls("bronze") = {"load"}
  /\ TaskCalls("silver") = {"load"}
  /\ TaskCalls("complete_success") = {"complete_batch", "complete_run"}
  /\ TaskCalls("complete_failure") = {"fail_batch", "fail_run", "alert"}
BY DEF TaskCalls

LEMMA FirstCalls ==
  /\ FirstCall("prepare_run") = "start_run"
  /\ FirstCall("bronze") = "load"
  /\ FirstCall("silver") = "load"
  /\ FirstCall("complete_success") = "complete_batch"
  /\ FirstCall("complete_failure") = IF info = 0 THEN "alert" ELSE "fail_batch"
BY DEF FirstCall

\* p's try goes on with another call, or ends; when it ends and is the current one,
\* its task gets a state.
GoesOn(p, c) ==
  /\ procs' = (procs \ {p}) \cup {[p EXCEPT !.call = c]}
  /\ state' = state

Ends(p) ==
  /\ procs' = procs \ {p}
  /\ \/ state' = state
     \/ IsCurrent(p) /\ \E s \in {"success", "failed", "up_for_retry"} :
          /\ state' = [state EXCEPT ![p.task] = s]
          /\ s = "up_for_retry" => tries[p.task] < MaxTries(p.task)

\* What the success of a task means.
Succeeds(p) ==
  \/ p.call = "push_info" /\ info' = p.id
  \/ p.call = "load" /\ p.task \in loaded'
  \/ p.call = "complete_run" /\ runs'[p.id] = "SUCCESS"
  \/ p.call = "alert" /\ p.gen \in alerted'

LEMMA Answers ==
  ASSUME TypeOK, NEW p \in procs, NEW o \in {"ok", "refused", "lost"}, NEW c \in Call \cup {"return"},
         Answer(p, o, c)
  PROVE  \/ o = "ok" /\ c # "return" /\ GoesOn(p, c)
         \/ /\ Ends(p)
            /\ o = "ok" => c = "return"
            /\ o # "ok" => state'[p.task] # "success" \/ state' = state
<1>1. CASE o = "ok" /\ c # "return"
  BY <1>1 DEF Answer, GoOn, GoesOn
<1>2. CASE o = "ok" /\ c = "return"
  BY <1>2 DEF Answer, End, Ends
<1>3. CASE o # "ok"
  <2>1. End(p, AfterFailure(p.task))
    BY <1>3 DEF Answer
  <2>2. p.task \in Task /\ DOMAIN state = Task
    BY DEF TypeOK, Process
  <2>3. QED
    BY <1>3, <2>1, <2>2 DEF End, Ends, AfterFailure
<1>4. QED
  BY <1>1, <1>2, <1>3
\* The same for a call that is not the last one of its task.
LEMMA AnswersMidway ==
  ASSUME TypeOK, NEW p \in procs, NEW o \in {"ok", "refused", "lost"}, NEW c \in Call,
         c \in TaskCalls(p.task), Answer(p, o, c)
  PROVE  /\ Ends(p) \/ \E d \in TaskCalls(p.task) : GoesOn(p, d)
         /\ state' = state \/ state'[p.task] # "success"
<1>1. c # "return"
  BY DEF Call
<1>2. QED
  BY <1>1, Answers DEF GoesOn

\* What a call may do, whichever it is.
LEMMA StepShape ==
  ASSUME TypeOK, ProcessesKnown, NEW p \in procs, Step(p)
  PROVE  /\ run' = run /\ tries' = tries
         /\ Ends(p) \/ \E c \in TaskCalls(p.task) : GoesOn(p, c)
         /\ state' = state \/ state'[p.task] # "success" \/ Succeeds(p)
         /\ info' = info \/ (p.call = "push_info" /\ info' = p.id)
         /\ loaded \subseteq loaded'
<1> USE DEF Outcomes
<1>0. p.call \in TaskCalls(p.task) /\ p.task \in Task /\ p.call \in Call
  BY DEF ProcessesKnown, TypeOK, Process
<1>1. CASE StartRun(p)
  <2>1. PICK o \in Outcomes("start_run") : Answer(p, o, "claim")
    BY <1>1 DEF StartRun
  <2>2. p.task = "prepare_run"
    BY <1>0, <1>1, CallsOfTasks DEF StartRun, Task
  <2>3. "claim" \in TaskCalls(p.task) /\ "claim" \in Call
    BY <2>2, CallsOfTasks DEF Call
  <2>4. QED
    BY <1>1, <2>1, <2>3, AnswersMidway DEF StartRun
<1>2. CASE ClaimBatch(p)
  <2>1. PICK o \in Outcomes("claim") : Answer(p, o, "push_info")
    BY <1>2 DEF ClaimBatch
  <2>2. p.task = "prepare_run"
    BY <1>0, <1>2, CallsOfTasks DEF ClaimBatch, Task
  <2>3. "push_info" \in TaskCalls(p.task) /\ "push_info" \in Call
    BY <2>2, CallsOfTasks DEF Call
  <2>4. QED
    BY <1>2, <2>1, <2>3, AnswersMidway DEF ClaimBatch
<1>3. CASE RejectBatch(p)
  <2>1. Answer(p, "refused", "push_info")
    BY <1>3 DEF RejectBatch, Answer
  <2>2. QED
    BY <1>3, <2>1, Answers DEF RejectBatch, tables, Call
<1>4. CASE PushInfo(p)
  <2>1. PICK o \in Outcomes("push_info") :
          (info' = IF o = "refused" THEN info ELSE p.id) /\ Answer(p, o, "return")
    BY <1>4 DEF PushInfo
  <2>2. p.call = "push_info" /\ o \in {"ok", "refused", "lost"}
    BY <1>4, <2>1 DEF PushInfo
  <2>3. o = "ok" => info' = p.id
    BY <2>1
  <2>4. QED
    BY <1>4, <2>1, <2>2, <2>3, Answers DEF PushInfo, tables, Succeeds
<1>5. CASE Load(p)
  <2>1. PICK o \in Outcomes("load") :
          (loaded' = IF o = "refused" THEN loaded ELSE loaded \cup {p.task}) /\ Answer(p, o, "return")
    BY <1>5 DEF Load
  <2>2. p.call = "load" /\ o \in {"ok", "refused", "lost"}
    BY <1>5, <2>1 DEF Load
  <2>3. loaded \subseteq loaded' /\ (o = "ok" => p.task \in loaded')
    BY <2>1
  <2>4. QED
    BY <1>5, <2>1, <2>2, <2>3, Answers DEF Load, Succeeds
<1>6. CASE RefuseQuality(p)
  <2>1. DOMAIN state = Task
    BY DEF TypeOK
  <2>2. QED
    BY <1>0, <1>6, <2>1 DEF RefuseQuality, tables, End, Ends
<1>7. CASE CompleteBatch(p)
  <2>1. PICK o \in Outcomes("complete_batch") : Answer(p, o, "complete_run")
    BY <1>7 DEF CompleteBatch
  <2>2. p.task = "complete_success"
    BY <1>0, <1>7, CallsOfTasks DEF CompleteBatch, Task
  <2>3. "complete_run" \in TaskCalls(p.task) /\ "complete_run" \in Call
    BY <2>2, CallsOfTasks DEF Call
  <2>4. QED
    BY <1>7, <2>1, <2>3, AnswersMidway DEF CompleteBatch
<1>8. CASE CompleteRun(p)
  <2>1. PICK o \in Outcomes("complete_run") :
          /\ runs' = IF o = "refused" THEN runs ELSE [runs EXCEPT ![p.id] = "SUCCESS"]
          /\ Answer(p, o, "return")
    BY <1>8 DEF CompleteRun
  <2>2. p.call = "complete_run" /\ o \in {"ok", "refused", "lost"}
    BY <1>8, <2>1 DEF CompleteRun
  <2>3. p.id \in DOMAIN runs
    BY <2>2 DEF TypeOK, Process
  <2>4. o = "ok" => runs'[p.id] = "SUCCESS"
    BY <2>1, <2>3
  <2>5. QED
    BY <1>8, <2>1, <2>2, <2>4, Answers DEF CompleteRun, Succeeds
<1>9. CASE FailBatch(p)
  <2>1. PICK o \in Outcomes("fail_batch") : Answer(p, o, "fail_run")
    BY <1>9 DEF FailBatch, AfterFailBatch
  <2>2. p.task = "complete_failure"
    BY <1>0, <1>9, CallsOfTasks DEF FailBatch, Task
  <2>3. "fail_run" \in TaskCalls(p.task) /\ "fail_run" \in Call
    BY <2>2, CallsOfTasks DEF Call
  <2>4. QED
    BY <1>9, <2>1, <2>3, AnswersMidway DEF FailBatch
<1>10. CASE FailRun(p)
  <2>1. PICK o \in Outcomes("fail_run") : Answer(p, o, "alert")
    BY <1>10 DEF FailRun
  <2>2. p.task = "complete_failure"
    BY <1>0, <1>10, CallsOfTasks DEF FailRun, Task
  <2>3. "alert" \in TaskCalls(p.task) /\ "alert" \in Call
    BY <2>2, CallsOfTasks DEF Call
  <2>4. QED
    BY <1>10, <2>1, <2>3, AnswersMidway DEF FailRun
<1>11. CASE Alert(p)
  <2>1. p.call = "alert" /\ p.gen \in alerted'
    BY <1>11 DEF Alert
  <2>2. QED
    BY <1>11, <2>1 DEF Alert, tables, End, Ends, Succeeds
<1>12. QED
  BY <1>1, <1>2, <1>3, <1>4, <1>5, <1>6, <1>7, <1>8, <1>9, <1>10, <1>11 DEF Step
-----------------------------------------------------------------------------
(***************************************************************************)
(* AirflowInv is an invariant.                                             *)
(***************************************************************************)
LEMMA InitAirflow == Init => AirflowInv
<1> SUFFICES ASSUME Init PROVE AirflowInv
  OBVIOUS
<1>1. TypeOK
  BY OneTry, DagAssumption DEF Init, TypeOK, Run, RowStatus
<1>2. QED
  BY <1>1 DEF Init, AirflowInv, ProcessesKnown, TriesMatch, TasksInOrder, InfoKnown, Task

\* What is known of a task that starts: it has tries left, and those in front of it
\* have ended as its rule asks.
LEMMA Starts ==
  ASSUME AirflowInv, NEW t \in Task, StartTry(t)
  PROVE  /\ tries[t] < MaxTries(t)
         /\ t \in {"prepare_run", "complete_success", "complete_failure"} =>
              tries[t] = 0 /\ state[t] = "none"
         /\ t # "prepare_run" =>
              state["prepare_run"] \in {"success", "failed"} /\ tries["prepare_run"] = 1
         /\ t \in {"bronze", "silver", "complete_success"} =>
              state["prepare_run"] = "success" /\ info # 0
         /\ t \in {"silver", "complete_success"} => state["bronze"] = "success"
         /\ t = "complete_success" =>
              state["silver"] = "success" /\ tries["complete_failure"] = 0
         /\ t = "complete_failure" =>
              /\ Failed("prepare_run") \/ Failed("bronze") \/ Failed("silver")
              /\ tries["complete_success"] = 0
<1> USE DEF AirflowInv
<1>1. \A u \in Task : tries[u] \in Nat /\ MaxTries(u) \in Nat \ {0} /\ tries[u] <= MaxTries(u)
  BY OneTry DEF TypeOK
<1>2. tries[t] < MaxTries(t)
  BY <1>1 DEF StartTry, TriesMatch
<1>3. t \in {"prepare_run", "complete_success", "complete_failure"} => tries[t] = 0 /\ state[t] = "none"
  BY <1>1, <1>2, OneTry DEF StartTry, TriesMatch
<1>4. state[t] # "none" => tries[t] > 0
  BY <1>1 DEF StartTry, TriesMatch
<1>5. t = "bronze" => state["prepare_run"] = "success"
  BY <1>4, Wiring DEF StartTry, Ready, TasksInOrder, Task
<1>6. t = "silver" => state["bronze"] = "success"
  BY <1>4, Wiring DEF StartTry, Ready, TasksInOrder, Task
<1>7. t = "complete_success" => state["silver"] = "success"
  BY <1>4, Wiring DEF StartTry, Ready, TasksInOrder, Task
<1>8. t = "complete_failure" => Failed("prepare_run") \/ Failed("bronze") \/ Failed("silver")
  BY <1>4, Wiring DEF StartTry, Ready, TasksInOrder, Task
<1>9. \A u \in Task : state[u] = "success" => tries[u] > 0
  BY <1>1 DEF TriesMatch
<1>10. /\ state["silver"] = "success" => state["bronze"] = "success"
       /\ state["bronze"] = "success" => state["prepare_run"] = "success"
  BY <1>9 DEF TasksInOrder, Task
<1>11. t = "complete_failure" =>
         /\ state["prepare_run"] \in {"success", "failed"}
         /\ tries["complete_success"] = 0
  <2>1. t = "complete_failure" => state["prepare_run"] \in {"success", "failed"}
    BY <1>8 DEF Failed, TasksInOrder
  <2>2. t = "complete_failure" => ~(tries["complete_success"] > 0)
    BY <1>8, <1>10 DEF Failed, TasksInOrder
  <2>3. QED
    BY <1>1, <2>1, <2>2 DEF Task
<1>12. t = "complete_success" => tries["complete_failure"] = 0
  <2>1. t = "complete_success" => ~(tries["complete_failure"] > 0)
    BY <1>7, <1>10 DEF Failed, TasksInOrder
  <2>2. QED
    BY <1>1, <2>1 DEF Task
<1>13. t # "prepare_run" => state["prepare_run"] \in {"success", "failed"}
  BY <1>5, <1>6, <1>7, <1>10, <1>11 DEF Task
<1>14. t # "prepare_run" => tries["prepare_run"] = 1
  <2>1. t # "prepare_run" => tries["prepare_run"] # 0
    BY <1>13 DEF TriesMatch, Task
  <2>2. tries["prepare_run"] <= 1
    BY <1>1, OneTry DEF Task
  <2>3. QED
    BY <1>1, <2>1, <2>2 DEF Task
<1>15. t \in {"bronze", "silver", "complete_success"} => info # 0 /\ state["prepare_run"] = "success"
  BY <1>5, <1>6, <1>7, <1>10 DEF InfoKnown
<1>16. QED
  BY <1>2, <1>3, <1>6, <1>7, <1>8, <1>10, <1>11, <1>12, <1>13, <1>14, <1>15
LEMMA NewProcess ==
  ASSUME AirflowInv, NEW t \in Task, StartTry(t)
  PROVE  \E n \in Process :
           /\ procs' = procs \cup {n}
           /\ n.gen = run /\ n.task = t /\ n.try = tries[t] + 1
           /\ n.id = IF t = "prepare_run" THEN run ELSE info
           /\ n.call = FirstCall(t)
           /\ n.call \in TaskCalls(t)
           /\ n.call # "alert" => n.id # 0
<1> DEFINE n == [gen |-> run, task |-> t, try |-> tries[t] + 1, call |-> FirstCall(t),
                 id |-> IF t = "prepare_run" THEN run ELSE info]
<1>1. tries[t] + 1 \in Nat \ {0} /\ run \in Run /\ info \in {0} \cup Run /\ run # 0
  BY DagAssumption DEF AirflowInv, TypeOK, Run
<1>2. FirstCall(t) \in Call /\ FirstCall(t) \in TaskCalls(t)
  BY FirstCalls, CallsOfTasks DEF Task, Call
<1>3. n \in Process
  BY <1>1, <1>2 DEF Process
<1>4. FirstCall(t) # "alert" => n.id # 0
  <2>1. t = "complete_failure" => (FirstCall(t) # "alert" => info # 0)
    BY FirstCalls
  <2>2. t \in {"bronze", "silver", "complete_success"} => info # 0
    BY Starts
  <2>3. QED
    BY <1>1, <2>1, <2>2 DEF Task
<1>5. procs' = procs \cup {n}
  BY DEF StartTry
<1>6. QED
  BY <1>2, <1>3, <1>4, <1>5

\* The processes after a call.
LEMMA GoneOn ==
  ASSUME TypeOK, NEW p \in procs, NEW c, GoesOn(p, c)
  PROVE  /\ \A q \in procs' : \/ q \in procs /\ q # p
                              \/ /\ q = [p EXCEPT !.call = c]
                                 /\ q.gen = p.gen /\ q.task = p.task /\ q.try = p.try
                                 /\ q.id = p.id /\ q.call = c
         /\ state' = state
<1>1. p \in Process
  BY DEF TypeOK
<1>2. \A q : q = [p EXCEPT !.call = c] =>
        q.gen = p.gen /\ q.task = p.task /\ q.try = p.try /\ q.id = p.id /\ q.call = c
  BY <1>1 DEF Process
<1>3. QED
  BY <1>2 DEF GoesOn

LEMMA ProcessesAfterCall ==
  ASSUME TypeOK, ProcessesKnown, NEW p \in procs, Step(p), NEW q \in procs'
  PROVE  \/ q \in procs
         \/ /\ q.gen = p.gen /\ q.task = p.task /\ q.try = p.try /\ q.id = p.id
            /\ q.call \in TaskCalls(p.task)
            /\ q.call # "alert" => q.id # 0
            /\ q \in Process
<1>1. CASE Ends(p)
  BY <1>1 DEF Ends
<1>2. ASSUME NEW c \in TaskCalls(p.task), GoesOn(p, c)
      PROVE  \/ q \in procs
             \/ /\ q.gen = p.gen /\ q.task = p.task /\ q.try = p.try /\ q.id = p.id
                /\ q.call = c /\ q = [p EXCEPT !.call = c]
  BY <1>2, GoneOn
<1>3. p \in Process /\ p.task \in Task
  BY DEF TypeOK, Process
<1>4. \A c \in TaskCalls(p.task) : c \in Call
  BY <1>3, CallsOfTasks DEF Task, Call
<1>5. \A c \in Call : [p EXCEPT !.call = c] \in Process
  BY <1>3 DEF Process
<1>6. p.id = 0 => p.call = "alert"
  BY DEF TypeOK
<1>7. p.call = "alert" => Ends(p)
  <2>1. p.call = "alert" => Alert(p)
    BY DEF Step, StartRun, ClaimBatch, RejectBatch, PushInfo, Load, RefuseQuality,
           CompleteBatch, CompleteRun, FailBatch, FailRun
  <2>2. Alert(p) => Ends(p)
    BY DEF Alert, End, Ends
  <2>3. QED
    BY <2>1, <2>2
<1>8. QED
  BY <1>1, <1>2, <1>4, <1>5, <1>6, <1>7, StepShape

\* How a state may change in a call: only the stepping process's task.
LEMMA StateAfterCall ==
  ASSUME TypeOK, ProcessesKnown, NEW p \in procs, Step(p)
  PROVE  \/ state' = state
         \/ /\ IsCurrent(p) /\ state[p.task] = "running" /\ p.task \in Task
            /\ \E s \in {"success", "failed", "up_for_retry"} :
                 /\ state' = [state EXCEPT ![p.task] = s]
                 /\ s = "up_for_retry" => tries[p.task] < MaxTries(p.task)
                 /\ s = "success" => Succeeds(p)
<1>1. p.task \in Task /\ DOMAIN state = Task
  BY DEF TypeOK, Process
<1>2. CASE Ends(p) /\ state' # state
  <2>1. PICK s \in {"success", "failed", "up_for_retry"} :
          /\ state' = [state EXCEPT ![p.task] = s]
          /\ s = "up_for_retry" => tries[p.task] < MaxTries(p.task)
    BY <1>2 DEF Ends
  <2>2. IsCurrent(p) /\ state[p.task] = "running"
    BY <1>2 DEF Ends, IsCurrent
  <2>3. state'[p.task] = s
    BY <1>1, <2>1
  <2>4. s = "success" => Succeeds(p)
    BY <1>2, <2>3, StepShape
  <2>5. QED
    BY <1>1, <2>1, <2>2, <2>4
<1>3. QED
  BY <1>2, StepShape DEF GoesOn
\* The columns after a call.
LEMMA TablesTyped ==
  ASSUME TypeOK, ProcessesKnown, NEW p \in procs, Step(p)
  PROVE  /\ batch' \in RowStatus /\ runs' \in [Run -> RowStatus]
         /\ loaded' \subseteq {"bronze", "silver"} /\ alerted' \subseteq Run
<1>1. p \in Process /\ p.gen \in Run /\ p.task \in Task
  BY DEF TypeOK, Process
<1>2. p.call = "load" => p.task \in {"bronze", "silver"}
  BY <1>1, CallsOfTasks DEF ProcessesKnown, Task
<1>3. /\ batch \in RowStatus /\ runs \in [Run -> RowStatus]
      /\ loaded \subseteq {"bronze", "silver"} /\ alerted \subseteq Run
  BY DEF TypeOK
<1>4. CASE StartRun(p) \/ CompleteRun(p) \/ FailRun(p)
  BY <1>3, <1>4 DEF StartRun, CompleteRun, FailRun, RowStatus
<1>5. CASE ClaimBatch(p) \/ CompleteBatch(p) \/ FailBatch(p)
  BY <1>3, <1>5 DEF ClaimBatch, CompleteBatch, FailBatch, RowStatus
<1>6. CASE RejectBatch(p) \/ PushInfo(p) \/ RefuseQuality(p)
  BY <1>3, <1>6 DEF RejectBatch, PushInfo, RefuseQuality, tables
<1>7. CASE Load(p) \/ Alert(p)
  BY <1>1, <1>2, <1>3, <1>7 DEF Load, Alert, tables
<1>8. QED
  BY <1>4, <1>5, <1>6, <1>7 DEF Step

LEMMA NextTypeOK == AirflowInv /\ [Next]_vars => TypeOK'
<1> SUFFICES ASSUME AirflowInv, [Next]_vars PROVE TypeOK'
  OBVIOUS
<1> USE DEF AirflowInv
<1>0. \A t \in Task : tries[t] \in Nat /\ MaxTries(t) \in Nat \ {0}
  BY OneTry DEF TypeOK
<1>1. ASSUME NEW t \in Task, StartTry(t) PROVE TypeOK'
  <2>1. tries' \in [Task -> Nat] /\ \A u \in Task : tries'[u] <= MaxTries(u)
    <3>1. tries' = [tries EXCEPT ![t] = tries[t] + 1] /\ tries[t] < MaxTries(t)
      BY <1>1, Starts DEF StartTry
    <3>2. tries \in [Task -> Nat] /\ \A u \in Task : tries[u] <= MaxTries(u)
      BY DEF TypeOK
    <3>3. QED
      BY <1>0, <3>1, <3>2
  <2>2. procs' \subseteq Process /\ \A q \in procs' : q.call # "alert" => q.id # 0
    BY <1>1, NewProcess DEF TypeOK
  <2>3. info' \in {0} \cup Run
    BY <1>1 DEF StartTry, TypeOK
  <2>4. QED
    BY <1>1, <2>1, <2>2, <2>3 DEF StartTry, TypeOK, tables
<1>2. ASSUME NEW t \in Task, PassOver(t) PROVE TypeOK'
  BY <1>2 DEF PassOver, TypeOK, tables, Done
<1>3. ASSUME NEW t \in Task, Lose(t) PROVE TypeOK'
  <2>1. AfterFailure(t) \in {"up_for_retry", "failed"}
    BY DEF AfterFailure
  <2>2. QED
    BY <1>3, <2>1 DEF Lose, TypeOK, tables, Done
<1>4. ASSUME NEW p \in procs, Step(p) PROVE TypeOK'
  <2>1. state' \in [Task -> Done \cup {"none", "running", "up_for_retry"}]
    BY <1>4, StateAfterCall DEF TypeOK, Done
  <2>2. procs' \subseteq Process /\ \A q \in procs' : q.call # "alert" => q.id # 0
    BY <1>4, ProcessesAfterCall DEF TypeOK
  <2>3. info' \in {0} \cup Run
    BY <1>4, StepShape DEF TypeOK, Process
  <2>4. QED
    BY <1>4, <2>1, <2>2, <2>3, StepShape, TablesTyped DEF TypeOK
<1>5. ASSUME NEW p \in procs, Die(p) PROVE TypeOK'
  BY <1>5 DEF Die, TypeOK, tables
<1>6. CASE Rerun
  <2>1. run' \in Run
    BY <1>6, DagAssumption DEF Rerun, TypeOK, Run
  <2>2. \A t \in Task : 0 <= MaxTries(t)
    BY <1>0
  <2>3. QED
    BY <1>6, <2>1, <2>2 DEF Rerun, TypeOK, tables
<1>7. CASE UNCHANGED vars
  BY <1>7 DEF vars, tables, TypeOK
<1>8. QED
  BY <1>1, <1>2, <1>3, <1>4, <1>5, <1>6, <1>7 DEF Next

LEMMA NextProcessesKnown == AirflowInv /\ [Next]_vars => ProcessesKnown'
<1> SUFFICES ASSUME AirflowInv, [Next]_vars PROVE ProcessesKnown'
  OBVIOUS
<1> USE DEF AirflowInv
<1>0. /\ \A t \in Task : tries[t] \in Nat
      /\ run \in Nat /\ \A q \in procs : q.gen \in Nat /\ q.task \in Task /\ q.try \in Nat
  BY DEF TypeOK, Process, Run
<1>1. ASSUME NEW t \in Task, StartTry(t) PROVE ProcessesKnown'
  <2>1. PICK n \in Process :
          /\ procs' = procs \cup {n}
          /\ n.gen = run /\ n.task = t /\ n.try = tries[t] + 1 /\ n.call \in TaskCalls(t)
          /\ n.id = IF t = "prepare_run" THEN run ELSE info
    BY <1>1, NewProcess
  <2>2. /\ run' = run
        /\ tries'[t] = tries[t] + 1 /\ \A u \in Task : tries'[u] >= tries[u]
    BY <1>0, <1>1 DEF StartTry, TypeOK
  <2>3. \A q \in procs : q.gen = run => q.try <= tries'[q.task]
    <3>1. \A q \in procs : q.gen = run => q.try <= tries[q.task]
      BY DEF ProcessesKnown
    <3>2. \A u \in Task : tries'[u] \in Nat
      BY <1>0, <1>1 DEF StartTry, TypeOK
    <3>3. QED
      BY <1>0, <2>2, <3>1, <3>2
  <2>4. QED
    BY <1>0, <2>1, <2>2, <2>3 DEF ProcessesKnown
<1>2. ASSUME NEW t \in Task, PassOver(t) \/ Lose(t) PROVE ProcessesKnown'
  BY <1>2 DEF PassOver, Lose, ProcessesKnown
<1>3. ASSUME NEW p \in procs, Step(p) PROVE ProcessesKnown'
  <2>1. run' = run /\ tries' = tries
    BY <1>3, StepShape
  <2>2. QED
    BY <1>3, <2>1, ProcessesAfterCall DEF ProcessesKnown
<1>4. ASSUME NEW p \in procs, Die(p) PROVE ProcessesKnown'
  BY <1>4 DEF Die, ProcessesKnown
<1>5. CASE Rerun
  <2>1. procs' = procs /\ run' = run + 1
    BY <1>5 DEF Rerun
  <2>2. QED
    BY <1>0, <2>1 DEF ProcessesKnown
<1>6. CASE UNCHANGED vars
  BY <1>6 DEF vars, ProcessesKnown
<1>7. QED
  BY <1>1, <1>2, <1>3, <1>4, <1>5, <1>6 DEF Next

LEMMA NextTriesMatch == AirflowInv /\ [Next]_vars => TriesMatch'
<1> SUFFICES ASSUME AirflowInv, [Next]_vars PROVE TriesMatch'
  OBVIOUS
<1> USE DEF AirflowInv
<1>0. /\ \A t \in Task : tries[t] \in Nat /\ MaxTries(t) \in Nat \ {0}
      /\ DOMAIN state = Task /\ DOMAIN tries = Task
  BY OneTry DEF TypeOK
<1>1. ASSUME NEW t \in Task, StartTry(t) PROVE TriesMatch'
  BY <1>0, <1>1 DEF StartTry, TriesMatch
<1>2. ASSUME NEW t \in Task, PassOver(t) PROVE TriesMatch'
  BY <1>0, <1>2 DEF PassOver, TriesMatch
<1>3. ASSUME NEW t \in Task, Lose(t) PROVE TriesMatch'
  BY <1>0, <1>3 DEF Lose, AfterFailure, TriesMatch
<1>4. ASSUME NEW p \in procs, Step(p) PROVE TriesMatch'
  <2>1. tries' = tries
    BY <1>4, StepShape
  <2>2. QED
    BY <1>0, <1>4, <2>1, StateAfterCall DEF TriesMatch
<1>5. ASSUME NEW p \in procs, Die(p) PROVE TriesMatch'
  BY <1>5 DEF Die, TriesMatch
<1>6. CASE Rerun
  BY <1>6 DEF Rerun, TriesMatch
<1>7. CASE UNCHANGED vars
  BY <1>7 DEF vars, TriesMatch
<1>8. QED
  BY <1>1, <1>2, <1>3, <1>4, <1>5, <1>6, <1>7 DEF Next
LEMMA NextTasksInOrder == AirflowInv /\ [Next]_vars => TasksInOrder'
<1> SUFFICES ASSUME AirflowInv, [Next]_vars PROVE TasksInOrder'
  OBVIOUS
<1> USE DEF AirflowInv
<1>0. /\ \A t \in Task : tries[t] \in Nat
      /\ DOMAIN state = Task /\ DOMAIN tries = Task
      /\ {"prepare_run", "bronze", "silver", "complete_success", "complete_failure"} = Task
  BY DEF TypeOK, Task
<1>1. ASSUME NEW t \in Task, StartTry(t) PROVE TasksInOrder'
  <2>1. state' = [state EXCEPT ![t] = "running"] /\ tries' = [tries EXCEPT ![t] = tries[t] + 1]
    BY <1>1 DEF StartTry
  <2>2. state[t] \in {"none", "up_for_retry"}
    BY <1>1 DEF StartTry
  <2>3. CASE t = "prepare_run"
    <3>1. state[t] = "none"
      BY <1>1, <2>3, Starts
    <3>2. QED
      BY <1>0, <2>1, <2>3, <3>1 DEF TasksInOrder, Failed
  <2>4. CASE t = "bronze"
    BY <1>0, <1>1, <2>1, <2>2, <2>4, Starts DEF TasksInOrder, Failed
  <2>5. CASE t = "silver"
    BY <1>0, <1>1, <2>1, <2>2, <2>5, Starts DEF TasksInOrder, Failed
  <2>6. CASE t \in {"complete_success", "complete_failure"}
    BY <1>0, <1>1, <2>1, <2>2, <2>6, Starts DEF TasksInOrder, Failed
  <2>7. QED
    BY <2>3, <2>4, <2>5, <2>6 DEF Task
<1>2. ASSUME NEW t \in Task, PassOver(t) PROVE TasksInOrder'
  <2>1. state[t] = "none" /\ tries' = tries
    BY <1>2 DEF PassOver
  <2>2. t # "complete_failure" =>
          /\ \E u \in Upstream(t) : Failed(u)
          /\ state' = [state EXCEPT ![t] = "upstream_failed"]
    BY <1>2 DEF PassOver
  <2>3. CASE t \in {"prepare_run", "bronze", "silver"}
    BY <1>0, <2>1, <2>2, <2>3, Wiring DEF TasksInOrder, Failed
  <2>4. CASE t \in {"complete_success", "complete_failure"}
    BY <1>0, <1>2, <2>1, <2>4 DEF PassOver, TasksInOrder, Failed
  <2>5. QED
    BY <2>3, <2>4 DEF Task
<1>3. ASSUME NEW t \in Task, NEW s, s \in {"success", "failed", "up_for_retry"},
             state[t] = "running", state' = [state EXCEPT ![t] = s], tries' = tries,
             s = "up_for_retry" => tries[t] < MaxTries(t)
      PROVE  TasksInOrder'
  <2>1. tries[t] > 0
    BY <1>0, <1>3 DEF TriesMatch
  <2>2. t = "prepare_run" => s # "up_for_retry"
    BY <1>0, <1>3, <2>1, OneTry
  <2>3. QED
    BY <1>0, <1>3, <2>1, <2>2 DEF TasksInOrder, Failed
<1>4. ASSUME NEW t \in Task, Lose(t) PROVE TasksInOrder'
  <2>1. AfterFailure(t) \in {"failed", "up_for_retry"}
        /\ (AfterFailure(t) = "up_for_retry" => tries[t] < MaxTries(t))
    BY DEF AfterFailure
  <2>2. QED
    BY <1>3, <1>4, <2>1 DEF Lose
<1>5. ASSUME NEW p \in procs, Step(p) PROVE TasksInOrder'
  <2>1. tries' = tries
    BY <1>5, StepShape
  <2>2. CASE state' = state
    BY <2>1, <2>2 DEF TasksInOrder, Failed
  <2>3. QED
    BY <1>3, <1>5, <2>1, <2>2, StateAfterCall
<1>6. ASSUME NEW p \in procs, Die(p) PROVE TasksInOrder'
  BY <1>6 DEF Die, TasksInOrder, Failed
<1>7. CASE Rerun
  BY <1>0, <1>7 DEF Rerun, TasksInOrder, Failed
<1>8. CASE UNCHANGED vars
  BY <1>8 DEF vars, TasksInOrder, Failed
<1>9. QED
  BY <1>1, <1>2, <1>4, <1>5, <1>6, <1>7, <1>8 DEF Next

LEMMA NextInfoKnown == AirflowInv /\ [Next]_vars => InfoKnown'
<1> SUFFICES ASSUME AirflowInv, [Next]_vars PROVE InfoKnown'
  OBVIOUS
<1> USE DEF AirflowInv
<1>0. /\ run \in Nat /\ run # 0 /\ info \in Nat /\ DOMAIN state = Task
      /\ "prepare_run" \in Task
  BY DEF TypeOK, Run, Task
<1>1. ASSUME NEW t \in Task, StartTry(t) PROVE InfoKnown'
  BY <1>0, <1>1 DEF StartTry, InfoKnown
<1>2. ASSUME NEW t \in Task, PassOver(t) \/ Lose(t) PROVE InfoKnown'
  <2>1. AfterFailure(t) # "success"
    BY DEF AfterFailure
  <2>2. QED
    BY <1>0, <1>2, <2>1 DEF PassOver, Lose, InfoKnown
<1>3. ASSUME NEW p \in procs, Step(p) PROVE InfoKnown'
  <2>1. run' = run /\ (info' = info \/ (p.call = "push_info" /\ info' = p.id))
    BY <1>3, StepShape
  <2>2. p.call = "push_info" => p.task = "prepare_run" /\ p.id = p.gen /\ p.gen <= run /\ p.id # 0
    <3>1. p.task \in Task
      BY DEF TypeOK, Process
    <3>2. p.call = "push_info" => p.task = "prepare_run"
      BY <3>1, CallsOfTasks DEF ProcessesKnown, Task
    <3>3. QED
      BY <3>2 DEF ProcessesKnown, TypeOK
  <2>3. state'["prepare_run"] = "success" => state["prepare_run"] = "success" \/ info' # 0
    <3>1. CASE state' = state
      BY <3>1
    <3>2. CASE IsCurrent(p) /\ \E s \in {"success", "failed", "up_for_retry"} :
                 /\ state' = [state EXCEPT ![p.task] = s]
                 /\ s = "success" => Succeeds(p)
      <4>1. p.task = "prepare_run" => p.call \in {"start_run", "claim", "push_info"}
        BY CallsOfTasks DEF ProcessesKnown
      <4>2. p.task = "prepare_run" /\ Succeeds(p) => p.call = "push_info" /\ info' = p.id
        BY <4>1 DEF Succeeds
      <4>3. QED
        BY <1>0, <2>2, <3>2, <4>2
    <3>3. QED
      BY <1>3, <3>1, <3>2, StateAfterCall
  <2>4. QED
    BY <1>0, <2>1, <2>2, <2>3 DEF InfoKnown
<1>4. ASSUME NEW p \in procs, Die(p) PROVE InfoKnown'
  BY <1>4 DEF Die, InfoKnown
<1>5. CASE Rerun
  BY <1>0, <1>5 DEF Rerun, InfoKnown
<1>6. CASE UNCHANGED vars
  BY <1>6 DEF vars, InfoKnown
<1>7. QED
  BY <1>1, <1>2, <1>3, <1>4, <1>5, <1>6 DEF Next

LEMMA AirflowInvariant == Spec => []AirflowInv
<1>1. AirflowInv /\ [Next]_vars => AirflowInv'
  BY NextTypeOK, NextProcessesKnown, NextTriesMatch, NextTasksInOrder, NextInfoKnown DEF AirflowInv
<1>2. QED
  BY <1>1, InitAirflow, PTL DEF Spec

\* Columns and task states have their values, no task is tried more often than its
\* retries allow, and whoever writes a run has the PipelineRunID to write.
THEOREM DagTypeCorrect == Spec => []TypeOK
<1>1. AirflowInv => TypeOK
  BY DEF AirflowInv
<1>2. QED
  BY <1>1, AirflowInvariant, PTL
-----------------------------------------------------------------------------
(***************************************************************************)
(* What each call does to the tables and to XCom.                          *)
(***************************************************************************)
SetsRun(p, status) == runs' = [runs EXCEPT ![p.id] = status]

CallEffect(p) ==
  /\ p.call = "start_run" =>
       /\ batch' = batch /\ info' = info
       /\ \/ runs' = runs /\ Ends(p)
          \/ SetsRun(p, "RUNNING") /\ (Ends(p) \/ GoesOn(p, "claim"))
  /\ p.call = "claim" =>
       /\ runs' = runs /\ info' = info
       /\ \/ batch' = batch /\ Ends(p)
          \/ Claimable(batch) /\ batch' = "RUNNING" /\ (Ends(p) \/ GoesOn(p, "push_info"))
  /\ p.call = "push_info" =>
       batch' = batch /\ runs' = runs /\ Ends(p) /\ info' \in {info, p.id}
  /\ p.call \in {"load", "alert"} =>
       batch' = batch /\ runs' = runs /\ Ends(p) /\ info' = info
  /\ p.call = "complete_batch" =>
       /\ runs' = runs /\ info' = info
       /\ \/ batch' = batch /\ Ends(p)
          \/ batch' = "SUCCESS" /\ (Ends(p) \/ GoesOn(p, "complete_run"))
  /\ p.call = "complete_run" =>
       batch' = batch /\ info' = info /\ Ends(p) /\ (runs' = runs \/ SetsRun(p, "SUCCESS"))
  /\ p.call = "fail_batch" =>
       /\ runs' = runs /\ info' = info
       /\ \/ batch' = batch /\ Ends(p)
          \/ batch' = "FAILED" /\ (Ends(p) \/ GoesOn(p, "fail_run"))
  /\ p.call = "fail_run" =>
       /\ batch' = batch /\ info' = info
       /\ \/ runs' = runs /\ Ends(p)
          \/ SetsRun(p, "FAILED") /\ (Ends(p) \/ GoesOn(p, "alert"))

LEMMA Effects ==
  ASSUME TypeOK, ProcessesKnown, NEW p \in procs, Step(p)
  PROVE  CallEffect(p) /\ alerted \subseteq alerted' /\ p.call \in Call
<1>0. p.task \in Task /\ DOMAIN state = Task
  BY DEF TypeOK, Process
<1>1. \A s \in {"failed", AfterFailure(p.task)} : End(p, s) => Ends(p)
  BY <1>0 DEF End, Ends, AfterFailure
<1>2. CASE StartRun(p)
  <2>1. PICK o \in Outcomes("start_run") :
          /\ runs' = IF o = "refused" THEN runs ELSE [runs EXCEPT ![p.id] = "RUNNING"]
          /\ Answer(p, o, "claim")
    BY <1>2 DEF StartRun
  <2>2. o \in {"ok", "refused", "lost"} /\ "claim" \in Call
    BY DEF Outcomes, Call
  <2>3. (o = "ok" /\ GoesOn(p, "claim")) \/ (Ends(p) /\ o # "ok")
    BY <2>1, <2>2, Answers
  <2>4. QED
    BY <1>2, <2>1, <2>3 DEF StartRun, CallEffect, SetsRun, Call
<1>3. CASE ClaimBatch(p)
  <2>1. PICK o \in Outcomes("claim") :
          /\ batch' = IF o = "refused" THEN batch ELSE "RUNNING"
          /\ Answer(p, o, "push_info")
    BY <1>3 DEF ClaimBatch
  <2>2. o \in {"ok", "refused", "lost"} /\ "push_info" \in Call
    BY DEF Outcomes, Call
  <2>3. (o = "ok" /\ GoesOn(p, "push_info")) \/ (Ends(p) /\ o # "ok")
    BY <2>1, <2>2, Answers
  <2>4. QED
    BY <1>3, <2>1, <2>3 DEF ClaimBatch, CallEffect, Call
<1>4. CASE RejectBatch(p)
  BY <1>1, <1>4 DEF RejectBatch, tables, CallEffect, Call
<1>5. CASE PushInfo(p)
  <2>1. PICK o \in Outcomes("push_info") :
          /\ info' = IF o = "refused" THEN info ELSE p.id
          /\ Answer(p, o, "return")
    BY <1>5 DEF PushInfo
  <2>2. o \in {"ok", "refused", "lost"}
    BY DEF Outcomes
  <2>3. Ends(p)
    BY <2>1, <2>2, Answers
  <2>4. QED
    BY <1>5, <2>1, <2>3 DEF PushInfo, tables, CallEffect, Call
<1>6. CASE Load(p)
  <2>1. PICK o \in Outcomes("load") : Answer(p, o, "return")
    BY <1>6 DEF Load
  <2>2. o \in {"ok", "refused", "lost"}
    BY DEF Outcomes
  <2>3. QED
    BY <1>6, <2>1, <2>2, Answers DEF Load, CallEffect, Call
<1>7. CASE RefuseQuality(p)
  BY <1>1, <1>7 DEF RefuseQuality, tables, CallEffect, Call
<1>8. CASE CompleteBatch(p)
  <2>1. PICK o \in Outcomes("complete_batch") :
          /\ batch' = IF o = "refused" THEN batch ELSE "SUCCESS"
          /\ Answer(p, o, "complete_run")
    BY <1>8 DEF CompleteBatch
  <2>2. o \in {"ok", "refused", "lost"} /\ "complete_run" \in Call
    BY DEF Outcomes, Call
  <2>3. (o = "ok" /\ GoesOn(p, "complete_run")) \/ (Ends(p) /\ o # "ok")
    BY <2>1, <2>2, Answers
  <2>4. QED
    BY <1>8, <2>1, <2>3 DEF CompleteBatch, CallEffect, Call
<1>9. CASE CompleteRun(p)
  <2>1. PICK o \in Outcomes("complete_run") :
          /\ runs' = IF o = "refused" THEN runs ELSE [runs EXCEPT ![p.id] = "SUCCESS"]
          /\ Answer(p, o, "return")
    BY <1>9 DEF CompleteRun
  <2>2. o \in {"ok", "refused", "lost"}
    BY DEF Outcomes
  <2>3. Ends(p)
    BY <2>1, <2>2, Answers
  <2>4. QED
    BY <1>9, <2>1, <2>3 DEF CompleteRun, CallEffect, SetsRun, Call
<1>10. CASE FailBatch(p)
  <2>1. PICK o \in Outcomes("fail_batch") :
          /\ batch' = IF o = "refused" THEN batch ELSE "FAILED"
          /\ Answer(p, o, "fail_run")
    BY <1>10 DEF FailBatch, AfterFailBatch
  <2>2. o \in {"ok", "refused", "lost"} /\ "fail_run" \in Call
    BY DEF Outcomes, Call
  <2>3. (o = "ok" /\ GoesOn(p, "fail_run")) \/ (Ends(p) /\ o # "ok")
    BY <2>1, <2>2, Answers
  <2>4. QED
    BY <1>10, <2>1, <2>3 DEF FailBatch, CallEffect, Call
<1>11. CASE FailRun(p)
  <2>1. PICK o \in Outcomes("fail_run") :
          /\ runs' = IF o = "refused" THEN runs ELSE [runs EXCEPT ![p.id] = "FAILED"]
          /\ Answer(p, o, "alert")
    BY <1>11 DEF FailRun
  <2>2. o \in {"ok", "refused", "lost"} /\ "alert" \in Call
    BY DEF Outcomes, Call
  <2>3. (o = "ok" /\ GoesOn(p, "alert")) \/ (Ends(p) /\ o # "ok")
    BY <2>1, <2>2, Answers
  <2>4. QED
    BY <1>11, <2>1, <2>3 DEF FailRun, CallEffect, SetsRun, Call
<1>12. CASE Alert(p)
  <2>1. Ends(p)
    BY <1>12 DEF Alert, End, Ends
  <2>2. QED
    BY <1>12, <2>1 DEF Alert, tables, CallEffect, Call
<1>13. QED
  BY <1>2, <1>3, <1>4, <1>5, <1>6, <1>7, <1>8, <1>9, <1>10, <1>11, <1>12 DEF Step

-----------------------------------------------------------------------------
(***************************************************************************)
(* A SUCCESS batch is loaded.                                              *)
(***************************************************************************)
LoadInv == AirflowInv /\ LoadedByTask /\ SuccessMeansLoaded

LEMMA NextLoadInv == LoadInv /\ [Next]_vars => LoadInv'
<1> SUFFICES ASSUME LoadInv, [Next]_vars PROVE LoadInv'
  OBVIOUS
<1>0. /\ AirflowInv /\ TypeOK /\ ProcessesKnown
      /\ DOMAIN state = Task /\ {"bronze", "silver"} \subseteq Task
      /\ loaded \subseteq {"bronze", "silver"}
  BY DEF LoadInv, AirflowInv, TypeOK, Task
<1>1. AirflowInv'
  BY <1>0, NextTypeOK, NextProcessesKnown, NextTriesMatch, NextTasksInOrder, NextInfoKnown DEF AirflowInv
<1> SUFFICES LoadedByTask' /\ SuccessMeansLoaded'
  BY <1>1 DEF LoadInv
<1> USE DEF LoadInv, LoadedByTask, SuccessMeansLoaded
<1>2. ASSUME NEW t \in Task, StartTry(t) PROVE LoadedByTask' /\ SuccessMeansLoaded'
  <2>1. PICK n \in Process : procs' = procs \cup {n} /\ n.task = t
    BY <1>0, <1>2, NewProcess
  <2>2. t = "complete_success" => loaded = {"bronze", "silver"}
    BY <1>0, <1>2, Starts
  <2>3. QED
    BY <1>0, <1>2, <2>1, <2>2 DEF StartTry, tables
<1>3. ASSUME NEW t \in Task, PassOver(t) PROVE LoadedByTask' /\ SuccessMeansLoaded'
  BY <1>0, <1>3 DEF PassOver, tables
<1>4. ASSUME NEW t \in Task, Lose(t) PROVE LoadedByTask' /\ SuccessMeansLoaded'
  BY <1>0, <1>4 DEF Lose, AfterFailure, tables
<1>5. ASSUME NEW p \in procs, Step(p) PROVE LoadedByTask' /\ SuccessMeansLoaded'
  <2>1. loaded \subseteq loaded' /\ loaded' \subseteq {"bronze", "silver"}
    BY <1>0, <1>5, StepShape, TablesTyped
  <2>2. loaded = {"bronze", "silver"} => loaded' = {"bronze", "silver"}
    BY <2>1
  <2>3. \A q \in procs' : q \in procs \/ q.task = p.task
    BY <1>0, <1>5, ProcessesAfterCall
  <2>4. \A q \in procs' : q.task = "complete_success" => loaded' = {"bronze", "silver"}
    BY <2>2, <2>3
  <2>5. \A t \in {"bronze", "silver"} : state'[t] = "success" => t \in loaded'
    <3>1. p.task \in {"bronze", "silver"} => p.call = "load"
      BY <1>0, CallsOfTasks DEF ProcessesKnown
    <3>2. p.task \in {"bronze", "silver"} /\ Succeeds(p) => p.task \in loaded'
      BY <3>1 DEF Succeeds
    <3>3. QED
      BY <1>0, <1>5, <2>1, <3>2, StateAfterCall
  <2>6. batch' = "SUCCESS" => batch = "SUCCESS" \/ p.call = "complete_batch"
    BY <1>0, <1>5, Effects DEF CallEffect, Call
  <2>7. p.call = "complete_batch" => p.task = "complete_success"
    BY <1>0, CallsOfTasks DEF ProcessesKnown, TypeOK, Process, Task
  <2>8. QED
    BY <2>2, <2>4, <2>5, <2>6, <2>7
<1>6. ASSUME NEW p \in procs, Die(p) PROVE LoadedByTask' /\ SuccessMeansLoaded'
  BY <1>6 DEF Die, tables
<1>7. CASE Rerun
  BY <1>0, <1>7 DEF Rerun, tables
<1>8. CASE UNCHANGED vars
  BY <1>8 DEF vars, tables
<1>9. QED
  BY <1>2, <1>3, <1>4, <1>5, <1>6, <1>7, <1>8 DEF Next

\* The DAG's batch is SUCCESS only when both layers are loaded, whichever tries,
\* stray processes and executions did it.
THEOREM SuccessIsLoaded == Spec => []SuccessMeansLoaded
<1>1. Init => LoadInv
  BY InitAirflow DEF Init, LoadInv, LoadedByTask, SuccessMeansLoaded, Task
<1>2. LoadInv => SuccessMeansLoaded
  BY DEF LoadInv
<1>3. QED
  BY <1>1, <1>2, NextLoadInv, PTL DEF Spec
-----------------------------------------------------------------------------
(***************************************************************************)
(* RightsInv is an invariant.                                              *)
(***************************************************************************)
LEMMA InitRights == Init => RightsInv
<1> SUFFICES ASSUME Init PROVE RightsInv
  OBVIOUS
<1>1. \A r \in Run : ~Waiting(r)
  BY DEF Init, Waiting, Run, Task
<1>2. \A r \in Run : r # 0
  BY DagAssumption DEF Run
<1>3. QED
  BY <1>1, <1>2, InitAirflow DEF Init, RightsInv, OneOwner, OwnedRun, OneReporter

\* A completion task that is to write finds the right waiting in XCom.
LEMMA CompletionFindsRight ==
  ASSUME AirflowInv, NEW t \in {"complete_success", "complete_failure"}, StartTry(t), info # 0
  PROVE  info \in Run /\ Waiting(info)
<1>1. t \in Task /\ info \in Run
  BY DEF AirflowInv, TypeOK, Task
<1>2. /\ tries["prepare_run"] = 1
      /\ tries["complete_success"] = 0 /\ tries["complete_failure"] = 0
  BY <1>1, Starts
<1>3. QED
  BY <1>1, <1>2 DEF Waiting

LEMMA StartRights ==
  ASSUME RightsInv, NEW t \in Task, StartTry(t)
  PROVE  OneOwner' /\ OwnedRun' /\ OneReporter'
<1>0. /\ AirflowInv /\ run \in Run /\ 0 \notin Run /\ info \in {0} \cup Run
      /\ tries \in [Task -> Nat] /\ \A r \in Run : r \in Nat
  BY DagAssumption DEF RightsInv, AirflowInv, TypeOK, Run
<1>1. PICK n \in Process :
        /\ procs' = procs \cup {n}
        /\ n.gen = run /\ n.task = t
        /\ n.id = IF t = "prepare_run" THEN run ELSE info
        /\ n.call = FirstCall(t)
        /\ n.call # "alert" => n.id # 0
  BY <1>0, NewProcess
<1>2. /\ run' = run /\ batch' = batch /\ runs' = runs
      /\ tries' = [tries EXCEPT ![t] = tries[t] + 1]
      /\ info' = IF t = "prepare_run" THEN 0 ELSE info
  BY DEF StartTry, tables
<1>3. CASE t = "prepare_run"
  <2>1. tries["prepare_run"] = 0 /\ n.id = run /\ n.call = "start_run"
    BY <1>0, <1>1, <1>3, Starts, FirstCalls
  <2>2. \A r \in Run : ~Waiting(r)'
    BY <1>0, <1>2, <1>3 DEF Waiting
  <2>3. Fresh(run) /\ runs[run] = "none" /\ \A p \in procs : p.id # run
    BY <1>0, <2>1 DEF RightsInv, OwnedRun, Fresh
  <2>4. \A r \in Run : Fresh(r)' => Fresh(r) /\ r # run
    <3>1. tries'["prepare_run"] = 1
      BY <1>0, <1>2, <1>3, <2>1
    <3>2. QED
      BY <1>0, <1>2, <3>1 DEF Fresh
  <2>5. OneOwner'
    <3>1. \A p \in procs' : Owner(p) => p.id \in Run
      BY <1>0, <1>1, <2>1 DEF Owner, AirflowInv, TypeOK, Process
    <3>2. QED
      BY <1>1, <2>1, <2>2, <2>3, <3>1 DEF RightsInv, OneOwner
  <2>6. OwnedRun'
    BY <1>0, <1>1, <1>2, <1>3, <2>1, <2>2, <2>3, <2>4 DEF RightsInv, OwnedRun
  <2>7. OneReporter'
    BY <1>1, <1>2, <2>1, <2>2 DEF RightsInv, OneReporter, Reporter
  <2>8. QED
    BY <2>5, <2>6, <2>7
<1>4. \A r \in Run : t # "prepare_run" => Fresh(r)' = Fresh(r)
  BY <1>0, <1>2 DEF Fresh, Task
<1>5. CASE t \in {"bronze", "silver"}
  <2>1. n.call = "load" /\ n.id = info /\ info' = info
    BY <1>1, <1>2, <1>5, FirstCalls
  <2>2. ~Owner(n) /\ ~Reporter(n)
    BY <1>1, <1>5, <2>1 DEF Owner, Reporter
  <2>3. \A r : Waiting(r)' = Waiting(r)
    BY <1>0, <1>2, <1>5 DEF Waiting, Task
  <2>4. OneOwner'
    BY <1>1, <2>2, <2>3 DEF RightsInv, OneOwner
  <2>5. OwnedRun'
    BY <1>1, <1>2, <1>4, <1>5, <2>1, <2>2, <2>3 DEF RightsInv, OwnedRun
  <2>6. OneReporter'
    BY <1>1, <1>2, <2>2, <2>3 DEF RightsInv, OneReporter
  <2>7. QED
    BY <2>4, <2>5, <2>6
<1>6. CASE t \in {"complete_success", "complete_failure"}
  <2>1. n.id = info /\ info' = info /\ n.call # "start_run"
    BY <1>1, <1>2, <1>6, FirstCalls
  <2>2. \A r : ~Waiting(r)'
    <3>1. tries[t] = 0 /\ tries'[t] = 1
      BY <1>0, <1>2, <1>6, Starts
    <3>2. QED
      BY <1>6, <3>1 DEF Waiting
  <2>3. Owner(n) \/ Reporter(n) => info # 0
    BY <1>1, <1>6, <2>1 DEF Owner, Reporter
  <2>4. info # 0 => info \in Run /\ Waiting(info)
    BY <1>0, <1>6, CompletionFindsRight
  <2>5. OneOwner'
    BY <1>1, <2>1, <2>2, <2>3, <2>4 DEF RightsInv, OneOwner
  <2>6. OwnedRun'
    BY <1>1, <1>2, <1>4, <1>6, <2>1, <2>2, <2>3, <2>4 DEF RightsInv, OwnedRun
  <2>7. OneReporter'
    BY <1>1, <1>2, <2>2, <2>3, <2>4 DEF RightsInv, OneReporter
  <2>8. QED
    BY <2>5, <2>6, <2>7
<1>7. QED
  BY <1>3, <1>5, <1>6 DEF Task
\* Whose row a call writes, and what becomes of its process: it stays an owner or a
\* reporter only along the order of its calls.
LEMMA CallSummary ==
  ASSUME AirflowInv, NEW p \in procs, Step(p)
  PROVE  /\ run' = run /\ tries' = tries
         /\ runs' # runs => Owner(p) /\ \A r \in Run : r # p.id => runs'[r] = runs[r]
         /\ info' # info => p.call = "push_info" /\ info' = p.id
         /\ batch' # batch =>
              \/ p.call = "claim" /\ Claimable(batch) /\ batch' = "RUNNING"
              \/ p.call = "complete_batch" /\ batch' = "SUCCESS"
              \/ p.call = "fail_batch" /\ batch' = "FAILED"
         /\ \A q \in procs' :
              \/ q \in procs /\ q # p
              \/ /\ q.id = p.id /\ q.task = p.task /\ q.gen = p.gen /\ q.try = p.try
                 /\ q = [p EXCEPT !.call = q.call]
                 /\ \/ /\ p.call = "start_run" /\ q.call = "claim"
                       /\ SetsRun(p, "RUNNING") /\ batch' = batch
                    \/ /\ p.call = "claim" /\ q.call = "push_info"
                       /\ runs' = runs /\ Claimable(batch) /\ batch' = "RUNNING"
                    \/ /\ p.call = "complete_batch" /\ q.call = "complete_run"
                       /\ runs' = runs /\ batch' = "SUCCESS"
                    \/ /\ p.call = "fail_batch" /\ q.call = "fail_run"
                       /\ runs' = runs /\ batch' = "FAILED"
                    \/ /\ p.call = "fail_run" /\ q.call = "alert"
                       /\ SetsRun(p, "FAILED") /\ batch' = batch
<1>0. TypeOK /\ ProcessesKnown /\ p \in Process /\ p.task \in Task
  BY DEF AirflowInv, TypeOK, Process
<1>1. run' = run /\ tries' = tries /\ CallEffect(p) /\ p.call \in Call
  BY <1>0, StepShape, Effects
<1>2. \A r \in Run, s \in RowStatus : SetsRun(p, s) /\ r # p.id => runs'[r] = runs[r]
  BY <1>0 DEF SetsRun, TypeOK
<1>3. p.call \in {"start_run", "complete_run", "fail_run"} => Owner(p)
  BY <1>0, CallsOfTasks DEF ProcessesKnown, Owner, Task
<1>4. runs' # runs => p.call \in {"start_run", "complete_run", "fail_run"}
                      /\ \E s \in RowStatus : SetsRun(p, s)
  BY <1>1 DEF CallEffect, Call, RowStatus
<1>5. info' # info => p.call = "push_info" /\ info' = p.id
  BY <1>1 DEF CallEffect, Call
<1>6. batch' # batch =>
              \/ p.call = "claim" /\ Claimable(batch) /\ batch' = "RUNNING"
              \/ p.call = "complete_batch" /\ batch' = "SUCCESS"
              \/ p.call = "fail_batch" /\ batch' = "FAILED"
  BY <1>1 DEF CallEffect, Call
<1>7. Ends(p) => \A q \in procs' : q \in procs /\ q # p
  BY DEF Ends
<1>8. ASSUME NEW q \in procs', ~(q \in procs /\ q # p)
      PROVE  /\ q.id = p.id /\ q.task = p.task /\ q.gen = p.gen /\ q.try = p.try
             /\ q = [p EXCEPT !.call = q.call]
             /\ \/ /\ p.call = "start_run" /\ q.call = "claim"
                   /\ SetsRun(p, "RUNNING") /\ batch' = batch
                \/ /\ p.call = "claim" /\ q.call = "push_info"
                   /\ runs' = runs /\ Claimable(batch) /\ batch' = "RUNNING"
                \/ /\ p.call = "complete_batch" /\ q.call = "complete_run"
                   /\ runs' = runs /\ batch' = "SUCCESS"
                \/ /\ p.call = "fail_batch" /\ q.call = "fail_run"
                   /\ runs' = runs /\ batch' = "FAILED"
                \/ /\ p.call = "fail_run" /\ q.call = "alert"
                   /\ SetsRun(p, "FAILED") /\ batch' = batch
  <2>1. \A c : GoesOn(p, c) =>
          /\ q = [p EXCEPT !.call = c] /\ q.call = c
          /\ q.id = p.id /\ q.task = p.task /\ q.gen = p.gen /\ q.try = p.try
    BY <1>0, <1>8, GoneOn
  <2>2. ~Ends(p)
    BY <1>7, <1>8
  <2>3. QED
    BY <1>1, <2>1, <2>2 DEF CallEffect, Call
<1>9. QED
  BY <1>1, <1>2, <1>3, <1>4, <1>5, <1>6, <1>8

LEMMA StepRights ==
  ASSUME RightsInv, NEW p \in procs, Step(p)
  PROVE  OneOwner' /\ OwnedRun' /\ OneReporter'
<1>0. /\ AirflowInv /\ 0 \notin Run /\ runs \in [Run -> RowStatus] /\ p \in Process
      /\ \A q \in procs : q.call # "alert" => q.id \in Run
  BY DagAssumption DEF RightsInv, AirflowInv, TypeOK, Run, Process
<1>1. /\ run' = run /\ tries' = tries
      /\ runs' # runs => Owner(p) /\ \A r \in Run : r # p.id => runs'[r] = runs[r]
      /\ info' # info => p.call = "push_info" /\ info' = p.id
      /\ batch' # batch =>
           \/ p.call = "claim" /\ Claimable(batch) /\ batch' = "RUNNING"
           \/ p.call = "complete_batch" /\ batch' = "SUCCESS"
           \/ p.call = "fail_batch" /\ batch' = "FAILED"
  BY <1>0, CallSummary
<1>2. \A q \in procs' :
        \/ q \in procs /\ q # p
        \/ /\ q.id = p.id /\ q.task = p.task
           /\ q = [p EXCEPT !.call = q.call]
           /\ \/ /\ p.call = "start_run" /\ q.call = "claim"
                 /\ SetsRun(p, "RUNNING") /\ batch' = batch
              \/ /\ p.call = "claim" /\ q.call = "push_info"
                 /\ runs' = runs /\ Claimable(batch) /\ batch' = "RUNNING"
              \/ /\ p.call = "complete_batch" /\ q.call = "complete_run"
                 /\ runs' = runs /\ batch' = "SUCCESS"
              \/ /\ p.call = "fail_batch" /\ q.call = "fail_run"
                 /\ runs' = runs /\ batch' = "FAILED"
              \/ /\ p.call = "fail_run" /\ q.call = "alert"
                 /\ SetsRun(p, "FAILED") /\ batch' = batch
  BY <1>0, CallSummary
<1>3. \A q \in procs' : ~(q \in procs /\ q # p) => q.id = p.id /\ (Owner(q) => Owner(p))
  BY <1>2 DEF Owner
<1>4. p.call = "push_info" => Owner(p) /\ Reporter(p) /\ p.id \in Run
  BY <1>0, CallsOfTasks DEF AirflowInv, TypeOK, ProcessesKnown, Process, Task, Owner, Reporter
<1>5. \A r : Waiting(r)' => Waiting(r) \/ (p.call = "push_info" /\ r = p.id)
  BY <1>1 DEF Waiting
<1>6. \A r : Fresh(r)' = Fresh(r)
  BY <1>1 DEF Fresh
<1>7. OneOwner'
  <2>1. \A q1, q2 \in procs' : Owner(q1) /\ Owner(q2) /\ q1.id = q2.id => q1 = q2
    <3>1. \A q1, q2 \in procs' : ~(q1 \in procs /\ q1 # p) /\ ~(q2 \in procs /\ q2 # p) => q1 = q2
      BY <1>2
    <3>2. \A q1, q2 \in procs : Owner(q1) /\ Owner(q2) /\ q1.id = q2.id => q1 = q2
      BY DEF RightsInv, OneOwner
    <3>3. QED
      BY <1>3, <3>1, <3>2
  <2>2. ASSUME NEW q \in procs', Owner(q) PROVE ~Waiting(q.id)'
    <3>1. CASE q \in procs /\ q # p
      <4>1. ~Waiting(q.id) /\ (Owner(p) => q.id # p.id)
        BY <2>2, <3>1 DEF RightsInv, OneOwner
      <4>2. QED
        BY <1>4, <1>5, <4>1
    <3>2. CASE ~(q \in procs /\ q # p)
      <4>1. q.id = p.id /\ Owner(p) /\ p.call # "push_info"
        BY <1>2, <1>3, <2>2, <3>2
      <4>2. ~Waiting(p.id)
        BY <4>1 DEF RightsInv, OneOwner
      <4>3. ~Waiting(p.id)'
        BY <1>5, <4>1, <4>2
      <4>4. QED
        BY <4>1, <4>3
    <3>3. QED
      BY <3>1, <3>2
  <2>3. QED
    BY <2>1, <2>2 DEF OneOwner
<1>8. OwnedRun'
  <2>1. ASSUME NEW q \in procs', Owner(q)
        PROVE  runs'[q.id] = IF q.call = "start_run" THEN "none" ELSE "RUNNING"
    <3>1. CASE q \in procs /\ q # p
      <4>1. runs[q.id] = IF q.call = "start_run" THEN "none" ELSE "RUNNING"
        BY <2>1, <3>1 DEF RightsInv, OwnedRun
      <4>2. Owner(p) => q.id # p.id
        BY <2>1, <3>1 DEF RightsInv, OneOwner
      <4>3. q.id \in Run
        BY <1>0, <2>1, <3>1 DEF Owner
      <4>4. QED
        BY <1>1, <4>1, <4>2, <4>3
    <3>2. CASE ~(q \in procs /\ q # p)
      <4>1. Owner(p) /\ q.id = p.id /\ p.id \in Run
        BY <1>0, <1>3, <2>1, <3>2 DEF Owner
      <4>2. runs[p.id] = IF p.call = "start_run" THEN "none" ELSE "RUNNING"
        BY <4>1 DEF RightsInv, OwnedRun
      <4>3. SetsRun(p, "RUNNING") => runs'[p.id] = "RUNNING"
        BY <1>0, <4>1 DEF SetsRun
      <4>4. q.call # "alert"
        BY <2>1 DEF Owner
      <4>5. QED
        BY <1>2, <3>2, <4>1, <4>2, <4>3, <4>4
    <3>3. QED
      BY <3>1, <3>2
  <2>2. ASSUME NEW r \in Run, Waiting(r)' PROVE runs'[r] = "RUNNING"
    <3>1. CASE Waiting(r)
      <4>1. runs[r] = "RUNNING" /\ (Owner(p) => r # p.id)
        BY <2>2, <3>1 DEF RightsInv, OwnedRun, OneOwner
      <4>2. QED
        BY <1>1, <4>1
    <3>2. CASE p.call = "push_info" /\ r = p.id
      <4>1. runs' = runs
        BY <1>0, <3>2, Effects DEF AirflowInv, CallEffect
      <4>2. QED
        BY <1>4, <3>2, <4>1 DEF RightsInv, OwnedRun
    <3>3. QED
      BY <1>5, <2>2, <3>1, <3>2
  <2>3. ASSUME NEW r \in Run, Fresh(r)'
        PROVE  runs'[r] = "none" /\ info' # r /\ \A q \in procs' : q.id # r
    <3>1. runs[r] = "none" /\ info # r /\ \A q \in procs : q.id # r
      BY <1>6, <2>3 DEF RightsInv, OwnedRun
    <3>2. QED
      BY <1>1, <1>3, <3>1
  <2>4. QED
    BY <2>1, <2>2, <2>3 DEF OwnedRun
<1>9. OneReporter'
  <2>1. \A q \in procs' : Reporter(q) =>
          \/ q \in procs /\ q # p
          \/ Claimable(batch) /\ batch' = "RUNNING" /\ p.call = "claim"
    BY <1>2 DEF Reporter
  <2>2. Claimable(batch) => /\ \A q \in procs : ~Reporter(q)
                            /\ \A r \in Run : ~Waiting(r)
    BY DEF RightsInv, OneReporter, Claimable
  <2>3. Reporter(p) => /\ batch = "RUNNING"
                       /\ \A q \in procs : Reporter(q) => q = p
                       /\ \A r \in Run : ~Waiting(r)
    BY DEF RightsInv, OneReporter
  <2>4. \A q1, q2 \in procs' : Reporter(q1) /\ Reporter(q2) => q1 = q2
    <3>1. CASE Claimable(batch)
      BY <1>2, <2>2, <3>1 DEF Reporter
    <3>2. CASE ~Claimable(batch)
      BY <2>1, <3>2 DEF RightsInv, OneReporter
    <3>3. QED
      BY <3>1, <3>2
  <2>5. batch' # batch => Reporter(p) \/ (Claimable(batch) /\ batch' = "RUNNING" /\ p.call = "claim")
    BY <1>1 DEF Reporter
  <2>6. ASSUME NEW q \in procs', Reporter(q)
        PROVE  batch' = "RUNNING" /\ \A r \in Run : ~Waiting(r)'
    <3>1. CASE q \in procs /\ q # p
      <4>1. batch = "RUNNING" /\ ~Reporter(p) /\ \A r \in Run : ~Waiting(r)
        BY <2>6, <3>1 DEF RightsInv, OneReporter
      <4>2. QED
        BY <1>4, <1>5, <2>5, <4>1
    <3>2. CASE Claimable(batch) /\ batch' = "RUNNING" /\ p.call = "claim"
      BY <1>5, <2>2, <3>2
    <3>3. QED
      BY <2>1, <2>6, <3>1, <3>2
  <2>7. ASSUME NEW r \in Run, Waiting(r)' PROVE batch' = "RUNNING"
    <3>1. CASE Waiting(r)
      <4>1. batch = "RUNNING" /\ ~Reporter(p)
        BY <3>1 DEF RightsInv, OneReporter
      <4>2. QED
        BY <2>5, <4>1
    <3>2. CASE p.call = "push_info"
      <4>1. batch = "RUNNING"
        BY <1>4, <2>3, <3>2
      <4>2. QED
        BY <1>1, <3>2, <4>1
    <3>3. QED
      BY <1>5, <2>7, <3>1, <3>2
  <2>8. QED
    BY <2>4, <2>6, <2>7 DEF OneReporter
<1>10. QED
  BY <1>7, <1>8, <1>9
LEMMA NextRights == RightsInv /\ [Next]_vars => RightsInv'
<1> SUFFICES ASSUME RightsInv, [Next]_vars PROVE RightsInv'
  OBVIOUS
<1>0. AirflowInv /\ run \in Nat
  BY DEF RightsInv, AirflowInv, TypeOK, Run
<1>1. AirflowInv'
  BY <1>0, NextTypeOK, NextProcessesKnown, NextTriesMatch, NextTasksInOrder, NextInfoKnown DEF AirflowInv
<1> SUFFICES OneOwner' /\ OwnedRun' /\ OneReporter'
  BY <1>1 DEF RightsInv
<1>2. ASSUME NEW t \in Task, PassOver(t) \/ Lose(t) PROVE OneOwner' /\ OwnedRun' /\ OneReporter'
  BY <1>2 DEF PassOver, Lose, tables, RightsInv, OneOwner, OwnedRun, OneReporter, Waiting, Fresh
<1>3. ASSUME NEW p \in procs, Die(p) PROVE OneOwner' /\ OwnedRun' /\ OneReporter'
  BY <1>3 DEF Die, tables, RightsInv, OneOwner, OwnedRun, OneReporter, Waiting, Fresh
<1>4. CASE Rerun
  <2>1. /\ procs' = procs /\ info' = info /\ batch' = batch /\ runs' = runs
        /\ run' = run + 1
    BY <1>4 DEF Rerun, tables
  <2>2. \A r : ~Waiting(r)'
    BY <1>4 DEF Rerun, Waiting, Task
  <2>3. \A r \in Run : r \in Nat
    BY DEF Run
  <2>4. \A r \in Run : Fresh(r)' => Fresh(r)
    BY <1>0, <2>1, <2>3 DEF Fresh
  <2>5. QED
    BY <2>1, <2>2, <2>4 DEF RightsInv, OneOwner, OwnedRun, OneReporter
<1>5. CASE UNCHANGED vars
  BY <1>5 DEF vars, tables, RightsInv, OneOwner, OwnedRun, OneReporter, Waiting, Fresh
<1>6. QED
  BY <1>2, <1>3, <1>4, <1>5, StartRights, StepRights DEF Next

LEMMA RightsInvariant == Spec => []RightsInv
BY InitRights, NextRights, PTL DEF Spec

Final ==
  /\ batch = "SUCCESS" => batch' = "SUCCESS"
  /\ \A r \in Run : runs[r] \in {"SUCCESS", "FAILED"} => runs'[r] = runs[r]

LEMMA StepFinal ==
  ASSUME RightsInv, NEW p \in procs, Step(p)
  PROVE  Final
<1>1. AirflowInv
  BY DEF RightsInv
<1>2. batch = "SUCCESS" => ~Claimable(batch) /\ ~Reporter(p)
  BY DEF Claimable, RightsInv, OneReporter
<1>3. batch = "SUCCESS" => batch' = batch
  BY <1>1, <1>2, CallSummary DEF Reporter
<1>4. Owner(p) => runs[p.id] \notin {"SUCCESS", "FAILED"}
  BY DEF RightsInv, OwnedRun
<1>5. QED
  BY <1>1, <1>3, <1>4, CallSummary DEF Final

\* No completion task and no stray process takes back what has been recorded of the
\* batch or of a run.
THEOREM OutcomesAreFinal == Spec => OutcomeIsFinal
<1>1. RightsInv /\ [Next]_vars => Final \/ UNCHANGED vars
  <2> SUFFICES ASSUME RightsInv, Next PROVE Final
    BY DEF vars
  <2>1. ASSUME NEW t \in Task, StartTry(t) \/ PassOver(t) \/ Lose(t) PROVE Final
    BY <2>1 DEF StartTry, PassOver, Lose, tables, Final
  <2>2. ASSUME NEW p \in procs, Die(p) PROVE Final
    BY <2>2 DEF Die, tables, Final
  <2>3. CASE Rerun
    BY <2>3 DEF Rerun, tables, Final
  <2>4. QED
    BY <2>1, <2>2, <2>3, StepFinal DEF Next
<1>2. QED
  BY <1>1, RightsInvariant, PTL DEF Spec, OutcomeIsFinal, Final

-----------------------------------------------------------------------------
(***************************************************************************)
(* A RUNNING batch has a RUNNING run.                                      *)
(***************************************************************************)
\* The processes at work on a row of the tables are owners.
LEMMA EndersOwn ==
  ASSUME AirflowInv, NEW p \in procs, p.call \in {"start_run", "claim", "complete_run", "fail_run"}
  PROVE  Owner(p) /\ p.id \in Run
BY CallsOfTasks, DagAssumption DEF AirflowInv, TypeOK, ProcessesKnown, Process, Task, Owner, Run

LEMMA NextClaimant == RightsInv /\ ClaimantRuns /\ [Next]_vars => ClaimantRuns'
<1> SUFFICES ASSUME RightsInv, ClaimantRuns, [Next]_vars PROVE ClaimantRuns'
  OBVIOUS
<1>0. AirflowInv /\ TypeOK /\ ProcessesKnown
  BY DEF RightsInv, AirflowInv
<1>1. ASSUME NEW t \in Task, StartTry(t) PROVE ClaimantRuns'
  <2>1. PICK n \in Process : procs' = procs \cup {n} /\ n.call = FirstCall(t)
    BY <1>0, <1>1, NewProcess
  <2>2. n.call \notin {"complete_run", "fail_run"}
    BY <2>1, FirstCalls DEF Task
  <2>3. batch' = batch /\ runs' = runs
    BY <1>1 DEF StartTry, tables
  <2>4. QED
    BY <2>1, <2>2, <2>3 DEF ClaimantRuns
<1>2. ASSUME NEW t \in Task, PassOver(t) \/ Lose(t) PROVE ClaimantRuns'
  BY <1>2 DEF PassOver, Lose, tables, ClaimantRuns
<1>3. ASSUME NEW p \in procs, Step(p) PROVE ClaimantRuns'
  <2> SUFFICES ASSUME batch' = "RUNNING"
               PROVE  \E r \in Run :
                        /\ runs'[r] = "RUNNING"
                        /\ \A q \in procs' : q.id = r => q.call \notin {"complete_run", "fail_run"}
    BY DEF ClaimantRuns
  <2>1. CallEffect(p) /\ p.call \in Call
    BY <1>0, <1>3, Effects
  <2>2. /\ runs' # runs => \A r \in Run : r # p.id => runs'[r] = runs[r]
        /\ batch' # batch => p.call = "claim"
        /\ \A q \in procs' : q.call \in {"complete_run", "fail_run"} => q \in procs /\ q # p
    BY <1>0, <1>3, CallSummary
  <2>3. runs' # runs => p.call \in {"start_run", "complete_run", "fail_run"}
    BY <2>1 DEF CallEffect, Call
  <2>4. CASE batch = "RUNNING"
    <3>1. PICK r \in Run :
            /\ runs[r] = "RUNNING"
            /\ \A q \in procs : q.id = r => q.call \notin {"complete_run", "fail_run"}
      BY <2>4 DEF ClaimantRuns
    <3>2. p.call = "start_run" => p.id # r
      BY <1>0, <3>1, EndersOwn DEF RightsInv, OwnedRun
    <3>3. runs'[r] = "RUNNING"
      BY <2>2, <2>3, <3>1, <3>2
    <3>4. QED
      BY <2>2, <3>1, <3>3
  <2>5. CASE batch # "RUNNING"
    <3>1. p.call = "claim" /\ runs' = runs
      BY <2>1, <2>2, <2>5 DEF CallEffect
    <3>2. Owner(p) /\ p.id \in Run /\ runs[p.id] = "RUNNING"
      BY <1>0, <3>1, EndersOwn DEF RightsInv, OwnedRun
    <3>3. \A q \in procs' : q.id = p.id => q.call \notin {"complete_run", "fail_run"}
      BY <1>0, <2>2, <3>2, EndersOwn DEF RightsInv, OneOwner
    <3>4. QED
      BY <3>1, <3>2, <3>3
  <2>6. QED
    BY <2>4, <2>5
<1>4. ASSUME NEW p \in procs, Die(p) PROVE ClaimantRuns'
  BY <1>4 DEF Die, tables, ClaimantRuns
<1>5. CASE Rerun
  BY <1>5 DEF Rerun, tables, ClaimantRuns
<1>6. CASE UNCHANGED vars
  BY <1>6 DEF vars, tables, ClaimantRuns
<1>7. QED
  BY <1>1, <1>2, <1>3, <1>4, <1>5, <1>6 DEF Next

LEMMA InitClaimant == Init => ClaimantRuns
BY DEF Init, ClaimantRuns

\* A batch that is RUNNING can be traced to a run that is RUNNING, even when the
\* claim's answer was lost or the claimant has died.
THEOREM RunningBatchIsTraceable == Spec => []RunningBatchHasRun
<1>1. ClaimantRuns => RunningBatchHasRun
  BY DEF ClaimantRuns, RunningBatchHasRun
<1>2. QED
  BY <1>1, InitRights, InitClaimant, NextRights, NextClaimant, PTL DEF Spec

-----------------------------------------------------------------------------
(***************************************************************************)
(* The executions of the DAG follow the lifecycle.                         *)
(***************************************************************************)
\* The refinement mapping of FollowsLifecycle.
row == [b \in {"batch"} |->
          [pipeline |-> IF batch = "none" THEN "none" ELSE "customer_pipeline",
           status |-> batch]]
holders == [b \in {"batch"} |-> {r \in Run : MayReport(r)}]

LEMMA MayReportWhen ==
  \A r : MayReport(r) <=> (\E p \in procs : p.id = r /\ Reporter(p)) \/ Waiting(r)
BY DEF MayReport, Reporter, Waiting

\* There is at most one right to report.
LEMMA OneHolder ==
  ASSUME RightsInv
  PROVE  /\ \A r, s \in Run : MayReport(r) /\ MayReport(s) => r = s
         /\ \A r \in Run : MayReport(r) => batch = "RUNNING"
<1>1. \A r, s \in Run : Waiting(r) /\ Waiting(s) => r = s
  BY DEF Waiting
<1>2. QED
  BY <1>1, MayReportWhen DEF RightsInv, OneReporter

LEMMA InitFollows == Init => Lifecycle!LifecycleInit
<1> SUFFICES ASSUME Init PROVE Lifecycle!LifecycleInit
  OBVIOUS
<1>1. \A r \in Run : ~MayReport(r)
  BY DagAssumption DEF Init, MayReport, Run, Task
<1>2. QED
  BY <1>1 DEF Init, Lifecycle!LifecycleInit, Lifecycle!NoBatch
Holders == {r \in Run : MayReport(r)}

\* A step that leaves the batch alone and gives nobody a right is a stutter, or the
\* holder's release.
LEMMA FewerHolders ==
  ASSUME RightsInv, batch' = batch, \A r \in Run : MayReport(r)' => MayReport(r)
  PROVE  [Lifecycle!LifecycleNext]_<<row, holders>>
<1>1. /\ holders = [b \in {"batch"} |-> Holders] /\ holders' = [b \in {"batch"} |-> Holders']
      /\ row' = row
  BY DEF holders, Holders, row
<1>2. /\ Holders' \subseteq Holders /\ Holders \subseteq Run
      /\ \A r, s \in Holders : r = s
  BY OneHolder DEF Holders
<1>3. CASE Holders' = Holders
  BY <1>1, <1>3
<1>4. CASE Holders' # Holders
  <2>1. PICK a \in Run : a \in Holders
    BY <1>2, <1>4
  <2>2. Holders' = {}
    BY <1>2, <1>4
  <2>3. Lifecycle!Release(a, "batch")
    BY <1>1, <2>1, <2>2 DEF Lifecycle!Release, row, holders, Holders
  <2>4. QED
    BY <2>3 DEF Lifecycle!LifecycleNext
<1>5. QED
  BY <1>3, <1>4

LEMMA StartFollows ==
  ASSUME RightsInv, NEW t \in Task, StartTry(t)
  PROVE  [Lifecycle!LifecycleNext]_<<row, holders>>
<1>0. AirflowInv /\ tries \in [Task -> Nat] /\ 0 \notin Run
  BY DagAssumption DEF RightsInv, AirflowInv, TypeOK, Run
<1>1. PICK n \in Process :
        /\ procs' = procs \cup {n}
        /\ n.id = IF t = "prepare_run" THEN run ELSE info
        /\ n.call = FirstCall(t)
        /\ n.call # "alert" => n.id # 0
  BY <1>0, NewProcess
<1>2. /\ tries' = [tries EXCEPT ![t] = tries[t] + 1] /\ batch' = batch
      /\ info' = IF t = "prepare_run" THEN 0 ELSE info
  BY DEF StartTry, tables
<1>3. \A r \in Run : Waiting(r)' => Waiting(r)
  BY <1>0, <1>2 DEF Waiting, Task
<1>4. Reporter(n) => t \in {"complete_success", "complete_failure"} /\ info # 0 /\ n.id = info
  BY <1>1, FirstCalls DEF Reporter, Task
<1>5. Reporter(n) => Waiting(n.id)
  BY <1>0, <1>4, CompletionFindsRight
<1>6. \A r \in Run : MayReport(r)' =>
        Waiting(r)' \/ \E p \in procs' : p.id = r /\ Reporter(p)
  BY DEF MayReport, Waiting, Reporter
<1>7. \A r \in Run : MayReport(r)' => MayReport(r)
  BY <1>1, <1>3, <1>5, <1>6, MayReportWhen
<1>8. QED
  BY <1>2, <1>7, FewerHolders

LEMMA StepFollows ==
  ASSUME RightsInv, NEW p \in procs, Step(p)
  PROVE  [Lifecycle!LifecycleNext]_<<row, holders>>
<1>0. /\ AirflowInv /\ batch \in RowStatus
      /\ p.call # "alert" => p.id \in Run
  BY DagAssumption DEF RightsInv, AirflowInv, TypeOK, Process, Run
<1>1. /\ tries' = tries
      /\ info' # info => p.call = "push_info" /\ info' = p.id
      /\ batch' # batch =>
           \/ p.call = "claim" /\ Claimable(batch) /\ batch' = "RUNNING"
           \/ p.call = "complete_batch" /\ batch' = "SUCCESS"
           \/ p.call = "fail_batch" /\ batch' = "FAILED"
  BY <1>0, CallSummary
<1>2. \A q \in procs' : Reporter(q) =>
        \/ q \in procs /\ q # p
        \/ p.call = "claim" /\ q.id = p.id /\ Claimable(batch) /\ batch' = "RUNNING"
  BY <1>0, CallSummary DEF Reporter
<1>3. \A r : Waiting(r)' => Waiting(r) \/ (p.call = "push_info" /\ r = p.id)
  BY <1>1 DEF Waiting
<1>4. \A r \in Run : MayReport(r)' =>
        Waiting(r)' \/ \E q \in procs' : q.id = r /\ Reporter(q)
  BY DEF MayReport, Waiting, Reporter
<1>5. CASE batch' = batch
  <2>1. Claimable(batch) => batch # "RUNNING"
    BY DEF Claimable
  <2>2. p.call = "push_info" => Reporter(p)
    BY DEF Reporter
  <2>3. \A r \in Run : MayReport(r)' => MayReport(r)
    BY <1>2, <1>3, <1>4, <1>5, <2>1, <2>2, MayReportWhen
  <2>4. QED
    BY <1>5, <2>3, FewerHolders
<1> DEFINE H == [b \in {"batch"} |-> Holders]
<1>6. holders = H /\ holders' = H'
  BY DEF holders, Holders
<1>7. CASE p.call = "claim" /\ Claimable(batch) /\ batch' = "RUNNING"
  <2>1. p.id \in Run
    BY <1>0, <1>7
  <2>2. batch # "RUNNING" /\ batch \in {"none", "FAILED"}
    BY <1>7 DEF Claimable
  <2>3. \A r \in Run : ~MayReport(r)
    BY <2>2, OneHolder
  <2>4. \A r \in Run : MayReport(r)' => r = p.id
    BY <1>2, <1>3, <1>4, <1>7, <2>3, MayReportWhen
  <2>5. Holders = {} /\ (Holders' = {} \/ Holders' = {p.id})
    BY <2>1, <2>3, <2>4 DEF Holders
  <2>6. holders' = [holders EXCEPT !["batch"] = {p.id}] \/ holders' = holders
    BY <1>6, <2>5
  <2>7. holders["batch"] = {}
    BY <1>6, <2>5
  <2>8. Lifecycle!Claim(p.id, "customer_pipeline", "batch")
    BY <1>7, <2>2, <2>6, <2>7 DEF Lifecycle!Claim, Lifecycle!NoBatch, row, holders
  <2>9. QED
    BY <2>1, <2>8 DEF Lifecycle!LifecycleNext
<1>8. CASE batch' # batch /\ p.call \in {"complete_batch", "fail_batch"}
  <2>1. p.id \in Run /\ Reporter(p)
    BY <1>0, <1>8 DEF Reporter
  <2>2. MayReport(p.id) /\ batch = "RUNNING"
    BY <2>1, MayReportWhen DEF RightsInv, OneReporter
  <2>3. \A r \in Run : ~Waiting(r) /\ \A q \in procs : Reporter(q) => q = p
    BY <2>1 DEF RightsInv, OneReporter
  <2>4. \A r \in Run : ~MayReport(r)'
    BY <1>2, <1>3, <1>4, <1>8, <2>3
  <2>5. Holders' = {} /\ p.id \in Holders
    BY <2>1, <2>2, <2>4 DEF Holders
  <2>6. holders' = [holders EXCEPT !["batch"] = {}] /\ p.id \in holders["batch"]
    BY <1>6, <2>5
  <2>7. p.call = "complete_batch" => Lifecycle!ReportSuccess(p.id, "batch")
    BY <1>1, <1>8, <2>2, <2>6 DEF Lifecycle!ReportSuccess, row, holders
  <2>8. p.call = "fail_batch" => Lifecycle!ReportFailure(p.id, "batch")
    BY <1>1, <1>8, <2>2, <2>6 DEF Lifecycle!ReportFailure, row, holders
  <2>9. QED
    BY <1>8, <2>1, <2>7, <2>8 DEF Lifecycle!LifecycleNext
<1>9. QED
  BY <1>1, <1>5, <1>7, <1>8

\* The executions of one dag_run are attempts of the batch lifecycle: clearing
\* tasks and stray processes never bring two of them to one batch.
THEOREM DagFollowsLifecycle == Spec => FollowsLifecycle
<1>1. RightsInv /\ [Next]_vars => [Lifecycle!LifecycleNext]_<<row, holders>>
  <2> SUFFICES ASSUME RightsInv, [Next]_vars PROVE [Lifecycle!LifecycleNext]_<<row, holders>>
    OBVIOUS
  <2>1. ASSUME NEW t \in Task, PassOver(t) \/ Lose(t)
        PROVE  [Lifecycle!LifecycleNext]_<<row, holders>>
    <3>1. batch' = batch /\ \A r \in Run : MayReport(r)' => MayReport(r)
      BY <2>1 DEF PassOver, Lose, tables, MayReport
    <3>2. QED
      BY <3>1, FewerHolders
  <2>2. ASSUME NEW p \in procs, Die(p) PROVE [Lifecycle!LifecycleNext]_<<row, holders>>
    <3>1. batch' = batch /\ \A r \in Run : MayReport(r)' => MayReport(r)
      BY <2>2 DEF Die, tables, MayReport
    <3>2. QED
      BY <3>1, FewerHolders
  <2>3. CASE Rerun
    <3>1. batch' = batch /\ \A r \in Run : MayReport(r)' => MayReport(r)
      BY <2>3 DEF Rerun, tables, MayReport, Task
    <3>2. QED
      BY <3>1, FewerHolders
  <2>4. CASE UNCHANGED vars
    BY <2>4 DEF vars, tables, row, holders, MayReport
  <2>5. QED
    BY <2>1, <2>2, <2>3, <2>4, StartFollows, StepFollows DEF Next
<1>2. QED
  BY <1>1, InitFollows, RightsInvariant, PTL
     DEF Spec, FollowsLifecycle, Lifecycle!LifecycleSpec, Lifecycle!lifecycleVars, row, holders
-----------------------------------------------------------------------------
(***************************************************************************)
(* A finished execution has settled its batch and its run.                 *)
(***************************************************************************)
\* A call makes no process current, and the tasks that are not its own keep their
\* states.
LEMMA StatesKept ==
  ASSUME AirflowInv, NEW p \in procs, Step(p)
  PROVE  /\ \A q \in Process : IsCurrent(q)' => IsCurrent(q)
         /\ \A t \in Task : state'[t] # state[t] =>
              t = p.task /\ IsCurrent(p) /\ (state'[t] = "success" => Succeeds(p))
         /\ tries["complete_failure"] > 0 =>
              (state'["prepare_run"] = "success" => state["prepare_run"] = "success")
<1>1. TypeOK /\ ProcessesKnown /\ DOMAIN state = Task /\ "prepare_run" \in Task
  BY DEF AirflowInv, TypeOK, Task
<1>2. run' = run /\ tries' = tries
  BY <1>1, StepShape
<1>3. \A t \in Task : state'[t] # state[t] =>
        /\ t = p.task /\ IsCurrent(p) /\ state[t] = "running" /\ state'[t] # "running"
        /\ state'[t] = "success" => Succeeds(p)
  BY <1>1, StateAfterCall
<1>4. \A q \in Process : IsCurrent(q)' => IsCurrent(q)
  BY <1>2, <1>3 DEF IsCurrent, Process
<1>5. tries["complete_failure"] > 0 => state["prepare_run"] # "running"
  BY DEF AirflowInv, TasksInOrder, Failed
<1>6. QED
  BY <1>1, <1>3, <1>4, <1>5

LEMMA NextOwnInfo == RightsInv /\ OwnInfo /\ [Next]_vars => OwnInfo'
<1> SUFFICES ASSUME RightsInv, OwnInfo, [Next]_vars PROVE OwnInfo'
  OBVIOUS
<1>0. /\ AirflowInv /\ TypeOK /\ ProcessesKnown /\ run \in Run /\ "prepare_run" \in Task
      /\ tries \in [Task -> Nat] /\ DOMAIN state = Task
      /\ {"complete_success", "complete_failure"} \subseteq Task
  BY DEF RightsInv, AirflowInv, TypeOK, Task
<1>1. ASSUME NEW t \in Task, StartTry(t) PROVE OwnInfo'
  BY <1>0, <1>1 DEF StartTry, OwnInfo
<1>2. ASSUME NEW t \in Task, PassOver(t) \/ Lose(t) PROVE OwnInfo'
  BY <1>0, <1>2 DEF PassOver, Lose, AfterFailure, OwnInfo
<1>3. ASSUME NEW p \in procs, Step(p),
             state'["prepare_run"] = "success",
             tries["complete_success"] = 0, tries["complete_failure"] = 0
      PROVE  info' = run
  <2>1. CASE state["prepare_run"] = "success"
    <3>1. tries["prepare_run"] = 1
      <4>1. tries["prepare_run"] # 0
        BY <1>0, <2>1 DEF AirflowInv, TriesMatch
      <4>2. tries["prepare_run"] <= 1
        BY <1>0, OneTry DEF TypeOK
      <4>3. QED
        BY <1>0, <4>1, <4>2
    <3>2. info = run /\ Waiting(run)
      BY <1>3, <2>1, <3>1 DEF OwnInfo, Waiting
    <3>3. ~Reporter(p)
      BY <1>0, <3>2 DEF RightsInv, OneReporter
    <3>4. QED
      BY <1>0, <1>3, <3>2, <3>3, StepShape DEF Reporter
  <2>2. CASE state["prepare_run"] # "success"
    <3>1. p.task = "prepare_run" /\ IsCurrent(p) /\ Succeeds(p)
      BY <1>0, <1>3, <2>2, StatesKept
    <3>2. p.call = "push_info" /\ info' = p.id
      BY <1>0, <3>1, CallsOfTasks DEF ProcessesKnown, Succeeds
    <3>3. QED
      BY <1>0, <3>1, <3>2 DEF ProcessesKnown, IsCurrent
  <2>3. QED
    BY <2>1, <2>2
<1>4. ASSUME NEW p \in procs, Step(p) PROVE OwnInfo'
  <2>1. run' = run /\ tries' = tries
    BY <1>0, <1>4, StepShape
  <2>2. QED
    BY <1>3, <1>4, <2>1 DEF OwnInfo
<1>5. ASSUME NEW p \in procs, Die(p) PROVE OwnInfo'
  BY <1>5 DEF Die, OwnInfo
<1>6. CASE Rerun
  BY <1>0, <1>6 DEF Rerun, OwnInfo
<1>7. CASE UNCHANGED vars
  BY <1>7 DEF vars, OwnInfo
<1>8. QED
  BY <1>1, <1>2, <1>4, <1>5, <1>6, <1>7 DEF Next
\* A completion task that starts has no try of this execution before it.
LEMMA FreshCompletion ==
  ASSUME AirflowInv, NEW t \in {"complete_success", "complete_failure"}, StartTry(t),
         NEW q \in procs, q.task = t
  PROVE  q.gen # run
<1>1. tries[t] = 0 /\ t \in Task
  BY Starts DEF Task
<1>2. q.try \in Nat \ {0}
  BY DEF AirflowInv, TypeOK, Process
<1>3. q.gen = run => q.try <= tries[q.task]
  BY DEF AirflowInv, ProcessesKnown
<1>4. QED
  BY <1>1, <1>2, <1>3

\* Starting a task makes no process of another task current.
LEMMA CurrentAfterStart ==
  ASSUME AirflowInv, NEW t \in Task, StartTry(t), NEW q \in procs, q.task # t
  PROVE  IsCurrent(q)' => IsCurrent(q)
<1>1. q.task \in Task /\ DOMAIN state = Task /\ DOMAIN tries = Task
  BY DEF AirflowInv, TypeOK, Process
<1>2. QED
  BY <1>1 DEF StartTry, IsCurrent

\* What the scheduler does without starting a try.
LEMMA Unattended ==
  ASSUME TypeOK, NEW t \in Task, PassOver(t) \/ Lose(t)
  PROVE  /\ run' = run /\ tries' = tries /\ procs' = procs /\ info' = info
         /\ batch' = batch /\ runs' = runs /\ alerted' = alerted
         /\ \A q \in procs : IsCurrent(q)' => IsCurrent(q)
         /\ \A u \in Task : state'[u] = "success" => state[u] = "success"
<1>1. PICK s : state' = [state EXCEPT ![t] = s] /\ s \notin {"success", "running"}
  BY DEF PassOver, Lose, AfterFailure
<1>2. /\ run' = run /\ tries' = tries /\ procs' = procs /\ info' = info
      /\ batch' = batch /\ runs' = runs /\ alerted' = alerted
  BY DEF PassOver, Lose, tables
<1>3. DOMAIN state = Task /\ \A q \in procs : q.task \in Task
  BY DEF TypeOK, Process
<1>4. \A u \in Task : state'[u] \in {"success", "running"} => state'[u] = state[u]
  BY <1>1, <1>3
<1>5. \A q \in procs : IsCurrent(q)' => IsCurrent(q)
  BY <1>2, <1>3, <1>4 DEF IsCurrent
<1>6. QED
  BY <1>2, <1>4, <1>5

LEMMA NextSuccessSettled ==
  RightsInv /\ OwnInfo /\ SuccessSettled /\ [Next]_vars => SuccessSettled'
<1> SUFFICES ASSUME RightsInv, OwnInfo, SuccessSettled, [Next]_vars PROVE SuccessSettled'
  OBVIOUS
<1>0. /\ AirflowInv /\ TypeOK /\ ProcessesKnown /\ run \in Run
      /\ DOMAIN state = Task /\ DOMAIN tries = Task
      /\ {"complete_success", "complete_failure"} \subseteq Task
  BY DEF RightsInv, AirflowInv, TypeOK, Task
<1>1. ASSUME NEW t \in Task, StartTry(t) PROVE SuccessSettled'
  <2>1. PICK n \in Process :
          /\ procs' = procs \cup {n}
          /\ n.task = t /\ n.call = FirstCall(t)
          /\ n.id = IF t = "prepare_run" THEN run ELSE info
    BY <1>0, <1>1, NewProcess
  <2>2. /\ run' = run /\ batch' = batch /\ runs' = runs
        /\ state' = [state EXCEPT ![t] = "running"]
    BY <1>1 DEF StartTry, tables
  <2>3. n.call # "complete_run"
    BY <2>1, FirstCalls DEF Task
  <2>4. t = "complete_success" => info = run
    BY <1>0, <1>1, Starts DEF OwnInfo
  <2>5. \A q \in procs : q.task = "complete_success" /\ IsCurrent(q)' => IsCurrent(q)
    <3>1. \A q \in procs : q.task # t => (IsCurrent(q)' => IsCurrent(q))
      BY <1>0, <1>1, CurrentAfterStart
    <3>2. t = "complete_success" => \A q \in procs : q.task = t => ~IsCurrent(q)'
      BY <1>0, <1>1, <2>2, FreshCompletion DEF IsCurrent
    <3>3. QED
      BY <3>1, <3>2
  <2>6. \A q \in procs' : q.task = "complete_success" /\ IsCurrent(q)' => q.id = run
    <3>1. n.task = "complete_success" => n.id = run
      BY <2>1, <2>4
    <3>2. QED
      BY <2>1, <2>5, <3>1 DEF SuccessSettled
  <2>7. QED
    BY <1>0, <2>1, <2>2, <2>3, <2>6 DEF SuccessSettled
<1>2. ASSUME NEW t \in Task, PassOver(t) \/ Lose(t) PROVE SuccessSettled'
  <2>1. /\ procs' = procs /\ batch' = batch /\ runs' = runs /\ run' = run
        /\ \A q \in procs : IsCurrent(q)' => IsCurrent(q)
        /\ \A u \in Task : state'[u] = "success" => state[u] = "success"
    BY <1>0, <1>2, Unattended
  <2>2. QED
    BY <1>0, <2>1 DEF SuccessSettled
<1>3. ASSUME NEW p \in procs, Step(p) PROVE SuccessSettled'
  <2>1. Final /\ run' = run /\ tries' = tries
    BY <1>0, <1>3, StepFinal, StepShape
  <2>2. /\ \A q \in Process : IsCurrent(q)' => IsCurrent(q)
        /\ \A t \in Task : state'[t] # state[t] =>
             t = p.task /\ IsCurrent(p) /\ (state'[t] = "success" => Succeeds(p))
    BY <1>0, <1>3, StatesKept
  <2>3. \A q \in procs' :
          \/ q \in procs
          \/ /\ q.id = p.id /\ q.task = p.task /\ q.gen = p.gen /\ q.try = p.try
             /\ q.call = "complete_run" => batch' = "SUCCESS"
    BY <1>0, <1>3, CallSummary
  <2>4. \A q \in procs' : q.call = "complete_run" => batch' = "SUCCESS"
    BY <2>1, <2>3 DEF SuccessSettled, Final
  <2>5. \A q \in procs' : q.task = "complete_success" /\ IsCurrent(q)' => q.id = run
    <3>1. \A q \in procs : q \in Process
      BY <1>0 DEF TypeOK
    <3>2. ASSUME NEW q \in procs', q.task = "complete_success", IsCurrent(q)', q \notin procs
          PROVE  q.id = run
      <4>1. q.id = p.id /\ p.task = "complete_success" /\ q.gen = p.gen /\ q.try = p.try
        BY <2>3, <3>2
      <4>2. IsCurrent(p)'
        BY <3>2, <4>1 DEF IsCurrent
      <4>3. QED
        BY <2>2, <3>1, <4>1, <4>2 DEF SuccessSettled
    <3>3. QED
      BY <2>2, <3>1, <3>2 DEF SuccessSettled
  <2>6. state'["complete_success"] = "success" => batch' = "SUCCESS" /\ runs'[run] = "SUCCESS"
    <3>1. CASE state["complete_success"] = "success"
      BY <1>0, <2>1, <3>1 DEF SuccessSettled, Final
    <3>2. ASSUME state["complete_success"] # "success", state'["complete_success"] = "success"
          PROVE  batch' = "SUCCESS" /\ runs'[run] = "SUCCESS"
      <4>1. p.task = "complete_success" /\ IsCurrent(p) /\ Succeeds(p)
        BY <1>0, <2>2, <3>2
      <4>2. p.call = "complete_run" /\ runs'[p.id] = "SUCCESS"
        BY <1>0, <4>1, CallsOfTasks DEF ProcessesKnown, Succeeds
      <4>3. QED
        BY <2>1, <4>1, <4>2 DEF SuccessSettled, Final
    <3>3. QED
      BY <3>1, <3>2
  <2>7. QED
    BY <2>1, <2>4, <2>5, <2>6 DEF SuccessSettled
<1>4. ASSUME NEW p \in procs, Die(p) PROVE SuccessSettled'
  BY <1>4 DEF Die, tables, SuccessSettled, IsCurrent
<1>5. CASE Rerun
  <2>1. \A q \in procs : ~IsCurrent(q)'
    BY <1>0, <1>5 DEF Rerun, IsCurrent, TypeOK, Process
  <2>2. QED
    BY <1>0, <1>5, <2>1 DEF Rerun, tables, SuccessSettled
<1>6. CASE UNCHANGED vars
  BY <1>6 DEF vars, tables, SuccessSettled, IsCurrent
<1>7. QED
  BY <1>1, <1>2, <1>3, <1>4, <1>5, <1>6 DEF Next
LEMMA NextFailureSettled ==
  RightsInv /\ OwnInfo /\ FailureSettled /\ [Next]_vars => FailureSettled'
<1> SUFFICES ASSUME RightsInv, OwnInfo, FailureSettled, [Next]_vars PROVE FailureSettled'
  OBVIOUS
<1>0. /\ AirflowInv /\ TypeOK /\ ProcessesKnown /\ run \in Run /\ run # 0
      /\ DOMAIN state = Task /\ tries \in [Task -> Nat]
      /\ {"prepare_run", "complete_success", "complete_failure"} \subseteq Task
  BY DagAssumption DEF RightsInv, AirflowInv, TypeOK, Task, Run
<1>1. ASSUME NEW t \in Task, StartTry(t) PROVE FailureSettled'
  <2>1. PICK n \in Process :
          /\ procs' = procs \cup {n}
          /\ n.task = t /\ n.call = FirstCall(t)
          /\ n.id = IF t = "prepare_run" THEN run ELSE info
    BY <1>0, <1>1, NewProcess
  <2>2. /\ run' = run /\ batch' = batch /\ runs' = runs /\ alerted' = alerted
        /\ state' = [state EXCEPT ![t] = "running"]
        /\ tries' = [tries EXCEPT ![t] = tries[t] + 1]
    BY <1>1 DEF StartTry, tables
  <2>3. CASE t = "complete_failure"
    <3>1. ASSUME state["prepare_run"] = "success"
          PROVE  /\ batch = "RUNNING" /\ \A q \in procs : q.call # "complete_batch"
                 /\ info = run /\ n.call = "fail_batch"
      <4>1. info # 0
        BY <1>0, <3>1 DEF AirflowInv, InfoKnown
      <4>2. info \in Run /\ Waiting(info)
        BY <1>0, <1>1, <2>3, <4>1, CompletionFindsRight
      <4>3. batch = "RUNNING" /\ \A q \in procs : ~Reporter(q)
        BY <4>2 DEF RightsInv, OneReporter
      <4>4. info = run
        BY <1>0, <1>1, <2>3, <3>1, Starts DEF OwnInfo
      <4>5. n.call = "fail_batch"
        BY <2>1, <2>3, <4>1, FirstCalls
      <4>6. QED
        BY <4>3, <4>4, <4>5 DEF Reporter
    <3>2. \A q \in procs : q.task = "complete_failure" => ~IsCurrent(q)'
      BY <1>0, <1>1, <2>2, <2>3, FreshCompletion DEF IsCurrent
    <3>3. state'["prepare_run"] = state["prepare_run"] /\ state'["complete_failure"] = "running"
      BY <1>0, <2>2, <2>3
    <3>4. QED
      BY <2>1, <2>2, <2>3, <3>1, <3>2, <3>3 DEF FailureSettled
  <2>4. CASE t # "complete_failure"
    <3>1. n.call = "complete_batch" => tries["complete_failure"] = 0
      <4>1. n.call = "complete_batch" => t = "complete_success"
        BY <2>1, FirstCalls DEF Task
      <4>2. QED
        BY <1>0, <1>1, <4>1, Starts
    <3>2. \A q \in procs : q.task = "complete_failure" => (IsCurrent(q)' => IsCurrent(q))
      BY <1>0, <1>1, <2>4, CurrentAfterStart
    <3>3. /\ state'["prepare_run"] = "success" => state["prepare_run"] = "success"
          /\ state'["complete_failure"] = state["complete_failure"]
          /\ tries'["complete_failure"] = tries["complete_failure"]
      BY <1>0, <2>2, <2>4
    <3>4. QED
      BY <1>0, <2>1, <2>2, <2>4, <3>1, <3>2, <3>3 DEF FailureSettled
  <2>5. QED
    BY <2>3, <2>4
<1>2. ASSUME NEW t \in Task, PassOver(t) \/ Lose(t) PROVE FailureSettled'
  <2>1. /\ run' = run /\ tries' = tries /\ procs' = procs
        /\ batch' = batch /\ runs' = runs /\ alerted' = alerted
        /\ \A q \in procs : IsCurrent(q)' => IsCurrent(q)
        /\ \A u \in Task : state'[u] = "success" => state[u] = "success"
    BY <1>0, <1>2, Unattended
  <2>2. QED
    BY <1>0, <2>1 DEF FailureSettled
<1>3. ASSUME NEW p \in procs, Step(p) PROVE FailureSettled'
  <2>1. Final /\ run' = run /\ tries' = tries /\ alerted \subseteq alerted'
    BY <1>0, <1>3, StepFinal, StepShape, Effects
  <2>2. /\ \A q \in Process : IsCurrent(q)' => IsCurrent(q)
        /\ \A t \in Task : state'[t] # state[t] =>
             t = p.task /\ IsCurrent(p) /\ (state'[t] = "success" => Succeeds(p))
        /\ tries["complete_failure"] > 0 /\ state'["prepare_run"] = "success" =>
             state["prepare_run"] = "success"
    BY <1>0, <1>3, StatesKept
  <2>3. \A q \in procs' :
          \/ q \in procs
          \/ /\ q.id = p.id /\ q.task = p.task /\ q.gen = p.gen /\ q.try = p.try
             /\ q.call # "complete_batch"
             /\ q.call = "alert" => SetsRun(p, "FAILED")
    BY <1>0, <1>3, CallSummary
  <2>4. batch' # batch => batch' \in {"RUNNING", "FAILED"} \/ p.call = "complete_batch"
    BY <1>0, <1>3, CallSummary
  <2>5. \A q \in procs : q \in Process
    BY <1>0 DEF TypeOK
  <2>6. \A t \in Task : state[t] = "running" \/ state[t] = "success" => tries[t] > 0
    BY <1>0 DEF AirflowInv, TriesMatch
  <2>7. ASSUME state'["prepare_run"] = "success", tries["complete_failure"] > 0
        PROVE  /\ batch' \in {"RUNNING", "FAILED"}
               /\ \A q \in procs' : q.call # "complete_batch"
    BY <2>2, <2>3, <2>4, <2>7 DEF FailureSettled
  <2>8. ASSUME state'["prepare_run"] = "success",
               NEW q \in procs', q.task = "complete_failure", IsCurrent(q)'
        PROVE  q.id = run /\ (q.call = "alert" => runs'[run] = "FAILED")
    <3>1. tries["complete_failure"] > 0 /\ state["prepare_run"] = "success"
      <4>1. state'["complete_failure"] = "running"
        BY <2>8 DEF IsCurrent
      <4>2. tries["complete_failure"] > 0
        BY <1>0, <2>1, <2>6, <2>8, <4>1, NextTriesMatch DEF TriesMatch
      <4>3. QED
        BY <2>2, <2>8, <4>2
    <3>2. CASE q \in procs
      BY <1>0, <2>1, <2>2, <2>5, <2>8, <3>1, <3>2 DEF FailureSettled, Final
    <3>3. CASE q \notin procs
      <4>1. /\ q.id = p.id /\ p.task = "complete_failure" /\ q.gen = p.gen /\ q.try = p.try
            /\ q.call = "alert" => SetsRun(p, "FAILED")
        BY <2>3, <2>8, <3>3
      <4>2. IsCurrent(p)'
        BY <2>8, <4>1 DEF IsCurrent
      <4>3. p.id = run
        BY <2>2, <2>5, <3>1, <4>1, <4>2 DEF FailureSettled
      <4>4. SetsRun(p, "FAILED") => runs'[run] = "FAILED"
        BY <1>0, <4>3 DEF SetsRun, TypeOK
      <4>5. QED
        BY <4>1, <4>3, <4>4
    <3>4. QED
      BY <3>2, <3>3
  <2>9. ASSUME state'["complete_failure"] = "success"
        PROVE  /\ run \in alerted'
               /\ state'["prepare_run"] = "success" => runs'[run] = "FAILED"
    <3>1. CASE state["complete_failure"] = "success"
      BY <1>0, <2>1, <2>2, <2>6, <3>1 DEF FailureSettled, Final
    <3>2. CASE state["complete_failure"] # "success"
      <4>1. p.task = "complete_failure" /\ IsCurrent(p) /\ Succeeds(p)
        BY <1>0, <2>2, <2>9, <3>2
      <4>2. p.call = "alert" /\ p.gen \in alerted' /\ p.gen = run
        BY <1>0, <4>1, CallsOfTasks DEF ProcessesKnown, Succeeds, IsCurrent
      <4>3. tries["complete_failure"] > 0
        BY <1>0, <2>6, <4>1 DEF IsCurrent
      <4>4. QED
        BY <1>0, <2>1, <2>2, <4>1, <4>2, <4>3 DEF FailureSettled, Final
    <3>3. QED
      BY <3>1, <3>2
  <2>10. QED
    BY <2>1, <2>7, <2>8, <2>9 DEF FailureSettled
<1>4. ASSUME NEW p \in procs, Die(p) PROVE FailureSettled'
  BY <1>4 DEF Die, tables, FailureSettled, IsCurrent
<1>5. CASE Rerun
  BY <1>0, <1>5 DEF Rerun, FailureSettled
<1>6. CASE UNCHANGED vars
  BY <1>6 DEF vars, tables, FailureSettled, IsCurrent
<1>7. QED
  BY <1>1, <1>2, <1>3, <1>4, <1>5, <1>6 DEF Next

LEMMA InitSettled == Init => SettledInv
<1>1. Init => OwnInfo /\ SuccessSettled /\ FailureSettled
  BY DEF Init, OwnInfo, SuccessSettled, FailureSettled, Task
<1>2. QED
  BY <1>1, InitRights, InitClaimant DEF SettledInv

LEMMA SettledInvariant == Spec => []SettledInv
<1>1. SettledInv /\ [Next]_vars => SettledInv'
  BY NextRights, NextClaimant, NextOwnInfo, NextSuccessSettled, NextFailureSettled DEF SettledInv
<1>2. QED
  BY <1>1, InitSettled, PTL DEF Spec

\* When the execution is over and its completion task succeeded, batch and run agree
\* with it and a failure has been alerted, but for a prepare_run of an earlier
\* execution that claims the FAILED batch.
THEOREM FinishedIsSettled == Spec => []FinishedMeansSettled
<1>1. SettledInv => FinishedMeansSettled
  <2> SUFFICES ASSUME SettledInv, Finished,
                      state["complete_failure"] = "success", state["prepare_run"] = "success",
                      batch # "FAILED"
               PROVE  \E r \in 1 .. (run - 1) : runs[r] = "RUNNING"
    BY DEF SettledInv, SuccessSettled, FailureSettled, FinishedMeansSettled,
           RightsInv, AirflowInv, TypeOK, TriesMatch, Task
  <2>1. AirflowInv /\ run \in Run /\ runs[run] = "FAILED"
    BY DEF SettledInv, FailureSettled, RightsInv, AirflowInv, TypeOK
  <2>2. tries["complete_failure"] > 0
    BY <2>1 DEF AirflowInv, TypeOK, TriesMatch, Task
  <2>3. batch = "RUNNING"
    BY <2>2 DEF SettledInv, FailureSettled
  <2>4. PICK r \in Run : runs[r] = "RUNNING"
    BY <2>3 DEF SettledInv, ClaimantRuns
  <2>5. ~Fresh(r) /\ r # run
    BY <2>1, <2>4 DEF SettledInv, RightsInv, OwnedRun
  <2>6. r \in 1 .. (run - 1)
    BY <2>1, <2>5, DagAssumption DEF Fresh, Run
  <2>7. QED
    BY <2>4, <2>6
<1>2. QED
  BY <1>1, SettledInvariant, PTL
-----------------------------------------------------------------------------
(***************************************************************************)
(* The exception in FinishedMeansSettled has one cause: Airflow has given  *)
(* up a prepare_run that is still there.                                   *)
(***************************************************************************)
\* A failure task that has written the batch finds it so to its end and beyond.
FailureWritten ==
  state["prepare_run"] = "success" =>
    /\ \A p \in procs :
         p.task = "complete_failure" /\ IsCurrent(p) /\ p.call # "fail_batch" => batch = "FAILED"
    /\ state["complete_failure"] = "success" => batch = "FAILED"

LEMMA NextFailureWritten ==
  SettledInv /\ NoStrayClaim /\ FailureWritten /\ [Next]_vars => FailureWritten'
<1> SUFFICES ASSUME SettledInv, NoStrayClaim, FailureWritten, [Next]_vars PROVE FailureWritten'
  OBVIOUS
<1>0. /\ RightsInv /\ FailureSettled /\ AirflowInv /\ TypeOK /\ ProcessesKnown
      /\ DOMAIN state = Task /\ tries \in [Task -> Nat]
      /\ {"prepare_run", "complete_success", "complete_failure"} \subseteq Task
  BY DEF SettledInv, RightsInv, AirflowInv, TypeOK, Task
<1>1. ASSUME NEW t \in Task, StartTry(t), state'["prepare_run"] = "success" PROVE FailureWritten'
  <2>1. PICK n \in Process : procs' = procs \cup {n} /\ n.task = t /\ n.call = FirstCall(t)
    BY <1>0, <1>1, NewProcess
  <2>2. /\ run' = run /\ batch' = batch
        /\ state' = [state EXCEPT ![t] = "running"]
    BY <1>1 DEF StartTry, tables
  <2>3. state["prepare_run"] = "success"
    BY <1>0, <1>1, <2>2
  <2>4. t = "complete_failure" => n.call = "fail_batch"
    BY <1>0, <2>1, <2>3, FirstCalls DEF AirflowInv, InfoKnown
  <2>5. \A q \in procs : q.task = "complete_failure" /\ IsCurrent(q)' => IsCurrent(q)
    <3>1. CASE t = "complete_failure"
      BY <1>0, <1>1, <2>2, <3>1, FreshCompletion DEF IsCurrent
    <3>2. CASE t # "complete_failure"
      BY <1>0, <1>1, <3>2, CurrentAfterStart
    <3>3. QED
      BY <3>1, <3>2
  <2>6. state'["complete_failure"] = "success" => state["complete_failure"] = "success"
    BY <1>0, <2>2
  <2>7. QED
    BY <2>1, <2>2, <2>3, <2>4, <2>5, <2>6 DEF FailureWritten
<1>2. ASSUME NEW t \in Task, PassOver(t) \/ Lose(t) PROVE FailureWritten'
  BY <1>0, <1>2, Unattended DEF FailureWritten
<1>3. ASSUME NEW p \in procs, Step(p), state'["prepare_run"] = "success",
             tries["complete_failure"] > 0
      PROVE  FailureWritten'
  <2>1. state["prepare_run"] = "success"
    BY <1>0, <1>3, StatesKept
  <2>2. p.call # "complete_batch" /\ p.task \in Task
    BY <1>0, <1>3, <2>1 DEF FailureSettled, TypeOK, Process
  <2>3. p.call # "claim"
    <3>1. p.call = "claim" => p.task = "prepare_run"
      BY <1>0, <2>2, CallsOfTasks DEF ProcessesKnown, Task
    <3>2. p.task # "prepare_run"
      BY <2>1 DEF NoStrayClaim, IsCurrent
    <3>3. QED
      BY <3>1, <3>2
  <2>4. batch = "FAILED" => batch' = "FAILED"
    BY <1>0, <1>3, <2>2, <2>3, CallSummary
  <2>5. ASSUME NEW q \in procs', q.task = "complete_failure", IsCurrent(q)', q.call # "fail_batch"
        PROVE  batch' = "FAILED"
    <3>1. \A r \in Process : IsCurrent(r)' => IsCurrent(r)
      BY <1>0, <1>3, StatesKept
    <3>2. CASE q \in procs
      BY <1>0, <2>1, <2>4, <2>5, <3>1, <3>2 DEF FailureWritten, TypeOK
    <3>3. CASE q \notin procs
      <4>1. /\ q.task = p.task /\ q.gen = p.gen /\ q.try = p.try
            /\ \/ p.call = "fail_batch" /\ batch' = "FAILED"
               \/ p.call = "fail_run" /\ batch' = batch
               \/ p.call \in {"start_run", "claim", "complete_batch"}
        BY <1>0, <1>3, <3>3, CallSummary
      <4>2. IsCurrent(p)' /\ p \in Process
        BY <1>0, <2>5, <4>1 DEF IsCurrent, TypeOK
      <4>3. p.call \in {"fail_batch", "fail_run", "alert"}
        BY <1>0, <2>5, <4>1, CallsOfTasks DEF ProcessesKnown
      <4>4. CASE p.call = "fail_batch"
        BY <4>1, <4>4
      <4>5. CASE p.call = "fail_run"
        BY <2>1, <2>4, <2>5, <3>1, <4>1, <4>2, <4>5 DEF FailureWritten
      <4>6. QED
        BY <4>1, <4>3, <4>4, <4>5
    <3>4. QED
      BY <3>2, <3>3
  <2>6. ASSUME state'["complete_failure"] = "success" PROVE batch' = "FAILED"
    <3>1. CASE state["complete_failure"] = "success"
      BY <2>1, <2>4, <3>1 DEF FailureWritten
    <3>2. CASE state["complete_failure"] # "success"
      <4>1. p.task = "complete_failure" /\ IsCurrent(p) /\ Succeeds(p)
        BY <1>0, <1>3, <2>6, <3>2, StatesKept
      <4>2. p.call = "alert"
        BY <1>0, <4>1, CallsOfTasks DEF ProcessesKnown, Succeeds
      <4>3. QED
        BY <2>1, <2>4, <4>1, <4>2 DEF FailureWritten
    <3>3. QED
      BY <3>1, <3>2
  <2>7. QED
    BY <2>5, <2>6 DEF FailureWritten
<1>4. ASSUME NEW p \in procs, Step(p), tries["complete_failure"] = 0 PROVE FailureWritten'
  <2>1. tries'["complete_failure"] = 0
    BY <1>0, <1>4, StepShape
  <2>2. state'["complete_failure"] \notin {"running", "success"}
    BY <1>0, <2>1, NextTriesMatch DEF TriesMatch
  <2>3. QED
    BY <2>2 DEF FailureWritten, IsCurrent
<1>5. ASSUME NEW p \in procs, Die(p) PROVE FailureWritten'
  BY <1>5 DEF Die, tables, FailureWritten, IsCurrent
<1>6. CASE Rerun
  BY <1>0, <1>6 DEF Rerun, FailureWritten
<1>7. CASE UNCHANGED vars
  BY <1>7 DEF vars, tables, FailureWritten, IsCurrent
<1>8. ASSUME NEW p \in procs, Step(p) PROVE FailureWritten'
  <2>1. state'["prepare_run"] = "success" \/ FailureWritten'
    BY DEF FailureWritten
  <2>2. tries["complete_failure"] \in Nat
    BY <1>0
  <2>3. QED
    BY <1>3, <1>4, <1>8, <2>1, <2>2
<1>9. ASSUME NEW t \in Task, StartTry(t) PROVE FailureWritten'
  BY <1>1, <1>9 DEF FailureWritten
<1>10. QED
  BY <1>2, <1>5, <1>6, <1>7, <1>8, <1>9 DEF Next

\* FinishedMeansSettled without its exception: a failure task that has succeeded
\* leaves the batch FAILED, ready for the next execution.
FailureIsSettled ==
  Finished /\ state["complete_failure"] = "success" /\ state["prepare_run"] = "success" =>
    batch = "FAILED" /\ runs[run] = "FAILED" /\ run \in alerted

\* As long as Airflow gives up no prepare_run that is still there, whatever else it
\* gives up, a failed execution leaves its batch FAILED.
THEOREM OnlyAStrayClaimUnsettles == Spec /\ []NoStrayClaim => []FailureIsSettled
<1>1. Init => FailureWritten
  BY DEF Init, FailureWritten, Task
<1>2. SettledInv /\ FailureWritten => FailureIsSettled
  BY DEF SettledInv, FailureSettled, FailureWritten, FailureIsSettled
<1>3. QED
  BY <1>1, <1>2, SettledInvariant, NextFailureWritten, PTL DEF Spec

-----------------------------------------------------------------------------
\* Each process executes the try that Airflow takes to be running, alone.
EachAtWork ==
  \A p \in procs : IsCurrent(p) /\ \A q \in procs : q.task = p.task => q = p

LEMMA NextEachAtWork ==
  ASSUME ~MayLose, AirflowInv, EachAtWork, [Next]_vars
  PROVE  EachAtWork'
<1>0. /\ TypeOK /\ ProcessesKnown /\ DOMAIN state = Task /\ DOMAIN tries = Task
      /\ \A t \in Task : tries[t] \in Nat
      /\ \A p \in procs : p.task \in Task
  BY DEF AirflowInv, TypeOK, Process
<1>1. \A p \in procs : state[p.task] = "running"
  BY DEF EachAtWork, IsCurrent
<1>2. ASSUME NEW t \in Task, StartTry(t) PROVE EachAtWork'
  <2>1. PICK n \in Process : /\ procs' = procs \cup {n}
                             /\ n.gen = run /\ n.task = t /\ n.try = tries[t] + 1
    BY <1>2, NewProcess
  <2>2. \A p \in procs : p.task # t
    BY <1>1, <1>2 DEF StartTry
  <2>3. /\ run' = run /\ state' = [state EXCEPT ![t] = "running"]
        /\ tries' = [tries EXCEPT ![t] = tries[t] + 1]
    BY <1>2 DEF StartTry
  <2>4. IsCurrent(n)'
    BY <1>0, <2>1, <2>3 DEF IsCurrent
  <2>5. \A p \in procs : IsCurrent(p)'
    BY <1>0, <2>2, <2>3 DEF IsCurrent, EachAtWork
  <2>6. QED
    BY <2>1, <2>2, <2>4, <2>5 DEF EachAtWork
<1>3. ASSUME NEW t \in Task, PassOver(t) PROVE EachAtWork'
  <2>1. \A p \in procs : p.task # t
    BY <1>1, <1>3 DEF PassOver
  <2>2. /\ run' = run /\ tries' = tries /\ procs' = procs
        /\ \A u \in Task : u # t => state'[u] = state[u]
    BY <1>0, <1>3 DEF PassOver
  <2>3. QED
    BY <1>0, <2>1, <2>2 DEF EachAtWork, IsCurrent
<1>4. ASSUME NEW p \in procs, Step(p) PROVE EachAtWork'
  <2>1. /\ run' = run /\ tries' = tries
        /\ Ends(p) \/ \E c \in TaskCalls(p.task) : GoesOn(p, c)
    BY <1>0, <1>4, StepShape
  <2>2. CASE Ends(p)
    <3>1. procs' = procs \ {p} /\ \A u \in Task : u # p.task => state'[u] = state[u]
      BY <1>0, <2>2 DEF Ends
    <3>2. \A q \in procs \ {p} : q.task # p.task
      BY DEF EachAtWork
    <3>3. QED
      BY <1>0, <2>1, <3>1, <3>2 DEF EachAtWork, IsCurrent
  <2>3. ASSUME NEW c, GoesOn(p, c) PROVE EachAtWork'
    <3> DEFINE n == [p EXCEPT !.call = c]
    <3>1. procs' = (procs \ {p}) \cup {n} /\ state' = state
      BY <2>3 DEF GoesOn
    <3>2. n.task = p.task /\ n.gen = p.gen /\ n.try = p.try
      BY <1>0 DEF TypeOK, Process
    <3> HIDE DEF n
    <3>3. IsCurrent(n)' /\ \A q \in procs : IsCurrent(q)'
      BY <2>1, <3>1, <3>2 DEF EachAtWork, IsCurrent
    <3>4. \A q \in procs \ {p} : q.task # p.task
      BY DEF EachAtWork
    <3>5. QED
      BY <3>1, <3>2, <3>3, <3>4 DEF EachAtWork
  <2>4. QED
    BY <2>1, <2>2, <2>3
<1>5. CASE Rerun
  <2>1. procs = {}
    BY <1>0, <1>1, <1>5 DEF Rerun, Finished, Done
  <2>2. QED
    BY <1>5, <2>1 DEF Rerun, EachAtWork
<1>6. CASE UNCHANGED vars
  BY <1>6 DEF vars, EachAtWork, IsCurrent
<1>7. QED
  BY <1>2, <1>3, <1>4, <1>5, <1>6 DEF Next, Lose, Die

\* While Airflow loses sight of nothing, no process outlives its try, whatever
\* fails, is retried or is cleared and run again; and then failed executions leave
\* their batch FAILED.
THEOREM NothingStrays ==
  ASSUME ~MayLose
  PROVE  /\ Spec => []NoStrayClaim
         /\ Spec => []FailureIsSettled
<1>1. Init => EachAtWork
  BY DEF Init, EachAtWork
<1>2. AirflowInv /\ EachAtWork /\ [Next]_vars => EachAtWork'
  BY NextEachAtWork
<1>3. EachAtWork => NoStrayClaim
  BY DEF EachAtWork, NoStrayClaim
<1>4. Spec => []NoStrayClaim
  BY <1>1, <1>2, <1>3, AirflowInvariant, PTL DEF Spec
<1>5. QED
  BY <1>4, OnlyAStrayClaimUnsettles, PTL

-----------------------------------------------------------------------------
(***************************************************************************)
(* What the executions inherit from the batch lifecycle.                   *)
(***************************************************************************)
Promise == INSTANCE BatchLifecycleProofs WITH
  Attempt <- Run, Batch <- {"batch"}, Pipeline <- {"customer_pipeline"},
  batches <- row

\* A BatchID that is RUNNING or SUCCESS, and that no process and no XCom of the dag_run
\* may still report on, is out of reach for good: clearing the tasks executes the DAG
\* again, but its prepare_run is refused.
THEOREM AbandonedDagRunStays == Spec => Promise!AbandonedForGood
<1>1. Lifecycle!LifecycleInit => Promise!LifecycleInit
  BY DEF Lifecycle!LifecycleInit, Promise!LifecycleInit, Lifecycle!NoBatch, Promise!NoBatch, row, holders
<1>2. [Lifecycle!LifecycleNext]_<<row, holders>> => [Promise!LifecycleNext]_<<row, holders>>
  BY DEF Lifecycle!LifecycleNext, Promise!LifecycleNext, Lifecycle!Claim, Promise!Claim,
         Lifecycle!NoBatch, Promise!NoBatch, Lifecycle!ReportSuccess, Promise!ReportSuccess,
         Lifecycle!ReportFailure, Promise!ReportFailure, Lifecycle!Release, Promise!Release,
         row, holders
<1>3. QED
  BY <1>1, <1>2, DagFollowsLifecycle, Promise!AbandonedStays, PTL
     DEF FollowsLifecycle, Lifecycle!LifecycleSpec, Promise!LifecycleSpec,
         Lifecycle!lifecycleVars, Promise!lifecycleVars, row, holders

-----------------------------------------------------------------------------
(***************************************************************************)
(* An execution runs out of tries, and a try of calls.                     *)
(***************************************************************************)
\* The calls a process has left, the next one included.
CallsLeft == [start_run |-> 3, claim |-> 2, push_info |-> 1, load |-> 1,
              complete_batch |-> 2, complete_run |-> 1,
              fail_batch |-> 3, fail_run |-> 2, alert |-> 1]

\* The starts and the ends of tries that a task has left in this execution.
TurnsLeft(t) ==
  IF state[t] \in Done THEN 0
  ELSE 2 * (MaxTries(t) - tries[t]) + (IF state[t] = "running" THEN 1 ELSE 0)

\* A process is gone, or has a call less to make.
Forward(p) ==
  \/ procs' = procs \ {p}
  \/ \E c \in Call : /\ CallsLeft[c] < CallsLeft[p.call]
                     /\ procs' = (procs \ {p}) \cup {[p EXCEPT !.call = c]}

\* One task is nearer to its end, and the others are where they were.
Closer ==
  \E t \in Task : /\ TurnsLeft(t)' < TurnsLeft(t)
                  /\ \A u \in Task \ {t} : TurnsLeft(u)' = TurnsLeft(u)

\* Every step executes the dag_run again, after its end; or brings one task nearer to
\* its end, and no other one back; or is a call of a process, stray or not, that
\* starts nothing.
EveryStepCounts ==
  [][\/ Finished /\ run' = run + 1 /\ run' \in Run
     \/ run' = run /\ Closer
     \/ /\ run' = run /\ \A t \in Task : TurnsLeft(t)' = TurnsLeft(t)
        /\ \E p \in procs : Forward(p)]_vars

LEMMA CallGoesForward ==
  ASSUME TypeOK, NEW p \in procs, Step(p)
  PROVE  Forward(p)
<1>0. \A s \in {"failed", AfterFailure(p.task), "success"} : End(p, s) => procs' = procs \ {p}
  BY DEF End
<1> USE DEF GoesOn, Ends
<1>1. CASE StartRun(p)
  <2>1. PICK o \in Outcomes("start_run") : Answer(p, o, "claim")
    BY <1>1 DEF StartRun
  <2>2. o \in {"ok", "refused", "lost"}
    BY DEF Outcomes
  <2>3. GoesOn(p, "claim") \/ Ends(p)
    BY <2>1, <2>2, Answers DEF Call
  <2>4. QED BY <1>1, <2>3 DEF StartRun, Forward, CallsLeft, Call
<1>2. CASE ClaimBatch(p)
  <2>1. PICK o \in Outcomes("claim") : Answer(p, o, "push_info")
    BY <1>2 DEF ClaimBatch
  <2>2. o \in {"ok", "refused", "lost"}
    BY DEF Outcomes
  <2>3. GoesOn(p, "push_info") \/ Ends(p)
    BY <2>1, <2>2, Answers DEF Call
  <2>4. QED BY <1>2, <2>3 DEF ClaimBatch, Forward, CallsLeft, Call
<1>3. CASE PushInfo(p)
  <2>1. PICK o \in Outcomes("push_info") : Answer(p, o, "return")
    BY <1>3 DEF PushInfo
  <2>2. o \in {"ok", "refused", "lost"}
    BY DEF Outcomes
  <2>3. Ends(p)
    BY <2>1, <2>2, Answers DEF Call
  <2>4. QED BY <1>3, <2>3 DEF PushInfo, Forward, CallsLeft, Call
<1>4. CASE Load(p)
  <2>1. PICK o \in Outcomes("load") : Answer(p, o, "return")
    BY <1>4 DEF Load
  <2>2. o \in {"ok", "refused", "lost"}
    BY DEF Outcomes
  <2>3. Ends(p)
    BY <2>1, <2>2, Answers DEF Call
  <2>4. QED BY <1>4, <2>3 DEF Load, Forward, CallsLeft, Call
<1>5. CASE CompleteBatch(p)
  <2>1. PICK o \in Outcomes("complete_batch") : Answer(p, o, "complete_run")
    BY <1>5 DEF CompleteBatch
  <2>2. o \in {"ok", "refused", "lost"}
    BY DEF Outcomes
  <2>3. GoesOn(p, "complete_run") \/ Ends(p)
    BY <2>1, <2>2, Answers DEF Call
  <2>4. QED BY <1>5, <2>3 DEF CompleteBatch, Forward, CallsLeft, Call
<1>6. CASE CompleteRun(p)
  <2>1. PICK o \in Outcomes("complete_run") : Answer(p, o, "return")
    BY <1>6 DEF CompleteRun
  <2>2. o \in {"ok", "refused", "lost"}
    BY DEF Outcomes
  <2>3. Ends(p)
    BY <2>1, <2>2, Answers DEF Call
  <2>4. QED BY <1>6, <2>3 DEF CompleteRun, Forward, CallsLeft, Call
<1>7. CASE FailBatch(p)
  <2>1. PICK o \in Outcomes("fail_batch") : Answer(p, o, AfterFailBatch)
    BY <1>7 DEF FailBatch
  <2>2. o \in {"ok", "refused", "lost"}
    BY DEF Outcomes
  <2>3. GoesOn(p, "fail_run") \/ Ends(p)
    BY <2>1, <2>2, Answers DEF Call, AfterFailBatch
  <2>4. QED BY <1>7, <2>3 DEF FailBatch, Forward, CallsLeft, Call
<1>8. CASE FailRun(p)
  <2>1. PICK o \in Outcomes("fail_run") : Answer(p, o, "alert")
    BY <1>8 DEF FailRun
  <2>2. o \in {"ok", "refused", "lost"}
    BY DEF Outcomes
  <2>3. GoesOn(p, "alert") \/ Ends(p)
    BY <2>1, <2>2, Answers DEF Call
  <2>4. QED BY <1>8, <2>3 DEF FailRun, Forward, CallsLeft, Call
<1>9. CASE RejectBatch(p) \/ RefuseQuality(p) \/ Alert(p)
  BY <1>0, <1>9 DEF RejectBatch, RefuseQuality, Alert, Forward
<1>10. QED
  BY <1>1, <1>2, <1>3, <1>4, <1>5, <1>6, <1>7, <1>8, <1>9 DEF Step

LEMMA TurnsAreNat ==
  ASSUME TypeOK, TriesMatch, NEW t \in Task
  PROVE  TurnsLeft(t) \in Nat /\ (TurnsLeft(t) = 0 <=> state[t] \in Done)
<1>1. tries[t] \in Nat /\ MaxTries(t) \in Nat \ {0} /\ tries[t] <= MaxTries(t)
  BY OneTry DEF TypeOK
<1>2. state[t] \in Done \cup {"none", "running", "up_for_retry"}
  BY DEF TypeOK
<1>3. CASE state[t] \in Done
  BY <1>3 DEF TurnsLeft
<1>4. CASE state[t] = "running"
  <2>1. TurnsLeft(t) = 2 * (MaxTries(t) - tries[t]) + 1
    BY <1>4 DEF TurnsLeft, Done
  <2>2. QED BY <1>1, <1>4, <2>1 DEF Done
<1>5. CASE state[t] \in {"none", "up_for_retry"}
  <2>1. tries[t] < MaxTries(t)
    BY <1>1, <1>5 DEF TriesMatch
  <2>2. TurnsLeft(t) = 2 * (MaxTries(t) - tries[t])
    BY <1>1, <1>5 DEF TurnsLeft, Done
  <2>3. QED BY <1>1, <1>5, <2>1, <2>2 DEF Done
<1>6. QED BY <1>2, <1>3, <1>4, <1>5

\* A task that gets a state nearer to its end.
LEMMA TurnCounts ==
  ASSUME TypeOK, TriesMatch, NEW t \in Task, NEW s \in Done \cup {"running", "up_for_retry"},
         state' = [state EXCEPT ![t] = s],
         s \in Done => tries' = tries /\ state[t] \notin Done,
         s = "up_for_retry" => tries' = tries /\ state[t] = "running",
         s = "running" => /\ tries' = [tries EXCEPT ![t] = @ + 1]
                          /\ state[t] \in {"none", "up_for_retry"}
  PROVE  Closer
<1>1. /\ tries[t] \in Nat /\ MaxTries(t) \in Nat \ {0} /\ tries[t] <= MaxTries(t)
      /\ DOMAIN state = Task /\ DOMAIN tries = Task
  BY OneTry DEF TypeOK
<1>2. /\ state'[t] = s
      /\ \A u \in Task \ {t} : state'[u] = state[u] /\ tries'[u] = tries[u]
  BY <1>1
<1>3. \A u \in Task \ {t} : TurnsLeft(u)' = TurnsLeft(u)
  BY <1>2 DEF TurnsLeft, MaxTries
<1>4. TurnsLeft(t) \in Nat /\ (TurnsLeft(t) = 0 <=> state[t] \in Done)
  BY TurnsAreNat
<1>5. CASE s \in Done
  <2>1. TurnsLeft(t)' = 0
    BY <1>2, <1>5 DEF TurnsLeft
  <2>2. state[t] \notin Done
    BY <1>5 DEF Done
  <2>3. QED BY <1>3, <1>4, <2>1, <2>2 DEF Closer
<1>6. CASE s = "up_for_retry"
  <2>1. tries'[t] = tries[t] /\ state[t] = "running"
    BY <1>6 DEF Done
  <2>2. TurnsLeft(t)' = 2 * (MaxTries(t) - tries[t])
    BY <1>1, <1>2, <1>6, <2>1 DEF TurnsLeft, Done, MaxTries
  <2>3. TurnsLeft(t) = 2 * (MaxTries(t) - tries[t]) + 1
    BY <2>1 DEF TurnsLeft, Done
  <2>4. QED BY <1>1, <1>3, <2>2, <2>3 DEF Closer
<1>7. CASE s = "running"
  <2>1. tries'[t] = tries[t] + 1 /\ state[t] \in {"none", "up_for_retry"}
    BY <1>1, <1>7 DEF Done
  <2>2. TurnsLeft(t)' = 2 * (MaxTries(t) - (tries[t] + 1)) + 1
    BY <1>2, <1>7, <2>1 DEF TurnsLeft, Done, MaxTries
  <2>3. TurnsLeft(t) = 2 * (MaxTries(t) - tries[t])
    BY <1>1, <2>1 DEF TurnsLeft, Done
  <2>4. QED BY <1>1, <1>3, <2>2, <2>3 DEF Closer
<1>8. QED BY <1>5, <1>6, <1>7

LEMMA TryEnds ==
  ASSUME TypeOK, TriesMatch, NEW t \in Task, NEW s \in {"success", "failed", "up_for_retry"},
         state[t] = "running", state' = [state EXCEPT ![t] = s], tries' = tries
  PROVE  Closer
<1>1. s \in Done \cup {"running", "up_for_retry"} /\ s # "running" /\ state[t] \notin Done
  BY DEF Done
<1>2. QED BY <1>1, TurnCounts

LEMMA TryBegins ==
  ASSUME TypeOK, TriesMatch, NEW t \in Task, state[t] \in {"none", "up_for_retry"},
         state' = [state EXCEPT ![t] = "running"], tries' = [tries EXCEPT ![t] = @ + 1]
  PROVE  Closer
<1> DEFINE s == "running"
<1>1. s \in Done \cup {"running", "up_for_retry"} /\ s \notin Done /\ s # "up_for_retry"
  BY DEF Done
<1>2. state' = [state EXCEPT ![t] = s] /\ s = "running"
  OBVIOUS
<1> HIDE DEF s
<1>3. QED BY <1>1, <1>2, TurnCounts

LEMMA TaskPassedOver ==
  ASSUME TypeOK, TriesMatch, NEW t \in Task, NEW s \in Done, state[t] \notin Done,
         state' = [state EXCEPT ![t] = s], tries' = tries
  PROVE  Closer
<1>1. s \in Done \cup {"running", "up_for_retry"} /\ s \notin {"running", "up_for_retry"}
  BY DEF Done
<1>2. QED BY <1>1, TurnCounts

\* An execution makes at most 2 * MaxTries(t) moves of a task t, and a try at most
\* three calls, whatever is lost, refused or given up, and whatever strays: with the
\* fairness of FairSpec that is why the execution of RunningIsSettled ends.
THEOREM ExecutionsRunOut ==
  Spec => /\ [](\A t \in Task : TurnsLeft(t) \in Nat /\ (TurnsLeft(t) = 0 <=> state[t] \in Done))
          /\ EveryStepCounts
<1> DEFINE Counted == \A t \in Task : TurnsLeft(t) \in Nat /\ (TurnsLeft(t) = 0 <=> state[t] \in Done)
           Calls == /\ run' = run /\ \A t \in Task : TurnsLeft(t)' = TurnsLeft(t)
                    /\ \E p \in procs : Forward(p)
           Counts == \/ Finished /\ run' = run + 1 /\ run' \in Run
                     \/ run' = run /\ Closer
                     \/ Calls
<1>1. AirflowInv => Counted
  BY TurnsAreNat DEF AirflowInv
<1>2. ASSUME AirflowInv, AirflowInv', [Next]_vars PROVE [Counts]_vars
  <2>0. /\ TypeOK /\ TriesMatch /\ ProcessesKnown /\ TypeOK'
    BY <1>2 DEF AirflowInv
  <2>1. ASSUME NEW t \in Task, StartTry(t) PROVE Counts
    <3>1. state[t] \in {"none", "up_for_retry"} /\ run' = run
      BY <2>1 DEF StartTry
    <3>2. Closer
      BY <2>0, <2>1, <3>1, TryBegins DEF StartTry
    <3>3. QED BY <3>1, <3>2
  <2>2. ASSUME NEW t \in Task, PassOver(t) PROVE Counts
    <3>1. /\ state[t] \notin Done /\ run' = run /\ tries' = tries
          /\ \E s \in Done : state' = [state EXCEPT ![t] = s]
      BY <2>2 DEF PassOver, Done
    <3>2. QED BY <2>0, <3>1, TaskPassedOver
  <2>3. ASSUME NEW t \in Task, Lose(t) PROVE Counts
    <3>1. /\ state[t] = "running" /\ run' = run /\ tries' = tries
          /\ \E s \in {"up_for_retry", "failed"} : state' = [state EXCEPT ![t] = s]
      BY <2>3 DEF Lose, AfterFailure
    <3>2. PICK s \in {"up_for_retry", "failed"} : state' = [state EXCEPT ![t] = s]
      BY <3>1
    <3>3. Closer
      BY <2>0, <3>1, <3>2, TryEnds
    <3>4. QED BY <3>1, <3>3
  <2>4. ASSUME NEW p \in procs, Step(p) PROVE Counts
    <3>1. run' = run /\ tries' = tries /\ Forward(p)
      BY <2>0, <2>4, StepShape, CallGoesForward
    <3>2. CASE state' = state
      BY <3>1, <3>2 DEF TurnsLeft, MaxTries
    <3>3. CASE state' # state
      <4>1. /\ p.task \in Task /\ state[p.task] = "running"
            /\ \E s \in {"success", "failed", "up_for_retry"} : state' = [state EXCEPT ![p.task] = s]
        BY <2>0, <2>4, <3>3, StateAfterCall
      <4>2. PICK s \in {"success", "failed", "up_for_retry"} : state' = [state EXCEPT ![p.task] = s]
        BY <4>1
      <4>3. Closer
        BY <2>0, <3>1, <4>1, <4>2, TryEnds
      <4>4. QED BY <3>1, <4>3
    <3>4. QED BY <3>2, <3>3
  <2>5. ASSUME NEW p \in procs, Die(p) PROVE Counts
    BY <2>5 DEF Die, Forward, TurnsLeft, MaxTries
  <2>6. CASE Rerun
    BY <2>0, <2>6 DEF Rerun, TypeOK
  <2>7. QED BY <1>2, <2>1, <2>2, <2>3, <2>4, <2>5, <2>6 DEF Next
<1>3. Spec => []AirflowInv
  BY AirflowInvariant
<1> HIDE DEF Counted, Counts
<1>4. Spec => []Counted /\ [][Counts]_vars
  BY <1>1, <1>2, <1>3, PTL DEF Spec
<1>5. QED BY <1>4 DEF Counted, Counts, EveryStepCounts
=============================================================================
