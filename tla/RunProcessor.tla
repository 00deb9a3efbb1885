---------------------------- MODULE RunProcessor ----------------------------
(***************************************************************************)
(* RunProcessor, the BullMQ worker of the queue "runs": it picks a job up, *)
(* runs the agent graph from 'extractGoal' or from 'executor', persists    *)
(* what came out and writes the status the run ends in.  Each step below   *)
(* ends where the code awaits the database, the queue or a tool.           *)
(*                                                                         *)
(* Of the graph it keeps what decides the run's fate: whether a plan is    *)
(* made, where the planner's edge leads, the executor's loop with its      *)
(* approval gate, the idempotency cache in front of a tool call, and which *)
(* errors end in the fallback node and which ones leave the graph.         *)
(***************************************************************************)
EXTENDS RunStore

ApiUnchanged == UNCHANGED <<reqs, consent, budget>>

Goto(j, changes) == proc' = [proc EXCEPT ![j] = changes]

(* The job's attempt is over: BullMQ drops the job, or puts it back.       *)
Completed(j) == queue' = [queue EXCEPT ![j] = NoJob]
Failed(j) ==
  LET n == queue[j].att + 1
  IN  queue' = [queue EXCEPT ![j] =
        IF n < MaxAttempts THEN [@ EXCEPT !.st = "waiting", !.att = n] ELSE NoJob]

-----------------------------------------------------------------------------
(* process: the row is read once, and that copy decides the entry node, the *)
(* starting plan and which earlier output is kept, whatever happens to the  *)
(* row afterwards.  The status of the row is not looked at.                 *)
PickUp(j) ==
  /\ queue[j].st = "waiting"
  /\ Cardinality(Active) < Workers
  /\ queue' = [queue EXCEPT ![j].st = "active"]
  /\ Goto(j, [NoProc EXCEPT !.pc = "mark", !.resume = run.resume,
                !.plan = StartPlan(run, queue[j]),
                !.approved = StartApproved(run, queue[j]), !.kept = run.out.commits])
  /\ UNCHANGED <<run, tasks, ran, cache, shown>> /\ ApiUnchanged

MarkRunning(j) ==
  /\ proc[j].pc = "mark"
  /\ run' = [run EXCEPT !.status = "RUNNING"]
  /\ Goto(j, [proc[j] EXCEPT !.pc = IF proc[j].resume THEN "exec" ELSE "plan"])
  /\ UNCHANGED <<queue, tasks, ran, cache, shown>> /\ ApiUnchanged

(* The graph ends without executing plan p; earlier commits are kept.       *)
EndOfGraph(j, p, outcome) ==
  [proc[j] EXCEPT !.plan = p, !.pc = "persist", !.commits = proc[j].kept, !.outcome = outcome]

(* The graph from extractGoal through the planner's edge.  plan_generated   *)
(* shows the plan to the user and starts a persistPlan nobody waits for.    *)
(* A plan with nothing to execute goes on to the executor in every mode;    *)
(* any other goes on only in mode AUTO (mapRunMode maps what is neither     *)
(* 'preview' nor 'auto' to APPROVAL).  No goal names missing inputs any     *)
(* more, so neither ensure_inputs nor confirm ends the graph to ask for     *)
(* them: see AgentGraph.                                                    *)
MakePlan(j) ==
  \E p \in PlanOrNone :
    /\ proc[j].pc = "plan"
    /\ tasks' = tasks \cup {[pc |-> "load", plan |-> p, commits |-> {}]}
    /\ shown' = [plan |-> p, asked |-> Step]
    /\ \/ (p = NoPlan \/ run.mode = "auto") /\ Goto(j, [proc[j] EXCEPT !.plan = p, !.pc = "exec"])
       \/ p # NoPlan /\ run.mode = "preview" /\ Goto(j, EndOfGraph(j, p, "done"))
       \/ p # NoPlan /\ run.mode \notin {"auto", "preview"} /\ Goto(j, EndOfGraph(j, p, "approval"))
    /\ UNCHANGED <<run, queue, ran, cache>> /\ ApiUnchanged

-----------------------------------------------------------------------------
(* A defect: the executor's loop runs one step too far.                     *)
HasStepOffByOne(j) == proc[j].pc = "exec" /\ proc[j].plan # NoPlan /\ proc[j].next <= NSteps + 1

HasStep(j) == proc[j].pc = "exec" /\ proc[j].plan # NoPlan /\ proc[j].next <= NSteps

Current(j) == <<proc[j].plan, proc[j].next>>

(* A defect: any approval at all clears every step.                         *)
ClearedByAnyApproval(j, s) == s \notin HighRisk \/ proc[j].approved \cap Step # {}

(* isApprovedStep: a low-risk step needs no approval.                       *)
Cleared(j, s) == s \notin HighRisk \/ s \in proc[j].approved

Advance(p) == [p EXCEPT !.pc = "exec", !.next = @ + 1, !.commits = @ \cup {p.next}]

(* The executor loop always starts at the plan's first step.  A step is     *)
(* skipped when the step it depends on (planner: the one before) ran with   *)
(* an empty result.                                                         *)
SkipStep(j) ==
  /\ "skip" \in Faults
  /\ HasStep(j)
  /\ proc[j].next - 1 \in proc[j].commits
  /\ Goto(j, [proc[j] EXCEPT !.next = @ + 1])
  /\ UNCHANGED <<run, queue, tasks, ran, cache, shown>> /\ ApiUnchanged

(* A high-risk step nobody approved: tell the user which, halt the graph.   *)
HaltForApproval(j) ==
  /\ HasStep(j)
  /\ ~Cleared(j, proc[j].next)
  /\ shown' = [plan |-> proc[j].plan, asked |-> {proc[j].next}]
  /\ Goto(j, [proc[j] EXCEPT !.pc = "persist", !.outcome = "halt"])
  /\ UNCHANGED <<run, queue, tasks, ran, cache>> /\ ApiUnchanged

(* A defect: the executor's gate is not consulted.                          *)
LookupUngated(j) ==
  /\ HasStep(j)
  /\ Goto(j, IF Current(j) \in cache THEN Advance(proc[j])
             ELSE [proc[j] EXCEPT !.pc = "call"])
  /\ UNCHANGED <<run, queue, tasks, ran, cache, shown>> /\ ApiUnchanged

(* registry.call: a cached result is returned as it is, otherwise the tool  *)
(* is called.                                                               *)
Lookup(j) ==
  /\ HasStep(j)
  /\ Cleared(j, proc[j].next)
  /\ Goto(j, IF Current(j) \in cache THEN Advance(proc[j])
             ELSE [proc[j] EXCEPT !.pc = "call"])
  /\ UNCHANGED <<run, queue, tasks, ran, cache, shown>> /\ ApiUnchanged

Effect(a) == ran' = [ran EXCEPT ![a] = IF @ < Many THEN @ + 1 ELSE @]

(* A defect: the result of a call is not stored.                            *)
CallToolUncached(j) ==
  /\ proc[j].pc = "call"
  /\ Effect(Current(j))
  /\ Goto(j, Advance(proc[j]))
  /\ UNCHANGED <<run, queue, tasks, cache, shown>> /\ ApiUnchanged

CallTool(j) ==
  /\ proc[j].pc = "call"
  /\ Effect(Current(j))
  /\ cache' = cache \cup {Current(j)}
  /\ Goto(j, Advance(proc[j]))
  /\ UNCHANGED <<run, queue, tasks, shown>> /\ ApiUnchanged

(* A defect: the commit is recorded before the tool has answered.           *)
CallFailsCommitted(j) ==
  /\ "tool" \in Faults
  /\ proc[j].pc = "call"
  /\ Goto(j, [Advance(proc[j]) EXCEPT !.pc = "persist", !.outcome = "done"])
  /\ UNCHANGED <<run, queue, tasks, ran, cache, shown>> /\ ApiUnchanged

(* A failing step ends in the fallback node, and the run is finalized like  *)
(* any other, without the commits of this attempt.  The tool may have had   *)
(* its effect before it failed ("ambiguous").                               *)
CallFails(j) ==
  /\ "tool" \in Faults
  /\ proc[j].pc = "call"
  /\ \/ UNCHANGED ran
     \/ "ambiguous" \in Faults /\ Effect(Current(j))
  /\ Goto(j, [proc[j] EXCEPT !.pc = "persist", !.outcome = "done", !.commits = proc[j].kept])
  /\ UNCHANGED <<run, queue, tasks, cache, shown>> /\ ApiUnchanged

FinishPlan(j) ==
  /\ proc[j].pc = "exec"
  /\ ~HasStep(j)
  /\ Goto(j, [proc[j] EXCEPT !.pc = "persist", !.outcome = "done"])
  /\ UNCHANGED <<run, queue, tasks, ran, cache, shown>> /\ ApiUnchanged

(* summarize, which follows unless there was only a chat answer, is not     *)
(* wrapped in safeNode: an LLM error there leaves the graph, after every    *)
(* step of the plan has been executed.                                      *)
SummarizeFails(j) ==
  /\ "llm" \in Faults
  /\ proc[j].pc = "exec"
  /\ ~HasStep(j)
  /\ proc[j].resume \/ proc[j].plan # NoPlan
  /\ Goto(j, [proc[j] EXCEPT !.pc = "persist", !.outcome = "fail"])
  /\ UNCHANGED <<run, queue, tasks, ran, cache, shown>> /\ ApiUnchanged

-----------------------------------------------------------------------------
(* A defect: the output of a halted run has no plan.                        *)
PersistWithoutPlan(j) ==
  /\ proc[j].pc = "persist"
  /\ run' = [run EXCEPT !.out = [plan |-> NoPlan, commits |-> proc[j].commits]]
  /\ Goto(j, [proc[j] EXCEPT !.pc = "settle"])
  /\ UNCHANGED <<queue, tasks, ran, cache, shown>> /\ ApiUnchanged

(* persistResult overwrites run.output.  Only an approval halt keeps the    *)
(* plan in it (liveState.scratch); an error leaves no output at all.        *)
Persist(j) ==
  /\ proc[j].pc = "persist"
  /\ run' = [run EXCEPT !.out =
       CASE proc[j].outcome = "halt" -> [plan |-> proc[j].plan, commits |-> proc[j].kept]
         [] proc[j].outcome = "fail" -> NoOutput
         [] OTHER                    -> [plan |-> NoPlan, commits |-> proc[j].commits]]
  /\ Goto(j, [proc[j] EXCEPT !.pc = "settle"])
  /\ UNCHANGED <<queue, tasks, ran, cache, shown>> /\ ApiUnchanged

FinalStatus(outcome) ==
  CASE outcome \in {"approval", "halt"} -> "AWAITING_APPROVAL"
    [] outcome = "fail"                 -> "FAILED"
    [] OTHER                            -> "DONE"

(* A defect: an error is rethrown before the status is written.             *)
SettleSilently(j) ==
  /\ proc[j].pc = "settle"
  /\ IF proc[j].outcome = "fail"
     THEN Failed(j) /\ UNCHANGED run
     ELSE Completed(j) /\ run' = [run EXCEPT !.status = FinalStatus(proc[j].outcome)]
  /\ Goto(j, NoProc)
  /\ UNCHANGED <<tasks, ran, cache, shown>> /\ ApiUnchanged

(* The status is written last.  An error is rethrown, so BullMQ counts the  *)
(* attempt as failed; every other outcome completes the job.                *)
Settle(j) ==
  /\ proc[j].pc = "settle"
  /\ run' = [run EXCEPT !.status = FinalStatus(proc[j].outcome)]
  /\ IF proc[j].outcome = "fail" THEN Failed(j) ELSE Completed(j)
  /\ Goto(j, NoProc)
  /\ UNCHANGED <<tasks, ran, cache, shown>> /\ ApiUnchanged

(* A write of the result or of the status throws.  In process's own try the *)
(* error is handled like one of the graph, ...                              *)
WriteFails(j) ==
  /\ "db" \in Faults
  /\ proc[j].pc \in {"persist", "settle"} /\ proc[j].outcome \in {"done", "approval"}
  /\ Goto(j, [proc[j] EXCEPT !.pc = "persist", !.outcome = "fail"])
  /\ UNCHANGED <<run, queue, tasks, ran, cache, shown>> /\ ApiUnchanged

(* ... but before the try and in the error handler, which also writes the   *)
(* status of a halt, it leaves the job, and the row as it was.              *)
ErrorEscapes(j) ==
  /\ "db" \in Faults
  /\ \/ proc[j].pc = "mark"
     \/ proc[j].pc \in {"persist", "settle"} /\ proc[j].outcome \in {"halt", "fail"}
  /\ Failed(j)
  /\ Goto(j, NoProc)
  /\ UNCHANGED <<run, tasks, ran, cache, shown>> /\ ApiUnchanged

-----------------------------------------------------------------------------
(* persistPlan: read the output, create the planned steps, write the output *)
(* that was read back with the plan added.                                  *)
LoadTask(t) ==
  /\ t.pc = "load"
  /\ tasks' = (tasks \ {t}) \cup {[t EXCEPT !.pc = "write", !.commits = run.out.commits]}
  /\ UNCHANGED <<run, queue, proc, ran, cache, shown>> /\ ApiUnchanged

WriteTask(t) ==
  /\ t.pc = "write"
  /\ run' = [run EXCEPT !.out = [plan |-> t.plan, commits |-> t.commits]]
  /\ tasks' = tasks \ {t}
  /\ UNCHANGED <<queue, proc, ran, cache, shown>> /\ ApiUnchanged

(* An entry of the idempotency cache expires after fifteen minutes.         *)
Evict(a) ==
  /\ "evict" \in Faults
  /\ cache' = cache \ {a}
  /\ UNCHANGED <<run, queue, proc, tasks, ran, shown>> /\ ApiUnchanged

(* The process that serves the API and runs the worker dies.  The cache,    *)
(* the requests and the unawaited tasks die with it; BullMQ finds the jobs  *)
(* it held stalled and hands each out again, but only once.                 *)
Crash ==
  /\ "crash" \in Faults
  /\ proc' = [j \in Jobs |-> NoProc]
  /\ queue' = [j \in Jobs |->
       IF queue[j].st # "active" THEN queue[j]
       ELSE IF queue[j].stalled THEN NoJob
       ELSE [queue[j] EXCEPT !.st = "waiting", !.stalled = TRUE]]
  /\ tasks' = {} /\ cache' = {}
  /\ reqs' = [r \in Requests |-> NoReq]
  /\ UNCHANGED <<run, ran, shown, consent, budget>>

WorkOn(j) ==
  \/ MarkRunning(j) \/ MakePlan(j)
  \/ SkipStep(j) \/ HaltForApproval(j) \/ Lookup(j) \/ CallTool(j) \/ CallFails(j)
  \/ FinishPlan(j) \/ SummarizeFails(j) \/ Persist(j) \/ Settle(j)
  \/ WriteFails(j) \/ ErrorEscapes(j)

Housekeep == \E t \in tasks : LoadTask(t) \/ WriteTask(t)
=============================================================================
