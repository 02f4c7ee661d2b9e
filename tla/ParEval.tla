------------------------------ MODULE ParEval ------------------------------
(***************************************************************************)
(* policy.IsAllowedPar: the policies are cut into jobs of PerWorker        *)
(* consecutive policies, worker goroutines take jobs from a closed channel *)
(* and send one decision per job, and the caller merges the decisions.     *)
(* The caller stops at the first denial: it cancels the context and waits  *)
(* for the workers.                                                        *)
(***************************************************************************)
EXTENDS AllowSpec, Integers, Sequences, FiniteSets

CONSTANTS PerWorker,  \* numPoliciesPerWorker (25 in the code)
          Procs       \* runtime.GOMAXPROCS(0)

\* "This must be at least 1."
ASSUME PerWorkerAssumption == PerWorker \in Nat \ {0}
ASSUME ProcsAssumption == Procs \in Nat \ {0}

VARIABLES
    pc,        \* the caller: "start", "collect", "drain", "wait", "done"
    taken,     \* jobs received from the channel jobs, a FIFO of 0, 1, ...
    resultCh,  \* the buffered channel of results; the job number in an
               \* entry is history, the caller reads res only
    recd,      \* results the caller has received
    gotAllow,
    cancelled, \* ctx is done
    got,       \* history: the jobs whose result the caller has received
    wpc,       \* each worker: "off", "recv", "check", "scan", "send", "exit"
    job,       \* the job a worker holds
    pos,       \* last policy a worker has decided
    res        \* the decision it accumulates

workerVars == <<wpc, job, pos, res>>
vars == <<decisions, answer, pc, taken, resultCh, recd, gotAllow, cancelled, got,
          wpc, job, pos, res>>

Workers == 1..Procs
Lesser(a, b) == IF a < b THEN a ELSE b

\* ceil(len(policies) / numPoliciesPerWorker).
NumJobs == (Len(decisions) + PerWorker - 1) \div PerWorker

NumWorkers == Lesser(Procs, NumJobs)

\* The policies of job k are First(k) .. Last(k), counted from one.
First(k) == k * PerWorker + 1
Last(k)  == Lesser((k + 1) * PerWorker, Len(decisions))

\* make(chan Decision, len(policies)).
ResultCap == Len(decisions)

\* A result and, as history, its job.
Entry == [job : Nat, res : Decision]

TypeOK ==
    /\ decisions \in DecisionLists
    /\ answer \in {"pending", "yes", "no"}
    /\ pc \in {"start", "collect", "drain", "wait", "done"}
    /\ taken \in 0..NumJobs
    /\ resultCh \in Seq(Entry)
    /\ recd \in 0..NumJobs
    /\ gotAllow \in BOOLEAN
    /\ cancelled \in BOOLEAN
    /\ got \in SUBSET (0..NumJobs - 1)
    /\ wpc \in [Workers -> {"off", "recv", "check", "scan", "send", "exit"}]
    /\ job \in [Workers -> Nat]
    /\ pos \in [Workers -> Nat]
    /\ res \in [Workers -> Decision]

Init ==
    /\ AbsInit
    /\ pc = "start"
    /\ taken = 0
    /\ resultCh = <<>>
    /\ recd = 0
    /\ gotAllow = FALSE
    /\ cancelled = FALSE
    /\ got = {}
    /\ wpc = [w \in Workers |-> "off"]
    /\ job = [w \in Workers |-> 0]
    /\ pos = [w \in Workers |-> 0]
    /\ res = [w \in Workers |-> "none"]

-----------------------------------------------------------------------------
(* The caller *)

\* No policy or one policy: answered without workers.
StartSmall ==
    /\ pc = "start"
    /\ Len(decisions) <= 1
    /\ answer' = IF Len(decisions) = 1 /\ decisions[1] = "allow" THEN "yes" ELSE "no"
    /\ pc' = "done"
    /\ UNCHANGED <<decisions, taken, resultCh, recd, gotAllow, cancelled, got, workerVars>>

\* Fill and close jobs, launch the workers.
StartWorkers ==
    /\ pc = "start"
    /\ Len(decisions) > 1
    /\ wpc' = [w \in Workers |-> IF w <= NumWorkers THEN "recv" ELSE "off"]
    /\ pc' = "collect"
    /\ UNCHANGED <<decisions, answer, taken, resultCh, recd, gotAllow, cancelled, got, job, pos, res>>

\* Mutant: a denial is merged like the absence of a decision.
CollectIgnoresDeny ==
    /\ pc = "collect"
    /\ recd < NumJobs
    /\ resultCh # <<>>
    /\ resultCh' = Tail(resultCh)
    /\ recd' = recd + 1
    /\ got' = got \cup {Head(resultCh).job}
    /\ gotAllow' = (gotAllow \/ Head(resultCh).res = "allow")
    /\ UNCHANGED <<decisions, answer, pc, taken, cancelled, workerVars>>

\* Receive one result; a denial cancels the context and leaves the loop.
Collect ==
    /\ pc = "collect"
    /\ recd < NumJobs
    /\ resultCh # <<>>
    /\ resultCh' = Tail(resultCh)
    /\ recd' = recd + 1
    /\ got' = got \cup {Head(resultCh).job}
    /\ IF Head(resultCh).res = "deny"
       THEN cancelled' = TRUE /\ pc' = "drain" /\ UNCHANGED gotAllow
       ELSE gotAllow' = (gotAllow \/ Head(resultCh).res = "allow") /\ UNCHANGED <<pc, cancelled>>
    /\ UNCHANGED <<decisions, answer, taken, workerVars>>

\* Mutant: one result too many is awaited.
CollectEndLate ==
    /\ pc = "collect"
    /\ recd > NumJobs
    /\ pc' = "wait"
    /\ UNCHANGED <<decisions, answer, taken, resultCh, recd, gotAllow, cancelled, got, workerVars>>

\* Mutant: one result too few is awaited.
CollectEndEarly ==
    /\ pc = "collect"
    /\ recd = NumJobs - 1
    /\ pc' = "wait"
    /\ UNCHANGED <<decisions, answer, taken, resultCh, recd, gotAllow, cancelled, got, workerVars>>

\* All the results are in.
CollectEnd ==
    /\ pc = "collect"
    /\ recd = NumJobs
    /\ pc' = "wait"
    /\ UNCHANGED <<decisions, answer, taken, resultCh, recd, gotAllow, cancelled, got, workerVars>>

\* The WaitGroup counts the launched workers that have not returned.
WorkersDone == \A w \in Workers : wpc[w] \in {"off", "exit"}

\* Mutant: false is returned without waiting for the workers.
DrainEarly ==
    /\ pc = "drain"
    /\ answer' = "no"
    /\ pc' = "done"
    /\ UNCHANGED <<decisions, taken, resultCh, recd, gotAllow, cancelled, got, workerVars>>

\* After a denial: wg.Wait(), return false.
Drain ==
    /\ pc = "drain"
    /\ WorkersDone
    /\ answer' = "no"
    /\ pc' = "done"
    /\ UNCHANGED <<decisions, taken, resultCh, recd, gotAllow, cancelled, got, workerVars>>

\* After all the results: wg.Wait(), return gotAllow; the deferred cancel runs.
WaitAll ==
    /\ pc = "wait"
    /\ WorkersDone
    /\ answer' = IF gotAllow THEN "yes" ELSE "no"
    /\ pc' = "done"
    /\ cancelled' = TRUE
    /\ UNCHANGED <<decisions, taken, resultCh, recd, gotAllow, got, workerVars>>

-----------------------------------------------------------------------------
(* A worker *)

\* for i := range jobs: take the next job, or return when the closed channel
\* is empty.
RecvJob(w) ==
    /\ wpc[w] = "recv"
    /\ IF taken < NumJobs
       THEN /\ job' = [job EXCEPT ![w] = taken]
            /\ taken' = taken + 1
            /\ wpc' = [wpc EXCEPT ![w] = "check"]
       ELSE /\ wpc' = [wpc EXCEPT ![w] = "exit"]
            /\ UNCHANGED <<job, taken>>
    /\ UNCHANGED <<decisions, answer, pc, resultCh, recd, gotAllow, cancelled, got, pos, res>>

\* The non-blocking look at ctx.Done() before the job is worked on.
CheckCtx(w) ==
    /\ wpc[w] = "check"
    /\ IF cancelled
       THEN /\ wpc' = [wpc EXCEPT ![w] = "exit"]
            /\ UNCHANGED <<pos, res>>
       ELSE /\ wpc' = [wpc EXCEPT ![w] = "scan"]
            /\ pos' = [pos EXCEPT ![w] = First(job[w]) - 1]
            /\ res' = [res EXCEPT ![w] = "none"]
    /\ UNCHANGED <<decisions, answer, pc, taken, resultCh, recd, gotAllow, cancelled, got, job>>

\* Decide the next policy of the job; a denial ends the job.
Scan(w) ==
    /\ wpc[w] = "scan"
    /\ pos[w] < Last(job[w])
    /\ pos' = [pos EXCEPT ![w] = @ + 1]
    /\ IF decisions[pos[w] + 1] = "deny"
       THEN /\ res' = [res EXCEPT ![w] = "deny"]
            /\ wpc' = [wpc EXCEPT ![w] = "send"]
       ELSE /\ res' = [res EXCEPT ![w] = IF decisions[pos[w] + 1] = "allow" THEN "allow" ELSE @]
            /\ UNCHANGED wpc
    /\ UNCHANGED <<decisions, answer, pc, taken, resultCh, recd, gotAllow, cancelled, got, job>>

\* The job's policies are all decided.
ScanEnd(w) ==
    /\ wpc[w] = "scan"
    /\ pos[w] = Last(job[w])
    /\ wpc' = [wpc EXCEPT ![w] = "send"]
    /\ UNCHANGED <<decisions, answer, pc, taken, resultCh, recd, gotAllow, cancelled, got, job, pos, res>>

\* select, first case: the result goes into the channel if there is room.
SendResult(w) ==
    /\ wpc[w] = "send"
    /\ Len(resultCh) < ResultCap
    /\ resultCh' = Append(resultCh, [job |-> job[w], res |-> res[w]])
    /\ wpc' = [wpc EXCEPT ![w] = "recv"]
    /\ UNCHANGED <<decisions, answer, pc, taken, recd, gotAllow, cancelled, got, job, pos, res>>

\* select, second case: the context is done.  When both cases are ready the
\* runtime picks either.
SendCancelled(w) ==
    /\ wpc[w] = "send"
    /\ cancelled
    /\ wpc' = [wpc EXCEPT ![w] = "exit"]
    /\ UNCHANGED <<decisions, answer, pc, taken, resultCh, recd, gotAllow, cancelled, got, job, pos, res>>

Caller == StartSmall \/ StartWorkers \/ Collect \/ CollectEnd \/ Drain \/ WaitAll

Worker(w) ==
    RecvJob(w) \/ CheckCtx(w) \/ Scan(w) \/ ScanEnd(w) \/ SendResult(w) \/ SendCancelled(w)

Finished == pc = "done" /\ UNCHANGED vars

Next == Caller \/ (\E w \in Workers : Worker(w)) \/ Finished

\* Goroutines that can run do run.
Fairness == WF_vars(Caller) /\ \A w \in Workers : WF_vars(Worker(w))

Spec == Init /\ [][Next]_vars /\ Fairness

-----------------------------------------------------------------------------
\* The abstract evaluation has answered when the caller has returned.
Evaluation == INSTANCE AllowSpec WITH answer <- IF pc = "done" THEN answer ELSE "pending"

\* The parallel evaluation returns what the serial one does: it answers
\* once, and "yes" exactly when nobody denies and somebody allows.
Implements == Evaluation!AbsSpec

\* "yes" is returned only after the result of every job has been merged: no
\* policy that could deny was left out by an early exit of a worker.
YesSawEveryJob == answer = "yes" /\ Len(decisions) > 1 => got = 0..NumJobs - 1

\* IsAllowedPar returns with no worker goroutine left behind that still
\* reads the caller's slice of policies.
LeavesNoWorker == pc = "done" => WorkersDone

\* The evaluation returns: neither the caller nor a worker waits for ever.
Terminates == <>(pc = "done")
============================================================================
