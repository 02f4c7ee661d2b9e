--------------------------- MODULE ParEvalProofs ---------------------------
(***************************************************************************)
(* IsAllowedPar returns what IsAllowedSerial returns, for any number of    *)
(* policies, any job size and any number of processors.                    *)
(*                                                                         *)
(* The inductive invariant says three things: every job number below taken *)
(* is in one place only (held by one worker, in the channel, or received); *)
(* a result that left a worker is the decision of the whole job; and the   *)
(* caller's gotAllow and its place summarise the jobs it has received.     *)
(***************************************************************************)
EXTENDS ParEval, FiniteSetTheorems, TLAPS

DenyIn(a, b)  == \E n \in a..b : decisions[n] = "deny"
AllowIn(a, b) == \E n \in a..b : decisions[n] = "allow"
JobDenies(k)  == DenyIn(First(k), Last(k))
JobAllows(k)  == AllowIn(First(k), Last(k))

\* r is the decision of job k taken as a whole.
DecisionOf(r, k) ==
    /\ r = "deny"  => JobDenies(k)
    /\ r = "allow" => JobAllows(k) /\ ~JobDenies(k)
    /\ r = "none"  => ~JobAllows(k) /\ ~JobDenies(k)

Holding(w) == wpc[w] \in {"check", "scan", "send"}
Queued == 1..Len(resultCh)

HeldOnce ==
    \A w \in Workers : Holding(w) =>
        /\ job[w] < taken
        /\ job[w] \notin got
        /\ \A n \in Queued : resultCh[n].job # job[w]
        /\ \A v \in Workers : Holding(v) /\ job[v] = job[w] => v = w

QueuedOnce ==
    \A n \in Queued :
        /\ resultCh[n].job < taken
        /\ resultCh[n].job \notin got
        /\ \A m \in Queued : resultCh[m].job = resultCh[n].job => m = n
        /\ DecisionOf(resultCh[n].res, resultCh[n].job)

ScanOK ==
    \A w \in Workers :
        /\ wpc[w] = "scan" =>
            /\ pos[w] \in First(job[w]) - 1 .. Last(job[w])
            /\ ~DenyIn(First(job[w]), pos[w])
            /\ res[w] # "deny"
            /\ res[w] = "allow" <=> AllowIn(First(job[w]), pos[w])
        /\ wpc[w] = "send" => DecisionOf(res[w], job[w])

CallerOK ==
    /\ \A k \in got : k < taken
    /\ recd = Cardinality(got)
    /\ gotAllow => \E k \in got : JobAllows(k)
    /\ \A k \in got : JobAllows(k) /\ ~JobDenies(k) => gotAllow
    /\ pc \in {"start", "collect", "wait"} => \A k \in got : ~JobDenies(k)
    /\ pc = "drain" => \E k \in got : JobDenies(k)
    /\ pc = "wait" => recd = NumJobs
    /\ pc = "start" => \A w \in Workers : wpc[w] = "off"
    /\ pc # "done" => answer = "pending"
    /\ pc = "done" => answer = Verdict(decisions) /\ WorkersDone
    /\ pc = "done" /\ answer = "yes" /\ Len(decisions) > 1 => got = 0..NumJobs - 1

IInv == TypeOK /\ HeldOnce /\ QueuedOnce /\ ScanOK /\ CallerOK

-----------------------------------------------------------------------------
\* A list of decisions is a sequence.
LEMMA ListIsSeq ==
    ASSUME NEW d \in DecisionLists
    PROVE  d \in Seq(Decision) /\ Len(d) \in Nat /\ DOMAIN d = 1..Len(d)
<1>1. PICK n \in 0..MaxPolicies : d \in [1..n -> Decision]
    BY MaxPoliciesAssumption DEF DecisionLists
<1>2. d \in Seq(Decision)
    BY <1>1
<1>3. QED
    BY <1>1, <1>2

\* Rounding up: the jobs are numbered below NumJobs exactly as far as there
\* are policies for them.
LEMMA Ceiling ==
    ASSUME NEW n \in Nat, NEW p \in Nat \ {0}
    PROVE  LET q == (n + p - 1) \div p
           IN  /\ q \in Nat
               /\ q * p >= n
               /\ q * p <= n + p - 1
BY Z3T(60)

\* A natural number lies in exactly the multiple of p it is divided into.
LEMMA Quotient ==
    ASSUME NEW a \in Nat, NEW p \in Nat \ {0}
    PROVE  LET q == a \div p
           IN  /\ q \in Nat
               /\ q * p <= a
               /\ a < (q + 1) * p
BY Z3T(60)

\* Multiplication by a positive number preserves order.
LEMMA MulOrder ==
    ASSUME NEW a \in Int, NEW b \in Int, NEW p \in Nat \ {0}
    PROVE  /\ a <= b => a * p <= b * p
           /\ a * p < b * p => a < b
BY Z3T(60)

\* What is left of a non-empty queue once its head is gone.
LEMMA HeadTail ==
    ASSUME NEW S, NEW q \in Seq(S), q # <<>>
    PROVE  /\ Len(q) \in Nat \ {0}
           /\ Head(q) = q[1] /\ Head(q) \in S
           /\ Tail(q) \in Seq(S)
           /\ Len(Tail(q)) = Len(q) - 1
           /\ \A n \in 1..Len(q) - 1 : Tail(q)[n] = q[n + 1]
OBVIOUS

\* The number of jobs is a natural number, and zero only for an empty list.
LEMMA NumJobsNat ==
    ASSUME TypeOK
    PROVE  NumJobs \in Nat
<1>1. Len(decisions) \in Nat
    BY ListIsSeq DEF TypeOK
<1>2. QED
    BY <1>1, Ceiling, PerWorkerAssumption DEF NumJobs

\* Every policy belongs to a job.
LEMMA Cover ==
    ASSUME TypeOK, NEW n \in 1..Len(decisions)
    PROVE  \E k \in 0..NumJobs - 1 : n \in First(k)..Last(k)
<1> DEFINE k == (n - 1) \div PerWorker
           q == NumJobs
<1>1. Len(decisions) \in Nat /\ n \in Nat /\ n - 1 \in Nat /\ PerWorker \in Nat \ {0}
    BY ListIsSeq, PerWorkerAssumption DEF TypeOK
<1>2. /\ k \in Nat
      /\ k * PerWorker <= n - 1
      /\ n - 1 < (k + 1) * PerWorker
    BY <1>1, Quotient
<1>3. q \in Nat /\ q * PerWorker >= Len(decisions)
    BY <1>1, Ceiling DEF NumJobs
<1> HIDE DEF k, q
<1>4. k * PerWorker \in Int /\ (k + 1) * PerWorker \in Int /\ q * PerWorker \in Int
    BY <1>1, <1>2, <1>3
<1>5. k * PerWorker < q * PerWorker
    BY <1>1, <1>2, <1>3, <1>4
<1>6. k < q
    BY <1>1, <1>2, <1>3, <1>5, MulOrder
<1>7. n \in First(k)..Last(k)
    BY <1>1, <1>2, <1>4 DEF First, Last, Lesser
<1>8. QED
    BY <1>2, <1>3, <1>6, <1>7 DEF q

\* A job's policies are policies of the list.
LEMMA Within ==
    ASSUME TypeOK, NEW k \in Nat
    PROVE  /\ First(k) \in Nat \ {0}
           /\ Last(k) \in Nat
           /\ First(k)..Last(k) \subseteq 1..Len(decisions)
           /\ k < NumJobs => First(k) <= Last(k)
<1>1. Len(decisions) \in Nat /\ PerWorker \in Nat \ {0}
    BY ListIsSeq, PerWorkerAssumption DEF TypeOK
<1>2. k * PerWorker \in Nat /\ (k + 1) * PerWorker = k * PerWorker + PerWorker
    BY <1>1, Z3
<1>3. First(k) \in Nat \ {0} /\ Last(k) \in Nat /\ Last(k) <= Len(decisions)
    BY <1>1, <1>2 DEF First, Last, Lesser
<1>4. First(k)..Last(k) \subseteq 1..Len(decisions)
    BY <1>1, <1>3
<1>5. ASSUME k < NumJobs PROVE First(k) <= Last(k)
  <2> DEFINE q == NumJobs
  <2>1. q \in Nat /\ q * PerWorker <= Len(decisions) + PerWorker - 1
      BY <1>1, Ceiling DEF NumJobs
  <2> HIDE DEF q
  <2>2. k + 1 <= q
      BY <2>1, <1>5 DEF q
  <2>3. (k + 1) * PerWorker <= q * PerWorker /\ q * PerWorker \in Int
      BY <1>1, <2>1, <2>2, MulOrder
  <2>4. k * PerWorker + 1 <= Len(decisions)
      BY <1>1, <1>2, <2>1, <2>3
  <2>5. QED
      BY <1>1, <1>2, <2>4 DEF First, Last, Lesser
<1>6. QED
    BY <1>3, <1>4, <1>5

\* A set of as many job numbers as there are jobs holds them all.
LEMMA AllJobs ==
    ASSUME TypeOK, Cardinality(got) = NumJobs
    PROVE  got = 0..NumJobs - 1
<1>1. NumJobs \in Nat
    BY NumJobsNat
<1>2. IsFiniteSet(0..NumJobs - 1) /\ Cardinality(0..NumJobs - 1) = NumJobs
    BY <1>1, FS_Interval
<1>3. QED
    BY <1>2, FS_Subset DEF TypeOK

-----------------------------------------------------------------------------
\* The list of decisions never changes, so neither do the jobs.
LEMMA Fixed ==
    ASSUME [Next]_vars
    PROVE  /\ decisions' = decisions
           /\ NumJobs' = NumJobs
           /\ \A k : First(k)' = First(k) /\ Last(k)' = Last(k)
           /\ \A a, b : DenyIn(a, b)' = DenyIn(a, b) /\ AllowIn(a, b)' = AllowIn(a, b)
           /\ \A k : JobDenies(k)' = JobDenies(k) /\ JobAllows(k)' = JobAllows(k)
           /\ \A r, k : DecisionOf(r, k)' = DecisionOf(r, k)
<1>1. decisions' = decisions
    BY DEF Next, vars, Caller, Worker, Finished, StartSmall, StartWorkers, Collect, CollectEnd,
           Drain, WaitAll, RecvJob, CheckCtx, Scan, ScanEnd, SendResult, SendCancelled
<1>2. NumJobs' = NumJobs
    BY <1>1 DEF NumJobs
<1>3. \A k : First(k)' = First(k) /\ Last(k)' = Last(k)
    BY <1>1 DEF First, Last, Lesser
<1>4. \A a, b : DenyIn(a, b)' = DenyIn(a, b) /\ AllowIn(a, b)' = AllowIn(a, b)
    BY <1>1 DEF DenyIn, AllowIn
<1>5. \A k : JobDenies(k)' = JobDenies(k) /\ JobAllows(k)' = JobAllows(k)
    BY <1>3, <1>4 DEF JobDenies, JobAllows
<1>6. \A r, k : DecisionOf(r, k)' = DecisionOf(r, k)
    BY <1>5 DEF DecisionOf
<1>7. QED
    BY <1>1, <1>2, <1>3, <1>4, <1>5, <1>6

\* No job is taken when the evaluation starts.
LEMMA InitIInv == Init => IInv
<1> SUFFICES ASSUME Init PROVE IInv
    OBVIOUS
<1>1. Len(decisions) \in Nat
    BY ListIsSeq DEF Init, AbsInit
<1>2. NumJobs \in Nat
    BY <1>1, Ceiling, PerWorkerAssumption DEF NumJobs
<1>3. TypeOK
  <2>1. resultCh \in Seq(Entry) /\ got \in SUBSET (0..NumJobs - 1) /\ taken \in 0..NumJobs /\ recd \in 0..NumJobs
      BY <1>2 DEF Init
  <2>2. /\ wpc \in [Workers -> {"off", "recv", "check", "scan", "send", "exit"}]
        /\ job \in [Workers -> Nat]
        /\ pos \in [Workers -> Nat]
        /\ res \in [Workers -> Decision]
      BY DEF Init, Decision
  <2>3. QED
      BY <2>1, <2>2 DEF Init, AbsInit, TypeOK
<1>4. Cardinality(got) = 0
    BY FS_EmptySet DEF Init
<1>5. QED
    BY <1>1, <1>3, <1>4 DEF Init, AbsInit, IInv, HeldOnce, QueuedOnce, ScanOK, CallerOK, Holding, Queued

\* Every step keeps the types.
LEMMA TypeStep ==
    ASSUME IInv, [Next]_vars
    PROVE  TypeOK'
<1>1. /\ NumJobs \in Nat
      /\ Len(decisions) \in Nat
      /\ PerWorker \in Nat \ {0}
      /\ NumJobs' = NumJobs
      /\ decisions' = decisions
      /\ TypeOK
    BY NumJobsNat, ListIsSeq, PerWorkerAssumption, Fixed DEF IInv, TypeOK
<1>2. CASE StartSmall
    BY <1>1, <1>2 DEF TypeOK, StartSmall, workerVars
<1>3. CASE StartWorkers
    BY <1>1, <1>3 DEF TypeOK, StartWorkers
<1>4. CASE Collect
  <2>1. Head(resultCh) = resultCh[1] /\ Head(resultCh) \in Entry /\ Tail(resultCh) \in Seq(Entry) /\ 1 \in Queued
      BY <1>1, <1>4, HeadTail DEF TypeOK, Collect, Queued
  <2>2. Head(resultCh).job \in Nat
      BY <2>1 DEF Entry
  <2>3. Head(resultCh).job < taken
      BY <2>1 DEF IInv, QueuedOnce
  <2>4. taken \in 0..NumJobs
      BY <1>1 DEF TypeOK
  <2>5. Head(resultCh).job \in 0..NumJobs - 1
      BY <1>1, <2>2, <2>3, <2>4
  <2>6. got' \in SUBSET (0..NumJobs - 1)
      BY <1>1, <1>4, <2>5 DEF TypeOK, Collect
  <2>7. recd' \in 0..NumJobs /\ pc' \in {"start", "collect", "drain", "wait", "done"}
      BY <1>1, <1>4 DEF TypeOK, Collect
  <2>8. gotAllow' \in BOOLEAN /\ cancelled' \in BOOLEAN
      BY <1>1, <1>4 DEF TypeOK, Collect
  <2>9. QED
      BY <1>1, <1>4, <2>1, <2>6, <2>7, <2>8 DEF TypeOK, Collect, workerVars
<1>5. CASE CollectEnd
    BY <1>1, <1>5 DEF TypeOK, CollectEnd, workerVars
<1>6. CASE Drain
    BY <1>1, <1>6 DEF TypeOK, Drain, workerVars
<1>7. CASE WaitAll
    BY <1>1, <1>7 DEF TypeOK, WaitAll, workerVars
<1>8. ASSUME NEW w \in Workers, RecvJob(w) PROVE TypeOK'
  <2>1. taken \in Nat /\ taken <= NumJobs
      BY <1>1 DEF TypeOK
  <2>2. taken' \in 0..NumJobs /\ job' \in [Workers -> Nat]
      BY <1>1, <1>8, <2>1 DEF TypeOK, RecvJob
  <2>3. wpc' \in [Workers -> {"off", "recv", "check", "scan", "send", "exit"}]
      BY <1>1, <1>8 DEF TypeOK, RecvJob
  <2>4. QED
      BY <1>1, <1>8, <2>2, <2>3 DEF TypeOK, RecvJob
<1>9. ASSUME NEW w \in Workers, CheckCtx(w) PROVE TypeOK'
  <2>1. job[w] \in Nat
      BY <1>1 DEF TypeOK
  <2>2. First(job[w]) - 1 \in Nat
    <3>1. First(job[w]) \in Nat \ {0}
        BY <1>1, <2>1, Within, Zenon
    <3>2. QED
        BY <3>1
  <2>3. pos' \in [Workers -> Nat] /\ res' \in [Workers -> Decision]
      BY <1>1, <1>9, <2>2 DEF TypeOK, CheckCtx, Decision
  <2>4. wpc' \in [Workers -> {"off", "recv", "check", "scan", "send", "exit"}]
      BY <1>1, <1>9 DEF TypeOK, CheckCtx
  <2>5. QED
      BY <1>1, <1>9, <2>3, <2>4 DEF TypeOK, CheckCtx
<1>10. ASSUME NEW w \in Workers, Scan(w) PROVE TypeOK'
  <2>0. pos' \in [Workers -> Nat]
      BY <1>1, <1>10 DEF TypeOK, Scan
  <2>1. res' \in [Workers -> Decision]
    <3>1. PICK r \in Decision : res' = [res EXCEPT ![w] = r]
        BY <1>1, <1>10 DEF TypeOK, Scan, Decision
    <3>2. QED
        BY <1>1, <3>1 DEF TypeOK
  <2>2. wpc' \in [Workers -> {"off", "recv", "check", "scan", "send", "exit"}]
      BY <1>1, <1>10 DEF TypeOK, Scan
  <2>3. QED
      BY <1>1, <1>10, <2>0, <2>1, <2>2 DEF TypeOK, Scan
<1>11. ASSUME NEW w \in Workers, ScanEnd(w) PROVE TypeOK'
    BY <1>1, <1>11 DEF TypeOK, ScanEnd
<1>12. ASSUME NEW w \in Workers, SendResult(w) PROVE TypeOK'
  <2>1. [job |-> job[w], res |-> res[w]] \in Entry
      BY <1>1 DEF TypeOK, Entry
  <2>2. resultCh' \in Seq(Entry)
      BY <1>1, <1>12, <2>1 DEF TypeOK, SendResult
  <2>3. QED
      BY <1>1, <1>12, <2>2 DEF TypeOK, SendResult
<1>13. ASSUME NEW w \in Workers, SendCancelled(w) PROVE TypeOK'
    BY <1>1, <1>13 DEF TypeOK, SendCancelled
<1>14. CASE UNCHANGED vars
    BY <1>1, <1>14 DEF TypeOK, vars
<1>15. QED
    BY <1>2, <1>3, <1>4, <1>5, <1>6, <1>7, <1>8, <1>9, <1>10, <1>11, <1>12, <1>13, <1>14
       DEF Next, Caller, Worker, Finished

\* A step that touches no job, no result and no worker keeps what the
\* invariant says of them.
LEMMA Frame ==
    ASSUME IInv, [Next]_vars, UNCHANGED <<taken, resultCh, got, wpc, job, pos, res>>
    PROVE  HeldOnce' /\ QueuedOnce' /\ ScanOK'
<1>1. HeldOnce'
    BY DEF IInv, HeldOnce, Holding, Queued
<1>2. QueuedOnce'
    BY Fixed DEF IInv, QueuedOnce, Queued
<1>3. ScanOK'
    BY Fixed DEF IInv, ScanOK
<1>4. QED
    BY <1>1, <1>2, <1>3

\* With every job received, the caller's summary is the verdict.
LEMMA Complete ==
    ASSUME IInv, pc = "wait"
    PROVE  /\ got = 0..NumJobs - 1
           /\ gotAllow <=> Allowed(decisions)
<1>1. TypeOK /\ NumJobs \in Nat /\ DOMAIN decisions = 1..Len(decisions)
    BY NumJobsNat, ListIsSeq DEF IInv, TypeOK
<1>2. got = 0..NumJobs - 1
    BY <1>1, AllJobs DEF IInv, CallerOK
<1>3. ASSUME NEW n \in DOMAIN decisions PROVE decisions[n] # "deny"
  <2>1. PICK k \in got : n \in First(k)..Last(k)
      BY <1>1, <1>2, Cover
  <2>2. ~JobDenies(k)
      BY DEF IInv, CallerOK
  <2>3. QED
      BY <2>1, <2>2 DEF JobDenies, DenyIn
<1>4. ASSUME gotAllow PROVE \E n \in DOMAIN decisions : decisions[n] = "allow"
  <2>1. PICK k \in got : JobAllows(k)
      BY <1>4 DEF IInv, CallerOK
  <2>2. k \in Nat
      BY <1>1, <1>2
  <2>3. First(k)..Last(k) \subseteq 1..Len(decisions)
      BY <1>1, <2>2, Within
  <2>4. QED
      BY <1>1, <2>1, <2>3 DEF JobAllows, AllowIn
<1>5. ASSUME NEW n \in DOMAIN decisions, decisions[n] = "allow" PROVE gotAllow
  <2>1. PICK k \in got : n \in First(k)..Last(k)
      BY <1>1, <1>2, Cover
  <2>2. JobAllows(k)
      BY <1>5, <2>1 DEF JobAllows, AllowIn
  <2>3. QED
      BY <2>2 DEF IInv, CallerOK
<1>6. QED
    BY <1>2, <1>3, <1>4, <1>5 DEF Allowed

\* A worker that works on the job it holds, or gives it up, changes nothing
\* but its own place and its partial decision.
LEMMA WorkerFrame ==
    ASSUME IInv, [Next]_vars, NEW w \in Workers, Holding(w),
           UNCHANGED <<taken, resultCh, got, job, pc, recd, gotAllow, answer>>,
           \A v \in Workers : Holding(v)' => Holding(v)
    PROVE  HeldOnce' /\ QueuedOnce' /\ CallerOK'
<1>1. HeldOnce'
    BY DEF IInv, HeldOnce, Queued
<1>2. QueuedOnce'
    BY Fixed DEF IInv, QueuedOnce, Queued
<1>3. pc # "start" /\ pc # "done"
    BY DEF IInv, CallerOK, WorkersDone, Holding
<1>4. CallerOK'
    BY <1>3, Fixed DEF IInv, CallerOK
<1>5. QED
    BY <1>1, <1>2, <1>4

\* The invariant is kept by every step of the caller and of a worker.
LEMMA NextIInv == IInv /\ [Next]_vars => IInv'
<1> SUFFICES ASSUME IInv, [Next]_vars PROVE IInv'
    OBVIOUS
<1>a. TypeOK /\ TypeOK'
    BY TypeStep DEF IInv
<1>b. NumJobs \in Nat /\ Len(decisions) \in Nat /\ DOMAIN decisions = 1..Len(decisions)
    BY <1>a, NumJobsNat, ListIsSeq DEF TypeOK
<1>c. decisions' = decisions /\ NumJobs' = NumJobs
    BY Fixed
<1>1. CASE StartSmall
  <2>1. HeldOnce' /\ QueuedOnce' /\ ScanOK'
      BY <1>1, Frame DEF StartSmall, workerVars
  <2>2. answer' = Verdict(decisions)
      BY <1>1, <1>a, <1>b DEF StartSmall, Verdict, Allowed
  <2>3. Verdict(decisions)' = Verdict(decisions)
      BY <1>c DEF Verdict, Allowed
  <2>4. WorkersDone'
      BY <1>1 DEF StartSmall, WorkersDone, workerVars, IInv, CallerOK
  <2>5. CallerOK'
      BY <1>1, <1>b, <1>c, <2>2, <2>3, <2>4, Fixed DEF StartSmall, IInv, CallerOK
  <2>6. QED
      BY <1>a, <2>1, <2>5 DEF IInv
<1>2. CASE StartWorkers
  <2>1. \A w \in Workers : wpc'[w] \in {"recv", "off"}
      BY <1>2, <1>a DEF StartWorkers, TypeOK
  <2>2. HeldOnce' /\ ScanOK'
      BY <2>1 DEF HeldOnce, ScanOK, Holding
  <2>3. QueuedOnce'
      BY <1>2, Fixed DEF StartWorkers, IInv, QueuedOnce, Queued
  <2>4. CallerOK'
      BY <1>2, Fixed DEF StartWorkers, IInv, CallerOK
  <2>5. QED
      BY <1>a, <2>2, <2>3, <2>4 DEF IInv
<1>3. CASE Collect
  <2> DEFINE e == Head(resultCh)
  <2>1. /\ Len(resultCh) \in Nat \ {0}
        /\ e = resultCh[1] /\ e \in Entry
        /\ resultCh' = Tail(resultCh)
        /\ Len(resultCh') = Len(resultCh) - 1
        /\ \A n \in 1..Len(resultCh) - 1 : resultCh'[n] = resultCh[n + 1]
        /\ 1 \in Queued
      BY <1>3, <1>a, HeadTail DEF TypeOK, Collect, Queued
  <2>2. \A n \in Queued' : n + 1 \in Queued /\ resultCh'[n] = resultCh[n + 1] /\ n \in Nat /\ n + 1 # 1
      BY <2>1 DEF Queued
  <2>3. got' = got \cup {e.job} /\ e.job < taken /\ e.job \notin got /\ DecisionOf(e.res, e.job) /\ taken' = taken
      BY <1>3, <2>1 DEF Collect, IInv, QueuedOnce
  <2>4. \A n \in Queued' : resultCh'[n].job # e.job
    <3> SUFFICES ASSUME NEW n \in Queued', resultCh'[n].job = e.job PROVE FALSE
        OBVIOUS
    <3>1. n + 1 \in Queued /\ 1 \in Queued /\ resultCh[n + 1].job = resultCh[1].job
        BY <2>1, <2>2
    <3>2. QED
        BY <2>2, <3>1 DEF IInv, QueuedOnce
  <2>5. HeldOnce'
    <3>1. SUFFICES ASSUME NEW w \in Workers, Holding(w)'
                   PROVE  /\ job[w] < taken
                          /\ job[w] \notin got'
                          /\ \A n \in Queued' : resultCh'[n].job # job[w]
                          /\ \A v \in Workers : Holding(v) /\ job[v] = job[w] => v = w
        BY <1>3, <2>3 DEF HeldOnce, Holding, Collect, workerVars
    <3>2. Holding(w)
        BY <1>3, <3>1 DEF Holding, Collect, workerVars
    <3>3. /\ job[w] < taken
          /\ job[w] \notin got
          /\ \A n \in Queued : resultCh[n].job # job[w]
          /\ \A v \in Workers : Holding(v) /\ job[v] = job[w] => v = w
        BY <3>2 DEF IInv, HeldOnce
    <3>4. job[w] # e.job
        BY <2>1, <3>3
    <3>5. job[w] \notin got'
        BY <2>3, <3>3, <3>4
    <3>6. QED
        BY <2>2, <3>3, <3>5
  <2>6. QueuedOnce'
    <3>1. SUFFICES ASSUME NEW n \in Queued'
                   PROVE  /\ resultCh'[n].job < taken
                          /\ resultCh'[n].job \notin got'
                          /\ \A m \in Queued' : resultCh'[m].job = resultCh'[n].job => m = n
                          /\ DecisionOf(resultCh'[n].res, resultCh'[n].job)
        BY <2>3, Fixed DEF QueuedOnce
    <3>2. \A m \in Queued' : resultCh'[m].job = resultCh'[n].job => m + 1 = n + 1
        BY <2>2 DEF IInv, QueuedOnce
    <3>3. \A m \in Queued' : resultCh'[m].job = resultCh'[n].job => m = n
        BY <2>2, <3>2
    <3>4. QED
        BY <2>2, <2>3, <2>4, <3>3 DEF IInv, QueuedOnce
  <2>7. ScanOK'
      BY <1>3, Fixed DEF IInv, ScanOK, Collect, workerVars
  <2>8. recd' = Cardinality(got')
    <3>1. IsFiniteSet(got)
      <4>1. IsFiniteSet(0..NumJobs - 1)
          BY <1>b, FS_Interval
      <4>2. got \in SUBSET (0..NumJobs - 1)
          BY <1>a DEF TypeOK
      <4>3. QED
          BY <4>1, <4>2, FS_Subset, Zenon
    <3>2. QED
        BY <1>3, <2>3, <3>1, FS_AddElement DEF Collect, IInv, CallerOK
  <2>9. CallerOK'
    <3>1. gotAllow' => \E k \in got' : JobAllows(k)
        BY <1>3, <1>a, <2>3 DEF Collect, IInv, CallerOK, DecisionOf
    <3>2. \A k \in got' : JobAllows(k) /\ ~JobDenies(k) => gotAllow'
        BY <1>3, <1>a, <2>1, <2>3 DEF Collect, IInv, CallerOK, DecisionOf, Entry, Decision
    <3>3. pc' = "collect" => \A k \in got' : ~JobDenies(k)
        BY <1>3, <1>a, <2>1, <2>3 DEF Collect, IInv, CallerOK, DecisionOf, Entry, Decision
    <3>4. pc' = "drain" => \E k \in got' : JobDenies(k)
        BY <1>3, <1>a, <2>3 DEF Collect, DecisionOf
    <3>5. pc' \in {"collect", "drain"} /\ answer' = "pending"
        BY <1>3 DEF Collect, IInv, CallerOK
    <3>6. \A k \in got' : k < taken'
        BY <2>3 DEF IInv, CallerOK
    <3>7. QED
        BY <2>8, <3>1, <3>2, <3>3, <3>4, <3>5, <3>6, Fixed DEF CallerOK
  <2>10. QED
      BY <1>a, <2>5, <2>6, <2>7, <2>9 DEF IInv
<1>4. CASE CollectEnd
  <2>1. HeldOnce' /\ QueuedOnce' /\ ScanOK'
      BY <1>4, Frame DEF CollectEnd, workerVars
  <2>2. CallerOK'
      BY <1>4, Fixed DEF CollectEnd, IInv, CallerOK
  <2>3. QED
      BY <1>a, <2>1, <2>2 DEF IInv
<1>5. CASE Drain
  <2>1. HeldOnce' /\ QueuedOnce' /\ ScanOK'
      BY <1>5, Frame DEF Drain, workerVars
  <2>2. PICK k \in got : JobDenies(k)
      BY <1>5 DEF Drain, IInv, CallerOK
  <2>3. k \in Nat
      BY <1>a, <1>b DEF TypeOK
  <2>4. First(k)..Last(k) \subseteq 1..Len(decisions)
      BY <1>a, <2>3, Within
  <2>5. ~Allowed(decisions)
      BY <1>b, <2>2, <2>4 DEF JobDenies, DenyIn, Allowed
  <2>6. answer' = Verdict(decisions)' /\ answer' = "no"
      BY <1>5, <1>c, <2>5 DEF Drain, Verdict, Allowed
  <2>7. WorkersDone'
      BY <1>5 DEF Drain, WorkersDone, workerVars
  <2>8. CallerOK'
      BY <1>5, <2>6, <2>7, Fixed DEF Drain, IInv, CallerOK
  <2>9. QED
      BY <1>a, <2>1, <2>8 DEF IInv
<1>6. CASE WaitAll
  <2>1. HeldOnce' /\ QueuedOnce' /\ ScanOK'
      BY <1>6, Frame DEF WaitAll, workerVars
  <2>2. got = 0..NumJobs - 1 /\ (gotAllow <=> Allowed(decisions))
      BY <1>6, Complete DEF WaitAll
  <2>3. answer' = Verdict(decisions)
      BY <1>6, <2>2 DEF WaitAll, Verdict
  <2>4. Verdict(decisions)' = Verdict(decisions)
      BY <1>c DEF Verdict, Allowed
  <2>5. WorkersDone'
      BY <1>6 DEF WaitAll, WorkersDone, workerVars
  <2>6. CallerOK'
      BY <1>6, <2>2, <2>3, <2>4, <2>5, Fixed DEF WaitAll, IInv, CallerOK
  <2>7. QED
      BY <1>a, <2>1, <2>6 DEF IInv
<1>7. ASSUME NEW w \in Workers, RecvJob(w) PROVE IInv'
  <2>1. taken \in Nat /\ taken' \in Nat /\ taken <= taken' /\ job \in [Workers -> Nat] /\ wpc \in [Workers -> {"off", "recv", "check", "scan", "send", "exit"}]
      BY <1>7, <1>a, <1>b DEF RecvJob, TypeOK
  <2>2. /\ \A v \in Workers \ {w} : wpc'[v] = wpc[v] /\ job'[v] = job[v]
        /\ \/ wpc'[w] = "check" /\ job'[w] = taken /\ taken' = taken + 1
           \/ wpc'[w] = "exit" /\ job' = job /\ taken' = taken
    <3>1. CASE taken < NumJobs
      <4>1. job' = [job EXCEPT ![w] = taken] /\ taken' = taken + 1 /\ wpc' = [wpc EXCEPT ![w] = "check"]
          BY <1>7, <3>1 DEF RecvJob
      <4>2. wpc'[w] = "check" /\ job'[w] = taken
          BY <2>1, <4>1
      <4>3. \A v \in Workers \ {w} : wpc'[v] = wpc[v] /\ job'[v] = job[v]
          BY <2>1, <4>1
      <4>4. QED
          BY <4>1, <4>2, <4>3
    <3>2. CASE ~(taken < NumJobs)
      <4>1. job' = job /\ taken' = taken /\ wpc' = [wpc EXCEPT ![w] = "exit"]
          BY <1>7, <3>2 DEF RecvJob
      <4>2. QED
          BY <2>1, <4>1
    <3>3. QED
        BY <3>1, <3>2
  <2>3. resultCh' = resultCh /\ got' = got /\ pos' = pos /\ res' = res /\ Queued' = Queued
      BY <1>7 DEF RecvJob, Queued
  <2>4. \A n \in Queued : resultCh[n].job \in Nat /\ resultCh[n].job < taken /\ resultCh[n].job # taken
    <3>1. \A n \in Queued : resultCh[n] \in Entry
        BY <1>a DEF TypeOK, Queued
    <3>2. \A n \in Queued : resultCh[n].job \in Nat
        BY <3>1 DEF Entry
    <3>3. \A n \in Queued : resultCh[n].job < taken
        BY DEF IInv, QueuedOnce
    <3>4. QED
        BY <2>1, <3>2, <3>3
  <2>5. taken \notin got
      BY <1>a, <1>b, <2>1 DEF IInv, CallerOK, TypeOK
  <2>6. \A v \in Workers : Holding(v) => job[v] < taken' /\ job[v] # taken
      BY <2>1, <2>2 DEF IInv, HeldOnce
  <2>7. \A v \in Workers \ {w} : Holding(v)' <=> Holding(v)
      BY <2>2 DEF Holding
  <2>8. HeldOnce'
    <3>1. CASE wpc'[w] = "check" /\ job'[w] = taken /\ taken' = taken + 1
        BY <2>1, <2>2, <2>3, <2>4, <2>5, <2>6, <2>7, <3>1 DEF IInv, HeldOnce
    <3>2. CASE wpc'[w] = "exit" /\ job' = job /\ taken' = taken
      <4>1. ~Holding(w)'
          BY <3>2 DEF Holding
      <4>2. QED
          BY <2>2, <2>3, <2>7, <3>2, <4>1 DEF IInv, HeldOnce
    <3>3. QED
        BY <2>2, <3>1, <3>2
  <2>9. QueuedOnce'
      BY <2>1, <2>2, <2>3, <2>4, Fixed DEF IInv, QueuedOnce
  <2>10. ScanOK'
      BY <2>2, <2>3, Fixed DEF IInv, ScanOK
  <2>11. CallerOK'
    <3>1. pc' = pc /\ recd' = recd /\ gotAllow' = gotAllow /\ answer' = answer
        BY <1>7 DEF RecvJob
    <3>2. \A k \in got : k < taken'
        BY <1>a, <1>b, <2>1 DEF IInv, CallerOK, TypeOK
    <3>3. pc # "start" /\ pc # "done"
        BY <1>7 DEF RecvJob, IInv, CallerOK, WorkersDone
    <3>4. QED
        BY <2>3, <3>1, <3>2, <3>3, Fixed DEF IInv, CallerOK
  <2>12. QED
      BY <1>a, <2>8, <2>9, <2>10, <2>11 DEF IInv
<1>8. ASSUME NEW w \in Workers, CheckCtx(w) PROVE IInv'
  <2>1. /\ UNCHANGED <<taken, resultCh, got, job, pc, recd, gotAllow, answer>>
        /\ Holding(w)
        /\ \A v \in Workers : Holding(v)' => Holding(v)
        /\ \A v \in Workers \ {w} : wpc'[v] = wpc[v] /\ pos'[v] = pos[v] /\ res'[v] = res[v]
      BY <1>8, <1>a DEF CheckCtx, Holding, TypeOK
  <2>2. HeldOnce' /\ QueuedOnce' /\ CallerOK'
      BY <2>1, WorkerFrame
  <2>3. job[w] \in Nat /\ job[w] < NumJobs
      BY <1>a, <1>b, <2>1 DEF TypeOK, IInv, HeldOnce
  <2>4. /\ First(job[w]) \in Nat \ {0}
        /\ Last(job[w]) \in Nat
        /\ First(job[w]) <= Last(job[w])
      BY <1>a, <2>3, Within, Zenon
  <2>5. wpc'[w] = "scan" => pos'[w] = First(job[w]) - 1 /\ res'[w] = "none"
      BY <1>8, <1>a DEF CheckCtx, TypeOK
  <2>6. wpc'[w] \in {"scan", "exit"}
      BY <1>8, <1>a DEF CheckCtx, TypeOK
  <2>7. ~DenyIn(First(job[w]), First(job[w]) - 1) /\ ~AllowIn(First(job[w]), First(job[w]) - 1)
      BY <2>4 DEF DenyIn, AllowIn
  <2>8. First(job[w]) - 1 \in First(job[w]) - 1 .. Last(job[w])
      BY <2>4
  <2>9. ScanOK'
      BY <2>1, <2>5, <2>6, <2>7, <2>8, Fixed DEF IInv, ScanOK
  <2>10. QED
      BY <1>a, <2>2, <2>9 DEF IInv
<1>9. ASSUME NEW w \in Workers, Scan(w) PROVE IInv'
  <2>1. /\ UNCHANGED <<taken, resultCh, got, job, pc, recd, gotAllow, answer>>
        /\ Holding(w)
        /\ \A v \in Workers : Holding(v)' => Holding(v)
        /\ \A v \in Workers \ {w} : wpc'[v] = wpc[v] /\ pos'[v] = pos[v] /\ res'[v] = res[v]
      BY <1>9, <1>a DEF Scan, Holding, TypeOK
  <2>2. HeldOnce' /\ QueuedOnce' /\ CallerOK'
      BY <2>1, WorkerFrame
  <2> DEFINE f == First(job[w])
             l == Last(job[w])
             p == pos[w] + 1
  <2>3. job[w] \in Nat /\ pos[w] \in Nat
      BY <1>a DEF TypeOK
  <2>4. f \in Nat \ {0} /\ l \in Nat
      BY <1>a, <2>3, Within, Zenon
  <2>5. /\ pos[w] \in f - 1 .. l /\ ~DenyIn(f, pos[w])
        /\ res[w] # "deny" /\ (res[w] = "allow" <=> AllowIn(f, pos[w])) /\ pos[w] < l
      BY <1>9 DEF Scan, IInv, ScanOK
  <2>6. pos'[w] = p
      BY <1>9, <1>a DEF Scan, TypeOK
  <2> HIDE DEF f, l
  <2>7. p \in f..l /\ f..p = (f..pos[w]) \cup {p}
      BY <2>3, <2>4, <2>5
  <2>8. /\ DenyIn(f, p) <=> decisions[p] = "deny"
        /\ AllowIn(f, p) <=> (res[w] = "allow" \/ decisions[p] = "allow")
      BY <2>5, <2>7 DEF DenyIn, AllowIn
  <2>9. CASE decisions[p] = "deny"
    <3>1. wpc'[w] = "send" /\ res'[w] = "deny"
        BY <1>9, <1>a, <2>9 DEF Scan, TypeOK
    <3>2. JobDenies(job[w])
        BY <2>7, <2>9 DEF JobDenies, DenyIn, f, l
    <3>3. DecisionOf(res'[w], job[w])
        BY <3>1, <3>2 DEF DecisionOf
    <3>4. QED
        BY <1>a, <2>1, <2>2, <3>1, <3>3, Fixed DEF IInv, ScanOK
  <2>10. CASE decisions[p] # "deny"
    <3>1. wpc'[w] = "scan" /\ res'[w] = (IF decisions[p] = "allow" THEN "allow" ELSE res[w])
        BY <1>9, <1>a, <2>10 DEF Scan, TypeOK
    <3>2. pos'[w] \in f - 1 .. l /\ ~DenyIn(f, pos'[w]) /\ res'[w] # "deny" /\ (res'[w] = "allow" <=> AllowIn(f, pos'[w]))
        BY <2>4, <2>5, <2>6, <2>7, <2>8, <2>10, <3>1
    <3>3. ScanOK'
        BY <2>1, <3>1, <3>2, Fixed DEF IInv, ScanOK, f, l
    <3>4. QED
        BY <1>a, <2>2, <3>3 DEF IInv
  <2>11. QED
      BY <2>9, <2>10
<1>10. ASSUME NEW w \in Workers, ScanEnd(w) PROVE IInv'
  <2>1. /\ UNCHANGED <<taken, resultCh, got, job, pc, recd, gotAllow, answer>>
        /\ Holding(w)
        /\ \A v \in Workers : Holding(v)' => Holding(v)
        /\ \A v \in Workers \ {w} : wpc'[v] = wpc[v]
        /\ pos' = pos /\ res' = res /\ wpc'[w] = "send" /\ res[w] \in Decision
      BY <1>10, <1>a DEF ScanEnd, Holding, TypeOK
  <2>2. HeldOnce' /\ QueuedOnce' /\ CallerOK'
      BY <2>1, WorkerFrame
  <2>3. /\ pos[w] = Last(job[w]) /\ ~DenyIn(First(job[w]), pos[w])
        /\ res[w] # "deny" /\ (res[w] = "allow" <=> AllowIn(First(job[w]), pos[w]))
      BY <1>10 DEF ScanEnd, IInv, ScanOK
  <2>4. DecisionOf(res[w], job[w])
      BY <2>1, <2>3 DEF DecisionOf, JobDenies, JobAllows, Decision
  <2>5. ScanOK'
      BY <2>1, <2>4, Fixed DEF IInv, ScanOK
  <2>6. QED
      BY <1>a, <2>2, <2>5 DEF IInv
<1>11. ASSUME NEW w \in Workers, SendResult(w) PROVE IInv'
  <2>1. /\ UNCHANGED <<taken, got, job, pc, recd, gotAllow, answer, pos, res>>
        /\ Holding(w) /\ ~Holding(w)'
        /\ \A v \in Workers \ {w} : wpc'[v] = wpc[v] /\ (Holding(v)' <=> Holding(v))
      BY <1>11, <1>a DEF SendResult, Holding, TypeOK
  <2> DEFINE e == [job |-> job[w], res |-> res[w]]
             l == Len(resultCh)
  <2>2. /\ l \in Nat
        /\ Queued' = Queued \cup {l + 1}
        /\ \A n \in Queued : resultCh'[n] = resultCh[n] /\ n # l + 1
        /\ resultCh'[l + 1] = e
    <3>1. e \in Entry
        BY <1>a DEF TypeOK, Entry
    <3>2. resultCh \in Seq(Entry) /\ resultCh' = Append(resultCh, e)
        BY <1>11, <1>a DEF SendResult, TypeOK
    <3> HIDE DEF e
    <3>3. QED
        BY <3>1, <3>2 DEF Queued
  <2>3. job[w] < taken /\ job[w] \notin got /\ DecisionOf(res[w], job[w])
      BY <1>11, <2>1 DEF SendResult, IInv, HeldOnce, ScanOK
  <2>4. \A n \in Queued : resultCh[n].job # job[w]
      BY <2>1 DEF IInv, HeldOnce
  <2>5. e.job = job[w] /\ e.res = res[w]
      OBVIOUS
  <2> HIDE DEF e, l
  <2>6. \A v \in Workers \ {w} : Holding(v) => job[v] # job[w]
      BY <2>1 DEF IInv, HeldOnce
  <2>7. HeldOnce'
      BY <2>1, <2>2, <2>5, <2>6 DEF IInv, HeldOnce
  <2>8. QueuedOnce'
      BY <2>1, <2>2, <2>3, <2>4, <2>5, Fixed DEF IInv, QueuedOnce
  <2>9. wpc'[w] = "recv"
      BY <1>11, <1>a DEF SendResult, TypeOK
  <2>10. ScanOK'
      BY <2>1, <2>9, Fixed DEF IInv, ScanOK
  <2>11. pc # "start" /\ pc # "done"
      BY <2>1 DEF IInv, CallerOK, WorkersDone, Holding
  <2>12. CallerOK'
      BY <2>1, <2>11, Fixed DEF IInv, CallerOK
  <2>13. QED
      BY <1>a, <2>7, <2>8, <2>10, <2>12 DEF IInv
<1>12. ASSUME NEW w \in Workers, SendCancelled(w) PROVE IInv'
  <2>1. /\ UNCHANGED <<taken, resultCh, got, job, pc, recd, gotAllow, answer, pos, res>>
        /\ Holding(w)
        /\ \A v \in Workers : Holding(v)' => Holding(v)
        /\ \A v \in Workers \ {w} : wpc'[v] = wpc[v]
        /\ wpc'[w] = "exit"
      BY <1>12, <1>a DEF SendCancelled, Holding, TypeOK
  <2>2. HeldOnce' /\ QueuedOnce' /\ CallerOK'
      BY <2>1, WorkerFrame
  <2>3. ScanOK'
      BY <2>1, Fixed DEF IInv, ScanOK
  <2>4. QED
      BY <1>a, <2>2, <2>3 DEF IInv
<1>13. CASE UNCHANGED vars
  <2>1. HeldOnce' /\ QueuedOnce' /\ ScanOK'
      BY <1>13, Frame DEF vars
  <2>2. WorkersDone' = WorkersDone /\ Verdict(decisions)' = Verdict(decisions)
      BY <1>13 DEF vars, WorkersDone, Verdict, Allowed
  <2>3. CallerOK'
      BY <1>13, <2>2, Fixed DEF vars, IInv, CallerOK
  <2>4. QED
      BY <1>a, <2>1, <2>3 DEF IInv
<1>14. QED
    BY <1>1, <1>2, <1>3, <1>4, <1>5, <1>6, <1>7, <1>8, <1>9, <1>10, <1>11, <1>12, <1>13
       DEF Next, Caller, Worker, Finished

-----------------------------------------------------------------------------
\* Jobs, results and the caller's summary stay consistent throughout.
THEOREM Inductive == Spec => []IInv
BY InitIInv, NextIInv, PTL DEF Spec

\* Every reachable state of an evaluation is well typed.
THEOREM TypeCorrect == Spec => []TypeOK
<1>1. IInv => TypeOK
    BY DEF IInv
<1>2. QED
    BY <1>1, Inductive, PTL

\* IsAllowedPar never answers "yes" without the result of every job.
THEOREM NothingSkipped == Spec => []YesSawEveryJob
<1>1. IInv => YesSawEveryJob
    BY DEF IInv, CallerOK, YesSawEveryJob
<1>2. QED
    BY <1>1, Inductive, PTL

\* IsAllowedPar returns only when all of its goroutines have.
THEOREM NoLeak == Spec => []LeavesNoWorker
<1>1. IInv => LeavesNoWorker
    BY DEF IInv, CallerOK, LeavesNoWorker
<1>2. QED
    BY <1>1, Inductive, PTL

\* For every list of policies, job size and number of processors the
\* parallel evaluation implements the abstract one: it answers once, with
\* the verdict of the whole list.
THEOREM Refinement == Spec => Implements
<1>1. Init => Evaluation!AbsInit
    BY DEF Init, AbsInit, Evaluation!AbsInit, DecisionLists, Evaluation!DecisionLists, Decision, Evaluation!Decision
<1>2. IInv /\ IInv' /\ [Next]_vars => [Evaluation!Answer]_Evaluation!absVars
  <2> SUFFICES ASSUME IInv, IInv', [Next]_vars, ~UNCHANGED Evaluation!absVars PROVE Evaluation!Answer
      OBVIOUS
  <2>1. decisions' = decisions
      BY Fixed
  <2>2. answer' # answer \/ pc' # pc
      BY <2>1 DEF Evaluation!absVars
  <2>3. pc' = "done" /\ pc # "done"
      BY <2>1, <2>2 DEF Evaluation!absVars, Next, vars, Caller, Worker, Finished, StartSmall, StartWorkers, Collect, CollectEnd,
           Drain, WaitAll, RecvJob, CheckCtx, Scan, ScanEnd, SendResult, SendCancelled
  <2>4. answer' = Verdict(decisions)'
      BY <2>3 DEF IInv, CallerOK
  <2>5. QED
      BY <2>1, <2>3, <2>4 DEF Evaluation!Answer, Evaluation!Verdict, Evaluation!Allowed, Verdict, Allowed
<1>3. QED
    BY <1>1, <1>2, Inductive, PTL DEF Spec, Implements, Evaluation!AbsSpec
============================================================================
