------------------------------ MODULE Workers ------------------------------
(***************************************************************************)
(* workers.Workers: a semaphore of N tokens kept in a buffered channel,    *)
(* with a sync.WaitGroup that lets one goroutine wait for all the jobs.    *)
(*                                                                         *)
(* Every job goroutine runs rounds of Take ... Give.  Take and Give make   *)
(* two calls each, on the WaitGroup and on the channel, and the order of   *)
(* the two calls is what the properties are about, so each is an action.   *)
(***************************************************************************)
EXTENDS Integers, FiniteSets

CONSTANTS Jobs,      \* the goroutines that share the Workers object
          N,         \* New(n): the number of tokens
          MaxRounds  \* bound: how often one job takes a turn

\* New refuses n <= 0, so a Workers object always has a token.
ASSUME NAssumption == N \in Nat \ {0}
ASSUME RoundsAssumption == MaxRounds \in Nat
ASSUME JobsAssumption == IsFiniteSet(Jobs)

VARIABLES queue,   \* number of tokens in the channel
          wg,      \* counter of the WaitGroup
          pc,      \* where each job is
          rounds,  \* rounds each job has begun
          waiter,  \* the goroutine that calls Wait
          owed     \* history: jobs counted in wg when Wait was called and
                   \* not finished since

vars == <<queue, wg, pc, rounds, waiter, owed>>

JobState == {"idle", "taking", "working", "giving"}

TypeOK ==
    /\ queue \in 0..N
    /\ wg \in Int
    /\ pc \in [Jobs -> JobState]
    /\ rounds \in [Jobs -> 0..MaxRounds]
    /\ waiter \in {"idle", "waiting", "released"}
    /\ owed \in SUBSET Jobs

\* New: the channel is filled with n tokens before anyone sees it.
Init ==
    /\ queue = N
    /\ wg = 0
    /\ pc = [j \in Jobs |-> "idle"]
    /\ rounds = [j \in Jobs |-> 0]
    /\ waiter = "idle"
    /\ owed = {}

Active  == {j \in Jobs : pc[j] # "idle"}
Working == {j \in Jobs : pc[j] = "working"}

-----------------------------------------------------------------------------
\* Mutant: Take never counts the job in the WaitGroup.
TakeAddMissing(j) ==
    /\ pc[j] = "idle"
    /\ rounds[j] < MaxRounds
    /\ rounds' = [rounds EXCEPT ![j] = @ + 1]
    /\ pc' = [pc EXCEPT ![j] = "taking"]
    /\ UNCHANGED <<queue, wg, waiter, owed>>

\* Take, first call: wg.Add(1).
TakeAdd(j) ==
    /\ pc[j] = "idle"
    /\ rounds[j] < MaxRounds
    /\ rounds' = [rounds EXCEPT ![j] = @ + 1]
    /\ wg' = wg + 1
    /\ pc' = [pc EXCEPT ![j] = "taking"]
    /\ UNCHANGED <<queue, waiter, owed>>

\* Mutant: the token is looked at and not removed.
TakeRecvKeepsToken(j) ==
    /\ pc[j] = "taking"
    /\ queue > 0
    /\ pc' = [pc EXCEPT ![j] = "working"]
    /\ UNCHANGED <<queue, wg, rounds, waiter, owed>>

\* Take, second call: receive a token, blocking while there is none.
TakeRecv(j) ==
    /\ pc[j] = "taking"
    /\ queue > 0
    /\ queue' = queue - 1
    /\ pc' = [pc EXCEPT ![j] = "working"]
    /\ UNCHANGED <<wg, rounds, waiter, owed>>

\* Mutant: Give forgets to return the token.
GiveSendLosesToken(j) ==
    /\ pc[j] = "working"
    /\ queue < N
    /\ pc' = [pc EXCEPT ![j] = "giving"]
    /\ UNCHANGED <<queue, wg, rounds, waiter, owed>>

\* Give, first call: send the token back; the send blocks when the channel
\* holds N tokens already.
GiveSend(j) ==
    /\ pc[j] = "working"
    /\ queue < N
    /\ queue' = queue + 1
    /\ pc' = [pc EXCEPT ![j] = "giving"]
    /\ UNCHANGED <<wg, rounds, waiter, owed>>

\* Give, second call: wg.Done().
GiveDone(j) ==
    /\ pc[j] = "giving"
    /\ wg' = wg - 1
    /\ pc' = [pc EXCEPT ![j] = "idle"]
    /\ owed' = owed \ {j}
    /\ UNCHANGED <<queue, rounds, waiter>>

\* Wait is called: wg.Wait() blocks while the counter is not zero.
WaitCall ==
    /\ waiter = "idle"
    /\ waiter' = "waiting"
    /\ owed' = Active
    /\ UNCHANGED <<queue, wg, pc, rounds>>

\* The counter is zero: Wait is released.  Jobs may begin new rounds later.
WaitReturn ==
    /\ waiter = "waiting"
    /\ wg = 0
    /\ waiter' = "released"
    /\ UNCHANGED <<queue, wg, pc, rounds, owed>>

\* Every job has run all its rounds and Wait has returned.
Finished ==
    /\ waiter = "released"
    /\ \A j \in Jobs : pc[j] = "idle" /\ rounds[j] = MaxRounds
    /\ UNCHANGED vars

Next ==
    \/ \E j \in Jobs : TakeAdd(j) \/ TakeRecv(j) \/ GiveSend(j) \/ GiveDone(j)
    \/ WaitCall
    \/ WaitReturn
    \/ Finished

\* A goroutine that can take its next step does; nobody is obliged to begin
\* a round or to call Wait.
Fairness ==
    /\ \A j \in Jobs : WF_vars(TakeRecv(j) \/ GiveSend(j) \/ GiveDone(j))
    /\ WF_vars(WaitReturn)

Spec == Init /\ [][Next]_vars /\ Fairness

-----------------------------------------------------------------------------
\* "allows up to n jobs to proceed concurrently": between the return of
\* Take and the call of Give there are never more than N jobs.
AtMostN == Cardinality(Working) <= N

\* Every token is in the channel or held by exactly one working job.
TokensConserved == queue + Cardinality(Working) = N

\* The WaitGroup counts exactly the jobs between the start of Take and the
\* end of Give.
CounterIsActive == wg = Cardinality(Active)

\* Wait is released only after every job that had begun Take when Wait was
\* called has completed its Give.
WaitCoversOngoing == waiter = "released" => owed = {}

\* Wait returns, since every job that takes a turn gives it back and the
\* jobs run a bounded number of rounds.
WaitTerminates == waiter = "waiting" ~> waiter = "released"
============================================================================
