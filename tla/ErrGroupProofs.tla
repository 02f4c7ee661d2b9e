--------------------------- MODULE ErrGroupProofs ---------------------------
(***************************************************************************)
(* sync/errgroup for any number of tasks and any limit: never more than    *)
(* conc functions at a time, Wait sees every error that is tracked, and    *)
(* the error it returns is the cause and not a cancellation it provoked.   *)
(***************************************************************************)
EXTENDS ErrGroup, FiniteSetTheorems, TLAPS

-----------------------------------------------------------------------------
(* The inductive invariant *)

\* The goroutines that have a token of the bucket, if there is one.
Holding == {t \in Tasks : tpc[t] \in {"run", "claim", "store", "cancel", "putBack"}}

\* A token is in the bucket or with a goroutine; without a bucket nobody waits
\* for one or puts one back.
Conserved ==
    /\ conc > 0 => tokens + Cardinality(Holding) = conc
    /\ conc = 0 => \A t \in Tasks : tpc[t] \notin {"acquire", "putBack"}

\* Goroutines are started in order.
Launched == \A t \in Tasks : tpc[t] = "off" <=> t >= launched

\* Wait returns when all of them are done, and they stay done.
AllDone == mpc = "returned" => \A t \in Tasks : tpc[t] \in {"off", "done"}

\* What a goroutine has recorded, by its place.
Recorded ==
    \A t \in Tasks :
        /\ tpc[t] \in {"off", "acquire", "run"} => err[t] = "nil"
        /\ tpc[t] \in {"claim", "store", "cancel"} => err[t] # "nil"
        /\ tpc[t] \in {"claim", "store"} => t < nerrs
        /\ errs[t] = IF t < nerrs /\ tpc[t] \in {"cancel", "putBack", "wgDone", "done"} THEN err[t] ELSE "nil"

\* firstErr names a tracked task that has failed and has claimed it, ...
FirstFailed ==
    nerrs > 0 /\ firstErr # -1 =>
        /\ firstErr \in Tasks /\ firstErr < nerrs
        /\ err[firstErr] # "nil"
        /\ tpc[firstErr] \in {"store", "cancel", "putBack", "wgDone", "done"}

\* ... and is set before any tracked error is stored.
FirstSet == \A t \in Tasks : tpc[t] = "store" \/ errs[t] # "nil" => firstErr # -1

\* A cancellation is seen only after the context is done.
CtxSeen == \A t \in Tasks : err[t] = "ctx" => ctxDone

\* If all tasks are tracked and nobody else cancels, the context is done only
\* after the first error is claimed, and that is a failure.
CausedByFailure ==
    nerrs = NumTasks /\ ~extern =>
        /\ ctxDone /\ mpc # "returned" => firstErr # -1
        /\ nerrs > 0 /\ firstErr # -1 => err[firstErr] = "fail"

\* What WaitErr has returned.
Result ==
    mpc = "returned" => result = IF firstErr >= 0 /\ nerrs > firstErr THEN errs[firstErr] ELSE "nil"

IInv ==
    /\ TypeOK
    /\ Conserved
    /\ Launched
    /\ AllDone
    /\ Recorded
    /\ FirstFailed
    /\ FirstSet
    /\ CtxSeen
    /\ CausedByFailure
    /\ Result

\* Everything but types and tokens.
Facts ==
    /\ Launched
    /\ AllDone
    /\ Recorded
    /\ FirstFailed
    /\ FirstSet
    /\ CtxSeen
    /\ CausedByFailure
    /\ Result

-----------------------------------------------------------------------------
(* Lemmas about the sets of tasks *)

\* Sets of tasks are finite, and counted by natural numbers.
LEMMA TaskSubsets ==
    ASSUME NEW S \in SUBSET Tasks
    PROVE  IsFiniteSet(S) /\ Cardinality(S) \in Nat
<1>1. IsFiniteSet(Tasks)
    BY NumTasksAssumption, FS_Interval DEF Tasks
<1>2. QED
    BY <1>1, FS_Subset, FS_CardinalityType

\* A goroutine that takes a token is one more that holds one.
LEMMA TaskAdded ==
    ASSUME NEW S \in SUBSET Tasks, NEW t \in Tasks, t \notin S
    PROVE  Cardinality(S \cup {t}) = Cardinality(S) + 1
BY TaskSubsets, FS_AddElement

\* One that puts a token back is one less.
LEMMA TaskRemoved ==
    ASSUME NEW S \in SUBSET Tasks, NEW t \in S
    PROVE  Cardinality(S \ {t}) = Cardinality(S) - 1
BY TaskSubsets, FS_RemoveElement

\* A step that moves no goroutine into or out of Holding conserves the tokens
\* it does not touch.
LEMMA ConservedUntouched ==
    ASSUME Conserved, Holding' = Holding, UNCHANGED <<conc, tokens>>,
           conc = 0 => \A t \in Tasks : tpc'[t] \notin {"acquire", "putBack"}
    PROVE  Conserved'
BY DEF Conserved

-----------------------------------------------------------------------------
(* The invariant holds at first and is kept by every step *)

\* A new group satisfies the invariant.
LEMMA InitIInv == Init => IInv
<1> SUFFICES ASSUME Init PROVE IInv
    OBVIOUS
<1> USE NumTasksAssumption, MaxConcAssumption DEF Init, WithNErrs, WithConcurrency, WithCancelOnError
<1>1. TypeOK
  <2>1. firstErr \in -1..NumTasks
    BY SMT
  <2>2. tpc \in [Tasks -> Places] /\ err \in [Tasks -> Errors] /\ errs \in [Tasks -> Errors]
    BY DEF Errors, Places
  <2>3. ctxDone \in BOOLEAN /\ extern \in BOOLEAN /\ useCtx \in BOOLEAN
    BY Zenon
  <2>4. nerrs \in 0..NumTasks /\ conc \in 0..MaxConc /\ tokens \in 0..conc /\ launched \in 0..NumTasks
    BY SMT
  <2>5. mpc \in {"go", "wait", "returned"} /\ result \in Errors
    BY DEF Errors
  <2>6. QED
    BY <2>1, <2>2, <2>3, <2>4, <2>5, Zenon DEF TypeOK
<1>2. Holding = {}
    BY DEF Holding
<1>3. Conserved
    BY <1>1, <1>2, FS_EmptySet DEF Conserved, TypeOK
<1>4. Launched /\ AllDone /\ Recorded /\ FirstSet /\ CtxSeen /\ Result
    BY DEF Launched, AllDone, Recorded, FirstSet, CtxSeen, Result, Tasks
<1>5. FirstFailed /\ CausedByFailure
    BY <1>1 DEF FirstFailed, CausedByFailure, TypeOK
<1>6. QED
    BY <1>1, <1>3, <1>4, <1>5 DEF IInv

\* Every step keeps the types.
LEMMA NextTypeOK == IInv /\ [Next]_vars => TypeOK'
<1> SUFFICES ASSUME IInv, [Next]_vars PROVE TypeOK'
    OBVIOUS
<1> USE NumTasksAssumption, MaxConcAssumption DEF IInv, TypeOK, Errors, Places, Goto, Deferred, config, shared, owner
<1>1. CASE Go
    BY <1>1 DEF Go, Tasks
<1>2. CASE CallWait
    BY <1>2 DEF CallWait
<1>3. CASE WaitErr
  <2>1. firstErr >= 0 /\ nerrs > firstErr => errs[firstErr] \in Errors
    BY DEF Tasks
  <2>2. QED
    BY <1>3, <2>1 DEF WaitErr
<1>4. CASE ExternalCancel
    BY <1>4 DEF ExternalCancel
<1>5. ASSUME NEW t \in Tasks, Task(t) PROVE TypeOK'
  <2>1. CASE Acquire(t)
    BY <2>1 DEF Acquire
  <2>2. CASE AcquireCancelled(t)
    BY <2>2 DEF AcquireCancelled, Tasks
  <2>3. CASE Run(t)
    BY <2>3 DEF Run
  <2>4. CASE Claim(t)
    BY <2>4 DEF Claim, Tasks
  <2>5. CASE Store(t)
    BY <2>5 DEF Store
  <2>6. CASE Cancel(t)
    BY <2>6 DEF Cancel
  <2>7. CASE PutBack(t)
    BY <2>7 DEF PutBack
  <2>8. CASE WgDone(t)
    BY <2>8 DEF WgDone
  <2>9. QED
    BY <1>5, <2>1, <2>2, <2>3, <2>4, <2>5, <2>6, <2>7, <2>8 DEF Task
<1>6. CASE UNCHANGED vars
    BY <1>6 DEF vars
<1>7. QED
    BY <1>1, <1>2, <1>3, <1>4, <1>5, <1>6 DEF Next, Finished

\* Tokens are neither lost nor made: every step moves one or none.
LEMMA NextConserved == IInv /\ [Next]_vars => Conserved'
<1> SUFFICES ASSUME IInv, [Next]_vars PROVE Conserved'
    OBVIOUS
<1> USE NumTasksAssumption, MaxConcAssumption DEF Goto, Deferred, config, shared, owner
<1>0. /\ TypeOK /\ Conserved /\ Launched
      /\ Holding \in SUBSET Tasks /\ Cardinality(Holding) \in Nat
    BY TaskSubsets DEF IInv, Holding
<1>1. CASE Go
  <2>1. launched \in Tasks /\ tpc[launched] = "off"
    BY <1>0, <1>1 DEF TypeOK, Go, Launched, Tasks
  <2>2. CASE conc > 0
    <3>1. Holding' = Holding
        BY <1>0, <1>1, <2>1, <2>2 DEF TypeOK, Go, Holding
    <3>2. QED
        BY <1>0, <1>1, <2>2, <3>1, ConservedUntouched DEF TypeOK, Go
  <2>3. CASE conc = 0
        BY <1>0, <1>1, <2>1, <2>3 DEF TypeOK, Conserved, Go
  <2>4. QED
    BY <1>0, <2>2, <2>3 DEF TypeOK
<1>2. CASE CallWait \/ WaitErr \/ ExternalCancel \/ UNCHANGED vars
  <2>1. UNCHANGED <<tpc, conc, tokens>>
    BY <1>2 DEF CallWait, WaitErr, ExternalCancel, vars
  <2>2. QED
    BY <1>0, <2>1 DEF Conserved, Holding
<1>3. ASSUME NEW t \in Tasks, Task(t) PROVE Conserved'
  <2>1. CASE Acquire(t)
    <3>1. Holding' = Holding \cup {t} /\ t \notin Holding
        BY <1>0, <2>1 DEF TypeOK, Acquire, Holding
    <3>2. Cardinality(Holding') = Cardinality(Holding) + 1
        BY <1>0, <3>1, TaskAdded
    <3>3. QED
        BY <1>0, <2>1, <3>2 DEF TypeOK, Conserved, Acquire
  <2>2. CASE PutBack(t)
    <3>1. Holding' = Holding \ {t} /\ t \in Holding
        BY <1>0, <2>2 DEF TypeOK, PutBack, Holding
    <3>2. Cardinality(Holding') = Cardinality(Holding) - 1
        BY <1>0, <3>1, TaskRemoved
    <3>3. QED
        BY <1>0, <2>2, <3>2 DEF TypeOK, Conserved, PutBack
  <2>3. CASE AcquireCancelled(t) \/ Claim(t) \/ Store(t) \/ WgDone(t)
    <3>1. Holding' = Holding
        BY <1>0, <2>3 DEF TypeOK, AcquireCancelled, Claim, Store, WgDone, Holding
    <3>2. QED
        BY <1>0, <2>3, <3>1, ConservedUntouched
        DEF TypeOK, Conserved, AcquireCancelled, Claim, Store, WgDone
  <2>4. CASE (Run(t) \/ Cancel(t)) /\ conc > 0
    <3>1. Holding' = Holding
        BY <1>0, <2>4 DEF TypeOK, Run, Cancel, Holding
    <3>2. QED
        BY <1>0, <2>4, <3>1, ConservedUntouched DEF TypeOK, Run, Cancel
  <2>5. CASE (Run(t) \/ Cancel(t)) /\ conc = 0
    BY <1>0, <2>5 DEF TypeOK, Conserved, Run, Cancel
  <2>6. QED
    BY <1>0, <1>3, <2>1, <2>2, <2>3, <2>4, <2>5 DEF Task, TypeOK
<1>4. QED
    BY <1>1, <1>2, <1>3 DEF Next, Finished

\* Every step keeps the other parts.
LEMMA NextFacts == IInv /\ [Next]_vars => Facts'
<1> SUFFICES ASSUME IInv, [Next]_vars PROVE Facts'
    OBVIOUS
<1>0. TypeOK /\ Conserved /\ Facts
    BY DEF IInv, Facts
<1> USE NumTasksAssumption, MaxConcAssumption
    DEF TypeOK, Errors, Places, Goto, Deferred, config, shared, owner, Tasks,
        Facts, Launched, AllDone, Recorded, FirstFailed, FirstSet, CtxSeen, CausedByFailure, Result
<1>1. CASE Go
    BY <1>0, <1>1 DEF Go
<1>2. CASE CallWait
    BY <1>0, <1>2 DEF CallWait
<1>3. CASE WaitErr
    BY <1>0, <1>3 DEF WaitErr, WgZero
<1>4. CASE ExternalCancel
    BY <1>0, <1>4 DEF ExternalCancel
<1>5. ASSUME NEW t \in Tasks, Task(t) PROVE Facts'
  <2>1. CASE Acquire(t)
    BY <1>0, <2>1 DEF Acquire
  <2>2. CASE AcquireCancelled(t)
    BY <1>0, <2>2 DEF AcquireCancelled
  <2>3. CASE Run(t)
    BY <1>0, <2>3 DEF Run
  <2>4. CASE Claim(t)
    BY <1>0, <2>4 DEF Claim
  <2>5. CASE Store(t)
    BY <1>0, <2>5 DEF Store
  <2>6. CASE Cancel(t)
    BY <1>0, <2>6 DEF Cancel
  <2>7. CASE PutBack(t)
    BY <1>0, <2>7 DEF PutBack
  <2>8. CASE WgDone(t)
    BY <1>0, <2>8 DEF WgDone
  <2>9. QED
    BY <1>5, <2>1, <2>2, <2>3, <2>4, <2>5, <2>6, <2>7, <2>8 DEF Task
<1>6. CASE UNCHANGED vars
    BY <1>0, <1>6 DEF vars
<1>7. QED
    BY <1>1, <1>2, <1>3, <1>4, <1>5, <1>6 DEF Next, Finished

\* The inductive invariant holds in every reachable state of a Group, whatever
\* the number of tasks, the limit and the options it was made with.
THEOREM Inductive == Spec => []IInv
<1>1. IInv /\ [Next]_vars => IInv'
    BY NextTypeOK, NextConserved, NextFacts DEF IInv, Facts
<1>2. QED
    BY InitIInv, <1>1, PTL DEF Spec

-----------------------------------------------------------------------------
\* WithConcurrency(n): at most n functions are between taking a token and
\* putting it back, so at most n execute.
THEOREM Limit == Spec => []ConcurrencyBound
<1>1. IInv => ConcurrencyBound
  <2> SUFFICES ASSUME IInv, conc > 0
               PROVE  Cardinality({t \in Tasks : tpc[t] \in {"run", "claim", "store", "cancel"}}) <= conc
    BY DEF ConcurrencyBound
  <2> DEFINE Running == {t \in Tasks : tpc[t] \in {"run", "claim", "store", "cancel"}}
  <2>1. Running \subseteq Holding /\ Holding \in SUBSET Tasks
    BY DEF Holding
  <2>2. Cardinality(Running) <= Cardinality(Holding) /\ Cardinality(Running) \in Nat /\ Cardinality(Holding) \in Nat
    BY <2>1, TaskSubsets, FS_Subset
  <2>3. QED
    BY <2>2, NumTasksAssumption, MaxConcAssumption DEF IInv, TypeOK, Conserved
<1>2. QED
    BY Inductive, <1>1, PTL

\* WaitErr: after it has returned, errs holds the error of every tracked task
\* that was launched, it reported an error exactly when there is one, and no
\* goroutine has a token left to put back.
THEOREM WaitComplete == Spec => []WaitSeesAll
<1>1. IInv => WaitSeesAll
  <2> SUFFICES ASSUME IInv, mpc = "returned"
               PROVE  /\ conc > 0 => tokens = conc
                      /\ \A t \in Tasks : t < launched /\ t < nerrs => errs[t] = err[t]
                      /\ result = "nil" <=> \A t \in Tasks : errs[t] = "nil"
    BY DEF WaitSeesAll
  <2>0. ASSUME conc > 0
        PROVE  tokens = conc
    <3>1. Holding = {}
        BY DEF IInv, AllDone, Holding
    <3>2. QED
        BY <2>0, <3>1, FS_EmptySet DEF IInv, TypeOK, Conserved
  <2> USE NumTasksAssumption DEF IInv, TypeOK, Tasks
  <2>1. ASSUME NEW t \in Tasks, t < launched, t < nerrs
        PROVE  errs[t] = err[t]
    BY <2>1 DEF Launched, AllDone, Recorded
  <2>2. ASSUME NEW t \in Tasks, errs[t] # "nil"
        PROVE  result # "nil"
    BY <2>2 DEF AllDone, Recorded, FirstFailed, FirstSet, Result
  <2>3. ASSUME result # "nil"
        PROVE  \E t \in Tasks : errs[t] # "nil"
    BY <2>3 DEF Result
  <2>4. QED
    BY <2>0, <2>1, <2>2, <2>3
<1>2. QED
    BY Inductive, <1>1, PTL

\* WaitErr returns the failure and not the cancellation it provoked: CompareAndSwap
\* on firstErr comes before cancel, and nothing else cancels.
THEOREM Cause == Spec => []RootCause
<1>1. IInv => RootCause
  <2> SUFFICES ASSUME IInv, mpc = "returned", nerrs = NumTasks, ~extern
               PROVE  result # "ctx"
    BY DEF RootCause
  <2> USE NumTasksAssumption DEF IInv, TypeOK, Tasks
  <2>1. CASE firstErr >= 0 /\ nerrs > firstErr
    BY <2>1 DEF Recorded, FirstFailed, CausedByFailure, Result
  <2>2. CASE ~(firstErr >= 0 /\ nerrs > firstErr)
    BY <2>2 DEF Result
  <2>3. QED
    BY <2>1, <2>2
<1>2. QED
    BY Inductive, <1>1, PTL
=============================================================================
