------------------------------ MODULE ErrGroup ------------------------------
(***************************************************************************)
(* sync/errgroup: a Group runs functions in goroutines, at most conc of    *)
(* them at a time, keeps the error of each, remembers the first one and    *)
(* may cancel a context when one fails.                                    *)
(*                                                                         *)
(* The owner calls Go for task 0, 1, ... and then WaitErr.  The supplied   *)
(* context may be cancelled from outside at any moment.                    *)
(***************************************************************************)
EXTENDS Integers, FiniteSets

CONSTANTS NumTasks,  \* bound: calls of Go
          MaxConc    \* bound: the argument of WithConcurrency

ASSUME NumTasksAssumption == NumTasks \in Nat
ASSUME MaxConcAssumption == MaxConc \in Nat

Tasks == 0..NumTasks - 1

\* An error is what a function returned ("fail") or the context's ("ctx").
Errors == {"nil", "fail", "ctx"}

VARIABLES
    nerrs,     \* len(g.errs), the argument of WithNErrs
    conc,      \* capacity of g.bucket; 0 when it is nil
    useCtx,    \* WithCancelOnError was called
    tokens,    \* tokens in g.bucket
    firstErr,
    errs,      \* g.errs; "nil" above nerrs, where nothing is stored
    ctxDone,
    extern,    \* history: the context was cancelled by somebody else
    launched,  \* calls of Go so far
    mpc,       \* the owner: "go", "wait", "returned"
    result,    \* what WaitErr returned
    tpc,       \* place of each goroutine
    err        \* the error a goroutine is about to record

config == <<nerrs, conc, useCtx>>
shared == <<tokens, firstErr, errs, ctxDone, extern>>
owner  == <<launched, mpc, result>>
vars   == <<config, shared, owner, tpc, err>>

\* "done" is the place after wg.Done().
Places == {"off", "acquire", "run", "claim", "store", "cancel", "putBack", "wgDone", "done"}

TypeOK ==
    /\ nerrs \in 0..NumTasks
    /\ conc \in 0..MaxConc
    /\ useCtx \in BOOLEAN
    /\ tokens \in 0..conc
    /\ firstErr \in -1..NumTasks
    /\ errs \in [Tasks -> Errors]
    /\ ctxDone \in BOOLEAN
    /\ extern \in BOOLEAN
    /\ launched \in 0..NumTasks
    /\ mpc \in {"go", "wait", "returned"}
    /\ result \in Errors
    /\ tpc \in [Tasks -> Places]
    /\ err \in [Tasks -> Errors]

\* The zero Group has no errs and firstErr = 0.
WithNErrs ==
    /\ nerrs \in 0..NumTasks
    /\ firstErr \in {-1} \cup (IF nerrs = 0 THEN {0} ELSE {})
    /\ errs = [t \in Tasks |-> "nil"]

WithConcurrency ==
    /\ conc \in 0..MaxConc
    /\ tokens = conc

WithCancelOnError ==
    /\ useCtx \in BOOLEAN
    /\ ctxDone = FALSE
    /\ extern = FALSE

Init ==
    /\ WithNErrs
    /\ WithConcurrency
    /\ WithCancelOnError
    /\ launched = 0
    /\ mpc = "go"
    /\ result = "nil"
    /\ tpc = [t \in Tasks |-> "off"]
    /\ err = [t \in Tasks |-> "nil"]

Goto(t, place) == tpc' = [tpc EXCEPT ![t] = place]

\* Where the deferred calls of a goroutine begin: the token was deferred
\* last and is put back before wg.Done().
Deferred == IF conc > 0 THEN "putBack" ELSE "wgDone"

-----------------------------------------------------------------------------
(* The owner *)

\* Go: wg.Add(1) and a new goroutine.
Go ==
    /\ mpc = "go"
    /\ launched < NumTasks
    /\ launched' = launched + 1
    /\ Goto(launched, IF conc > 0 THEN "acquire" ELSE "run")
    /\ UNCHANGED <<config, shared, mpc, result, err>>

\* The owner has no more work and calls WaitErr.
CallWait ==
    /\ mpc = "go"
    /\ mpc' = "wait"
    /\ UNCHANGED <<config, shared, launched, result, tpc, err>>

\* The WaitGroup counts every launched goroutine that is not done.
WgZero == \A t \in Tasks : t < launched => tpc[t] = "done"

\* Mutant: returns without waiting.
WaitErrEarly ==
    /\ mpc = "wait"
    /\ mpc' = "returned"
    /\ ctxDone' = (ctxDone \/ useCtx)
    /\ result' = IF firstErr >= 0 /\ nerrs > firstErr THEN errs[firstErr] ELSE "nil"
    /\ UNCHANGED <<config, tokens, firstErr, errs, extern, launched, tpc, err>>

\* wg.Wait, cancel, and the first error.
WaitErr ==
    /\ mpc = "wait"
    /\ WgZero
    /\ mpc' = "returned"
    /\ ctxDone' = (ctxDone \/ useCtx)
    /\ result' = IF firstErr >= 0 /\ nerrs > firstErr THEN errs[firstErr] ELSE "nil"
    /\ UNCHANGED <<config, tokens, firstErr, errs, extern, launched, tpc, err>>

\* The supplied context, or the returned CancelFunc, is cancelled.
ExternalCancel ==
    /\ useCtx
    /\ ~ctxDone
    /\ ctxDone' = TRUE
    /\ extern' = TRUE
    /\ UNCHANGED <<config, tokens, firstErr, errs, owner, tpc, err>>

-----------------------------------------------------------------------------
(* A goroutine *)

\* Mutant: the goroutine goes on without taking the token.
AcquireUncounted(t) ==
    /\ tpc[t] = "acquire"
    /\ Goto(t, "run")
    /\ UNCHANGED <<config, shared, owner, err>>

\* select, first case: a token is there.
Acquire(t) ==
    /\ tpc[t] = "acquire"
    /\ tokens > 0
    /\ tokens' = tokens - 1
    /\ Goto(t, "run")
    /\ UNCHANGED <<config, firstErr, errs, ctxDone, extern, owner, err>>

\* select, second case: the context is done (a nil channel is never ready);
\* the error is recorded, f never runs and no token is held.  Nobody
\* reads errs before the WaitGroup is at zero, so the two writes are one step.
AcquireCancelled(t) ==
    /\ tpc[t] = "acquire"
    /\ useCtx /\ ctxDone
    /\ IF nerrs > t
       THEN /\ firstErr' = IF firstErr = -1 THEN t ELSE firstErr
            /\ errs' = [errs EXCEPT ![t] = "ctx"]
       ELSE UNCHANGED <<firstErr, errs>>
    /\ err' = [err EXCEPT ![t] = "ctx"]
    /\ Goto(t, "wgDone")
    /\ UNCHANGED <<config, tokens, ctxDone, extern, owner>>

\* f returns: without an error, with its own, or with that of the cancelled
\* context it was given.
Run(t) ==
    /\ tpc[t] = "run"
    /\ \E e \in {"nil", "fail"} \cup (IF useCtx /\ ctxDone THEN {"ctx"} ELSE {}) :
        /\ err' = [err EXCEPT ![t] = e]
        /\ Goto(t, IF e = "nil" THEN Deferred ELSE IF nerrs > t THEN "claim" ELSE "cancel")
    /\ UNCHANGED <<config, shared, owner>>

\* Mutant: the last error overwrites the first.
ClaimAlways(t) ==
    /\ tpc[t] = "claim"
    /\ firstErr' = t
    /\ Goto(t, "store")
    /\ UNCHANGED <<config, tokens, errs, ctxDone, extern, owner, err>>

\* CompareAndSwap(&firstErr, -1, index).
Claim(t) ==
    /\ tpc[t] = "claim"
    /\ firstErr' = IF firstErr = -1 THEN t ELSE firstErr
    /\ Goto(t, "store")
    /\ UNCHANGED <<config, tokens, errs, ctxDone, extern, owner, err>>

\* g.errs[index] = err.
Store(t) ==
    /\ tpc[t] = "store"
    /\ errs' = [errs EXCEPT ![t] = err[t]]
    /\ Goto(t, "cancel")
    /\ UNCHANGED <<config, tokens, firstErr, ctxDone, extern, owner, err>>

\* g.cancel(), if there is a context.
Cancel(t) ==
    /\ tpc[t] = "cancel"
    /\ ctxDone' = (ctxDone \/ useCtx)
    /\ Goto(t, Deferred)
    /\ UNCHANGED <<config, tokens, firstErr, errs, extern, owner, err>>

\* Mutant: the token is lost.
PutBackNothing(t) ==
    /\ tpc[t] = "putBack"
    /\ Goto(t, "wgDone")
    /\ UNCHANGED <<config, shared, owner, err>>

\* g.bucket <- struct{}{}: blocks if the bucket is full.
PutBack(t) ==
    /\ tpc[t] = "putBack"
    /\ tokens < conc
    /\ tokens' = tokens + 1
    /\ Goto(t, "wgDone")
    /\ UNCHANGED <<config, firstErr, errs, ctxDone, extern, owner, err>>

\* g.wg.Done().
WgDone(t) ==
    /\ tpc[t] = "wgDone"
    /\ Goto(t, "done")
    /\ UNCHANGED <<config, shared, owner, err>>

Task(t) ==
    \/ Acquire(t) \/ AcquireCancelled(t) \/ Run(t) \/ Claim(t) \/ Store(t)
    \/ Cancel(t) \/ PutBack(t) \/ WgDone(t)

Finished == mpc = "returned" /\ UNCHANGED vars

Next ==
    \/ Go \/ CallWait \/ WaitErr \/ ExternalCancel \/ Finished
    \/ \E t \in Tasks : Task(t)

\* Runnable goroutines run, f returns, and a goroutine that waits for a token
\* is served in turn: Go's channels queue their receivers.  Nobody has to
\* cancel the context.
Fairness ==
    /\ WF_vars(CallWait) /\ WF_vars(WaitErr)
    /\ \A t \in Tasks : SF_vars(Task(t))

Spec == Init /\ [][Next]_vars /\ Fairness

-----------------------------------------------------------------------------
\* WithConcurrency(n): at most n functions execute at any time, whatever
\* errors and cancellations happen in between.
ConcurrencyBound ==
    conc > 0 => Cardinality({t \in Tasks : tpc[t] \in {"run", "claim", "store", "cancel"}}) <= conc

\* Once Wait has returned, errs holds the error of every task that was
\* launched and is tracked, WaitErr has reported an error exactly when there is
\* one, and every token is back in the bucket: the deferred calls of a goroutine
\* end with wg.Done, so none of them still writes to the Group.
WaitSeesAll ==
    mpc = "returned" =>
        /\ conc > 0 => tokens = conc
        /\ \A t \in Tasks : t < launched /\ t < nerrs => errs[t] = err[t]
        /\ result = "nil" <=> \A t \in Tasks : errs[t] = "nil"

\* The error reported is the cause: when every task is tracked and nobody
\* else cancels, WaitErr never returns the cancellation that a failure
\* provoked in its siblings in place of the failure.
RootCause == mpc = "returned" /\ nerrs = NumTasks /\ ~extern => result # "ctx"

\* Wait returns.
WaitReturns == <>(mpc = "returned")
=============================================================================
