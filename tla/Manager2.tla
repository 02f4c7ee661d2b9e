------------------------------ MODULE Manager2 ------------------------------
(***************************************************************************)
(* certs/manager2.go: a goroutine that serves SIGHUP, the reloads of the   *)
(* installed certificates and Close, and tells subscribers.                *)
(*                                                                         *)
(* loadCerts returns a list of fresh certificates; a list is modelled by   *)
(* one certificate per generation, numbered from 1, and 0 is the empty     *)
(* list, which loadCerts may return as well.  Certificate2 itself is abstracted to what its own module shows:  *)
(* it may reload while it is open, its callback is then called, and Close  *)
(* returns.                                                                *)
(***************************************************************************)
EXTENDS Naturals, Sequences, SequencesExt

CONSTANTS Subscribers,  \* callers of Manager2.Subscribe
          MaxGen,       \* bound: successful loads
          MaxReloads,   \* bound: reloads of single certificates
          MaxSignals    \* bound: SIGHUPs

ASSUME MaxGenAssumption == MaxGen \in Nat \ {0}
ASSUME MaxReloadsAssumption == MaxReloads \in Nat
ASSUME MaxSignalsAssumption == MaxSignals \in Nat

Gens == 1..MaxGen

VARIABLES
    signals, reloads,  \* how many there have been
    sig,       \* signals in signalCh, whose capacity is 1
    gen,       \* generations loaded so far
    cert,      \* each certificate: "none", "open", "closed"
    ver,       \* its version, which a reload raises
    hooked,    \* the manager has subscribed to it
    cbuf,      \* notifications in that subscription, capacity 1
    fwd,       \* its callback goroutine: "idle" or "sending" to certUpdateCh
    upd,       \* certUpdateCh, capacity 1: certificates, 0 for nil
    certs,     \* the installed list
    mpc,       \* manager goroutine: "select", "notify", "swap", "closeOld",
               \* "hook", "announce", "defer", "exit"
    new, old,  \* the lists replaceCerts is exchanging
    leaving,   \* it does so for Close
    targets,   \* its copy of the subscriptions
    closeReq,  \* closeCh is closed
    subs,      \* m.subscriptions
    sub,       \* each subscription: "none", "open", "closed"
    buf,       \* notifications in its channel, capacity 1
    cb,        \* its goroutine: "idle", "run", "ran", "exit"
    seen,      \* what its callback last saw: installed list and version
    latest,    \* history: the list that was loaded last
    panic

envVars   == <<signals, reloads>>
certVars  == <<gen, cert, ver, hooked, cbuf, fwd>>
mgrVars   == <<certs, mpc, new, old, leaving, targets>>
subVars   == <<subs, sub, buf, cb, seen>>
vars == <<envVars, sig, certVars, upd, mgrVars, closeReq, subVars, latest, panic>>

Lists == 0..MaxGen

\* What a reader of the manager gets.
Current == <<certs, IF certs = 0 THEN 0 ELSE ver[certs]>>

TypeOK ==
    /\ signals \in 0..MaxSignals /\ reloads \in 0..MaxReloads
    /\ sig \in 0..1
    /\ gen \in Lists
    /\ cert \in [Gens -> {"none", "open", "closed"}]
    /\ ver \in [Gens -> 0..MaxReloads]
    /\ hooked \in [Gens -> BOOLEAN]
    /\ cbuf \in [Gens -> 0..1]
    /\ fwd \in [Gens -> {"idle", "sending"}]
    /\ upd \in {<<>>} \cup {<<v>> : v \in Lists}
    /\ certs \in Lists /\ new \in Lists /\ old \in Lists /\ latest \in Lists
    /\ leaving \in BOOLEAN
    /\ mpc \in {"select", "notify", "swap", "closeOld", "hook", "announce", "defer", "exit"}
    /\ targets \in Seq(Subscribers) /\ subs \in Seq(Subscribers)
    /\ closeReq \in BOOLEAN
    /\ sub \in [Subscribers -> {"none", "open", "closed"}]
    /\ buf \in [Subscribers -> 0..1]
    /\ cb \in [Subscribers -> {"idle", "run", "ran", "exit"}]
    /\ seen \in [Subscribers -> Lists \X (0..MaxReloads)]
    /\ panic \in {"none", "notify", "close"}

\* NewManager2 has loaded generation 1 or an empty list, subscribed to it and
\* started the goroutine.
Init ==
    /\ signals = 0 /\ reloads = 0
    /\ sig = 0
    /\ gen \in {0, 1}
    /\ cert = [g \in Gens |-> IF g = gen THEN "open" ELSE "none"]
    /\ ver = [g \in Gens |-> 0]
    /\ hooked = [g \in Gens |-> g = gen]
    /\ cbuf = [g \in Gens |-> 0]
    /\ fwd = [g \in Gens |-> "idle"]
    /\ upd = <<>>
    /\ certs = gen /\ new = 0 /\ old = 0 /\ latest = gen
    /\ leaving = FALSE
    /\ mpc = "select"
    /\ targets = <<>>
    /\ closeReq = FALSE
    /\ subs = <<>>
    /\ sub = [s \in Subscribers |-> "none"]
    /\ buf = [s \in Subscribers |-> 0]
    /\ cb = [s \in Subscribers |-> "idle"]
    /\ seen = [s \in Subscribers |-> <<gen, 0>>]
    /\ panic = "none"

-----------------------------------------------------------------------------
(* The certificates and the operating system *)

\* A certificate reloads; its notification is dropped when the channel of the
\* manager's subscription is full.
CertReload(g) ==
    /\ cert[g] = "open"
    /\ reloads < MaxReloads
    /\ reloads' = reloads + 1
    /\ ver' = [ver EXCEPT ![g] = @ + 1]
    /\ cbuf' = IF hooked[g] THEN [cbuf EXCEPT ![g] = 1] ELSE cbuf
    /\ UNCHANGED <<latest, signals, sig, gen, cert, hooked, fwd, upd, mgrVars, closeReq, subVars, panic>>

\* The manager's callback: takes a notification, then sends the certificate
\* to certUpdateCh, blocking while that is full.
Forward(g) ==
    /\ \/ /\ fwd[g] = "idle" /\ cbuf[g] = 1
          /\ cbuf' = [cbuf EXCEPT ![g] = 0]
          /\ fwd' = [fwd EXCEPT ![g] = "sending"]
          /\ UNCHANGED upd
       \/ /\ fwd[g] = "sending" /\ upd = <<>>
          /\ upd' = <<g>>
          /\ fwd' = [fwd EXCEPT ![g] = "idle"]
          /\ UNCHANGED cbuf
    /\ UNCHANGED <<latest, envVars, sig, gen, cert, ver, hooked, mgrVars, closeReq, subVars, panic>>

\* SIGHUP arrives; dropped when one is already waiting.
Sighup ==
    /\ signals < MaxSignals
    /\ mpc # "exit"
    /\ signals' = signals + 1
    /\ sig' = 1
    /\ UNCHANGED <<latest, reloads, certVars, upd, mgrVars, closeReq, subVars, panic>>

-----------------------------------------------------------------------------
(* The manager goroutine *)

\* case <-closeCh
SelectClose ==
    /\ mpc = "select"
    /\ closeReq
    /\ new' = 0
    /\ leaving' = TRUE
    /\ mpc' = "swap"
    /\ UNCHANGED <<latest, envVars, sig, certVars, upd, certs, old, targets, closeReq, subVars, panic>>

\* Mutant: a failed load installs the empty list.
SelectSignalFailsEmpty ==
    /\ mpc = "select"
    /\ sig > 0
    /\ sig' = 0
    /\ new' = 0
    /\ mpc' = "swap"
    /\ UNCHANGED <<latest, envVars, certVars, upd, certs, old, leaving, targets, closeReq, subVars, panic>>

\* case <-signalCh: loadCerts fails and nothing changes, ...
SelectSignalFails ==
    /\ mpc = "select"
    /\ sig > 0
    /\ sig' = 0
    /\ UNCHANGED <<latest, envVars, certVars, upd, mgrVars, closeReq, subVars, panic>>

\* ... or it returns an empty list and no error, ...
SelectSignalEmpty ==
    /\ mpc = "select"
    /\ sig > 0
    /\ sig' = 0
    /\ new' = 0 /\ latest' = 0
    /\ mpc' = "swap"
    /\ UNCHANGED <<envVars, certVars, upd, certs, old, leaving, targets, closeReq, subVars, panic>>

\* ... or it returns fresh certificates.
SelectSignal ==
    /\ mpc = "select"
    /\ sig > 0
    /\ gen < MaxGen
    /\ sig' = 0
    /\ gen' = gen + 1
    /\ cert' = [cert EXCEPT ![gen + 1] = "open"]
    /\ new' = gen + 1 /\ latest' = gen + 1
    /\ mpc' = "swap"
    /\ UNCHANGED <<envVars, ver, hooked, cbuf, fwd, upd, certs, old, leaving, targets, closeReq, subVars, panic>>

\* case cert := <-certUpdateCh: copy the subscriptions under the lock.
SelectUpdate ==
    /\ mpc = "select"
    /\ upd # <<>>
    /\ upd' = <<>>
    /\ targets' = subs
    /\ mpc' = "notify"
    /\ UNCHANGED <<latest, envVars, sig, certVars, certs, new, old, leaving, closeReq, subVars, panic>>

\* Mutant: nobody is told.
NotifyNobody ==
    /\ mpc = "notify"
    /\ targets' = <<>>
    /\ mpc' = "select"
    /\ UNCHANGED <<latest, envVars, sig, certVars, upd, certs, new, old, leaving, closeReq, subs, sub, buf, cb, seen, panic>>

\* One non-blocking send per subscription; it panics on a closed channel.
Notify ==
    /\ mpc = "notify"
    /\ IF targets = <<>>
       THEN mpc' = "select" /\ UNCHANGED <<targets, buf, panic>>
       ELSE LET s == Head(targets) IN
            /\ targets' = Tail(targets)
            /\ panic' = IF sub[s] = "closed" THEN "notify" ELSE panic
            /\ buf' = IF sub[s] = "closed" THEN buf ELSE [buf EXCEPT ![s] = 1]
            /\ UNCHANGED mpc
    /\ UNCHANGED <<latest, envVars, sig, certVars, upd, certs, new, old, leaving, closeReq, subs, sub, cb, seen>>

\* Mutant: the old certificates are closed while still installed.
SwapLate ==
    /\ mpc = "swap"
    /\ old' = certs
    /\ cert' = IF certs = 0 THEN cert ELSE [cert EXCEPT ![certs] = "closed"]
    /\ mpc' = "closeOld"
    /\ UNCHANGED <<latest, envVars, sig, gen, ver, hooked, cbuf, fwd, upd, certs, new, leaving, targets, closeReq, subVars, panic>>

\* replaceCerts: exchange the lists, ...
Swap ==
    /\ mpc = "swap"
    /\ old' = certs
    /\ certs' = new
    /\ mpc' = "closeOld"
    /\ UNCHANGED <<latest, envVars, sig, certVars, upd, new, leaving, targets, closeReq, subVars, panic>>

\* Mutant: the old certificates keep their watchers.
CloseOldNot ==
    /\ mpc = "closeOld"
    /\ mpc' = "hook"
    /\ UNCHANGED <<latest, envVars, sig, certVars, upd, certs, new, old, leaving, targets, closeReq, subVars, panic>>

\* ... close the old certificates, which also ends our subscription to them,
\* ...
CloseOld ==
    /\ mpc = "closeOld"
    /\ cert' = IF old = 0 THEN cert ELSE [cert EXCEPT ![old] = "closed"]
    /\ mpc' = "hook"
    /\ UNCHANGED <<latest, envVars, sig, gen, ver, hooked, cbuf, fwd, upd, certs, new, old, leaving, targets, closeReq, subVars, panic>>

\* ... subscribe to the new ones, ...
Hook ==
    /\ mpc = "hook"
    /\ hooked' = IF new = 0 THEN hooked ELSE [hooked EXCEPT ![new] = TRUE]
    /\ mpc' = "announce"
    /\ UNCHANGED <<latest, envVars, sig, gen, cert, ver, cbuf, fwd, upd, certs, new, old, leaving, targets, closeReq, subVars, panic>>

\* ... and certUpdateCh <- nil, which blocks while the channel is full.  On
\* the way out the deferred functions follow.
Announce ==
    /\ mpc = "announce"
    /\ upd = <<>>
    /\ upd' = <<0>>
    /\ mpc' = IF leaving THEN "defer" ELSE "select"
    /\ UNCHANGED <<latest, envVars, sig, certVars, certs, new, old, leaving, targets, closeReq, subVars, panic>>

\* The deferred functions: every subscription is closed (and stays in the
\* list), signals are no longer delivered.
Defer ==
    /\ mpc = "defer"
    /\ panic' = IF \E s \in Range(subs) : sub[s] = "closed" THEN "close" ELSE panic
    /\ sub' = [s \in Subscribers |-> IF s \in Range(subs) THEN "closed" ELSE sub[s]]
    /\ mpc' = "exit"
    /\ UNCHANGED <<latest, envVars, sig, certVars, upd, certs, new, old, leaving, targets, closeReq, subs, buf, cb, seen>>

Manager ==
    \/ SelectClose \/ SelectSignalFails \/ SelectSignalEmpty \/ SelectSignal \/ SelectUpdate
    \/ Notify \/ Swap \/ CloseOld \/ Hook \/ Announce \/ Defer

-----------------------------------------------------------------------------
(* The users of the manager *)

Close ==
    /\ ~closeReq
    /\ closeReq' = TRUE
    /\ UNCHANGED <<latest, envVars, sig, certVars, upd, mgrVars, subVars, panic>>

\* The caller knows the current certificates when it subscribes.
Subscribe(s) ==
    /\ sub[s] = "none"
    /\ sub' = [sub EXCEPT ![s] = "open"]
    /\ subs' = Append(subs, s)
    /\ seen' = [seen EXCEPT ![s] = Current]
    /\ UNCHANGED <<latest, envVars, sig, certVars, upd, mgrVars, closeReq, buf, cb, panic>>

\* The returned function, once: remove the channel and close it.
Unsubscribe(s) ==
    /\ \E i \in DOMAIN subs : subs[i] = s /\ subs' = RemoveAt(subs, i)
    /\ panic' = IF sub[s] = "closed" THEN "close" ELSE panic
    /\ sub' = [sub EXCEPT ![s] = "closed"]
    /\ UNCHANGED <<latest, envVars, sig, certVars, upd, mgrVars, closeReq, buf, cb, seen>>

\* The callback looks at the manager's certificates, uses them and returns.
Callback(s) ==
    /\ sub[s] # "none"
    /\ \/ /\ cb[s] = "idle" /\ buf[s] = 1
          /\ buf' = [buf EXCEPT ![s] = 0]
          /\ cb' = [cb EXCEPT ![s] = "run"]
          /\ UNCHANGED seen
       \/ /\ cb[s] = "run"
          /\ seen' = [seen EXCEPT ![s] = Current]
          /\ cb' = [cb EXCEPT ![s] = "ran"]
          /\ UNCHANGED buf
       \/ /\ cb[s] = "ran"
          /\ cb' = [cb EXCEPT ![s] = "idle"]
          /\ UNCHANGED <<buf, seen>>
       \/ /\ cb[s] = "idle" /\ buf[s] = 0 /\ sub[s] = "closed"
          /\ cb' = [cb EXCEPT ![s] = "exit"]
          /\ UNCHANGED <<buf, seen>>
    /\ UNCHANGED <<latest, envVars, sig, certVars, upd, mgrVars, closeReq, subs, sub, panic>>

-----------------------------------------------------------------------------
\* A panic ends the program.
Live(A) == panic = "none" /\ A

Next ==
    \/ Live(Manager)
    \/ Live(Sighup)
    \/ Live(Close)
    \/ \E g \in Gens : Live(CertReload(g)) \/ Live(Forward(g))
    \/ \E s \in Subscribers : Live(Subscribe(s)) \/ Live(Unsubscribe(s)) \/ Live(Callback(s))

\* The goroutines run when they can; Go's select is fair among its ready
\* cases, so a close request is served.  Nothing else has to happen.
Fairness ==
    /\ WF_vars(Live(Manager)) /\ SF_vars(Live(SelectClose)) /\ SF_vars(Live(SelectUpdate))
    /\ \A g \in Gens : SF_vars(Live(Forward(g)))
    /\ \A s \in Subscribers : WF_vars(Live(Callback(s)))

Spec == Init /\ [][Next]_vars /\ Fairness

-----------------------------------------------------------------------------
\* A handshake never finds a closed certificate installed: the lists are
\* exchanged before the old one is closed.
InstalledOpen == certs # 0 => cert[certs] = "open"

\* The installed list is the one that was loaded last, but for the moment when
\* replaceCerts has it and has not exchanged it yet, and but for a Close, which
\* installs the empty list.  So a failed load keeps the certificates, and the
\* manager is empty only after Close or after a load that found nothing.
ServesLatest ==
    /\ mpc # "swap" => certs = IF leaving THEN 0 ELSE latest
    /\ leaving => closeReq

\* No loaded certificate is forgotten with its watchers running: it is
\* installed or in the hands of replaceCerts.
NoneLeaked ==
    \A g \in Gens : cert[g] = "open" =>
        g = certs \/ (mpc = "swap" /\ g = new) \/ (mpc = "closeOld" /\ g = old)

\* The goroutine is stuck: it waits for itself to empty certUpdateCh.
Stuck == mpc = "announce" /\ upd # <<>>

\* As long as the manager runs and is not stuck, every live subscriber's
\* callback ends up having seen the current certificates, whichever
\* notifications were dropped on the way.
SubscriberFresh ==
    <>[](panic # "none" \/ closeReq \/ Stuck \/ \A s \in Subscribers : sub[s] = "open" => seen[s] = Current)

\* "Close stops the certificate manager and releases all resources": after
\* Close the certificates are cleared and the goroutine ends.
CloseReleases == closeReq ~> panic # "none" \/ (certs = 0 /\ mpc = "exit")

\* "Closing the manager will automatically unsubscribe all subscribers": the
\* function Subscribe returned can still be called, before or after.
NoDoubleClose == panic # "close"
=============================================================================
