--------------------------- MODULE Manager2Proofs ---------------------------
(***************************************************************************)
(* certs.Manager2 for any number of loads, reloads, signals and            *)
(* subscribers: the installed certificates are open, they are those loaded *)
(* last until Close clears them, and none is left behind with its watchers *)
(* running.                                                                *)
(***************************************************************************)
EXTENDS Manager2, SequenceTheorems, TLAPS

-----------------------------------------------------------------------------
(* The inductive invariant *)

\* A generation exists once it has been loaded, and stays.
Loaded == \A g \in Gens : cert[g] = "none" <=> g > gen

\* No certificate has been reloaded more often than all together.
Counted == \A g \in Gens : ver[g] <= reloads

\* The goroutine leaves when it has cleared the certificates for Close, and
\* never selects again.
LeavesCleared ==
    /\ leaving => mpc \in {"swap", "closeOld", "hook", "announce", "defer", "exit"} /\ new = 0
    /\ mpc \in {"defer", "exit"} => leaving

\* The list that replaceCerts is about to install is empty, for Close or
\* because it was loaded so, or the one loaded last, which is open and not
\* installed.
Pending ==
    mpc = "swap" =>
        /\ new = IF leaving THEN 0 ELSE latest
        /\ new # 0 => new = gen /\ cert[new] = "open" /\ certs < new

\* Once exchanged, the new list is the installed one and the old one another.
Exchanged ==
    /\ mpc \in {"closeOld", "hook", "announce"} => certs = new
    /\ mpc = "closeOld" /\ old # 0 => old # certs /\ cert[old] = "open"

IInv ==
    /\ TypeOK
    /\ Counted
    /\ Loaded
    /\ LeavesCleared
    /\ Pending
    /\ Exchanged
    /\ InstalledOpen
    /\ ServesLatest
    /\ NoneLeaked

\* Everything but types.
Facts ==
    /\ Counted
    /\ Loaded
    /\ LeavesCleared
    /\ Pending
    /\ Exchanged
    /\ InstalledOpen
    /\ ServesLatest
    /\ NoneLeaked

-----------------------------------------------------------------------------
\* m.subscriptions = append(m.subscriptions[:i], m.subscriptions[i+1:]...)
LEMMA RemovedAt ==
    ASSUME NEW S, NEW q \in Seq(S), NEW i \in DOMAIN q
    PROVE  RemoveAt(q, i) \in Seq(S)
<1>1. i \in 1..Len(q) /\ Len(q) \in Nat
    BY LenProperties
<1>2. SubSeq(q, 1, i - 1) \in Seq(S)
  <2>1. \A j \in 1..i - 1 : q[j] \in S
    BY <1>1, ElementOfSeq
  <2>2. QED
    BY <1>1, <2>1, SubSeqProperties
<1>3. SubSeq(q, i + 1, Len(q)) \in Seq(S)
  <2>1. \A j \in i + 1..Len(q) : q[j] \in S
    BY <1>1, ElementOfSeq
  <2>2. QED
    BY <1>1, <2>1, SubSeqProperties
<1>4. QED
    BY <1>2, <1>3, ConcatProperties DEF RemoveAt

\* A channel of capacity one is filled or emptied.
LEMMA SlotSet ==
    ASSUME NEW D, NEW f \in [D -> 0..1], NEW d
    PROVE  /\ [f EXCEPT ![d] = 0] \in [D -> 0..1]
           /\ [f EXCEPT ![d] = 1] \in [D -> 0..1]
<1>1. 0 \in 0..1 /\ 1 \in 0..1
    OBVIOUS
<1>2. QED
    BY <1>1, Zenon

-----------------------------------------------------------------------------
(* The invariant holds at first and is kept by every step *)

\* NewManager2 establishes the invariant.
LEMMA InitIInv == Init => IInv
<1> SUFFICES ASSUME Init PROVE IInv
    OBVIOUS
<1> USE MaxGenAssumption, MaxReloadsAssumption, MaxSignalsAssumption DEF Init, Gens, Lists
<1>1. TypeOK
  <2>1. targets \in Seq(Subscribers) /\ subs \in Seq(Subscribers)
    BY EmptySeq
  <2>2. seen \in [Subscribers -> Lists \X (0..MaxReloads)]
    OBVIOUS
  <2>3. hooked \in [Gens -> BOOLEAN] /\ closeReq \in BOOLEAN /\ leaving \in BOOLEAN
    BY Zenon
  <2>4. QED
    BY <2>1, <2>2, <2>3 DEF TypeOK
<1>2. Counted /\ Loaded /\ LeavesCleared /\ Pending /\ Exchanged /\ InstalledOpen /\ ServesLatest /\ NoneLeaked
    BY DEF Counted, Loaded, LeavesCleared, Pending, Exchanged, InstalledOpen, ServesLatest, NoneLeaked
<1>3. QED
    BY <1>1, <1>2 DEF IInv

\* Every step keeps the types.
LEMMA NextTypeOK == TypeOK /\ Counted /\ [Next]_vars => TypeOK'
<1> SUFFICES ASSUME TypeOK, Counted, [Next]_vars PROVE TypeOK'
    OBVIOUS
<1> USE MaxGenAssumption, MaxReloadsAssumption, MaxSignalsAssumption
    DEF TypeOK, Gens, Lists, Current, envVars, certVars, mgrVars, subVars
<1>1. CASE Manager
  <2>1. CASE SelectClose
    BY <2>1 DEF SelectClose
  <2>2. CASE SelectSignalFails
    BY <2>2 DEF SelectSignalFails
  <2>3. CASE SelectSignal
    <3>1. cert' \in [Gens -> {"none", "open", "closed"}]
        BY <2>3 DEF SelectSignal
    <3>2. gen' \in Lists /\ new' \in Lists
        BY <2>3 DEF SelectSignal
    <3>3. QED
        BY <2>3, <3>1, <3>2 DEF SelectSignal
  <2>4. CASE SelectUpdate
    BY <2>4 DEF SelectUpdate
  <2>5. CASE Notify
    <3>1. CASE targets = <<>>
        BY <2>5, <3>1 DEF Notify
    <3>2. CASE targets # <<>>
      <4>1. Tail(targets) \in Seq(Subscribers)
        BY <3>2, HeadTailProperties
      <4>2. buf' \in [Subscribers -> 0..1]
        <5>1. [buf EXCEPT ![Head(targets)] = 1] \in [Subscribers -> 0..1]
            BY SlotSet
        <5>2. QED
            BY <2>5, <3>2, <5>1 DEF Notify
      <4>3. panic' \in {"none", "notify", "close"}
        BY <2>5, <3>2 DEF Notify
      <4>4. QED
        BY <2>5, <3>2, <4>1, <4>2, <4>3 DEF Notify
    <3>3. QED
        BY <3>1, <3>2
  <2>6. CASE Swap
    BY <2>6 DEF Swap
  <2>7. CASE CloseOld
    BY <2>7 DEF CloseOld
  <2>8. CASE Hook
    BY <2>8 DEF Hook
  <2>9. CASE Announce
    <3>1. upd' \in {<<>>} \cup {<<v>> : v \in Lists}
        BY <2>9 DEF Announce
    <3>2. QED
        BY <2>9, <3>1 DEF Announce
  <2>10. CASE Defer
    BY <2>10 DEF Defer
  <2>11. CASE SelectSignalEmpty
    BY <2>11 DEF SelectSignalEmpty
  <2>12. QED
    BY <1>1, <2>1, <2>2, <2>3, <2>4, <2>5, <2>6, <2>7, <2>8, <2>9, <2>10, <2>11 DEF Manager
<1>2. CASE Sighup
    BY <1>2 DEF Sighup
<1>3. CASE Close
    BY <1>3 DEF Close
<1>4. ASSUME NEW g \in Gens, CertReload(g) PROVE TypeOK'
  <2>1. ver' \in [Gens -> 0..MaxReloads]
    <3>1. ver[g] + 1 \in 0..MaxReloads
      <4>1. ver[g] \in 0..MaxReloads /\ ver[g] <= reloads /\ reloads \in 0..MaxReloads /\ reloads < MaxReloads
        BY <1>4 DEF CertReload, Counted
      <4>2. QED
        BY ONLY <4>1, MaxReloadsAssumption
    <3>2. ver' = [ver EXCEPT ![g] = ver[g] + 1]
        BY <1>4 DEF CertReload
    <3>3. QED
        BY <3>1, <3>2
  <2>2. cbuf' \in [Gens -> 0..1]
    BY <1>4 DEF CertReload
  <2>3. QED
    BY <1>4, <2>1, <2>2 DEF CertReload
<1>5. ASSUME NEW g \in Gens, Forward(g) PROVE TypeOK'
  <2>1. upd' \in {<<>>} \cup {<<v>> : v \in Lists}
    BY <1>5 DEF Forward
  <2>2. cbuf' \in [Gens -> 0..1]
    <3>1. [cbuf EXCEPT ![g] = 0] \in [Gens -> 0..1]
        BY SlotSet
    <3>2. QED
        BY <1>5, <3>1 DEF Forward
  <2>3. fwd' \in [Gens -> {"idle", "sending"}]
    <3>1. fwd' \in {[fwd EXCEPT ![g] = "sending"], [fwd EXCEPT ![g] = "idle"]}
        BY <1>5, Zenon DEF Forward
    <3>2. fwd \in [Gens -> {"idle", "sending"}]
        OBVIOUS
    <3>3. QED
        BY ONLY <3>1, <3>2, Zenon
  <2>4. QED
    BY <1>5, <2>1, <2>2, <2>3 DEF Forward
<1>6. ASSUME NEW s \in Subscribers, Subscribe(s) PROVE TypeOK'
  <2>1. subs' \in Seq(Subscribers) /\ sub' \in [Subscribers -> {"none", "open", "closed"}]
    BY <1>6 DEF Subscribe
  <2>2. Current \in Lists \X (0..MaxReloads)
    OBVIOUS
  <2>3. seen' \in [Subscribers -> Lists \X (0..MaxReloads)]
    BY <1>6, <2>2, Zenon DEF Subscribe
  <2>4. UNCHANGED <<latest, envVars, sig, certVars, upd, mgrVars, closeReq, buf, cb, panic>>
    BY <1>6 DEF Subscribe
  <2>5. QED
    BY <2>1, <2>3, <2>4
<1>7. ASSUME NEW s \in Subscribers, Unsubscribe(s) PROVE TypeOK'
  <2>1. subs' \in Seq(Subscribers)
    BY <1>7, RemovedAt DEF Unsubscribe
  <2>2. sub' \in [Subscribers -> {"none", "open", "closed"}] /\ panic' \in {"none", "notify", "close"}
    BY <1>7 DEF Unsubscribe
  <2>3. QED
    BY <1>7, <2>1, <2>2 DEF Unsubscribe
<1>8. ASSUME NEW s \in Subscribers, Callback(s) PROVE TypeOK'
  <2>1. Current \in Lists \X (0..MaxReloads)
    OBVIOUS
  <2>2. /\ seen' \in [Subscribers -> Lists \X (0..MaxReloads)]
        /\ buf' \in [Subscribers -> 0..1] /\ cb' \in [Subscribers -> {"idle", "run", "ran", "exit"}]
    <3>1. CASE cb[s] = "idle" /\ buf[s] = 1
      <4>1. buf' \in [Subscribers -> 0..1]
        <5>1. [buf EXCEPT ![s] = 0] \in [Subscribers -> 0..1]
            BY SlotSet
        <5>2. QED
            BY <1>8, <3>1, <5>1 DEF Callback
      <4>2. cb' \in [Subscribers -> {"idle", "run", "ran", "exit"}] /\ seen' = seen
        BY <1>8, <3>1 DEF Callback
      <4>3. QED
        BY <4>1, <4>2
    <3>2. CASE cb[s] = "run"
      <4>1. buf' = buf /\ seen' = [seen EXCEPT ![s] = Current]
        BY <1>8, <3>2 DEF Callback
      <4>2. cb' \in [Subscribers -> {"idle", "run", "ran", "exit"}]
        BY <1>8, <3>2 DEF Callback
      <4>3. seen' \in [Subscribers -> Lists \X (0..MaxReloads)]
        BY <2>1, <4>1, Zenon
      <4>4. QED
        BY <4>1, <4>2, <4>3
    <3>3. CASE cb[s] = "idle" /\ buf[s] = 0
      <4>1. buf' = buf /\ seen' = seen
        BY <1>8, <3>3 DEF Callback
      <4>2. cb' \in [Subscribers -> {"idle", "run", "ran", "exit"}]
        BY <1>8, <3>3 DEF Callback
      <4>3. QED
        BY <4>1, <4>2
    <3>4. CASE cb[s] = "ran"
      <4>1. buf' = buf /\ seen' = seen
        BY <1>8, <3>4 DEF Callback
      <4>2. cb' \in [Subscribers -> {"idle", "run", "ran", "exit"}]
        <5>1. cb' = [cb EXCEPT ![s] = "idle"]
            BY <1>8, <3>4 DEF Callback
        <5>2. QED
            BY <5>1
      <4>3. QED
        BY <4>1, <4>2
    <3>5. QED
        BY <1>8, <3>1, <3>2, <3>3, <3>4 DEF Callback
  <2>3. QED
    BY <1>8, <2>2 DEF Callback
<1>9. CASE UNCHANGED vars
    BY <1>9 DEF vars
<1>10. QED
    BY <1>1, <1>2, <1>3, <1>4, <1>5, <1>6, <1>7, <1>8, <1>9 DEF Next, Live

\* Every step keeps the other parts.
LEMMA NextFacts == IInv /\ [Next]_vars => Facts'
<1> SUFFICES ASSUME IInv, [Next]_vars PROVE Facts'
    OBVIOUS
<1> USE MaxGenAssumption, MaxReloadsAssumption, MaxSignalsAssumption
    DEF IInv, Facts, TypeOK, Gens, Lists, Counted, Loaded, LeavesCleared, Pending, Exchanged,
        InstalledOpen, ServesLatest, NoneLeaked, envVars, certVars, mgrVars, subVars
<1>1. CASE Manager
  <2>1. CASE SelectClose
    BY <2>1 DEF SelectClose
  <2>2. CASE SelectSignalFails
    BY <2>2 DEF SelectSignalFails
  <2>3. CASE SelectSignal
    BY <2>3 DEF SelectSignal
  <2>4. CASE SelectUpdate
    BY <2>4 DEF SelectUpdate
  <2>5. CASE Notify
    BY <2>5 DEF Notify
  <2>6. CASE Swap
    BY <2>6 DEF Swap
  <2>7. CASE CloseOld
    <3>1. CASE old = 0
        BY <2>7, <3>1 DEF CloseOld
    <3>2. CASE old # 0
      <4>1. old # certs /\ certs = new /\ cert[old] = "open"
        BY <2>7, <3>2 DEF CloseOld
      <4>2. cert' = [cert EXCEPT ![old] = "closed"]
        BY <2>7, <3>2 DEF CloseOld
      <4>3. Loaded'
        BY <2>7, <4>1, <4>2 DEF CloseOld
      <4>4. InstalledOpen' /\ NoneLeaked'
        BY <2>7, <4>1, <4>2 DEF CloseOld
      <4>5. QED
        BY <2>7, <4>3, <4>4 DEF CloseOld
    <3>3. QED
        BY <3>1, <3>2
  <2>8. CASE Hook
    BY <2>8 DEF Hook
  <2>9. CASE Announce
    BY <2>9 DEF Announce
  <2>10. CASE Defer
    BY <2>10 DEF Defer
  <2>11. CASE SelectSignalEmpty
    BY <2>11 DEF SelectSignalEmpty
  <2>12. QED
    BY <1>1, <2>1, <2>2, <2>3, <2>4, <2>5, <2>6, <2>7, <2>8, <2>9, <2>10, <2>11 DEF Manager
<1>2. CASE Sighup
    BY <1>2 DEF Sighup
<1>3. CASE Close
    BY <1>3 DEF Close
<1>4. ASSUME NEW g \in Gens, CertReload(g) PROVE Facts'
  <2>1. Counted'
    <3>1. /\ reloads' = reloads + 1 /\ reloads \in Nat
          /\ \A h \in Gens : ver'[h] = (IF h = g THEN ver[h] + 1 ELSE ver[h]) /\ ver[h] \in Nat /\ ver[h] <= reloads
      <4>1. reloads' = reloads + 1 /\ reloads \in Nat /\ ver' = [ver EXCEPT ![g] = ver[g] + 1]
        BY <1>4 DEF CertReload
      <4>2. ver \in [Gens -> 0..MaxReloads] /\ \A h \in Gens : ver[h] <= reloads
        OBVIOUS
      <4>3. QED
        BY ONLY <4>1, <4>2, MaxReloadsAssumption DEF Gens
    <3>2. QED
        BY ONLY <3>1 DEF Counted, Gens
  <2>2. UNCHANGED <<gen, cert, mgrVars, closeReq, latest>>
    BY <1>4 DEF CertReload
  <2>3. QED
    BY <2>1, <2>2
<1>5. ASSUME NEW g \in Gens, Forward(g) PROVE Facts'
    BY <1>5 DEF Forward
<1>6. ASSUME NEW s \in Subscribers, Subscribe(s) PROVE Facts'
    BY <1>6 DEF Subscribe
<1>7. ASSUME NEW s \in Subscribers, Unsubscribe(s) PROVE Facts'
    BY <1>7 DEF Unsubscribe
<1>8. ASSUME NEW s \in Subscribers, Callback(s) PROVE Facts'
    BY <1>8 DEF Callback
<1>9. CASE UNCHANGED vars
    BY <1>9 DEF vars
<1>10. QED
    BY <1>1, <1>2, <1>3, <1>4, <1>5, <1>6, <1>7, <1>8, <1>9 DEF Next, Live

\* The inductive invariant holds in every reachable state of a Manager2.
THEOREM Inductive == Spec => []IInv
<1>1. IInv /\ [Next]_vars => IInv'
    BY NextTypeOK, NextFacts DEF IInv, Facts
<1>2. QED
    BY InitIInv, <1>1, PTL DEF Spec

-----------------------------------------------------------------------------
\* Whenever a handshake looks, the certificates it finds installed are open:
\* replaceCerts closes a list only after it has put another in its place.
THEOREM ServesOpen == Spec => []InstalledOpen
<1>1. IInv => InstalledOpen
    BY DEF IInv
<1>2. QED
    BY Inductive, <1>1, PTL

\* What is installed is what loadCerts last returned without an error, the empty
\* list included, once replaceCerts has exchanged the lists; a failed load on
\* SIGHUP changes nothing, and nothing but Close clears a list that was not
\* loaded empty.
THEOREM ServesLastLoaded == Spec => []ServesLatest
<1>1. IInv => ServesLatest
    BY DEF IInv
<1>2. QED
    BY Inductive, <1>1, PTL

\* Every certificate that still runs its watchers is installed or about to be
\* installed or closed by replaceCerts: none is leaked by any order of signals,
\* reloads and Close.
THEOREM NoCertificateLeaked == Spec => []NoneLeaked
<1>1. IInv => NoneLeaked
    BY DEF IInv
<1>2. QED
    BY Inductive, <1>1, PTL
=============================================================================
