------------------------- MODULE Certificate2Proofs -------------------------
(***************************************************************************)
(* certs.Certificate2 for any number of subscribers, versions and writes:  *)
(* the pair in use always goes together, and no channel is closed twice or *)
(* closed under a watcher that may still send on it.                       *)
(***************************************************************************)
EXTENDS Certificate2, SequenceTheorems, TLAPS

-----------------------------------------------------------------------------
(* The inductive invariant *)

\* Every channel in a list is open, and is in it once.
OpenOnce(q) ==
    /\ \A i \in 1..Len(q) : sub[q[i]] = "open"
    /\ \A i, j \in 1..Len(q) : q[i] = q[j] => i = j

\* A channel is to be closed by its unsubscribe function or by Close, and
\* never by both.
ClosedByOne ==
    /\ OpenOnce(subs) /\ OpenOnce(closing)
    /\ \A i \in 1..Len(subs), j \in 1..Len(closing) : subs[i] # closing[j]
    /\ cpc # "closeSubs" => closing = <<>>

\* Close begins when the constructor is done, so no watcher starts later, ...
ConstructedFirst == cpc # "idle" => npc \in {"ready", "failed"}

\* ... and the event channel is closed when the last one has gone.
WatchersGone ==
    /\ cpc \in {"closeCh", "take", "closeSubs", "done"} => \A f \in Files : wpc[f] \in {"off", "done"}
    /\ chClosed => cpc \in {"take", "closeSubs", "done"}

Facts ==
    /\ ClosedByOne
    /\ ConstructedFirst
    /\ WatchersGone
    /\ StoredGoes
    /\ ClosedOnce

IInv == TypeOK /\ Facts

-----------------------------------------------------------------------------
(* Lemmas *)

\* c.subscriptions = append(c.subscriptions[:i], c.subscriptions[i+1:]...): the
\* others stay, in their order.
LEMMA RemovedAt ==
    ASSUME NEW S, NEW q \in Seq(S), NEW i \in DOMAIN q
    PROVE  /\ RemoveAt(q, i) \in Seq(S)
           /\ Len(RemoveAt(q, i)) = Len(q) - 1
           /\ \A j \in 1..Len(q) - 1 : RemoveAt(q, i)[j] = IF j < i THEN q[j] ELSE q[j + 1]
<1>1. i \in 1..Len(q) /\ Len(q) \in Nat
    BY LenProperties
<1> DEFINE l == SubSeq(q, 1, i - 1)
           r == SubSeq(q, i + 1, Len(q))
<1>2. l \in Seq(S) /\ Len(l) = i - 1 /\ \A j \in 1..i - 1 : l[j] = q[j]
  <2>1. \A j \in 1..i - 1 : q[j] \in S
    BY <1>1, ElementOfSeq
  <2>2. QED
    BY <1>1, <2>1, SubSeqProperties
<1>3. r \in Seq(S) /\ Len(r) = Len(q) - i /\ \A j \in 1..Len(q) - i : r[j] = q[i + j]
  <2>1. \A j \in i + 1..Len(q) : q[j] \in S
    BY <1>1, ElementOfSeq
  <2>2. QED
    BY <1>1, <2>1, SubSeqProperties
<1> HIDE DEF l, r
<1>4. /\ l \o r \in Seq(S)
      /\ Len(l \o r) = Len(l) + Len(r)
      /\ \A j \in 1..Len(l) + Len(r) : (l \o r)[j] = IF j <= Len(l) THEN l[j] ELSE r[j - Len(l)]
    BY <1>2, <1>3, ConcatProperties, Zenon
<1>5. ASSUME NEW j \in 1..Len(q) - 1
      PROVE  (l \o r)[j] = IF j < i THEN q[j] ELSE q[j + 1]
  <2>0. j \in 1..Len(l) + Len(r) /\ j \in Int /\ i \in Int
    BY <1>1, <1>2, <1>3
  <2>1. (l \o r)[j] = IF j <= Len(l) THEN l[j] ELSE r[j - Len(l)]
    BY <1>4, <2>0, Zenon
  <2>2. CASE j < i
    <3>1. j <= Len(l) /\ j \in 1..i - 1
        BY <1>2, <2>0, <2>2
    <3>2. (l \o r)[j] = l[j] /\ l[j] = q[j]
        BY <1>2, <2>1, <3>1, Zenon
    <3>3. QED
        BY <2>2, <3>2, Zenon
  <2>3. CASE ~(j < i)
    <3>1. j - Len(l) \in 1..Len(q) - i /\ i + (j - Len(l)) = j + 1 /\ ~(j <= Len(l))
        BY <1>1, <1>2, <2>0, <2>3, SMTT(20)
    <3>2. (l \o r)[j] = r[j - Len(l)] /\ r[j - Len(l)] = q[i + (j - Len(l))]
        BY <1>3, <2>1, <3>1, Zenon
    <3>3. QED
        BY <2>3, <3>1, <3>2, Zenon
  <2>4. QED
    BY <2>2, <2>3, Zenon
<1>6. Len(l \o r) = Len(q) - 1
    BY <1>1, <1>2, <1>3, <1>4
<1>7. QED
    BY <1>4, <1>5, <1>6 DEF RemoveAt, l, r

\* A channel of capacity one is filled or emptied.
LEMMA SlotSet ==
    ASSUME NEW D, NEW f \in [D -> 0..1], NEW d
    PROVE  /\ [f EXCEPT ![d] = 0] \in [D -> 0..1]
           /\ [f EXCEPT ![d] = 1] \in [D -> 0..1]
<1>1. 0 \in 0..1 /\ 1 \in 0..1
    OBVIOUS
<1>2. QED
    BY <1>1, Zenon

-----------------------------------------------------------------------------
(* The invariant holds at first and is kept by every step *)

\* The constructor, having loaded the first pair, establishes the invariant.
LEMMA InitIInv == Init => IInv
<1> SUFFICES ASSUME Init PROVE IInv
    OBVIOUS
<1> USE MaxVersionAssumption, MaxWritesAssumption DEF Init
<1>1. TypeOK
  <2>1. file \in Pairs /\ read \in Pairs /\ stored \in Pairs /\ seen \in [Subscribers -> Pairs]
    BY DEF Pairs, Files, Versions
  <2>2. targets \in Seq(Subscribers) /\ subs \in Seq(Subscribers) /\ closing \in Seq(Subscribers)
    BY EmptySeq
  <2>3. symlink \in BOOLEAN /\ missed \in BOOLEAN /\ chClosed \in BOOLEAN /\ stopped \in BOOLEAN /\ ctxDone \in BOOLEAN
    BY Zenon
  <2>4. /\ wpc \in [Files -> {"off", "idle", "sending", "done"}] /\ buf \in [Subscribers -> 0..1]
        /\ sub \in [Subscribers -> {"none", "open", "closed"}] /\ cb \in [Subscribers -> {"idle", "run", "ran", "exit"}]
    OBVIOUS
  <2>5. QED
    BY <2>1, <2>2, <2>3, <2>4 DEF TypeOK
<1>2. Facts
    BY DEF Facts, ClosedByOne, OpenOnce, ConstructedFirst, WatchersGone, StoredGoes, ClosedOnce, Goes, Files
<1>3. QED
    BY <1>1, <1>2 DEF IInv

\* Every step keeps the types.
LEMMA NextTypeOK == TypeOK /\ [Next]_vars => TypeOK'
<1> SUFFICES ASSUME TypeOK, [Next]_vars PROVE TypeOK'
    OBVIOUS
<1> USE MaxVersionAssumption, MaxWritesAssumption
    DEF TypeOK, Pairs, Versions, fileVars, watchVars, loadVars, subVars, closeVars
<1>1. CASE Construct
  <2>1. ASSUME NEW f \in Files, WatchFile(f) PROVE TypeOK'
      BY <2>1 DEF WatchFile
  <2>2. CASE WatchFails
      BY <2>2 DEF WatchFails
  <2>3. QED
    BY <1>1, <2>1, <2>2 DEF Construct
<1>2. CASE Reload
  <2>1. CASE LRecv
      BY <2>1 DEF LRecv
  <2>2. ASSUME NEW f \in Files, LRead(f) PROVE TypeOK'
      BY <2>2 DEF LRead
  <2>3. CASE LStore
      BY <2>3 DEF LStore
  <2>4. CASE LCopy
      BY <2>4 DEF LCopy
  <2>5. CASE LSend
    <3>1. CASE targets = <<>>
        BY <2>5, <3>1 DEF LSend
    <3>2. CASE targets # <<>>
      <4>1. Tail(targets) \in Seq(Subscribers)
        BY <3>2, HeadTailProperties
      <4>2. [buf EXCEPT ![Head(targets)] = 1] \in [Subscribers -> 0..1]
        BY SlotSet
      <4>3. buf' \in [Subscribers -> 0..1] /\ panic' \in {"none", "event", "notify", "close"}
        BY <2>5, <3>2, <4>2 DEF LSend
      <4>4. targets' = Tail(targets) /\ UNCHANGED <<fileVars, watchVars, lpc, read, stored, subs, sub, cb, seen, closeVars>>
        BY <2>5, <3>2 DEF LSend
      <4>5. QED
        BY <4>1, <4>3, <4>4
    <3>3. QED
        BY <3>1, <3>2
  <2>6. QED
    BY <1>2, <2>1, <2>2, <2>3, <2>4, <2>5 DEF Reload
<1>3. CASE Closer
  <2>1. CASE CloseStop
      BY <2>1 DEF CloseStop
  <2>2. CASE CloseCancel
      BY <2>2 DEF CloseCancel
  <2>3. CASE CloseWait
      BY <2>3 DEF CloseWait
  <2>4. CASE CloseCh
      BY <2>4 DEF CloseCh
  <2>5. CASE CloseTake
      BY <2>5 DEF CloseTake
  <2>6. CASE CloseSubs
    <3>1. CASE closing = <<>>
        BY <2>6, <3>1 DEF CloseSubs
    <3>2. CASE closing # <<>>
      <4>1. Tail(closing) \in Seq(Subscribers)
        BY <3>2, HeadTailProperties
      <4>2. sub' \in [Subscribers -> {"none", "open", "closed"}]
        BY <2>6, <3>2 DEF CloseSubs
      <4>3. panic' \in {"none", "event", "notify", "close"}
        BY <2>6, <3>2 DEF CloseSubs
      <4>4. closing' = Tail(closing) /\ UNCHANGED <<fileVars, watchVars, loadVars, subs, buf, cb, seen, cpc>>
        BY <2>6, <3>2 DEF CloseSubs
      <4>5. QED
        BY <4>1, <4>2, <4>3, <4>4
    <3>3. QED
        BY <3>1, <3>2
  <2>7. QED
    BY <1>3, <2>1, <2>2, <2>3, <2>4, <2>5, <2>6 DEF Closer
<1>4. CASE Close
    BY <1>4 DEF Close
<1>5. ASSUME NEW f \in Files, Write(f) PROVE TypeOK'
    BY <1>5 DEF Write
<1>6. ASSUME NEW f \in Files, Tick(f) PROVE TypeOK'
    BY <1>6 DEF Tick
<1>7. ASSUME NEW f \in Files, TickSend(f) PROVE TypeOK'
  <2>1. CASE chClosed
    BY <1>7, <2>1 DEF TickSend
  <2>2. CASE ~chClosed
    <3>1. wpc' \in [Files -> {"off", "idle", "sending", "done"}] /\ ch' = 1
        BY <1>7, <2>2 DEF TickSend
    <3>2. QED
        BY <1>7, <2>2, <3>1 DEF TickSend
  <2>3. QED
    BY <2>1, <2>2
<1>8. ASSUME NEW f \in Files, WatcherExit(f) PROVE TypeOK'
    BY <1>8 DEF WatcherExit
<1>9. ASSUME NEW s \in Subscribers, Subscribe(s) PROVE TypeOK'
    BY <1>9 DEF Subscribe
<1>10. ASSUME NEW s \in Subscribers, Unsubscribe(s) PROVE TypeOK'
  <2>1. subs' \in Seq(Subscribers)
    BY <1>10, RemovedAt DEF Unsubscribe
  <2>2. sub' \in [Subscribers -> {"none", "open", "closed"}] /\ panic' \in {"none", "event", "notify", "close"}
    BY <1>10 DEF Unsubscribe
  <2>3. QED
    BY <1>10, <2>1, <2>2 DEF Unsubscribe
<1>11. ASSUME NEW s \in Subscribers, Callback(s) PROVE TypeOK'
  <2>1. CASE cb[s] = "idle" /\ buf[s] = 1
    <3>1. [buf EXCEPT ![s] = 0] \in [Subscribers -> 0..1]
        BY SlotSet
    <3>2. buf' \in [Subscribers -> 0..1] /\ seen' = seen
        BY <1>11, <2>1, <3>1 DEF Callback
    <3>3. cb' \in [Subscribers -> {"idle", "run", "ran", "exit"}]
        BY <1>11, <2>1 DEF Callback
    <3>4. QED
        BY <1>11, <3>2, <3>3 DEF Callback
  <2>2. CASE cb[s] = "run"
    <3>1. seen' \in [Subscribers -> Pairs] /\ buf' = buf
        BY <1>11, <2>2 DEF Callback
    <3>2. cb' \in [Subscribers -> {"idle", "run", "ran", "exit"}]
        BY <1>11, <2>2 DEF Callback
    <3>3. QED
        BY <1>11, <3>1, <3>2 DEF Callback
  <2>3. CASE cb[s] = "idle" /\ buf[s] = 0
    <3>1. buf' = buf /\ seen' = seen
        BY <1>11, <2>3 DEF Callback
    <3>2. cb' \in [Subscribers -> {"idle", "run", "ran", "exit"}]
        BY <1>11, <2>3 DEF Callback
    <3>3. QED
        BY <1>11, <3>1, <3>2 DEF Callback
  <2>4. CASE cb[s] = "ran"
    <3>1. buf' = buf /\ seen' = seen
        BY <1>11, <2>4 DEF Callback
    <3>2. cb' \in [Subscribers -> {"idle", "run", "ran", "exit"}]
        BY <1>11, <2>4 DEF Callback
    <3>3. QED
        BY <1>11, <3>1, <3>2 DEF Callback
  <2>5. QED
    BY <1>11, <2>1, <2>2, <2>3, <2>4 DEF Callback
<1>12. CASE Relink
    BY <1>12 DEF Relink
<1>13. CASE UNCHANGED vars
    BY <1>13 DEF vars
<1>14. QED
    BY <1>1, <1>2, <1>3, <1>4, <1>5, <1>6, <1>7, <1>8, <1>9, <1>10, <1>11, <1>12, <1>13 DEF Next, Live, Watcher

\* Every step keeps the other parts, with the types.
LEMMA NextFacts == IInv /\ [Next]_vars => Facts'
<1> SUFFICES ASSUME IInv, [Next]_vars PROVE Facts'
    OBVIOUS
<1> USE MaxVersionAssumption, MaxWritesAssumption
    DEF IInv, Facts, TypeOK, Pairs, Versions, ClosedByOne, OpenOnce, ConstructedFirst, WatchersGone,
        StoredGoes, ClosedOnce, fileVars, watchVars, loadVars, subVars, closeVars
<1>1. CASE Construct
  <2>1. ASSUME NEW f \in Files, WatchFile(f) PROVE Facts'
      BY <2>1 DEF WatchFile
  <2>2. CASE WatchFails
      BY <2>2 DEF WatchFails
  <2>3. QED
    BY <1>1, <2>1, <2>2 DEF Construct
<1>2. CASE Reload
  <2>1. CASE LRecv
      BY <2>1 DEF LRecv
  <2>2. ASSUME NEW f \in Files, LRead(f) PROVE Facts'
      BY <2>2 DEF LRead
  <2>3. CASE LStore
      BY <2>3 DEF LStore
  <2>4. CASE LCopy
      BY <2>4 DEF LCopy
  <2>5. CASE LSend
      BY <2>5 DEF LSend
  <2>6. QED
    BY <1>2, <2>1, <2>2, <2>3, <2>4, <2>5 DEF Reload
<1>3. CASE Closer
  <2>1. CASE CloseStop
      BY <2>1 DEF CloseStop
  <2>2. CASE CloseCancel
      BY <2>2 DEF CloseCancel
  <2>3. CASE CloseWait
      BY <2>3 DEF CloseWait
  <2>4. CASE CloseCh
      BY <2>4 DEF CloseCh
  <2>5. CASE CloseTake
      BY <2>5 DEF CloseTake
  <2>6. CASE CloseSubs
    <3>1. CASE closing = <<>>
        BY <2>6, <3>1 DEF CloseSubs
    <3>2. CASE closing # <<>>
      <4>1. /\ Len(closing) \in Nat \ {0} /\ Head(closing) = closing[1]
            /\ Len(Tail(closing)) = Len(closing) - 1
            /\ \A i \in 1..Len(closing) - 1 : Tail(closing)[i] = closing[i + 1]
        BY <3>2, EmptySeq, HeadTailProperties
      <4>2. sub' = [sub EXCEPT ![closing[1]] = "closed"] /\ closing' = Tail(closing) /\ subs' = subs /\ cpc' = cpc
        BY <2>6, <3>2, <4>1 DEF CloseSubs
      <4>3. \A i \in 1..Len(closing) - 1 : closing[i + 1] # closing[1]
        BY <4>1
      <4>4. OpenOnce(closing)'
        BY <4>1, <4>2, <4>3, ElementOfSeq
      <4>5. OpenOnce(subs)'
        BY <4>1, <4>2, ElementOfSeq
      <4>6. \A i \in 1..Len(subs'), j \in 1..Len(closing') : subs'[i] # closing'[j]
        BY <4>1, <4>2
      <4>7. panic' = panic
        BY <2>6, <3>2, <4>1 DEF CloseSubs
      <4>8. QED
        BY <2>6, <3>2, <4>2, <4>4, <4>5, <4>6, <4>7 DEF CloseSubs
    <3>3. QED
        BY <3>1, <3>2
  <2>7. QED
    BY <1>3, <2>1, <2>2, <2>3, <2>4, <2>5, <2>6 DEF Closer
<1>4. CASE Close
    BY <1>4 DEF Close
<1>5. ASSUME NEW f \in Files, Write(f) PROVE Facts'
    BY <1>5 DEF Write
<1>6. ASSUME NEW f \in Files, Tick(f) PROVE Facts'
    BY <1>6 DEF Tick
<1>7. ASSUME NEW f \in Files, TickSend(f) PROVE Facts'
  <2>1. ~chClosed
    BY <1>7 DEF TickSend
  <2>2. panic' = panic /\ cpc \in {"idle", "stop", "cancel", "wait"}
    BY <1>7, <2>1 DEF TickSend
  <2>3. QED
    BY <1>7, <2>1, <2>2 DEF TickSend
<1>8. ASSUME NEW f \in Files, WatcherExit(f) PROVE Facts'
    BY <1>8 DEF WatcherExit
<1>9. ASSUME NEW s \in Subscribers, Subscribe(s) PROVE Facts'
    BY <1>9 DEF Subscribe
<1>10. ASSUME NEW s \in Subscribers, Unsubscribe(s) PROVE Facts'
  <2>0. PICK i \in DOMAIN subs : subs[i] = s /\ subs' = RemoveAt(subs, i)
    BY <1>10 DEF Unsubscribe
  <2>1. i \in 1..Len(subs) /\ Len(subs) \in Nat /\ subs \in Seq(Subscribers)
    BY LenProperties
  <2>2. /\ Len(subs') = Len(subs) - 1
        /\ \A j \in 1..Len(subs) - 1 : subs'[j] = IF j < i THEN subs[j] ELSE subs[j + 1]
    <3>1. /\ Len(RemoveAt(subs, i)) = Len(subs) - 1
          /\ \A j \in 1..Len(subs) - 1 : RemoveAt(subs, i)[j] = IF j < i THEN subs[j] ELSE subs[j + 1]
        BY ONLY <2>1, i \in DOMAIN subs, RemovedAt, Zenon
    <3>2. QED
        BY ONLY <2>0, <3>1, Zenon
  <2>3. ASSUME NEW j \in 1..Len(subs')
        PROVE  \E k \in 1..Len(subs) : subs'[j] = subs[k] /\ k # i /\ k = IF j < i THEN j ELSE j + 1
    <3>1. j \in 1..Len(subs) - 1
        BY <2>2
    <3>2. CASE j < i
        <4>1. j \in 1..Len(subs) /\ j # i
            BY <2>1, <3>1, <3>2
        <4>2. QED
            BY <2>2, <3>1, <3>2, <4>1, Zenon
    <3>3. CASE ~(j < i)
        <4>1. j + 1 \in 1..Len(subs) /\ j + 1 # i
            BY <2>1, <3>1, <3>3
        <4>2. QED
            BY <2>2, <3>1, <3>3, <4>1, Zenon
    <3>4. QED
        BY <3>2, <3>3, Zenon
  <2>4. sub' = [sub EXCEPT ![s] = "closed"] /\ closing' = closing /\ cpc' = cpc /\ panic' = panic
    <3>1. sub[s] = "open"
        BY <2>0, <2>1
    <3>2. sub[s] # "closed"
        BY ONLY <3>1
    <3>3. QED
        BY ONLY <1>10, <3>2 DEF Unsubscribe, closeVars
  <2>5. ASSUME NEW j \in 1..Len(subs') PROVE sub'[subs'[j]] = "open"
    <3>1. PICK k \in 1..Len(subs) : subs'[j] = subs[k] /\ k # i
        BY <2>3
    <3>2. subs[k] # s /\ subs[k] \in Subscribers /\ sub[subs[k]] = "open"
        BY <2>0, <2>1, <3>1, ElementOfSeq
    <3>3. QED
        BY <2>4, <3>1, <3>2
  <2>6. ASSUME NEW j \in 1..Len(subs'), NEW k \in 1..Len(subs'), subs'[j] = subs'[k]
        PROVE  j = k
    <3>1. PICK m \in 1..Len(subs) : subs'[j] = subs[m] /\ m = IF j < i THEN j ELSE j + 1
        BY <2>3
    <3>2. PICK n \in 1..Len(subs) : subs'[k] = subs[n] /\ n = IF k < i THEN k ELSE k + 1
        BY <2>3
    <3>3. m = n
      <4>1. subs[m] = subs[n]
        BY ONLY <2>6, <3>1, <3>2, Zenon
      <4>2. \A a, b \in 1..Len(subs) : subs[a] = subs[b] => a = b
        OBVIOUS
      <4>3. QED
        BY ONLY <4>1, <4>2, m \in 1..Len(subs), n \in 1..Len(subs), Zenon
    <3>4. j \in Int /\ k \in Int /\ i \in Int
        BY <2>1, <2>2
    <3>5. QED
        BY <3>1, <3>2, <3>3, <3>4
  <2>7. OpenOnce(closing)'
    <3>1. ASSUME NEW k \in 1..Len(closing) PROVE sub'[closing[k]] = "open"
      <4>1. closing \in Seq(Subscribers) /\ sub[closing[k]] = "open" /\ subs[i] # closing[k]
        BY <2>1
      <4>2. closing[k] \in Subscribers
        BY ONLY <4>1, k \in 1..Len(closing), ElementOfSeq
      <4>3. QED
        BY <2>0, <2>4, <4>1, <4>2
    <3>2. \A j, k \in 1..Len(closing) : closing[j] = closing[k] => j = k
        OBVIOUS
    <3>3. QED
        BY ONLY <2>4, <3>1, <3>2, Zenon DEF OpenOnce
  <2>8. \A j \in 1..Len(subs'), k \in 1..Len(closing') : subs'[j] # closing'[k]
    BY <2>3, <2>4
  <2>9. QED
    BY <1>10, <2>4, <2>5, <2>6, <2>7, <2>8 DEF Unsubscribe
<1>11. ASSUME NEW s \in Subscribers, Callback(s) PROVE Facts'
    BY <1>11 DEF Callback
<1>12. CASE Relink
    BY <1>12 DEF Relink
<1>13. CASE UNCHANGED vars
    BY <1>13 DEF vars
<1>14. QED
    BY <1>1, <1>2, <1>3, <1>4, <1>5, <1>6, <1>7, <1>8, <1>9, <1>10, <1>11, <1>12, <1>13 DEF Next, Live, Watcher

\* The inductive invariant holds in every reachable state of a Certificate2.
THEOREM Inductive == Spec => []IInv
<1>1. IInv /\ [Next]_vars => IInv'
    BY NextTypeOK, NextFacts DEF IInv
<1>2. QED
    BY InitIInv, <1>1, PTL DEF Spec

-----------------------------------------------------------------------------
\* Get always returns a certificate with its own key, although a reload reads
\* the two files one after the other while they are being written.
THEOREM PairGoes == Spec => []StoredGoes
<1>1. IInv => StoredGoes
    BY DEF IInv, Facts
<1>2. QED
    BY Inductive, <1>1, PTL

\* No order of Subscribe, unsubscribe and Close closes a subscription twice, and
\* Close never closes the event channel under a watcher that may still send.
THEOREM ChannelsClosedOnce == Spec => []ClosedOnce
<1>1. IInv => ClosedOnce
    BY DEF IInv, Facts
<1>2. QED
    BY Inductive, <1>1, PTL
=============================================================================
