------------------------------ MODULE Manager1 ------------------------------
(***************************************************************************)
(* certs/manager.go, certs/event.go: Manager keeps one certificate for     *)
(* each pair of files added to it, and one goroutine for each addition     *)
(* that reloads the pair: on events of the directory, of which a channel   *)
(* of capacity one keeps the first, or, for symlinks, on a timer; and when *)
(* ReloadCerts asks for it.                                                *)
(***************************************************************************)
EXTENDS Naturals, FiniteSets

CONSTANTS Pairs,        \* certificate and key files, all in one directory
          DefaultCert,  \* the pair NewManager is given
          Adds,         \* calls of AddCertificate, each with its goroutine
          IPVersions,   \* versions of a certificate that have IP SANs
          MaxWrites     \* bound: times each pair is rewritten

VARIABLES file,          \* each pair on disk: its version, whole, both symlinks or neither
          certificates,  \* version the manager holds, 0 for none
          add,           \* each addition: the call, then its goroutine
          events,        \* its event: the pair whose file was written, or "none"
          reloadCerts,   \* its reload channel has a message
          done,          \* the manager's context has ended
          missed         \* history: additions with a write since their last load that left them no event

vars == <<file, certificates, add, events, reloadCerts, done, missed>>

NoAdd == [pc |-> "new", pair |-> DefaultCert, v |-> 0]

Init ==
    /\ file \in [Pairs -> {[v |-> 1, whole |-> TRUE, link |-> l] : l \in BOOLEAN}]
    /\ certificates = [p \in Pairs |-> 0]
    /\ add = [a \in Adds |-> NoAdd]
    /\ events = [a \in Adds |-> "none"]
    /\ reloadCerts = [a \in Adds |-> FALSE]
    /\ done = FALSE /\ missed = {}

Held == {p \in Pairs : certificates[p] # 0}

-----------------------------------------------------------------------------
(* NewManager, AddCertificate *)

\* The files are read without the lock; a link and a regular file are refused
\* before, as is a pair that does not fit.  The first addition is NewManager's.
AddLoad(a, p) ==
    /\ add[a].pc = "new" /\ ~done
    /\ Held = {} => p = DefaultCert /\ \A b \in Adds : add[b].pc = "new"
    /\ file[p].whole
    /\ add' = [add EXCEPT ![a] = [pc |-> "add", pair |-> p, v |-> file[p].v]]
    /\ UNCHANGED <<file, certificates, events, reloadCerts, done, missed>>

\* "only the default certificate may contain IP SANs": the first one added.
AddRefused(a) ==
    /\ add[a].pc = "add"
    /\ Held # {} /\ add[a].v \in IPVersions
    /\ add' = [add EXCEPT ![a].pc = "failed"]
    /\ UNCHANGED <<file, certificates, events, reloadCerts, done, missed>>

\* The certificate is stored first.  When a directory cannot be watched the
\* call fails: the certificate stays, without a goroutine, as it does with
\* WithDisableAutoReload.
AddStore(a, watched) ==
    /\ add[a].pc = "add"
    /\ ~(Held # {} /\ add[a].v \in IPVersions)
    /\ certificates' = [certificates EXCEPT ![add[a].pair] = add[a].v]
    /\ missed' = IF add[a].v < file[add[a].pair].v THEN missed \cup {a} ELSE missed
    /\ add' = [add EXCEPT ![a].pc = IF watched THEN "wait" ELSE "failed"]
    /\ UNCHANGED <<file, events, reloadCerts, done>>

-----------------------------------------------------------------------------
(* The files, written certificate first, and the events of their directory *)

ByEvents(a) == add[a].pc \in {"wait", "store"} /\ ~file[add[a].pair].link

\* Every goroutine that watches the directory and has no event waiting gets
\* this one.  One that has another file's event waiting never hears of it.
Event(p) ==
    /\ events' = [a \in Adds |-> IF ByEvents(a) /\ events[a] = "none" THEN p ELSE events[a]]
    /\ missed' = missed \cup {a \in Adds : ByEvents(a) /\ add[a].pair = p /\ events'[a] # p}

WriteCert(p) ==
    /\ file[p].whole /\ file[p].v <= MaxWrites
    /\ file' = [file EXCEPT ![p] = [v |-> @.v + 1, whole |-> FALSE, link |-> @.link]]
    /\ Event(p)
    /\ UNCHANGED <<certificates, add, reloadCerts, done>>

WriteKey(p) ==
    /\ ~file[p].whole
    /\ file' = [file EXCEPT ![p] = [v |-> @.v, whole |-> TRUE, link |-> @.link]]
    /\ Event(p)
    /\ UNCHANGED <<certificates, add, reloadCerts, done>>

-----------------------------------------------------------------------------
(* The goroutine of an addition *)

\* Reads the files without the lock; an error is ignored.
Load(a) ==
    LET f == file[add[a].pair]
    IN  /\ add' = IF f.whole THEN [add EXCEPT ![a] = [pc |-> "store", pair |-> @.pair, v |-> f.v]] ELSE add
        /\ missed' = missed \ {a}

\* Mutant: an event is passed over unless it is of the key and of the
\* certificate.
watchFileEventsBoth(a) ==
    /\ add[a].pc = "wait" /\ events[a] # "none"
    /\ events' = [events EXCEPT ![a] = "none"]
    /\ UNCHANGED <<file, certificates, add, reloadCerts, done, missed>>

\* An event of another file is passed over.
watchFileEvents(a) ==
    /\ add[a].pc = "wait" /\ events[a] # "none"
    /\ events' = [events EXCEPT ![a] = "none"]
    /\ IF events[a] = add[a].pair THEN Load(a) ELSE UNCHANGED <<add, missed>>
    /\ UNCHANGED <<file, certificates, reloadCerts, done>>

\* The timer of a pair of symlinks (of every pair under Kubernetes) has run out.
watchSymlinks(a) ==
    /\ add[a].pc = "wait" /\ file[add[a].pair].link
    /\ Load(a)
    /\ UNCHANGED <<file, certificates, events, reloadCerts, done>>

OnReload(a) ==
    /\ add[a].pc = "wait" /\ reloadCerts[a]
    /\ reloadCerts' = [reloadCerts EXCEPT ![a] = FALSE]
    /\ Load(a)
    /\ UNCHANGED <<file, certificates, events, done>>

\* Whatever it read and when, IP SANs or none.
Store(a) ==
    /\ add[a].pc = "store"
    /\ certificates' = [certificates EXCEPT ![add[a].pair] = add[a].v]
    /\ add' = [add EXCEPT ![a].pc = "wait"]
    /\ UNCHANGED <<file, events, reloadCerts, done, missed>>

\* ReloadCerts, by a caller or by ReloadOnSignal: one message is enough.
ReloadCerts ==
    /\ Held # {} /\ ~done
    /\ reloadCerts' = [a \in Adds |-> reloadCerts[a] \/ add[a].pc \in {"wait", "store"}]
    /\ UNCHANGED <<file, certificates, add, events, done, missed>>

Cancel ==
    /\ Held # {} /\ ~done
    /\ done' = TRUE
    /\ UNCHANGED <<file, certificates, add, events, reloadCerts, missed>>

Stop(a) ==
    /\ add[a].pc = "wait" /\ done
    /\ add' = [add EXCEPT ![a].pc = "failed"]
    /\ UNCHANGED <<file, certificates, events, reloadCerts, done, missed>>

Next ==
    \/ \E a \in Adds :
          \/ \E p \in Pairs : AddLoad(a, p)
          \/ \E watched \in BOOLEAN : AddStore(a, watched)
          \/ AddRefused(a)
          \/ watchFileEvents(a) \/ watchSymlinks(a) \/ OnReload(a) \/ Store(a) \/ Stop(a)
    \/ \E p \in Pairs : WriteCert(p) \/ WriteKey(p)
    \/ ReloadCerts \/ Cancel

Spec == Init /\ [][Next]_vars

-----------------------------------------------------------------------------
(* What a connection is served: the pairs it may get, none for an error.   *)
(* The map is ranged over in any order.                                    *)

GetCertificate(sni, supported) ==
    IF ~sni THEN {DefaultCert}
    ELSE IF Cardinality(Held) = 1 THEN Held
    ELSE IF Held \cap supported # {} THEN Held \cap supported
    ELSE {DefaultCert} \cap Held

GetClientCertificate(supported) == IF Cardinality(Held) = 1 THEN Held ELSE Held \cap supported

Served == GetClientCertificate(Pairs) \cup UNION {GetCertificate(sni, s) : sni \in BOOLEAN, s \in SUBSET Pairs}

\* No goroutine of p has anything to do, one watches its files by events, and
\* none has missed a write.
Quiet(p) ==
    LET of == {a \in Adds : add[a].pair = p /\ add[a].pc # "new"}
    IN  /\ file[p].whole /\ ~done
        /\ \E a \in of : ByEvents(a)
        /\ \A a \in of : add[a].pc \in {"wait", "failed"} /\ events[a] = "none" /\ ~reloadCerts[a] /\ a \notin missed

\* "Manager will automatically reload certificates if the corresponding file
\* changes": at rest every connection is served the newest version of whatever
\* pair it gets, and there is always one to serve without SNI.  A write is
\* missed in two ways: the pair changed between its first load and its watch,
\* or another file's event took the only place in the channel.
ServedFresh ==
    Held # {} => /\ Served \subseteq Held
                 /\ \A p \in Served : Quiet(p) => certificates[p] = file[p].v
=============================================================================
