--------------------------- MODULE ServicesProofs ---------------------------
(***************************************************************************)
(* Proofs about the smaller concurrent packages, which Services gathers    *)
(* for one run: workers, env and the first generation of certs.Manager.    *)
(***************************************************************************)
EXTENDS Services, FiniteSetTheorems, TLAPS

-----------------------------------------------------------------------------
(* workers.  For any set of jobs and any n: tokens are conserved, so at    *)
(* most N jobs work at once, and Wait is released only when every job it   *)
(* has to wait for is done.                                                *)

\* Only active jobs are owed to the waiter, and the WaitGroup counts them.
OwedAreActive == owed \subseteq Active

IInv ==
    /\ TypeOK
    /\ TokensConserved
    /\ CounterIsActive
    /\ OwedAreActive
    /\ WaitCoversOngoing

\* Cardinalities of subsets of Jobs are natural numbers.
LEMMA JobSubsets ==
    ASSUME NEW S \in SUBSET Jobs
    PROVE  IsFiniteSet(S) /\ Cardinality(S) \in Nat
BY JobsAssumption, FS_Subset, FS_CardinalityType

\* Adding a job that is not in S to S adds one to its size; removing one
\* that is takes one away.
LEMMA JobAddRemove ==
    ASSUME NEW S \in SUBSET Jobs, NEW j \in Jobs
    PROVE  /\ j \notin S => Cardinality(S \cup {j}) = Cardinality(S) + 1
           /\ j \in S => Cardinality(S \ {j}) = Cardinality(S) - 1
BY JobSubsets, FS_AddElement, FS_RemoveElement

\* A new pool has all its tokens.
LEMMA InitIInv == Init => IInv
<1> SUFFICES ASSUME Init PROVE IInv
    OBVIOUS
<1>1. TypeOK
    BY NAssumption, RoundsAssumption DEF Init, TypeOK, JobState
<1>2. Working = {} /\ Active = {}
    BY DEF Init, Working, Active
<1>3. QED
    BY <1>1, <1>2, FS_EmptySet, NAssumption
    DEF IInv, TypeOK, Init, TokensConserved, CounterIsActive, OwedAreActive, WaitCoversOngoing

\* Every step of Take, Give, Wait and the jobs keeps the count.
LEMMA NextIInv == IInv /\ [Next]_vars => IInv'
<1> SUFFICES ASSUME IInv, [Next]_vars PROVE IInv'
    OBVIOUS
<1> USE NAssumption, RoundsAssumption
<1>0. /\ Working \in SUBSET Jobs /\ Active \in SUBSET Jobs
      /\ Cardinality(Working) \in Nat /\ Cardinality(Active) \in Nat
    BY JobSubsets DEF Working, Active
<1>1. ASSUME NEW j \in Jobs, TakeAdd(j) PROVE IInv'
  <2>1. TypeOK'
    BY <1>1 DEF IInv, TypeOK, TakeAdd, JobState
  <2>2. Working' = Working /\ Active' = Active \cup {j} /\ j \notin Active
    BY <1>1 DEF IInv, TypeOK, TakeAdd, Working, Active
  <2>3. Cardinality(Active') = Cardinality(Active) + 1
    BY <1>0, <2>2, JobAddRemove
  <2>4. QED
    BY <1>0, <1>1, <2>1, <2>2, <2>3
    DEF IInv, TypeOK, TakeAdd, TokensConserved, CounterIsActive, OwedAreActive, WaitCoversOngoing
<1>2. ASSUME NEW j \in Jobs, TakeRecv(j) PROVE IInv'
  <2>1. TypeOK'
    BY <1>2 DEF IInv, TypeOK, TakeRecv, JobState
  <2>2. Working' = Working \cup {j} /\ j \notin Working /\ Active' = Active
    BY <1>2 DEF IInv, TypeOK, TakeRecv, Working, Active
  <2>3. Cardinality(Working') = Cardinality(Working) + 1
    BY <1>0, <2>2, JobAddRemove
  <2>4. QED
    BY <1>0, <1>2, <2>1, <2>2, <2>3
    DEF IInv, TypeOK, TakeRecv, TokensConserved, CounterIsActive, OwedAreActive, WaitCoversOngoing
<1>3. ASSUME NEW j \in Jobs, GiveSend(j) PROVE IInv'
  <2>1. TypeOK'
    BY <1>3 DEF IInv, TypeOK, GiveSend, JobState
  <2>2. Working' = Working \ {j} /\ j \in Working /\ Active' = Active
    BY <1>3 DEF IInv, TypeOK, GiveSend, Working, Active
  <2>3. Cardinality(Working') = Cardinality(Working) - 1
    BY <1>0, <2>2, JobAddRemove
  <2>4. QED
    BY <1>0, <1>3, <2>1, <2>2, <2>3
    DEF IInv, TypeOK, GiveSend, TokensConserved, CounterIsActive, OwedAreActive, WaitCoversOngoing
<1>4. ASSUME NEW j \in Jobs, GiveDone(j) PROVE IInv'
  <2>1. TypeOK'
    BY <1>4 DEF IInv, TypeOK, GiveDone, JobState
  <2>2. Working' = Working /\ Active' = Active \ {j} /\ j \in Active
    BY <1>4 DEF IInv, TypeOK, GiveDone, Working, Active
  <2>3. Cardinality(Active') = Cardinality(Active) - 1
    BY <1>0, <2>2, JobAddRemove
  <2>4. QED
    BY <1>0, <1>4, <2>1, <2>2, <2>3
    DEF IInv, TypeOK, GiveDone, TokensConserved, CounterIsActive, OwedAreActive, WaitCoversOngoing
<1>5. ASSUME WaitCall PROVE IInv'
  <2>1. Working' = Working /\ Active' = Active
    BY <1>5 DEF WaitCall, Working, Active
  <2>2. QED
    BY <1>0, <1>5, <2>1
    DEF IInv, TypeOK, WaitCall, TokensConserved, CounterIsActive, OwedAreActive, WaitCoversOngoing
<1>6. ASSUME WaitReturn PROVE IInv'
  <2>1. Working' = Working /\ Active' = Active
    BY <1>6 DEF WaitReturn, Working, Active
  <2>2. Active = {}
    BY <1>0, <1>6, JobSubsets, FS_EmptySet DEF IInv, CounterIsActive, WaitReturn
  <2>3. QED
    BY <1>6, <2>1, <2>2
    DEF IInv, TypeOK, WaitReturn, TokensConserved, CounterIsActive, OwedAreActive, WaitCoversOngoing
<1>7. ASSUME UNCHANGED vars PROVE IInv'
    BY <1>7 DEF vars, IInv, TypeOK, TokensConserved, CounterIsActive, OwedAreActive,
                WaitCoversOngoing, Working, Active
<1>8. QED
    BY <1>1, <1>2, <1>3, <1>4, <1>5, <1>6, <1>7 DEF Next, Finished

\* The inductive invariant holds in every reachable state, whatever the
\* number of jobs, tokens and rounds.
THEOREM Inductive == Spec => []IInv
<1>1. QED
    BY InitIInv, NextIInv, PTL DEF Spec

\* Type correctness of the model of workers.Workers.
THEOREM TypeCorrect == Spec => []TypeOK
<1>1. IInv => TypeOK
    BY DEF IInv
<1>2. QED
    BY <1>1, Inductive, PTL

\* New(n) "allows up to n jobs to proceed concurrently", for every n and
\* every set of goroutines.
THEOREM Limit == Spec => []AtMostN
<1>1. IInv => AtMostN
  <2>1. ASSUME IInv PROVE Cardinality(Working) \in Nat
    BY JobSubsets DEF Working
  <2>2. QED
    BY <2>1, NAssumption DEF IInv, TypeOK, TokensConserved, AtMostN
<1>2. QED
    BY <1>1, Inductive, PTL

\* Wait "waits for all ongoing concurrent jobs to complete".
THEOREM WaitSound == Spec => []WaitCoversOngoing
<1>1. IInv => WaitCoversOngoing
    BY DEF IInv
<1>2. QED
    BY <1>1, Inductive, PTL

-----------------------------------------------------------------------------
(* env.  For any number of goroutines, versions and restarts: what is      *)
(* cached and what a lookup holds is no older than what was returned       *)
(* before.                                                                 *)

ETypeOK ==
    /\ kind \in {"unset", "local", "remote"}
    /\ version \in Nat \ {0}
    /\ cached \in Int
    /\ call \in [Lookers -> [pc : {"done", "lookup", "fetch", "cache", "fallback"}, v : Int, floor : Nat]]
    /\ returned \in Nat
    /\ raced \in BOOLEAN

\* Only a remote variable is fetched and cached, and only its value changes.
OnlyRemote ==
    kind # "remote" =>
        /\ version = 1 /\ cached <= 0
        /\ \A c \in Lookers : call[c].pc \in {"done", "lookup"}

\* Nothing is newer than the server, no lookup began after what is to come.
NothingNewer ==
    /\ returned <= version /\ cached <= version
    /\ \A c \in Lookers : call[c].floor <= returned /\ (call[c].pc = "cache" => call[c].v <= version)

\* Without a race the cache is as new as anything returned, and what a lookup
\* has fetched is as new as what had been returned when it began.
NotBehind ==
    /\ cached > 0 => cached >= returned \/ raced
    /\ \A c \in Lookers : call[c].pc = "cache" /\ call[c].v > 0 => call[c].v >= call[c].floor

EInv == ETypeOK /\ OnlyRemote /\ NothingNewer /\ NotBehind /\ E!NeverOlder

\* Before the first lookup nothing is cached.
LEMMA EnvInit == E!Init => EInv
<1> SUFFICES ASSUME E!Init PROVE EInv
    OBVIOUS
<1>1. call = [c \in Lookers |-> [pc |-> "done", v |-> -3, floor |-> 0]] /\ cached = -1
    BY DEF E!Init, E!NoCall, E!Default, E!Unset
<1>2. raced = FALSE /\ returned = 0 /\ version = 1 /\ kind \in {"unset", "local", "remote"}
    BY DEF E!Init
<1>3. ETypeOK
  <2>1. [pc |-> "done", v |-> -3, floor |-> 0]
            \in [pc : {"done", "lookup", "fetch", "cache", "fallback"}, v : Int, floor : Nat]
    OBVIOUS
  <2>2. raced \in BOOLEAN
    BY <1>2, Zenon
  <2>3. QED
    BY <1>1, <1>2, <2>1, <2>2 DEF ETypeOK
<1>4. OnlyRemote /\ NothingNewer /\ NotBehind /\ E!NeverOlder
    BY <1>1, <1>2 DEF OnlyRemote, NothingNewer, NotBehind, E!NeverOlder
<1>5. QED
    BY <1>3, <1>4 DEF EInv

\* Get returns a value that is no older than what had been returned when it
\* began, and no newer than what is cached, unless it is not cached at all.
LEMMA EnvReturn ==
    ASSUME EInv, NEW c \in Lookers, NEW v \in Int, E!Return(c, v),
           v <= version, v > 0 => v >= call[c].floor \/ raced',
           kind' = kind, version' = version, cached' \in Int, cached' <= version, raced' \in BOOLEAN,
           raced => raced',
           kind # "remote" => cached' <= 0,
           cached' > 0 => raced' \/ (cached' >= returned /\ cached' >= v)
    PROVE  EInv'
<1> DEFINE w == IF v \in {0, -1} THEN -3 ELSE v
<1>1. call' = [call EXCEPT ![c] = [pc |-> "done", v |-> w, floor |-> call[c].floor]]
    BY DEF E!Return, E!Empty, E!Unset, E!Default
<1>2. returned' \in Nat /\ returned' >= returned /\ returned' <= version /\ returned' \in {v, returned}
    BY DEF E!Return, EInv, ETypeOK, NothingNewer
<1>3. w \in Int /\ (w > 0 => w = v)
    OBVIOUS
<1> HIDE DEF w
<1>4. ETypeOK'
    BY <1>1, <1>2, <1>3 DEF EInv, ETypeOK
<1>5. \A d \in Lookers : call'[d].floor = call[d].floor /\ (d # c => call'[d] = call[d])
    BY <1>1 DEF EInv, ETypeOK
<1>6. call'[c].pc = "done" /\ call'[c].v = w
    BY <1>1 DEF EInv, ETypeOK
<1>7. OnlyRemote'
    BY <1>5, <1>6 DEF EInv, OnlyRemote
<1>8. NothingNewer'
    BY <1>2, <1>5, <1>6 DEF EInv, ETypeOK, NothingNewer
<1>9. NotBehind'
    BY <1>2, <1>5, <1>6 DEF EInv, ETypeOK, NotBehind
<1>10. ASSUME NEW d \in Lookers, call'[d].pc = "done", call'[d].v > 0
       PROVE  call'[d].v >= call'[d].floor \/ raced'
  <2>1. CASE d = c
    BY <1>3, <1>5, <1>6, <1>10, <2>1
  <2>2. CASE d # c
    BY <1>5, <1>10, <2>2 DEF EInv, E!NeverOlder
  <2>3. QED
    BY <2>1, <2>2
<1>11. QED
    BY <1>4, <1>7, <1>8, <1>9, <1>10 DEF EInv, E!NeverOlder

\* Every step of a lookup, also a failed one, and a restart keep the invariant.
LEMMA EnvNext == EInv /\ [E!Next]_E!vars => EInv'
<1> SUFFICES ASSUME EInv, [E!Next]_E!vars PROVE EInv'
    OBVIOUS
<1> USE DEF EInv, ETypeOK, OnlyRemote, NothingNewer, NotBehind, E!NeverOlder, E!Default, E!Unset, E!Empty, E!Page
<1>1. ASSUME NEW c \in Lookers, E!Get(c) PROVE EInv'
    BY <1>1 DEF E!Get
<1>2. ASSUME NEW c \in Lookers, E!LookupEnv(c) PROVE EInv'
  <2>1. kind' = kind /\ version' = version /\ cached' = cached /\ raced' = raced /\ call[c].pc = "lookup"
    BY <1>2 DEF E!LookupEnv
  <2>2. CASE kind = "unset"
    <3>1. E!Return(c, -1)
        BY <1>2, <2>2 DEF E!LookupEnv
    <3>2. QED
        BY <2>1, <3>1, EnvReturn
  <2>3. CASE kind = "local"
    <3>1. E!Return(c, 1)
        BY <1>2, <2>3 DEF E!LookupEnv
    <3>2. version = 1 /\ call[c].floor <= 1 /\ cached <= 0
        BY <2>3
    <3>3. QED
        BY <2>1, <2>3, <3>1, <3>2, EnvReturn
  <2>4. CASE kind = "remote"
    <3>1. call' = [call EXCEPT ![c].pc = "fetch"] /\ returned' = returned
        BY <1>2, <2>4 DEF E!LookupEnv
    <3>2. QED
        BY <2>1, <2>4, <3>1
  <2>5. QED
    BY <2>2, <2>3, <2>4
<1>3. ASSUME NEW c \in Lookers, E!getEnvValueFromHTTP(c) PROVE EInv'
  <2>2. PICK body \in {version, 0, -2} :
            call' = [call EXCEPT ![c] = [pc |-> "cache", v |-> body, floor |-> call[c].floor]]
    BY <1>3 DEF E!getEnvValueFromHTTP
  <2>3. /\ kind' = kind /\ version' = version /\ cached' = cached /\ raced' = raced /\ returned' = returned
        /\ call[c].pc = "fetch"
    BY <1>3 DEF E!getEnvValueFromHTTP
  <2>4. body \in Int /\ body <= version /\ (body > 0 => body = version)
    OBVIOUS
  <2>5. ETypeOK'
    BY <2>2, <2>3, <2>4
  <2>6. QED
    BY <2>2, <2>3, <2>4, <2>5
<1>4. ASSUME NEW c \in Lookers, E!FetchFails(c) PROVE EInv'
    BY <1>4 DEF E!FetchFails
<1>5. ASSUME NEW c \in Lookers, E!Cache(c) PROVE EInv'
  <2> DEFINE v == call[c].v
  <2>1. /\ call[c].pc = "cache" /\ cached' = v /\ E!Return(c, v)
        /\ raced' = (raced \/ (v > 0 /\ v < returned))
        /\ kind' = kind /\ version' = version
    BY <1>5 DEF E!Cache
  <2>2. v \in Int /\ v <= version /\ (v > 0 => v >= call[c].floor) /\ kind = "remote"
    BY <2>1
  <2>3. raced' \in BOOLEAN /\ (raced => raced')
    BY <2>1, Zenon
  <2>4. v > 0 => raced' \/ v >= returned
    <3>1. CASE v < returned
        BY <2>1, <3>1, Zenon
    <3>2. CASE v >= returned
        BY <3>2, Zenon
    <3>3. QED
        BY <2>2, <3>1, <3>2
  <2> HIDE DEF v
  <2>5. QED
    BY <2>1, <2>2, <2>3, <2>4, EnvReturn
<1>6. ASSUME NEW c \in Lookers, E!Fallback(c) PROVE EInv'
  <2>1. /\ call[c].pc = "fallback" /\ E!Return(c, cached)
        /\ kind' = kind /\ version' = version /\ cached' = cached /\ raced' = raced
    BY <1>6 DEF E!Fallback
  <2>2. cached > 0 => cached >= call[c].floor \/ raced
    OBVIOUS
  <2>3. QED
    BY <2>1, <2>2, EnvReturn
<1>7. CASE E!SetEnvOff \/ E!SetEnvOn
    BY <1>7 DEF E!SetEnvOff, E!SetEnvOn
<1>8. CASE E!Change
    BY <1>8 DEF E!Change
<1>9. CASE E!Restart
    BY <1>9 DEF E!Restart, E!NoCall
<1>10. CASE UNCHANGED E!vars
    BY <1>10 DEF E!vars
<1>11. QED
    BY <1>1, <1>2, <1>3, <1>4, <1>5, <1>6, <1>7, <1>8, <1>9, <1>10 DEF E!Next

\* A lookup never goes back behind what had been returned before it began,
\* whether the server can be reached or not and over restarts, unless the
\* older of two overlapping answers was cached last.
THEOREM LookupsNeverOlder == E!Spec => []NeverOlder
<1>1. EInv => NeverOlder
    BY DEF EInv, NeverOlder
<1>2. QED
    BY <1>1, EnvInit, EnvNext, PTL DEF E!Spec

-----------------------------------------------------------------------------
(* certs.Manager.  For any pairs, additions and writes: who is to serve    *)
(* what is not the newest still has something to do about it.              *)

Stages == {"new", "add", "wait", "store", "failed"}

MTypeOK ==
    /\ file \in [Pairs -> [v : Nat \ {0}, whole : BOOLEAN, link : BOOLEAN]]
    /\ certificates \in [Pairs -> Nat]
    /\ add \in [Adds -> [pc : Stages, pair : Pairs, v : Nat]]
    /\ events \in [Adds -> Pairs \cup {"none"}]
    /\ missed \subseteq Adds

\* An addition that has read its pair has a version of it.
Loaded == \A a \in Adds : add[a].pc # "new" => add[a].v \in 1..file[add[a].pair].v

\* The pair of NewManager is stored before any other is read.
DefaultFirst ==
    /\ M!Held # {} => DefaultCert \in M!Held
    /\ M!Held = {} => \A a \in Adds : add[a].pc = "new" \/ (add[a].pc = "add" /\ add[a].pair = DefaultCert)

\* A goroutine that watches its pair by events, and has neither an event of it
\* nor missed one, has read what the files hold.
SeesNewest ==
    \A a \in Adds :
        M!ByEvents(a) /\ a \notin missed /\ events[a] # add[a].pair /\ file[add[a].pair].whole
            => add[a].v = file[add[a].pair].v

\* Something about its pair is still to be stored, or an event of it is
\* waiting, or one was missed.
Dirty(a) ==
    /\ add[a].pc # "new"
    /\ \/ add[a].pc = "store"
       \/ M!ByEvents(a) /\ events[a] = add[a].pair
       \/ a \in missed

\* A certificate that is not the newest is known to be so, as long as somebody
\* watches its files.
StaleIsDirty ==
    \A p \in Pairs :
        file[p].whole /\ ~done /\ (\E a \in Adds : add[a].pair = p /\ M!ByEvents(a))
            => certificates[p] = file[p].v \/ \E a \in Adds : add[a].pair = p /\ Dirty(a)

MInv == MTypeOK /\ Loaded /\ DefaultFirst /\ SeesNewest /\ StaleIsDirty

\* Before the first addition nothing is held.
LEMMA ManagerInit ==
    ASSUME DefaultCert \in Pairs, M!Init PROVE MInv
<1>1. \A a \in Adds : add[a] = [pc |-> "new", pair |-> DefaultCert, v |-> 0]
    BY DEF M!Init, M!NoAdd
<1>2. \A a \in Adds : add[a].pc = "new"
    BY <1>1
<1>3. MTypeOK
  <2>1. \A l \in BOOLEAN : [v |-> 1, whole |-> TRUE, link |-> l] \in [v : Nat \ {0}, whole : BOOLEAN, link : BOOLEAN]
    OBVIOUS
  <2>2. file \in [Pairs -> [v : Nat \ {0}, whole : BOOLEAN, link : BOOLEAN]]
    <3>1. file \in [Pairs -> {[v |-> 1, whole |-> TRUE, link |-> l] : l \in BOOLEAN}]
        BY DEF M!Init
    <3>2. {[v |-> 1, whole |-> TRUE, link |-> l] : l \in BOOLEAN} \subseteq [v : Nat \ {0}, whole : BOOLEAN, link : BOOLEAN]
        BY <2>1, Zenon
    <3>3. QED
        BY <3>1, <3>2, Zenon
  <2>3. QED
    BY <2>2 DEF MTypeOK, M!Init, M!NoAdd, Stages
<1>4. Loaded /\ DefaultFirst
    BY <1>2 DEF Loaded, DefaultFirst, M!Held, M!Init
<1>5. SeesNewest /\ StaleIsDirty
    BY <1>2 DEF SeesNewest, StaleIsDirty, M!ByEvents
<1>6. QED
    BY <1>3, <1>4, <1>5 DEF MInv

\* The goroutine of an addition reads its pair: it has something to store, or
\* the key is still to be written.
LEMMA ManagerLoad ==
    ASSUME MInv, NEW a \in Adds, add[a].pc = "wait", M!Load(a), file' = file, certificates' = certificates,
           done' = done, events' \in [Adds -> Pairs \cup {"none"}], \A b \in Adds \ {a} : events'[b] = events[b]
    PROVE  MInv'
<1> DEFINE p == add[a].pair
           r == [pc |-> "store", pair |-> p, v |-> file[p].v]
<1>1. /\ add' = IF file[p].whole THEN [add EXCEPT ![a] = r] ELSE add
      /\ missed' = missed \ {a}
    BY DEF M!Load
<1>2. p \in Pairs /\ r \in [pc : Stages, pair : Pairs, v : Nat] /\ file[p].v \in Nat \ {0}
    BY DEF MInv, MTypeOK, Stages
<1>3. /\ \A b \in Adds \ {a} : add'[b] = add[b] /\ (b \in missed' <=> b \in missed)
      /\ add'[a].pair = p /\ add'[a].pc # "new"
      /\ add \in [Adds -> [pc : Stages, pair : Pairs, v : Nat]]
    BY <1>1 DEF MInv, MTypeOK
<1>4. M!Held' = M!Held /\ M!Held # {}
    BY DEF M!Held, MInv, DefaultFirst
<1> HIDE DEF p
<1>5. MTypeOK'
    BY <1>1, <1>2 DEF MInv, MTypeOK
<1>6. Loaded'
  <2>1. CASE file[p].whole
    BY <1>1, <1>2, <1>3, <2>1 DEF MInv, Loaded
  <2>2. CASE ~file[p].whole
    BY <1>1, <2>2 DEF MInv, Loaded
  <2>3. QED
    BY <2>1, <2>2
<1>7. DefaultFirst'
    BY <1>4 DEF MInv, DefaultFirst
<1>8. ASSUME NEW b \in Adds, b # a PROVE (M!ByEvents(b)' <=> M!ByEvents(b)) /\ (Dirty(b)' <=> Dirty(b))
    BY <1>3, <1>8 DEF M!ByEvents, Dirty
<1>9. SeesNewest'
  <2> SUFFICES ASSUME NEW b \in Adds, M!ByEvents(b)', b \notin missed', events'[b] # add'[b].pair, file'[add'[b].pair].whole
               PROVE  add'[b].v = file'[add'[b].pair].v
    BY DEF SeesNewest
  <2>1. CASE b = a
    BY <1>1, <1>2, <1>3, <2>1
  <2>2. CASE b # a
    BY <1>3, <1>8, <2>2 DEF MInv, SeesNewest
  <2>3. QED
    BY <2>1, <2>2
<1>10. StaleIsDirty'
  <2> SUFFICES ASSUME NEW q \in Pairs, file'[q].whole, ~done', NEW b \in Adds, add'[b].pair = q, M!ByEvents(b)'
               PROVE  certificates'[q] = file'[q].v \/ \E c \in Adds : add'[c].pair = q /\ Dirty(c)'
    BY DEF StaleIsDirty
  <2>1. CASE q = p
    <3>1. add'[a].pc = "store"
        BY <1>1, <1>3, <2>1
    <3>2. QED
        BY <1>3, <2>1, <3>1 DEF Dirty
  <2>2. CASE q # p
    <3>1. b # a
        BY <1>3, <2>2
    <3>2. certificates[q] = file[q].v \/ \E c \in Adds : add[c].pair = q /\ Dirty(c)
        BY <1>3, <1>8, <3>1 DEF MInv, StaleIsDirty
    <3>3. \A c \in Adds : add[c].pair = q => c # a
        BY <2>2 DEF p
    <3>4. QED
        BY <1>3, <1>8, <3>2, <3>3
  <2>3. QED
    BY <2>1, <2>2
<1>11. QED
    BY <1>5, <1>6, <1>7, <1>9, <1>10 DEF MInv

\* An addition moves to another stage and may store what it has read: it has
\* the newest version, or an event of its pair is waiting, or it has missed one.
LEMMA ManagerStore ==
    ASSUME MInv, NEW a \in Adds, NEW to \in {"wait", "failed"}, add[a].pc \in {"add", "store"},
           add' = [add EXCEPT ![a].pc = to], file' = file, events' = events, done' = done,
           certificates' = [certificates EXCEPT ![add[a].pair] = add[a].v],
           missed' = missed \/ missed' = missed \cup {a},
           DefaultCert \in Pairs,
           add[a].v = file[add[a].pair].v \/ a \in missed'
               \/ (add[a].pc = "store" /\ to = "wait"
                     /\ (file[add[a].pair].link \/ events[a] = add[a].pair \/ ~file[add[a].pair].whole))
    PROVE  MInv'
<1> DEFINE p == add[a].pair
<1>1. p \in Pairs /\ add[a].v \in 1..file[p].v /\ file[p].v \in Nat
    BY DEF MInv, MTypeOK, Loaded
<1>2. /\ \A b \in Adds \ {a} : add'[b] = add[b] /\ (b \in missed' <=> b \in missed)
      /\ add'[a].pair = p /\ add'[a].pc = to /\ add'[a].v = add[a].v
      /\ \A b \in Adds : add'[b].pair = add[b].pair /\ add'[b].v = add[b].v
    BY DEF MInv, MTypeOK
<1>3. certificates'[p] = add[a].v /\ \A q \in Pairs : q # p => certificates'[q] = certificates[q]
    BY <1>1 DEF MInv, MTypeOK
<1>4. MTypeOK'
    BY <1>1 DEF MInv, MTypeOK, Stages
<1>5. Loaded'
    BY <1>2 DEF MInv, Loaded
<1> HIDE DEF p
<1>6. DefaultFirst'
  <2>1. M!Held' = M!Held \cup {p}
    BY <1>1, <1>3 DEF M!Held
  <2>2. CASE M!Held = {}
    BY <2>1, <2>2 DEF MInv, DefaultFirst, p
  <2>3. CASE M!Held # {}
    BY <2>1, <2>3 DEF MInv, DefaultFirst
  <2>4. QED
    BY <2>2, <2>3
<1>7. ASSUME NEW b \in Adds, b # a PROVE (M!ByEvents(b)' <=> M!ByEvents(b)) /\ (Dirty(b)' <=> Dirty(b))
    BY <1>2, <1>7 DEF M!ByEvents, Dirty
<1>8. SeesNewest'
  <2> SUFFICES ASSUME NEW b \in Adds, M!ByEvents(b)', b \notin missed', events'[b] # add'[b].pair, file'[add'[b].pair].whole
               PROVE  add'[b].v = file'[add'[b].pair].v
    BY DEF SeesNewest
  <2>1. CASE b = a
    BY <1>2, <2>1 DEF M!ByEvents
  <2>2. CASE b # a
    BY <1>2, <1>7, <2>2 DEF MInv, SeesNewest
  <2>3. QED
    BY <2>1, <2>2
<1>9. StaleIsDirty'
  <2> SUFFICES ASSUME NEW q \in Pairs, file'[q].whole, ~done', NEW b \in Adds, add'[b].pair = q, M!ByEvents(b)'
               PROVE  certificates'[q] = file'[q].v \/ \E c \in Adds : add'[c].pair = q /\ Dirty(c)'
    BY DEF StaleIsDirty
  <2>1. CASE q = p
    <3>1. CASE add[a].v = file[p].v
        BY <1>3, <2>1, <3>1
    <3>2. CASE a \in missed'
        BY <1>2, <2>1, <3>2 DEF Dirty
    <3>3. CASE events[a] = p /\ to = "wait"
        BY <1>2, <2>1, <3>3 DEF Dirty, M!ByEvents
    <3>4. CASE file[p].link \/ ~file[p].whole
        BY <1>2, <2>1, <3>4 DEF M!ByEvents
    <3>5. QED
        BY <3>1, <3>2, <3>3, <3>4 DEF p
  <2>2. CASE q # p
    <3>1. b # a
        BY <1>2, <2>2
    <3>2. certificates[q] = file[q].v \/ \E c \in Adds : add[c].pair = q /\ Dirty(c)
        BY <1>2, <1>7, <3>1 DEF MInv, StaleIsDirty
    <3>3. \A c \in Adds : add[c].pair = q => c # a
        BY <2>2 DEF p
    <3>4. QED
        BY <1>2, <1>3, <1>7, <2>2, <3>2, <3>3
  <2>3. QED
    BY <2>1, <2>2
<1>10. QED
    BY <1>4, <1>5, <1>6, <1>8, <1>9 DEF MInv

\* Every step of additions, watchers and writers keeps the invariant.
LEMMA ManagerNext ==
    ASSUME DefaultCert \in Pairs, "none" \notin Pairs, MInv, [M!Next]_M!vars PROVE MInv'
<1>1. ASSUME NEW a \in Adds, NEW p \in Pairs, M!AddLoad(a, p) PROVE MInv'
  <2> DEFINE r == [pc |-> "add", pair |-> p, v |-> file[p].v]
  <2>1. /\ add[a].pc = "new" /\ add' = [add EXCEPT ![a] = r] /\ (M!Held = {} => p = DefaultCert)
        /\ file' = file /\ certificates' = certificates /\ events' = events /\ done' = done /\ missed' = missed
    BY <1>1 DEF M!AddLoad
  <2>2. r \in [pc : Stages, pair : Pairs, v : Nat] /\ file[p].v \in Nat \ {0}
    BY DEF MInv, MTypeOK, Stages
  <2>3. MTypeOK'
    BY <2>1, <2>2 DEF MInv, MTypeOK
  <2>4. (\A b \in Adds \ {a} : add'[b] = add[b]) /\ add'[a] = r
    BY <2>1 DEF MInv, MTypeOK
  <2>5. Loaded'
    BY <2>1, <2>2, <2>4 DEF MInv, Loaded
  <2>6. DefaultFirst'
    <3>1. M!Held' = M!Held
        BY <2>1 DEF M!Held
    <3>2. QED
        BY <2>1, <2>4, <3>1 DEF MInv, DefaultFirst
  <2>7. ~M!ByEvents(a) /\ ~M!ByEvents(a)' /\ ~Dirty(a)
    BY <2>1, <2>4 DEF M!ByEvents, Dirty
  <2>8. ASSUME NEW b \in Adds, b # a PROVE (M!ByEvents(b)' <=> M!ByEvents(b)) /\ (Dirty(b)' <=> Dirty(b))
    BY <2>1, <2>4, <2>8 DEF M!ByEvents, Dirty
  <2>9. SeesNewest'
    BY <2>1, <2>4, <2>7, <2>8 DEF MInv, SeesNewest
  <2>10. StaleIsDirty'
    <3> SUFFICES ASSUME NEW q \in Pairs, file'[q].whole, ~done', NEW b \in Adds, add'[b].pair = q, M!ByEvents(b)'
                 PROVE  certificates'[q] = file'[q].v \/ \E c \in Adds : add'[c].pair = q /\ Dirty(c)'
        BY DEF StaleIsDirty
    <3>1. b # a /\ add[b].pair = q /\ M!ByEvents(b)
        BY <2>4, <2>7, <2>8
    <3>2. certificates[q] = file[q].v \/ \E c \in Adds : add[c].pair = q /\ Dirty(c)
        BY <2>1, <3>1 DEF MInv, StaleIsDirty
    <3>3. QED
        BY <2>1, <2>4, <2>7, <2>8, <3>2
  <2>11. QED
    BY <2>3, <2>5, <2>6, <2>9, <2>10 DEF MInv
<1>2. ASSUME NEW a \in Adds, NEW watched \in BOOLEAN, M!AddStore(a, watched) PROVE MInv'
  <2>1. PICK to \in {"wait", "failed"} : add' = [add EXCEPT ![a].pc = to]
    BY <1>2 DEF M!AddStore
  <2>2. /\ add[a].pc = "add" /\ file' = file /\ events' = events /\ done' = done
        /\ certificates' = [certificates EXCEPT ![add[a].pair] = add[a].v]
        /\ missed' = IF add[a].v < file[add[a].pair].v THEN missed \cup {a} ELSE missed
    BY <1>2 DEF M!AddStore
  <2>3. add[a].v \in 1..file[add[a].pair].v /\ file[add[a].pair].v \in Nat
    BY <2>2 DEF MInv, MTypeOK, Loaded
  <2>4. add[a].v = file[add[a].pair].v \/ a \in missed'
    BY <2>2, <2>3
  <2>5. missed' = missed \/ missed' = missed \cup {a}
    BY <2>2
  <2>6. QED
    BY <2>1, <2>2, <2>4, <2>5, ManagerStore
<1>3. ASSUME NEW a \in Adds, M!AddRefused(a) \/ M!Stop(a) PROVE MInv'
  <2>1. /\ add[a].pc \in {"add", "wait"} /\ add' = [add EXCEPT ![a].pc = "failed"] /\ M!Held # {}
        /\ add[a].pc = "wait" => done
        /\ file' = file /\ certificates' = certificates /\ events' = events /\ done' = done /\ missed' = missed
    BY <1>3 DEF M!AddRefused, M!Stop, MInv, DefaultFirst
  <2>2. /\ \A b \in Adds \ {a} : add'[b] = add[b]
        /\ add'[a].pc = "failed" /\ \A b \in Adds : add'[b].pair = add[b].pair /\ add'[b].v = add[b].v
    BY <2>1 DEF MInv, MTypeOK
  <2>3. MTypeOK' /\ Loaded'
    BY <2>1, <2>2 DEF MInv, MTypeOK, Stages, Loaded
  <2>4. M!Held' = M!Held
    BY <2>1 DEF M!Held
  <2>5. ~M!ByEvents(a)'
    BY <2>2 DEF M!ByEvents
  <2>6. ASSUME NEW b \in Adds, b # a PROVE (M!ByEvents(b)' <=> M!ByEvents(b)) /\ (Dirty(b)' <=> Dirty(b))
    BY <2>1, <2>2, <2>6 DEF M!ByEvents, Dirty
  <2>7. DefaultFirst' /\ SeesNewest'
    BY <2>1, <2>2, <2>4, <2>5, <2>6 DEF MInv, DefaultFirst, SeesNewest
  <2>8. StaleIsDirty'
    <3> SUFFICES ASSUME NEW q \in Pairs, file'[q].whole, ~done', NEW b \in Adds, add'[b].pair = q, M!ByEvents(b)'
                 PROVE  certificates'[q] = file'[q].v \/ \E c \in Adds : add'[c].pair = q /\ Dirty(c)'
        BY DEF StaleIsDirty
    <3>1. b # a /\ add[b].pair = q /\ M!ByEvents(b) /\ add[a].pc = "add"
        BY <2>1, <2>2, <2>5, <2>6
    <3>2. certificates[q] = file[q].v \/ \E c \in Adds : add[c].pair = q /\ Dirty(c)
        BY <2>1, <3>1 DEF MInv, StaleIsDirty
    <3>3. Dirty(a) => Dirty(a)'
        BY <2>1, <2>2, <3>1 DEF Dirty, M!ByEvents
    <3>4. QED
        BY <2>1, <2>2, <2>6, <3>2, <3>3
  <2>9. QED
    BY <2>3, <2>7, <2>8 DEF MInv
<1>4. ASSUME NEW a \in Adds, M!watchFileEvents(a) PROVE MInv'
  <2>1. /\ add[a].pc = "wait" /\ events' = [events EXCEPT ![a] = "none"]
        /\ file' = file /\ certificates' = certificates /\ done' = done
    BY <1>4 DEF M!watchFileEvents
  <2>2. events' \in [Adds -> Pairs \cup {"none"}] /\ \A b \in Adds \ {a} : events'[b] = events[b]
    BY <2>1 DEF MInv, MTypeOK
  <2>3. CASE events[a] = add[a].pair
    <3>1. M!Load(a)
        BY <1>4, <2>3 DEF M!watchFileEvents
    <3>2. QED
        BY <2>1, <2>2, <3>1, ManagerLoad
  <2>4. CASE events[a] # add[a].pair
    <3>1. add' = add /\ missed' = missed
        BY <1>4, <2>4 DEF M!watchFileEvents
    <3>2. \A b \in Adds : events'[b] = add[b].pair <=> events[b] = add[b].pair
        BY <2>1, <2>2, <2>4 DEF MInv, MTypeOK
    <3>3. \A b \in Adds : (M!ByEvents(b)' <=> M!ByEvents(b)) /\ (Dirty(b)' <=> Dirty(b))
        BY <2>1, <3>1, <3>2 DEF M!ByEvents, Dirty
    <3>4. MTypeOK' /\ Loaded' /\ DefaultFirst'
        BY <2>1, <2>2, <3>1 DEF MInv, MTypeOK, Loaded, DefaultFirst, M!Held
    <3>5. SeesNewest'
        BY <2>1, <3>1, <3>2, <3>3 DEF MInv, SeesNewest
    <3>6. StaleIsDirty'
        BY <2>1, <3>1, <3>3 DEF MInv, StaleIsDirty
    <3>7. QED
        BY <3>4, <3>5, <3>6 DEF MInv
  <2>5. QED
    BY <2>3, <2>4
<1>5. ASSUME NEW a \in Adds, M!watchSymlinks(a) PROVE MInv'
  <2>1. events \in [Adds -> Pairs \cup {"none"}]
    BY DEF MInv, MTypeOK
  <2>2. QED
    BY <1>5, <2>1, ManagerLoad DEF M!watchSymlinks
<1>6. ASSUME NEW a \in Adds, M!OnReload(a) PROVE MInv'
  <2>1. events \in [Adds -> Pairs \cup {"none"}]
    BY DEF MInv, MTypeOK
  <2>2. QED
    BY <1>6, <2>1, ManagerLoad DEF M!OnReload
<1>7. ASSUME NEW a \in Adds, M!Store(a) PROVE MInv'
  <2>1. /\ add[a].pc = "store" /\ add' = [add EXCEPT ![a].pc = "wait"] /\ file' = file /\ events' = events
        /\ done' = done /\ missed' = missed /\ certificates' = [certificates EXCEPT ![add[a].pair] = add[a].v]
    BY <1>7 DEF M!Store
  <2>2. \/ add[a].v = file[add[a].pair].v \/ a \in missed
        \/ file[add[a].pair].link \/ events[a] = add[a].pair \/ ~file[add[a].pair].whole
    BY <2>1 DEF MInv, SeesNewest, M!ByEvents
  <2>3. QED
    BY <2>1, <2>2, ManagerStore
<1>8. ASSUME NEW p \in Pairs, M!WriteCert(p) \/ M!WriteKey(p) PROVE MInv'
  <2>1. PICK n \in Nat \ {0}, both \in BOOLEAN :
            /\ n >= file[p].v
            /\ both => n = file[p].v
            /\ file' = [file EXCEPT ![p] = [v |-> n, whole |-> both, link |-> file[p].link]]
    <3>0. file[p] \in [v : Nat \ {0}, whole : BOOLEAN, link : BOOLEAN]
        BY DEF MInv, MTypeOK
    <3>1. CASE M!WriteCert(p)
      <4>1. file' = [file EXCEPT ![p] = [v |-> file[p].v + 1, whole |-> FALSE, link |-> file[p].link]]
        BY <3>1 DEF M!WriteCert
      <4>2. file[p].v + 1 \in Nat \ {0} /\ file[p].v + 1 >= file[p].v
        BY <3>0
      <4>3. QED
        BY <4>1, <4>2, Zenon
    <3>2. CASE M!WriteKey(p)
      <4>1. file' = [file EXCEPT ![p] = [v |-> file[p].v, whole |-> TRUE, link |-> file[p].link]]
        BY <3>2 DEF M!WriteKey
      <4>2. file[p].v \in Nat \ {0} /\ file[p].v >= file[p].v
        BY <3>0
      <4>3. QED
        BY <4>1, <4>2, Zenon
    <3>3. QED
        BY <1>8, <3>1, <3>2
  <2>2. M!Event(p) /\ certificates' = certificates /\ add' = add /\ done' = done
    BY <1>8 DEF M!WriteCert, M!WriteKey
  <2>3. /\ file'[p] = [v |-> n, whole |-> both, link |-> file[p].link] /\ \A q \in Pairs : q # p => file'[q] = file[q]
        /\ file' \in [Pairs -> [v : Nat \ {0}, whole : BOOLEAN, link : BOOLEAN]]
    BY <2>1 DEF MInv, MTypeOK
  <2>4. /\ events' = [a \in Adds |-> IF M!ByEvents(a) /\ events[a] = "none" THEN p ELSE events[a]]
        /\ missed' = missed \cup {a \in Adds : M!ByEvents(a) /\ add[a].pair = p /\ events'[a] # p}
    BY <2>2 DEF M!Event
  <2>5. events' \in [Adds -> Pairs \cup {"none"}] /\ missed' \subseteq Adds /\ missed \subseteq missed'
    BY <2>4 DEF MInv, MTypeOK
  <2>6. MTypeOK'
    BY <2>2, <2>3, <2>5 DEF MInv, MTypeOK
  <2>7. Loaded' /\ DefaultFirst'
    BY <2>1, <2>2, <2>3 DEF MInv, MTypeOK, Loaded, DefaultFirst, M!Held
  <2>8. \A a \in Adds : add[a].pair \in Pairs /\ (M!ByEvents(a)' <=> M!ByEvents(a))
    BY <2>2, <2>3 DEF MInv, MTypeOK, M!ByEvents
  <2>9. ASSUME NEW a \in Adds, add[a].pair = p, M!ByEvents(a) PROVE events'[a] = p \/ a \in missed'
    BY <2>4, <2>9
  <2>10. ASSUME NEW a \in Adds, add[a].pair # p
         PROVE  /\ a \in missed' <=> a \in missed
                /\ events'[a] = add[a].pair <=> events[a] = add[a].pair
    BY <2>4, <2>8, <2>10
  <2>11. SeesNewest'
    BY <2>2, <2>3, <2>8, <2>9, <2>10 DEF MInv, SeesNewest
  <2>12. StaleIsDirty'
    <3> SUFFICES ASSUME NEW q \in Pairs, file'[q].whole, ~done', NEW b \in Adds, add'[b].pair = q, M!ByEvents(b)'
                 PROVE  certificates'[q] = file'[q].v \/ \E c \in Adds : add'[c].pair = q /\ Dirty(c)'
        BY DEF StaleIsDirty
    <3>1. CASE q = p
      <4>1. events'[b] = p \/ b \in missed'
        BY <2>2, <2>8, <2>9, <3>1
      <4>2. add[b].pc # "new"
        BY <2>8 DEF M!ByEvents
      <4>3. QED
        BY <2>2, <3>1, <4>1, <4>2 DEF Dirty
    <3>2. CASE q # p
      <4>1. certificates[q] = file[q].v \/ \E c \in Adds : add[c].pair = q /\ Dirty(c)
        BY <2>2, <2>3, <2>8, <3>2 DEF MInv, StaleIsDirty
      <4>2. ASSUME NEW c \in Adds, add[c].pair = q, Dirty(c) PROVE Dirty(c)'
        BY <2>2, <2>8, <2>10, <3>2, <4>2 DEF Dirty
      <4>3. QED
        BY <2>2, <2>3, <3>2, <4>1, <4>2
    <3>3. QED
        BY <3>1, <3>2
  <2>13. QED
    BY <2>6, <2>7, <2>11, <2>12 DEF MInv
<1>9. CASE M!ReloadCerts \/ M!Cancel \/ UNCHANGED M!vars
  <2>1. /\ file' = file /\ certificates' = certificates /\ add' = add /\ events' = events /\ missed' = missed
        /\ ~done' => ~done
    BY <1>9 DEF M!ReloadCerts, M!Cancel, M!vars
  <2>2. MTypeOK' /\ Loaded' /\ DefaultFirst'
    BY <2>1 DEF MInv, MTypeOK, Loaded, DefaultFirst, M!Held
  <2>3. SeesNewest' /\ StaleIsDirty'
    BY <2>1 DEF MInv, SeesNewest, StaleIsDirty, Dirty, M!ByEvents
  <2>4. QED
    BY <2>2, <2>3 DEF MInv
<1>10. QED
    BY <1>1, <1>2, <1>3, <1>4, <1>5, <1>6, <1>7, <1>8, <1>9 DEF M!Next

\* With a certificate there is one for every connection: the default one if no
\* other fits.
LEMMA FreshOfInv ==
    ASSUME DefaultCert \in Pairs, "none" \notin Pairs, MInv PROVE M!ServedFresh
<1> SUFFICES ASSUME M!Held # {}
             PROVE  /\ M!Served \subseteq M!Held
                    /\ \A p \in M!Served : M!Quiet(p) => certificates[p] = file[p].v
    BY DEF M!ServedFresh
<1>1. DefaultCert \in M!Held
    BY DEF MInv, DefaultFirst
<1>2. M!Served \subseteq M!Held
    BY <1>1 DEF M!Served, M!GetCertificate, M!GetClientCertificate
<1>3. ASSUME NEW p \in Pairs, M!Quiet(p) PROVE certificates[p] = file[p].v
  <2>1. file[p].whole /\ ~done /\ \E a \in Adds : add[a].pair = p /\ M!ByEvents(a)
    BY <1>3 DEF M!Quiet
  <2>2. ASSUME NEW a \in Adds, add[a].pair = p PROVE ~Dirty(a)
    BY <1>3, <2>2 DEF M!Quiet, Dirty
  <2>3. QED
    BY <2>1, <2>2 DEF MInv, StaleIsDirty
<1>4. M!Held \subseteq Pairs
    BY DEF M!Held
<1>5. QED
    BY <1>2, <1>3, <1>4

\* "Manager will automatically reload certificates if the corresponding file
\* changes", for any number of pairs, additions and writes: at rest every
\* connection is served the newest version of its pair, as long as no event
\* was lost to the one-place channel.
THEOREM ServesFresh ==
    ASSUME DefaultCert \in Pairs, "none" \notin Pairs PROVE M!Spec => []ServedFresh
<1>1. MInv => ServedFresh
    BY FreshOfInv DEF ServedFresh
<1>2. M!Init => MInv
    BY ManagerInit
<1>3. MInv /\ [M!Next]_M!vars => MInv'
    BY ManagerNext
<1>4. QED
    BY <1>1, <1>2, <1>3, PTL DEF M!Spec
=============================================================================
