---------------------------- MODULE Certificate2 ----------------------------
(***************************************************************************)
(* certs/certificate2.go: a certificate that reloads itself when its two   *)
(* files change and tells its subscribers.                                 *)
(*                                                                         *)
(* Actors: the constructor, a writer of the files, a watcher goroutine per *)
(* file, the reload goroutine, the callers of Subscribe and unsubscribe, a *)
(* callback goroutine per subscription, and the caller of Close.           *)
(*                                                                         *)
(* A file holds a version; 0 is a file that cannot be read.  The           *)
(* certificate and the key belong together when their versions are equal.  *)
(***************************************************************************)
EXTENDS Naturals, Sequences, SequencesExt

CONSTANTS Subscribers,  \* callers of Subscribe
          MaxVersion,   \* bound: versions of the files
          MaxWrites     \* bound: writes to either file

ASSUME MaxVersionAssumption == MaxVersion \in Nat \ {0}
ASSUME MaxWritesAssumption == MaxWrites \in Nat

Files == {"cert", "key"}
Versions == 0..MaxVersion
Goes(v) == v["cert"] = v["key"] /\ v["cert"] > 0   \* tls.X509KeyPair succeeds

VARIABLES
    file,     \* contents of the two files
    writes,   \* writes so far
    symlink,  \* the files are symbolic links, polled by a ticker
    missed,   \* history: a file changed after it was read and before it was watched
    npc,      \* NewCertificate2: "watchCert", "watchKey", "ready", "failed"
    wpc,      \* watcher of each file: "off", "idle", "sending", "done"
    ch,       \* events in the channel, whose capacity is 1
    chClosed,
    stopped,  \* notify.Stop(ch): no more events from the library
    ctxDone,
    lpc,      \* reload goroutine: "off", "recv", "readCert", "readKey", "store", "copy", "send", "exit"
    read,     \* what it has read
    targets,  \* its copy of the subscriptions
    stored,   \* the atomic pointer: the pair in use; its hashes change with it
    subs,     \* c.subscriptions
    sub,      \* each subscription: "none", "open", "closed"
    buf,      \* notifications in its channel, whose capacity is 1
    cb,       \* its goroutine: "idle", "run", "ran", "exit"
    seen,     \* the pair its callback last saw, or that in use when it subscribed
    cpc,      \* Close: "idle", "stop", "cancel", "wait", "closeCh", "take", "closeSubs", "done"
    closing,  \* the subscriptions it has left to close
    panic     \* "none", or what the program died of

fileVars   == <<file, writes, symlink, missed>>
watchVars  == <<npc, wpc, ch, chClosed, stopped, ctxDone>>
loadVars   == <<lpc, read, targets, stored>>
subVars    == <<subs, sub, buf, cb, seen>>
closeVars  == <<cpc, closing>>
vars == <<fileVars, watchVars, loadVars, subVars, closeVars, panic>>

Pairs == [Files -> Versions]

TypeOK ==
    /\ file \in Pairs /\ read \in Pairs /\ stored \in Pairs
    /\ writes \in 0..MaxWrites
    /\ symlink \in BOOLEAN /\ missed \in BOOLEAN
    /\ npc \in {"watchCert", "watchKey", "ready", "failed"}
    /\ wpc \in [Files -> {"off", "idle", "sending", "done"}]
    /\ ch \in 0..1
    /\ chClosed \in BOOLEAN /\ stopped \in BOOLEAN /\ ctxDone \in BOOLEAN
    /\ lpc \in {"off", "recv", "readCert", "readKey", "store", "copy", "send", "exit"}
    /\ targets \in Seq(Subscribers) /\ subs \in Seq(Subscribers) /\ closing \in Seq(Subscribers)
    /\ sub \in [Subscribers -> {"none", "open", "closed"}]
    /\ buf \in [Subscribers -> 0..1]
    /\ cb \in [Subscribers -> {"idle", "run", "ran", "exit"}]
    /\ seen \in [Subscribers -> Pairs]
    /\ cpc \in {"idle", "stop", "cancel", "wait", "closeCh", "take", "closeSubs", "done"}
    /\ panic \in {"none", "event", "notify", "close"}

\* The constructor has read both files and stored the pair; nothing is
\* watched yet.
Init ==
    /\ file = [f \in Files |-> 1]
    /\ writes = 0
    /\ symlink \in BOOLEAN
    /\ missed = FALSE
    /\ npc = "watchCert"
    /\ wpc = [f \in Files |-> "off"]
    /\ ch = 0
    /\ chClosed = FALSE /\ stopped = FALSE /\ ctxDone = FALSE
    /\ lpc = "off"
    /\ read = file /\ stored = file
    /\ targets = <<>> /\ subs = <<>> /\ closing = <<>>
    /\ sub = [s \in Subscribers |-> "none"]
    /\ buf = [s \in Subscribers |-> 0]
    /\ cb = [s \in Subscribers |-> "idle"]
    /\ seen = [s \in Subscribers |-> file]
    /\ cpc = "idle"
    /\ panic = "none"

-----------------------------------------------------------------------------
(* Files and watchers *)

\* Mutant: an event is never kept for a busy reload goroutine.
RoomUnbuffered == ch = 0 /\ lpc = "recv"

\* The library sends without blocking; the channel keeps one event.
Room == ch = 0

\* Somebody writes a file.  A watched file raises an event, which the library
\* drops if the channel is full.
Write(f) ==
    /\ writes < MaxWrites
    /\ writes' = writes + 1
    /\ \E v \in Versions \ {file[f]} : file' = [file EXCEPT ![f] = v]
    /\ missed' = (missed \/ wpc[f] = "off")
    /\ ch' = IF ~symlink /\ wpc[f] # "off" /\ ~stopped /\ Room THEN 1 ELSE ch
    /\ UNCHANGED <<symlink, npc, wpc, chClosed, stopped, ctxDone, loadVars, subVars, closeVars, panic>>

\* Symbolic links into one directory: exchanging that directory replaces both
\* files by another pair at once.
Relink ==
    /\ symlink
    /\ writes < MaxWrites
    /\ writes' = writes + 1
    /\ \E v \in Versions \ {0, file["cert"]} : file' = [f \in Files |-> v]
    /\ missed' = (missed \/ \E f \in Files : wpc[f] = "off")
    /\ UNCHANGED <<symlink, watchVars, loadVars, subVars, closeVars, panic>>

\* watchFile of the certificate, then of the key, which also starts the
\* reload goroutine and returns.
WatchFile(f) ==
    /\ npc = IF f = "cert" THEN "watchCert" ELSE "watchKey"
    /\ npc' = IF f = "cert" THEN "watchKey" ELSE "ready"
    /\ wpc' = [wpc EXCEPT ![f] = "idle"]
    /\ lpc' = IF f = "key" THEN "recv" ELSE lpc
    /\ UNCHANGED <<fileVars, ch, chClosed, stopped, ctxDone, read, targets, stored, subVars, closeVars, panic>>

\* watchFile fails: the constructor closes what it has and returns the error.
WatchFails ==
    /\ npc \in {"watchCert", "watchKey"}
    /\ npc' = "failed"
    /\ cpc' = "stop"
    /\ UNCHANGED <<fileVars, wpc, ch, chClosed, stopped, ctxDone, loadVars, subVars, closing, panic>>

\* A symbolic link is polled.  The first tick comes 10 s after the watch, when
\* the constructor is long done.
Tick(f) ==
    /\ symlink
    /\ npc = "ready"
    /\ wpc[f] = "idle"
    /\ wpc' = [wpc EXCEPT ![f] = "sending"]
    /\ UNCHANGED <<fileVars, npc, ch, chClosed, stopped, ctxDone, loadVars, subVars, closeVars, panic>>

\* The blocking send of the ticker goroutine.
TickSend(f) ==
    /\ wpc[f] = "sending"
    /\ \/ /\ chClosed
          /\ panic' = "event"
          /\ UNCHANGED <<ch, wpc>>
       \/ /\ ~chClosed /\ ch = 0
          /\ ch' = 1
          /\ wpc' = [wpc EXCEPT ![f] = "idle"]
          /\ UNCHANGED panic
    /\ UNCHANGED <<fileVars, npc, chClosed, stopped, ctxDone, loadVars, subVars, closeVars>>

\* <-ctx.Done(): the watcher stops its watch and is done.
WatcherExit(f) ==
    /\ wpc[f] = "idle"
    /\ ctxDone
    /\ wpc' = [wpc EXCEPT ![f] = "done"]
    /\ stopped' = (stopped \/ ~symlink)
    /\ UNCHANGED <<fileVars, npc, ch, chClosed, ctxDone, loadVars, subVars, closeVars, panic>>

-----------------------------------------------------------------------------
(* The reload goroutine *)

\* for range ch
LRecv ==
    /\ lpc = "recv"
    /\ \/ ch > 0 /\ ch' = ch - 1 /\ lpc' = "readCert"
       \/ ch = 0 /\ chClosed /\ lpc' = "exit" /\ UNCHANGED ch
    /\ UNCHANGED <<fileVars, npc, wpc, chClosed, stopped, ctxDone, read, targets, stored, subVars, closeVars, panic>>

\* The two reads are not atomic: the writer may come in between.
LRead(f) ==
    /\ lpc = IF f = "cert" THEN "readCert" ELSE "readKey"
    /\ read' = [read EXCEPT ![f] = file[f]]
    /\ lpc' = IF file[f] = 0 THEN "recv" ELSE IF f = "cert" THEN "readKey" ELSE "store"
    /\ UNCHANGED <<fileVars, watchVars, targets, stored, subVars, closeVars, panic>>

\* Mutant: what was read is stored although it does not go together.
LStoreUnchecked ==
    /\ lpc = "store"
    /\ IF read = stored
       THEN lpc' = "recv" /\ UNCHANGED stored
       ELSE lpc' = "copy" /\ stored' = read
    /\ UNCHANGED <<fileVars, watchVars, read, targets, subVars, closeVars, panic>>

\* Same hashes, or a pair that does not go together: nothing happens.
LStore ==
    /\ lpc = "store"
    /\ IF read = stored \/ ~Goes(read)
       THEN lpc' = "recv" /\ UNCHANGED stored
       ELSE lpc' = "copy" /\ stored' = read
    /\ UNCHANGED <<fileVars, watchVars, read, targets, subVars, closeVars, panic>>

\* The subscriptions are copied under the lock and the lock is released.
LCopy ==
    /\ lpc = "copy"
    /\ targets' = subs
    /\ lpc' = "send"
    /\ UNCHANGED <<fileVars, watchVars, read, stored, subVars, closeVars, panic>>

\* Mutant: the channels of the subscriptions keep nothing for a busy callback.
LSendUnbuffered ==
    /\ lpc = "send"
    /\ IF targets = <<>>
       THEN lpc' = "recv" /\ UNCHANGED <<targets, buf, panic>>
       ELSE LET s == Head(targets) IN
            /\ targets' = Tail(targets)
            /\ panic' = IF sub[s] = "closed" THEN "notify" ELSE panic
            /\ buf' = IF sub[s] = "open" /\ cb[s] = "idle" THEN [buf EXCEPT ![s] = 1] ELSE buf
            /\ UNCHANGED lpc
    /\ UNCHANGED <<fileVars, watchVars, read, stored, subs, sub, cb, seen, closeVars>>

\* One non-blocking send per copied subscription.  Sending on a closed
\* channel panics, in a select with a default too.
LSend ==
    /\ lpc = "send"
    /\ IF targets = <<>>
       THEN lpc' = "recv" /\ UNCHANGED <<targets, buf, panic>>
       ELSE LET s == Head(targets) IN
            /\ targets' = Tail(targets)
            /\ panic' = IF sub[s] = "closed" THEN "notify" ELSE panic
            /\ buf' = IF sub[s] = "closed" THEN buf ELSE [buf EXCEPT ![s] = 1]
            /\ UNCHANGED lpc
    /\ UNCHANGED <<fileVars, watchVars, read, stored, subs, sub, cb, seen, closeVars>>

-----------------------------------------------------------------------------
(* Subscriptions *)

\* The caller knows the pair in use when it subscribes.
Subscribe(s) ==
    /\ npc = "ready"
    /\ sub[s] = "none"
    /\ sub' = [sub EXCEPT ![s] = "open"]
    /\ subs' = Append(subs, s)
    /\ seen' = [seen EXCEPT ![s] = stored]
    /\ UNCHANGED <<fileVars, watchVars, loadVars, buf, cb, closeVars, panic>>

\* The returned function: under the lock, remove the channel and close it,
\* if it is still there.
Unsubscribe(s) ==
    /\ \E i \in DOMAIN subs : subs[i] = s /\ subs' = RemoveAt(subs, i)
    /\ panic' = IF sub[s] = "closed" THEN "close" ELSE panic
    /\ sub' = [sub EXCEPT ![s] = "closed"]
    /\ UNCHANGED <<fileVars, watchVars, loadVars, buf, cb, seen, closeVars>>

\* for range ch { callback(c) }; the callback loads the pair, uses it and
\* returns.
Callback(s) ==
    /\ sub[s] # "none"
    /\ \/ /\ cb[s] = "idle" /\ buf[s] = 1
          /\ buf' = [buf EXCEPT ![s] = 0]
          /\ cb' = [cb EXCEPT ![s] = "run"]
          /\ UNCHANGED seen
       \/ /\ cb[s] = "run"
          /\ seen' = [seen EXCEPT ![s] = stored]
          /\ cb' = [cb EXCEPT ![s] = "ran"]
          /\ UNCHANGED buf
       \/ /\ cb[s] = "ran"
          /\ cb' = [cb EXCEPT ![s] = "idle"]
          /\ UNCHANGED <<buf, seen>>
       \/ /\ cb[s] = "idle" /\ buf[s] = 0 /\ sub[s] = "closed"
          /\ cb' = [cb EXCEPT ![s] = "exit"]
          /\ UNCHANGED <<buf, seen>>
    /\ UNCHANGED <<fileVars, watchVars, loadVars, subs, sub, closeVars, panic>>

-----------------------------------------------------------------------------
(* Close: the body of once.Do *)

Close ==
    /\ npc = "ready"
    /\ cpc = "idle"
    /\ cpc' = "stop"
    /\ UNCHANGED <<fileVars, watchVars, loadVars, subVars, closing, panic>>

CloseStop ==
    /\ cpc = "stop"
    /\ stopped' = TRUE
    /\ cpc' = "cancel"
    /\ UNCHANGED <<fileVars, npc, wpc, ch, chClosed, ctxDone, loadVars, subVars, closing, panic>>

\* Mutant: the context is not cancelled.
CloseNoCancel ==
    /\ cpc = "cancel"
    /\ cpc' = "wait"
    /\ UNCHANGED <<fileVars, watchVars, loadVars, subVars, closing, panic>>

CloseCancel ==
    /\ cpc = "cancel"
    /\ ctxDone' = TRUE
    /\ cpc' = "wait"
    /\ UNCHANGED <<fileVars, npc, wpc, ch, chClosed, stopped, loadVars, subVars, closing, panic>>

\* Mutant: the channel is closed under the watchers.
CloseWaitNot ==
    /\ cpc = "wait"
    /\ cpc' = "closeCh"
    /\ UNCHANGED <<fileVars, watchVars, loadVars, subVars, closing, panic>>

\* wg.Wait(): the watchers, but not the reload goroutine.
CloseWait ==
    /\ cpc = "wait"
    /\ \A f \in Files : wpc[f] \in {"off", "done"}
    /\ cpc' = "closeCh"
    /\ UNCHANGED <<fileVars, watchVars, loadVars, subVars, closing, panic>>

CloseCh ==
    /\ cpc = "closeCh"
    /\ chClosed' = TRUE
    /\ cpc' = "take"
    /\ UNCHANGED <<fileVars, npc, wpc, ch, stopped, ctxDone, loadVars, subVars, closing, panic>>

\* Under the lock.
CloseTake ==
    /\ cpc = "take"
    /\ closing' = subs
    /\ subs' = <<>>
    /\ cpc' = "closeSubs"
    /\ UNCHANGED <<fileVars, watchVars, loadVars, sub, buf, cb, seen, panic>>

CloseSubs ==
    /\ cpc = "closeSubs"
    /\ IF closing = <<>>
       THEN cpc' = "done" /\ UNCHANGED <<closing, sub, panic>>
       ELSE /\ closing' = Tail(closing)
            /\ panic' = IF sub[Head(closing)] = "closed" THEN "close" ELSE panic
            /\ sub' = [sub EXCEPT ![Head(closing)] = "closed"]
            /\ UNCHANGED cpc
    /\ UNCHANGED <<fileVars, watchVars, loadVars, subs, buf, cb, seen>>

Closer == CloseStop \/ CloseCancel \/ CloseWait \/ CloseCh \/ CloseTake \/ CloseSubs

-----------------------------------------------------------------------------
Construct == (\E f \in Files : WatchFile(f)) \/ WatchFails
Watcher(f) == Tick(f) \/ TickSend(f) \/ WatcherExit(f)
Reload == LRecv \/ (\E f \in Files : LRead(f)) \/ LStore \/ LCopy \/ LSend

\* A panic ends the program.
Live(A) == panic = "none" /\ A

Next ==
    \/ Live(Construct)
    \/ Live(Reload)
    \/ Live(Relink)
    \/ Live(Close)
    \/ Live(Closer)
    \/ \E f \in Files : Live(Write(f)) \/ Live(Watcher(f))
    \/ \E s \in Subscribers : Live(Subscribe(s)) \/ Live(Unsubscribe(s)) \/ Live(Callback(s))

\* Goroutines run when they can, tickers tick, callbacks return.  The ticker
\* loops for ever, so its blocked send needs strong fairness: the runtime
\* queues senders.  Nobody has to write, subscribe, unsubscribe or close.
Fairness ==
    /\ WF_vars(Live(Construct)) /\ WF_vars(Live(Reload)) /\ WF_vars(Live(Closer))
    /\ \A f \in Files : SF_vars(Live(TickSend(f))) /\ SF_vars(Live(WatcherExit(f))) /\ WF_vars(Live(Tick(f)))
    /\ \A s \in Subscribers : WF_vars(Live(Callback(s)))

Spec == Init /\ [][Next]_vars /\ Fairness

-----------------------------------------------------------------------------
\* The pair in use is always a certificate with its own key, whatever the
\* writer does between the two reads of a reload.
StoredGoes == Goes(stored)

\* The channels are closed once, and the event channel only after the last
\* watcher that could send on it.
ClosedOnce == panic \notin {"close", "event"}

\* Once both files are watched, no change is lost for good: when the files
\* come to rest as a pair, that pair is put in use, although events that
\* find the channel full are dropped.  Only a file written before its watch
\* was set up may stay unnoticed, and only when it is not a symbolic link.
Fresh ==
    <>[](\/ panic # "none" \/ npc = "failed" \/ cpc # "idle" \/ ~Goes(file)
         \/ missed /\ ~symlink
         \/ stored = file)

\* A live subscriber's callback has seen the pair in use, although
\* notifications that find its channel full are dropped.
SubscriberFresh ==
    <>[](panic # "none" \/ \A s \in Subscribers : sub[s] = "open" => seen[s] = stored)

\* Close returns and the reload goroutine ends, also when a ticker is blocked
\* on the full channel.
CloseReturns == cpc = "stop" ~> panic # "none" \/ (cpc = "done" /\ lpc \in {"off", "exit"})

\* "It is safe for concurrent use": no order of reloads, unsubscriptions and
\* Close makes the program panic.
NoPanic == panic = "none"
=============================================================================
