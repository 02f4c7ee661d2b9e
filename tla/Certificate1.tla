---------------------------- MODULE Certificate1 ----------------------------
(***************************************************************************)
(* certs/certs.go: Certificate holds the pair read from two files.  Watch  *)
(* starts up to three goroutines that reload it: on file events, on a      *)
(* ticker and on signals; a caller may reload it too.  A reload reads the  *)
(* files before it takes the lock, so of two reloads the one that read     *)
(* first may store last.                                                   *)
(***************************************************************************)
EXTENDS Naturals

CONSTANTS MaxRewrites  \* bound: times the pair is rewritten

Goroutines == {"events", "ticker", "signals", "caller"}

VARIABLES onDisk,      \* version of the pair that was begun last
          whole,       \* certificate and key belong together
          held,        \* version that Get returns
          watching,    \* goroutines that run
          reload,      \* where each one is, and the version it has read
          slot,        \* channels of capacity one: file event, tick, signal
          listening, mailbox,  \* one listener, its channel of capacity one (0: empty)
          interval,    \* Watch's interval is positive
          ctx          \* Watch: "none" before the call, "live", "done"

vars == <<onDisk, whole, held, watching, reload, slot, listening, mailbox, interval, ctx>>

\* NewCertificate: the first Reload has no listener and no rival.
Init ==
    /\ onDisk = 1 /\ whole = TRUE
    /\ held = 1
    /\ watching = {"caller"}
    /\ reload = [g \in Goroutines |-> [pc |-> "wait", v |-> 0]]
    /\ slot = [g \in Goroutines |-> FALSE]
    /\ listening = FALSE /\ mailbox = 0
    /\ interval \in BOOLEAN /\ ctx = "none"

\* Watch: the ticker only for interval > 0.
Watch ==
    /\ ctx = "none"
    /\ ctx' = "live"
    /\ watching' = watching \cup (IF interval THEN {"ticker"} ELSE {})
    /\ UNCHANGED <<onDisk, whole, held, reload, slot, listening, mailbox, interval>>

\* The goroutines of the events and of the signals register some time later,
\* if at all: the events only for regular files outside Kubernetes and when
\* both directories can be watched, the signals only if there are some.
Register(g) ==
    /\ g \in {"events", "signals"} \ watching /\ ctx = "live"
    /\ watching' = watching \cup {g}
    /\ UNCHANGED <<onDisk, whole, held, reload, slot, listening, mailbox, interval, ctx>>

\* The pair is rewritten, the certificate before the key; each write is an event.
Event == slot' = [slot EXCEPT !["events"] = @ \/ "events" \in watching]

WriteCert ==
    /\ whole /\ onDisk <= MaxRewrites
    /\ onDisk' = onDisk + 1 /\ whole' = FALSE
    /\ Event
    /\ UNCHANGED <<held, watching, reload, listening, mailbox, interval, ctx>>

WriteKey ==
    /\ ~whole
    /\ whole' = TRUE
    /\ Event
    /\ UNCHANGED <<onDisk, held, watching, reload, listening, mailbox, interval, ctx>>

\* A tick or a signal.  One that is pending is enough.
Trigger(g) ==
    /\ g \in watching \ {"events", "caller"}
    /\ slot' = [slot EXCEPT ![g] = TRUE]
    /\ UNCHANGED <<onDisk, whole, held, watching, reload, listening, mailbox, interval, ctx>>

\* Mutant: a goroutine that fails to reload gives up.
LoadOrQuit(g) ==
    /\ g \in watching /\ reload[g].pc = "wait" /\ (slot[g] \/ g = "caller")
    /\ slot' = [slot EXCEPT ![g] = FALSE]
    /\ reload' = IF whole THEN [reload EXCEPT ![g] = [pc |-> "store", v |-> onDisk]] ELSE reload
    /\ watching' = IF whole THEN watching ELSE watching \ {g}
    /\ UNCHANGED <<onDisk, whole, held, listening, mailbox, interval, ctx>>

\* Reload, before the lock: an error ends it; nobody looks at it.
Load(g) ==
    /\ g \in watching /\ reload[g].pc = "wait" /\ (slot[g] \/ g = "caller")
    /\ slot' = [slot EXCEPT ![g] = FALSE]
    /\ reload' = IF whole THEN [reload EXCEPT ![g] = [pc |-> "store", v |-> onDisk]] ELSE reload
    /\ UNCHANGED <<onDisk, whole, held, watching, listening, mailbox, interval, ctx>>

Store(g) ==
    /\ reload[g].pc = "store"
    /\ held' = reload[g].v
    /\ reload' = [reload EXCEPT ![g].pc = "notify"]
    /\ UNCHANGED <<onDisk, whole, watching, slot, listening, mailbox, interval, ctx>>

\* Under listenerLock, to a listener whose channel has room.
NotifyListeners(g) ==
    /\ reload[g].pc = "notify"
    /\ mailbox' = IF listening /\ mailbox = 0 THEN reload[g].v ELSE mailbox
    /\ reload' = [reload EXCEPT ![g] = [pc |-> "wait", v |-> 0]]
    /\ UNCHANGED <<onDisk, whole, held, watching, slot, listening, interval, ctx>>

\* ctx.Done(): a goroutine that waits returns; one that reloads does so first.
Done(g) ==
    /\ ctx = "done" /\ g \in watching \ {"caller"} /\ reload[g].pc = "wait"
    /\ watching' = watching \ {g}
    /\ UNCHANGED <<onDisk, whole, held, reload, slot, listening, mailbox, interval, ctx>>

Cancel ==
    /\ ctx = "live"
    /\ ctx' = "done"
    /\ UNCHANGED <<onDisk, whole, held, watching, reload, slot, listening, mailbox, interval>>

Notify == ~listening /\ listening' = TRUE /\ UNCHANGED <<onDisk, whole, held, watching, reload, slot, mailbox, interval, ctx>>
Stop   == listening /\ listening' = FALSE /\ UNCHANGED <<onDisk, whole, held, watching, reload, slot, mailbox, interval, ctx>>

Receive ==
    /\ mailbox # 0
    /\ mailbox' = 0
    /\ UNCHANGED <<onDisk, whole, held, watching, reload, slot, listening, interval, ctx>>

Step(g) == Load(g) \/ Store(g) \/ NotifyListeners(g) \/ Done(g)

Next ==
    \/ Watch \/ WriteCert \/ WriteKey \/ Cancel
    \/ \E g \in Goroutines : Register(g) \/ Trigger(g) \/ Step(g)
    \/ Notify \/ Stop \/ Receive

\* The ticker ticks and every goroutine goes on; nothing makes anybody write
\* the files, send a signal or call Reload.
Fairness ==
    /\ WF_vars(Trigger("ticker"))
    /\ \A g \in Goroutines \ {"caller"} : WF_vars(Step(g))
    /\ WF_vars(Store("caller") \/ NotifyListeners("caller"))

Spec == Init /\ [][Next]_vars /\ Fairness

-----------------------------------------------------------------------------
\* "Further, Watch reloads the certificate periodically if interval > 0": once
\* the files are whole and no longer rewritten, and while the ticker runs,
\* Get returns what they hold for good, whatever reload had stored an older
\* pair over a newer one and whichever loads had failed before.
TickerHeals == <>[](interval /\ ctx = "live" /\ whole) => <>[](held = onDisk)
=============================================================================
