-------------------------------- MODULE Env --------------------------------
(***************************************************************************)
(* env/env.go and env/web_env.go: Get looks a variable up.  A value of the *)
(* form env://... is fetched from a remote server on every lookup and kept *)
(* in a second variable, "_" and the name, for lookups that fail to fetch  *)
(* it.  Nothing locks the lookups against each other.                      *)
(***************************************************************************)
EXTENDS Integers

CONSTANTS Lookers,     \* goroutines that call Get
          MaxVersion,  \* bound: values the remote server has in turn
          MaxRestarts  \* bound: restarts

Empty   == 0   \* the empty value; versions count from 1
Unset   == -1  \* no such variable
Page    == -2  \* a body that is no value: the status of a response is not looked at
Default == -3  \* the caller's default value

VARIABLES kind,      \* of the variable: "unset", "local" or "remote"
          envOff,    \* lookups are turned off
          version,   \* the value at the server
          cached,    \* the variable "_" and the name
          call,      \* what each goroutine is doing, and with what result
          restarts,
          returned,  \* history: the newest version a lookup has returned
          raced      \* history: an older version than one returned before has been cached

vars == <<kind, envOff, version, cached, call, restarts, returned, raced>>

NoCall == [pc |-> "done", v |-> Default, floor |-> 0]

Init ==
    /\ kind \in {"unset", "local", "remote"}
    /\ envOff = FALSE
    /\ version = 1
    /\ cached = Unset
    /\ call = [c \in Lookers |-> NoCall]
    /\ restarts = 0 /\ returned = 0 /\ raced = FALSE

\* Get returns: an empty value becomes the default.
Return(c, v) ==
    /\ call' = [call EXCEPT ![c] = [pc |-> "done", v |-> IF v \in {Empty, Unset} THEN Default ELSE v, floor |-> @.floor]]
    /\ returned' = IF v > returned THEN v ELSE returned

\* Get reads envOff under the lock and goes on without it.
Get(c) ==
    /\ call[c].pc = "done"
    /\ call' = [call EXCEPT ![c] = [pc |-> IF envOff THEN "done" ELSE "lookup", v |-> Default, floor |-> returned]]
    /\ UNCHANGED <<kind, envOff, version, cached, restarts, returned, raced>>

\* os.LookupEnv; a local value is version 1.
LookupEnv(c) ==
    /\ call[c].pc = "lookup"
    /\ CASE kind = "unset"  -> Return(c, Unset)
         [] kind = "local"  -> Return(c, 1)
         [] kind = "remote" -> call' = [call EXCEPT ![c].pc = "fetch"] /\ UNCHANGED returned
    /\ UNCHANGED <<kind, envOff, version, cached, restarts, raced>>

\* The server answers: with its value, an empty body, or a page about an error.
getEnvValueFromHTTP(c) ==
    /\ call[c].pc = "fetch"
    /\ \E body \in {version, Empty, Page} : call' = [call EXCEPT ![c] = [pc |-> "cache", v |-> body, floor |-> @.floor]]
    /\ UNCHANGED <<kind, envOff, version, cached, restarts, returned, raced>>

\* It cannot be reached, or not in time.
FetchFails(c) ==
    /\ call[c].pc = "fetch"
    /\ call' = [call EXCEPT ![c].pc = "fallback"]
    /\ UNCHANGED <<kind, envOff, version, cached, restarts, returned, raced>>

\* Mutant: the value is kept the first time only.
CacheOnce(c) ==
    /\ call[c].pc = "cache"
    /\ cached' = IF cached = Unset THEN call[c].v ELSE cached
    /\ Return(c, call[c].v)
    /\ UNCHANGED <<kind, envOff, version, restarts, raced>>

Cache(c) ==
    /\ call[c].pc = "cache"
    /\ cached' = call[c].v
    /\ raced' = (raced \/ (call[c].v > 0 /\ call[c].v < returned))
    /\ Return(c, call[c].v)
    /\ UNCHANGED <<kind, envOff, version, restarts>>

\* The cached value if there is one; else an error, which Get ignores.
Fallback(c) ==
    /\ call[c].pc = "fallback"
    /\ Return(c, cached)
    /\ UNCHANGED <<kind, envOff, version, cached, restarts, raced>>

SetEnvOff ==
    /\ envOff' = TRUE
    /\ UNCHANGED <<kind, version, cached, call, restarts, returned, raced>>

SetEnvOn ==
    /\ envOff' = FALSE
    /\ UNCHANGED <<kind, version, cached, call, restarts, returned, raced>>

\* The value at the server changes.
Change ==
    /\ kind = "remote" /\ version < MaxVersion
    /\ version' = version + 1
    /\ UNCHANGED <<kind, envOff, cached, call, restarts, returned, raced>>

\* "a fallback in-case of server restarts": the new process has the
\* environment of the old one.
Restart ==
    /\ restarts < MaxRestarts
    /\ restarts' = restarts + 1
    /\ call' = [c \in Lookers |-> NoCall]
    /\ envOff' = FALSE
    /\ UNCHANGED <<kind, version, cached, returned, raced>>

Next ==
    \/ \E c \in Lookers : Get(c) \/ LookupEnv(c) \/ getEnvValueFromHTTP(c) \/ FetchFails(c) \/ Cache(c) \/ Fallback(c)
    \/ SetEnvOff \/ SetEnvOn \/ Change \/ Restart

Spec == Init /\ [][Next]_vars

-----------------------------------------------------------------------------
\* "The fetched value is cached ... for subsequent lookups should the remote
\* server be unreachable": a lookup never goes back behind what another had
\* returned before it began, whether or not the server can be reached and over
\* restarts, unless of two overlapping lookups the older value was cached last.
NeverOlder ==
    \A c \in Lookers : call[c].pc = "done" /\ call[c].v > 0 => call[c].v >= call[c].floor \/ raced
============================================================================
