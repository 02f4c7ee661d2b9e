--------------------------- MODULE CallbackServer ---------------------------
(***************************************************************************)
(* oidc/callback-server.go and oidc/cli-login.go: a command line program   *)
(* starts a local HTTP server, sends the user to a login page with a       *)
(* signed token that names its request, and waits for the browser to come  *)
(* back with credentials signed for that request.  The browser may come    *)
(* late, twice, with another request's code, or not at all.                *)
(***************************************************************************)
EXTENDS Naturals, Sequences, FiniteSets

CONSTANTS Requests,    \* HTTP requests to the local server
          LoginLife,   \* 5 minutes: life of a login token
          CredsLife,   \* life of the credentials
          MaxTime,     \* bound: time
          MaxCodes     \* bound: signed credentials

VARIABLES now,
          ctx,         \* the context of NewCallbackServer: "live" or "done"
          waitCtx,     \* the context of WaitForCredentials
          tokens,      \* login tokens: [reqID, expiry]
          codes,       \* signed credentials: [reqID, expiration], 0 for no expiration
          request,     \* each request: its code and where its handler is
          credsChan, errChan,  \* channels of capacity one
          server,      \* "serving", "failed", "draining" (Shutdown has begun), "closed"
          wait,        \* WaitForCredentials: "waiting", "creds", "error"
          result       \* the credentials it has returned

vars == <<now, ctx, waitCtx, tokens, codes, request, credsChan, errChan, server, wait, result>>

None == [reqID |-> "none", expiration |-> 0]

\* NewCallbackServer: the listener is open, both goroutines run.
Init ==
    /\ now = 1
    /\ ctx = "live" /\ waitCtx = "live"
    /\ tokens = {} /\ codes = {}
    /\ request = [r \in Requests |-> [pc |-> "new", code |-> None]]
    /\ credsChan = <<>> /\ errChan = <<>>
    /\ server = "serving"
    /\ wait = "waiting" /\ result = None

Tick ==
    /\ now < MaxTime
    /\ now' = now + 1
    /\ UNCHANGED <<ctx, waitCtx, tokens, codes, request, credsChan, errChan, server, wait, result>>

-----------------------------------------------------------------------------
(* The login server, by the functions it calls *)

\* GetLoginURL: NewCLILoginClaims, ToTokenString.  Another program logs in too.
\* One login each is enough: a code may be used any number of times.
GetLoginURL(reqID) ==
    /\ \A token \in tokens : token.reqID # reqID
    /\ tokens' = tokens \cup {[reqID |-> reqID, expiry |-> now + LoginLife]}
    /\ UNCHANGED <<now, ctx, waitCtx, codes, request, credsChan, errChan, server, wait, result>>

\* ParseCLILoginClaims accepts the token, SignCredentials signs for its
\* request.
Login(token, expiration) ==
    /\ now <= token.expiry
    /\ Cardinality(codes) < MaxCodes
    /\ codes' = codes \cup {[reqID |-> token.reqID, expiration |-> expiration]}
    /\ UNCHANGED <<now, ctx, waitCtx, tokens, request, credsChan, errChan, server, wait, result>>

-----------------------------------------------------------------------------
(* The local server *)

\* A browser comes with a code, or without one.
Callback(r, code) ==
    /\ request[r].pc = "new"
    /\ server = "serving"
    /\ request' = [request EXCEPT ![r] = [pc |-> "handler", code |-> code]]
    /\ UNCHANGED <<now, ctx, waitCtx, tokens, codes, credsChan, errChan, server, wait, result>>

\* ParseSignedCredentials: signed for this request and not expired.
Accepts(code) == code.reqID = "own" /\ (code.expiration = 0 \/ now <= code.expiration)

\* A missing or invalid code is answered by an error.  Success is answered
\* before the credentials are handed over.
Handle(r) ==
    /\ request[r].pc = "handler"
    /\ request' = [request EXCEPT ![r].pc = IF Accepts(request[r].code) THEN "send" ELSE "done"]
    /\ UNCHANGED <<now, ctx, waitCtx, tokens, codes, credsChan, errChan, server, wait, result>>

\* Mutant: a handler that waits for room gives up when the server's context
\* ends.
SendUnlessDone(r) ==
    /\ request[r].pc = "send"
    /\ credsChan = <<>> \/ ctx # "live"
    /\ credsChan' = IF ctx = "live" THEN <<request[r].code>> ELSE credsChan
    /\ request' = [request EXCEPT ![r].pc = "done"]
    /\ UNCHANGED <<now, ctx, waitCtx, tokens, codes, errChan, server, wait, result>>

\* cs.credsChan <- creds waits for room.
Send(r) ==
    /\ request[r].pc = "send"
    /\ credsChan = <<>>
    /\ credsChan' = <<request[r].code>>
    /\ request' = [request EXCEPT ![r].pc = "done"]
    /\ UNCHANGED <<now, ctx, waitCtx, tokens, codes, errChan, server, wait, result>>

\* Serve returns an error of its own.
ServeFails ==
    /\ server = "serving"
    /\ server' = "failed"
    /\ errChan' = <<"error">>
    /\ UNCHANGED <<now, ctx, waitCtx, tokens, codes, request, credsChan, wait, result>>

\* The two contexts end, by their deadline or by a cancellation.  When they are
\* one, one of the two steps follows the other.
Cancel ==
    /\ ctx = "live"
    /\ ctx' = "done"
    /\ UNCHANGED <<now, waitCtx, tokens, codes, request, credsChan, errChan, server, wait, result>>

CancelWait ==
    /\ waitCtx = "live"
    /\ waitCtx' = "done"
    /\ UNCHANGED <<now, ctx, tokens, codes, request, credsChan, errChan, server, wait, result>>

\* Shutdown closes the listener and waits for the handlers.
Shutdown ==
    /\ ctx # "live" /\ server \in {"serving", "failed"}
    /\ server' = "draining"
    /\ UNCHANGED <<now, ctx, waitCtx, tokens, codes, request, credsChan, errChan, wait, result>>

Busy == \E r \in Requests : request[r].pc \in {"handler", "send"}

\* The handlers are done and Shutdown returns, ...
ShutdownEnds ==
    /\ server = "draining" /\ ~Busy
    /\ server' = "closed"
    /\ UNCHANGED <<now, ctx, waitCtx, tokens, codes, request, credsChan, errChan, wait, result>>

\* ... or it returns after five seconds, the time of a context of its own.  The
\* handlers are left behind: they go on, or wait for room for ever.
ShutdownTimeout ==
    /\ server = "draining" /\ Busy
    /\ server' = "closed"
    /\ UNCHANGED <<now, ctx, waitCtx, tokens, codes, request, credsChan, errChan, wait, result>>

-----------------------------------------------------------------------------
(* WaitForCredentials: any of the ready cases *)

WaitCreds ==
    /\ wait = "waiting" /\ credsChan # <<>>
    /\ wait' = "creds" /\ result' = Head(credsChan) /\ credsChan' = <<>>
    /\ UNCHANGED <<now, ctx, waitCtx, tokens, codes, request, errChan, server>>

WaitError ==
    /\ wait = "waiting"
    /\ errChan # <<>> \/ waitCtx # "live"
    /\ wait' = "error"
    /\ errChan' \in {errChan, <<>>} /\ (errChan' = errChan => waitCtx # "live")
    /\ UNCHANGED <<now, ctx, waitCtx, tokens, codes, request, credsChan, server, result>>

Handlers == \E r \in Requests : Handle(r) \/ Send(r)
Waiter == WaitCreds \/ WaitError
Closer == Shutdown \/ ShutdownEnds \/ ShutdownTimeout

Next ==
    \/ Tick
    \/ \E reqID \in {"own", "other"} : GetLoginURL(reqID)
    \/ \E token \in tokens : \E expiration \in {0, now + CredsLife} : Login(token, expiration)
    \/ \E r \in Requests : \E code \in codes \cup {None} : Callback(r, code)
    \/ Handlers \/ ServeFails
    \/ Cancel \/ CancelWait
    \/ Closer \/ Waiter

\* Handlers run when they can, timers fire; nobody has to log in or to cancel.
Fairness == WF_vars(Handlers) /\ WF_vars(Closer) /\ WF_vars(Waiter)

Spec == Init /\ [][Next]_vars /\ Fairness

-----------------------------------------------------------------------------
\* Shutdown and waiting end each for its own reason.  "The server will be
\* automatically shut down when the provided context is canceled", even when a
\* second callback has left a handler that waits for room for ever.
\* WaitForCredentials returns when its own context ends.  And credentials that
\* a browser was told were received end the wait, although the shutdown may
\* begin, run out of time and return while they are being handed over.  (The
\* end of the server's context alone does not end the wait.)
ShutsDown ==
    /\ (ctx # "live") ~> (server = "closed")
    /\ (waitCtx # "live") ~> (wait # "waiting")
    /\ (\E r \in Requests : request[r].pc = "send") ~> (wait # "waiting")
=============================================================================
