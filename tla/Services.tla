------------------------------ MODULE Services ------------------------------
(***************************************************************************)
(* The smaller concurrent packages in one run: workers, env, oidc and the  *)
(* first generation of certs.  They share no state, so each behaviour is   *)
(* one of them, chosen at the start, while the others rest in a state in   *)
(* which none of their fair actions is enabled.                            *)
(***************************************************************************)
EXTENDS Workers, Sequences

CONSTANTS Lookers, MaxVersion, MaxRestarts                  \* env: goroutines that call Get
CONSTANTS Requests, LoginLife, CredsLife, MaxTime, MaxCodes  \* oidc: HTTP requests
CONSTANTS Pairs, DefaultCert, Adds, IPVersions, MaxWrites    \* certs: pairs of files, calls of AddCertificate
CONSTANT  MaxRewrites                                        \* certs.Certificate

VARIABLE unit   \* the package this behaviour is of

VARIABLES kind, envOff, version, cached, call, restarts, returned, raced                          \* env
VARIABLES now, ctx, waitCtx, tokens, codes, request, credsChan, errChan, server, wait, result              \* oidc
VARIABLES file, certificates, add, events, reloadCerts, done, missed                              \* certs.Manager
VARIABLES onDisk, whole, held, watching, reload, slot, listening, mailbox, interval, watchCtx     \* certs.Certificate

eVars == <<kind, envOff, version, cached, call, restarts, returned, raced>>
oVars == <<now, ctx, waitCtx, tokens, codes, request, credsChan, errChan, server, wait, result>>
mVars == <<file, certificates, add, events, reloadCerts, done, missed>>
cVars == <<onDisk, whole, held, watching, reload, slot, listening, mailbox, interval, watchCtx>>

E == INSTANCE Env
O == INSTANCE CallbackServer
M == INSTANCE Manager1
C == INSTANCE Certificate1 WITH ctx <- watchCtx

-----------------------------------------------------------------------------
ServicesInit ==
    /\ unit \in {"workers", "env", "oidc", "manager", "certificate"}
    /\ Init /\ E!Init /\ O!Init /\ M!Init /\ C!Init
    /\ unit # "env" => kind = "unset"
    /\ unit # "manager" => \A p \in Pairs : ~file[p].link
    /\ unit # "certificate" => ~interval

ServicesNext ==
    \/ unit = "workers"     /\ Next   /\ UNCHANGED <<unit, eVars, oVars, mVars, cVars>>
    \/ unit = "env"         /\ E!Next /\ UNCHANGED <<unit, vars, oVars, mVars, cVars>>
    \/ unit = "oidc"        /\ O!Next /\ UNCHANGED <<unit, vars, eVars, mVars, cVars>>
    \/ unit = "manager"     /\ M!Next /\ UNCHANGED <<unit, vars, eVars, oVars, cVars>>
    \/ unit = "certificate" /\ C!Next /\ UNCHANGED <<unit, vars, eVars, oVars, mVars>>

ServicesSpec ==
    /\ ServicesInit
    /\ [][ServicesNext]_<<unit, vars, eVars, oVars, mVars, cVars>>
    /\ Fairness /\ O!Fairness /\ C!Fairness

-----------------------------------------------------------------------------
\* env: a lookup never goes back behind what another had returned before it
\* began, but for overlapping lookups.
NeverOlder == E!NeverOlder

\* oidc: the server is shut down when its context is done; WaitForCredentials
\* returns when its own is, and when a callback has been accepted, shutdown or
\* not.
ShutsDown == O!ShutsDown

\* certs.Manager: at rest every connection is served the newest version of
\* the pair it gets.
ServedFresh == M!ServedFresh

\* certs.Certificate: while the ticker runs and the files are whole, what Get
\* returns becomes what the files hold.
TickerHeals == C!TickerHeals
=============================================================================
