# Verification of silo-pkg in TLA+

silo-pkg is the library a MinIO-compatible object store shares between its
server, its client and its console. It has no main program: it is a set of Go
packages that other programs call, some of them from many goroutines. This
directory models the packages whose correctness rests on interleavings,
failures or a subtle algorithm, checks them with TLC and proves the most
important results with TLAPS.

## 1. Inventory

| Component | State | Operations | What is hard | What makes it correct |
|---|---|---|---|---|
| `policy` (statements, policies) | statements, action index, `hasDeny`; process-wide legacy flag | parse (strict / permissive), validate, deduplicate, index, merge, `Decide`, `IsAllowedActions`, `IsAllowedSerial`, `IsAllowedPar` | index positions after deduplication; two ways of finding duplicates; conditions compared by their text; the bucket hardening of `IsAllowedPtr` with three resource forms; parallel evaluation with early exit | a loaded, stored, reloaded or merged policy decides as its documents say; a denial anywhere wins; the hardening only removes grants |
| `policy` (action catalogs, default policies) | tables | lookup | canned policies are neither validated nor indexed | they decide like any other policy |
| `policy` (bucket policies) | statements with principals | parse for a bucket, validate, deduplicate, evaluate, store | rules that differ from those of user policies at every step | an accepted policy answers as its document, also after storing |
| `policy/condition` | functions with keys and values | evaluate, print, parse | qualifiers, missing keys, equality by text | text equality implies same evaluation |
| `wildcard` | none | `Match`, `MatchSimple`, `MatchAsPatternPrefix` | one backtracking point instead of recursion | the answer of the recursive definition, in quadratic time |
| `workers` | tokens in a channel, a WaitGroup | `Take`, `Give`, `Wait` | order of the two calls in each method | at most n jobs; `Wait` covers every job |
| `sync/errgroup` | tokens, errors, first error, context | `Go`, `Wait`, `WaitErr` | first error against the cancellation it causes | complete errors, the root cause, no hang |
| `certs.Certificate2` | pair in use, event channel, subscriptions | constructor, reload goroutine, tickers, `Subscribe`, `Close` | two files replaced one after the other, dropped events, subscriptions used after the lock is released | never a mismatched pair, no update lost, `Close` returns |
| `certs.Manager2` | list in use, update and signal channels, subscriptions | SIGHUP, single reload, `Subscribe`, `Close` | a goroutine that sends to itself, lists exchanged while certificates reload | installed certificates are open, none leaks |
| `certs.Certificate` | pair in use, listeners | `Watch` (events, ticker, signals), `Reload`, `Notify`, `Stop` | several goroutines reload, each reads before it locks | with a ticker the newest pair is held in the end |
| `certs.Manager` | a certificate per pair of files, a goroutine per addition | `AddCertificate`, `ReloadCerts`, `GetCertificate`, `GetClientCertificate` | an event channel of one place shared by a whole directory; load, watch and store are separate steps | at rest the newest version is served |
| `safe` | temporary file, flags | `CreateFile`, `Write`, `Close`, `Abort` | any system call fails, crash between two | the named file is old or whole |
| `quick` | a configuration behind a lock | `Save` (backup, then `safe`), `Load` | crash or failure between backup and save, two savers of one file | backup and file are whole, the predecessor is never lost |
| `env` | a switch, a cached fallback value | `Get`, `LookupEnv`, `SetEnvOff`, `SetEnvOn` | overlapping remote lookups, failures, restarts | never back to an older value |
| `oidc` | two channels, a local server | callback handler, `WaitForCredentials`, shutdown | late, repeated or foreign callbacks; graceful shutdown with a blocked handler | the server ends with its context, the wait with its own or with accepted credentials |
| `rng` | offset, buffer, keys, shared scratch space | `Read`, `ReadAt`, `Seek`, `Reset` | borders of lanes, blocks and stream; concurrent `ReadAt` | one byte per offset, however it is reached |
| `ellipses` | none | `FindEllipsesPatterns`, `FindListPatterns`, `Expand` | patterns found from the right, labels put together backwards, widths and bases | every reading of the argument, once |
| `ilm` | a lifecycle rule | `ToILMRule`, `ApplyRuleFields` | edits in place without validation, half applied on an error | a filter accounted for by what was asked, no date beside another timer |
| `xtime`, `words`, `trie`, `cors`, `net`, `ldap`, `sftp`, `sys`, `console`, `subnet`, `licverifier`, `mimedb` | little | I/O, parsing, tables | – | – |

Interactions: `policy` matches actions and resources with `wildcard`; a server
evaluates a list of policies with `IsAllowedSerial` or `IsAllowedPar`, or merges
it first; `Manager2` subscribes to every `Certificate2` it installs and closes
the ones it replaces; `quick` writes through `safe`. `PROJECT.json` lists every
component with what is and is not modelled, and the hazards with the properties
that cover them.

## 2. Modules

| Module | Models | Kind |
|---|---|---|
| `AllowSpec` | what an evaluation of a list of policies promises | abstract specification |
| `ParEval` | `policy.IsAllowedPar`: caller, workers, channels, context | state machine, refines `AllowSpec` |
| `ParEvalProofs` | | proofs |
| `Condition` | `policy/condition`: the condition functions, read from a document, evaluated, printed, written back | operators |
| `Statement` | `statement.go`, `actionset.go`, `resource.go`, `resourceset.go` | operators |
| `CannedPolicies` | `constants.go` | operators |
| `Policy`, `PolicyProofs` | `policy.go`: load, deduplicate, index, merge, store and reload, decide | state machine, proofs |
| `BucketPolicy`, `MCPolicy` | `bucket-policy.go`, `bucket-policy-statement.go`, `principal.go` | state machine on top of `Policy`, proved about in `PolicyProofs` |
| `Glob`, `GlobProofs` | the meaning of a pattern, by position | reference definition, lemmas |
| `Wildcard` | `wildcard/match.go`, one action per branch of the loop | state machine |
| `Workers` | `workers/workers.go` | state machine |
| `ErrGroup`, `ErrGroupProofs` | `sync/errgroup/errgroup.go` | state machine, proofs |
| `Certificate2`, `Certificate2Proofs` | `certs/certificate2.go`, `certs/event.go` | state machine, proofs |
| `Manager2`, `Manager2Proofs` | `certs/manager2.go` | state machine, proofs |
| `Certificate1` | `certs/certs.go` | state machine |
| `Manager1` | `certs/manager.go`, `certs/event.go` | state machine |
| `SafeFile` | `safe/safe.go` | state machine |
| `Quick` | `quick.go`: `Save` | composition of two `SafeFile`s |
| `Env` | `env/env.go`, `env/web_env.go` | state machine |
| `CallbackServer` | `oidc/callback-server.go`, `oidc/cli-login.go` | state machine |
| `RngReader` | `rng/reader.go` | state machine |
| `Ellipses` | `ellipses/ellipses.go`, `list.go` | state machine against a reference meaning |
| `Ilm` | `ilm/ilm.go`, `ilm/parse.go` | state machine |
| `Libraries`, `MCLibraries` | `Quick`, `Wildcard`, `Ellipses`, `Ilm`, `RngReader` | gathered for one run, its inputs |
| `LibrariesProofs` | `SafeFile`, `Quick` on top of it, `Ilm`, `RngReader`, `Wildcard`, `Ellipses` | proofs |
| `Services` | `Workers`, `Env`, `CallbackServer`, `Manager1`, `Certificate1` | gathered for one run |
| `ServicesProofs` | `Workers`, `Env`, `Manager1` | proofs |

The packages gathered in `Libraries` and `Services` share no state. A
behaviour of such a run is a behaviour of one of them, picked by the variable
`unit`; the others rest in a state that satisfies their properties and enables
none of their fair actions.

Abstractions:

- *Policies for evaluation* (`AllowSpec`, `ParEval`) are their decisions: a list
  of `"deny"`, `"allow"`, `"none"`. `Policy` models what a decision is.
- *Actions* (`Statement`) stand for their namespaces. One or two actions
  represent each catalog, chosen by what the code distinguishes: object or
  bucket action, sensitive write, admin action with or without a resource, an
  action that implies another. `Covers` gives the meaning of the patterns the
  instances use. `CannedPolicies` keeps the actions so represented.
- *Names and resource patterns* are short sequences of symbols, so that `*`,
  `?`, `/`, a policy variable and the table form keep their meaning.
  `ParseResource` and `MarshalJSON` are modelled by what they do (a bare prefix
  turns into a pattern of another type), and dates are printed without their
  fraction of a second as `dateFunc.String` does.
- *Conditions* keep two forms, as in the code: what a document says (a
  qualifier, a name, a key, typed values) and the function made of it. Reading
  and writing are modelled by what they do: base64 values are decoded and
  encoded, networks masked, truth values and numbers read from several
  spellings, dates written without their fraction, a qualifier dropped by every
  function but the string ones. A text is a short sequence of symbols; a number,
  a time or an address is one symbol. Values of a request are looked up by key and,
  failing that, by header name. One key with a variable
  (`ExistingObjectTag/k`) and one key with a restricted set of values
  (server-side encryption) stand for the others of their kind.
  `NewNumericGreaterThanIfExistsFunc`, for policies built in Go, is not
  modelled: unlike the constructor used by the parser it writes the plain name,
  so what it makes is read back without "if exists".
- *Certificates* are version numbers; a certificate goes with a key of the same
  version. A list of certificates in `Manager2` is one certificate per
  generation. The file notification library is its non-blocking send on a
  channel of capacity one. Timers may run out at any moment.
- *A file* in `SafeFile` is who wrote it, how many whole chunks it has and
  whether a part of one follows. A configuration in `Quick` is the File that
  wrote it.
- *A byte* of the rng stream is the tuple of what it is computed from (seed,
  place in the buffer, subkeys, lane, block), so two bytes are equal exactly
  when the code computes them from the same things.
- *A text* in `Ellipses` is a sequence of symbols, the three dots being one of
  them; in `Ilm` a text that must be read as a number or a date is what it
  reads as, or nothing when it cannot be read.
- *Signed tokens* in `CallbackServer` are records that only the functions of the
  package make; `Env`'s HTTP request is its outcome: a value, an empty body, a
  page that is no value, or a failure.

State that exists for the properties only is marked *history* at its
declaration.

## 3. Runs

`tlc -config X.cfg M` in this directory; no run takes more than about three
minutes on two cores.

| Run | Instance | Shows |
|---|---|---|
| `par_eval` | all lists of up to 5 decisions, jobs of 2, 2 workers | the answer of the abstract specification (`Implements`), `yes` only with every job's result, no goroutine left, termination |
| `errgroup` | 3 tasks, all limits up to 2, all numbers of tracked errors, with and without a context | the limit, complete errors and all tokens back when `Wait` returns, the root cause is reported, `Wait` returns |
| `certificate2` | 2 writes of one file or of both at once, 2 versions, 1 subscriber, regular files or links | never a mismatched pair, nothing closed twice, no update lost, subscribers up to date although notifications are dropped, `Close` returns |
| `certificate2_panic` | the same | **violated**: unsubscribe or `Close` between copy and send makes the reload goroutine panic |
| `manager2` | 3 generations, 2 reloads, 2 signals, 1 subscriber | installed certificates are open, the list in use is the one loaded last until `Close`, none leaks, subscribers up to date |
| `manager2_close` | 2 signals | **violated**: `replaceCerts` waits for itself, `Close` releases nothing |
| `manager2_unsub` | 2 signals | **violated**: unsubscribe after `Close` closes the channel again |
| `policy` | 42 statements with conditions of every kind, 25 documents, the canned policies, 2 policies, 24 requests, threshold 2; bucket policies of up to three statements for three accounts | deduplication, index, merge and reload change no decision; what is listed for a console is what is allowed; the hardening only removes; a sensitive bucket write is granted by a statement that names the bucket, with one exception (section 4); strictly accepted policies survive a reload; a bucket policy answers as its document |
| `policy_merge` | two documents whose dates differ by half a second | **violated**: the merge drops a Deny that is not a duplicate |
| `libraries` | 2 Files or 2 Saves with every failure and crashes; all patterns of up to 5 and names of up to 4 symbols; arguments of up to three pieces; rules of up to three options edited twice; a stream of two blocks of two lanes and its end | `SafeFile`'s three invariants, the predecessor of a configuration is never lost, `wildcard` equals its definition in quadratic time, ellipses expand to what they mean, every predicate of an edited lifecycle rule is accounted for by what was asked, every read of the stream is exact |
| `services` | 3 jobs on 2 tokens; 2 lookups, 2 values, 1 restart; 2 callbacks; 2 pairs of files and 2 additions, one rewrite each; one rewrite under three reloading goroutines | the limit and `Wait` of `workers`, no lookup goes back to an older value, the local server shuts down and accepted credentials arrive, at rest the newest certificate is served, a ticker repairs what races have spoilt |
| `rng_readat` | 2 concurrent calls of `ReadAt` | **violated**: one call delivers the other's bytes |

Every property has a mutant: a definition changed as a plausible bug would
change it, under which the run finds the property violated. They stand before
the definition they replace, marked *Mutant*.

Bounds. Two workers over three jobs give every relation between jobs and
workers (a worker with two jobs, a partial last job, a denial in any of them).
The policy threshold of 10 is the constant `ManyStatements`; 2 makes documents
of three statements take the hashing path. Five symbols of pattern hold two
stars with a segment between them and a `?` after either, which is where one
backtracking point could go wrong. The event channels have the capacity of the
code (1), and two writes suffice to fill one while an event is being handled.
Two writes of single files make one reload, since a pair must go together; two
exchanges of the directory behind links (`Relink`) make two, of which the second
finds the subscriber's callback running or its channel still full. In `Manager2`
a load on SIGHUP succeeds, fails or finds no certificate.
With two Files in `SafeFile` each can fail or succeed around the other; with two
Saves in `Quick` the second replaces what the first has written. Lanes of three
bytes and buffers of two lanes keep every relation between a read and the
borders of lane, buffer and stream; the code has 32 and 16384. Two edits after a
creation let a prefix go to `And` and come back. Time in `CallbackServer` has
two values: a token is fresh or expired. Two pairs in one directory are what it
takes for an event of one to hide the other's.

Fairness. Goroutines that can run are run (weak fairness), which the Go
scheduler guarantees. Strong fairness is assumed where several goroutines
compete for one channel or token (`ErrGroup` tasks, a ticker's send,
`SelectClose` against other ready cases): Go queues blocked senders and
receivers first in first out, and `select` chooses among ready cases at random.
In `Certificate1` the ticker ticks. Nothing is assumed of callers, writers,
signals, browsers or subscribers.
`CHECK_DEADLOCK FALSE` is used where the system really comes to rest.

## 4. Findings

Each is a `violation` run; `PROJECT.json` quotes the comment it contradicts.

1. `Certificate2` sends to copied subscriptions after releasing the lock; an
   unsubscribe or `Close` in between closes the channel and the send panics.
   (`Manager2` has the same shape; there it is modelled, not run again.)
2. `Manager2.replaceCerts` sends to the one-slot channel its own goroutine
   reads. If an update waits in it, the goroutine blocks for ever.
3. `Manager2` closes subscriptions on `Close` and leaves them in the list.
4. `MergePolicies` takes conditions for equal that differ in the fraction of a
   second of a date.
5. `rng.Reader` promises concurrent `ReadAt`; unaligned calls share `r.tmp`.

Met while modelling, without a run of their own:

- `policy/condition`: a statement may hold `IpAddress` (or `Null`, `Bool`, a
  number, a date) for one key both plain and with a qualifier. The qualifier is
  accepted and dropped, both functions are enforced, but
  `Functions.MarshalJSON` writes them under one name, the later over the
  earlier, so a reload loses one of them. The documents of the `policy` run
  leave such pairs out; with one of them `LoadKeepsDecisions` is violated after
  `Reload`. For the same reason two equal functions may meet in one statement,
  where they cancel in its hash.
- Bucket policies: a statement with `NotAction` is accepted but cannot be
  written, because its empty `Action` is marshalled too and refuses
  (`bucket-policy-statement.go:31`). The resource `b?` is accepted for bucket
  `b`, in which it matches nothing.
- `constants.go:253` says of `tablesReadWrite` that it has no DDL; line 286
  grants `CreateTable`.
- `errgroup`: the comment on line 92 says that goroutines waiting for execution
  are cancelled with the context; the `select` takes a free token as readily.
- `certs.Manager`: an event of another file of the directory takes the only
  place in the event channel and hides that of the watched file; a write
  between the first load and the watch is missed; a certificate stays installed
  though `AddCertificate` fails to watch it; a reload does not check for IP
  SANs, while adding the default certificate again with IP SANs is refused.
  `GetClientCertificate` returns an error where its comment promises the
  certificate of the Public file.
- `certs.Certificate`: without a ticker a reload that read first and stored last
  leaves the older pair in use; a listener whose channel is full misses the
  newest certificate.
- `quick`: two config objects that save the same file can lose a configuration
  from both the file and its backup.
- `safe`: after a failed `Chmod` or `Write` the descriptor stays open until the
  garbage collector closes it.
- `env`: the status of the HTTP response is not looked at, so the page of an
  error becomes the value and its fallback; of two overlapping lookups the older
  value may be kept.
- `certs.Manager2`: `loadCerts` may return an empty list and no error (also to
  `NewManager2`); it is installed, and the manager is without certificates
  though nobody called `Close`. `ServesLatest` allows for it.
- `policy`: a pattern that covers an S3 action and an admin action, such as
  `*Policy`, makes the statement an admin one whose resources are not looked at
  (`statement.go:250`). With resource `b/*` it grants `s3:PutBucketPolicy` on
  `b`, while `statement.go:77-79` says that an object-only pattern must not be
  honoured as a bucket-level grant. `SensitiveNeedsBucketPattern` names this
  exception (`CountsAsAdmin`); the documents of the run hold such a statement.
- `oidc`: after a second valid callback a handler waits for ever; only the
  five seconds of the shutdown end the server. The end of the server's context
  does not end `WaitForCredentials`, which looks at its own: called with another
  context it waits on, though no browser can reach the server any more.
- `rng`: a `Seek` outside of the stream returns an error and moves all the same;
  `Read` then panics, as does `ReadAt` behind the end.
- `ilm`: a single tag stays in `Tag` when tags are edited, although
  `ilm.go:178` says that tags override; beside it an edited prefix is put in the
  `Prefix` field, although `ilm.go:181` wants it under `And` when there are tags;
  an edit ignores its sizes; `ExpiryDays` does not reset the delete marker,
  although `ilm.go:229` says it resets everything else; negative expiry days are
  accepted, and an edit that fails has already changed the rule.
  `RuleAsAsked` says what the code does in each of these cases.
- `ellipses`: `{10...1a}` reads its first number as decimal and prints it as
  hexadecimal; a range that ends at 2^64-1 never ends.

## 5. Proofs

`tlapm M.tla` checks each. The theorems hold for every value of the constants.
Those on packages that share a run are about each package's own specification,
of which the run's behaviours are restrictions.

- **`ParEvalProofs`** assumes `PerWorker` and `Procs` positive. `Refinement`:
  `IsAllowedPar` implements `AllowSpec` (an `INSTANCE` in which the answer is
  pending until the caller has returned), so parallel evaluation answers as the
  serial one for any number of policies and workers. The invariant is needed
  because neither the answer nor the count of results says which jobs were
  seen: every job number taken is held by one worker, or queued, or received,
  exactly once; a result that left a worker is the decision of its whole job;
  `gotAllow` and the caller's place summarise the received jobs. With the
  count of results equal to the number of jobs, a counting lemma (`AllJobs`)
  says that all were seen; `Cover` and `Within` say that the jobs cut the list
  without gap or overlap, from facts on rounded-up division.
  `NothingSkipped` and `NoLeak` follow from the same invariant.
- **`ErrGroupProofs`** assumes that the numbers of tasks and of tokens are
  natural. A token is in the channel or with one goroutine (`Conserved`), hence
  `Limit`. What a goroutine has recorded follows from its place (`Recorded`),
  which gives `WaitComplete` once all are done; nobody holds a token then. `RootCause` says something of
  the end only; what makes it inductive is that `firstErr` is claimed by a
  tracked failure before any error is stored and before the context is
  cancelled (`FirstFailed`, `FirstSet`, `CausedByFailure`), so that a goroutine
  that sees the cancellation finds the claim taken. `Cause` is the theorem.
- **`Certificate2Proofs`** assumes natural bounds. For `ClosedOnce` a channel
  must be in one pair of hands: every channel in a list is open and in it once,
  and the list that `Close` has taken shares none with the list that
  unsubscribe searches (`ClosedByOne`); `Close` begins after the constructor, so
  the watchers it has waited for are all there will be (`ConstructedFirst`,
  `WatchersGone`). `PairGoes`: whatever is stored went through the comparison.
- **`Manager2Proofs`** assumes natural bounds. The invariant says what each
  place of the goroutine knows: what it is about to install is open, newest and
  not installed (`Pending`); once exchanged, the old list is another one and
  still open (`Exchanged`); a goroutine on its way out has emptied the manager
  or is about to (`LeavesCleared`). `ServesOpen`, `ServesLastLoaded` and
  `NoCertificateLeaked` follow. `ServesLastLoaded` covers loads that find nothing.
- **`PolicyProofs`** assumes that requests name buckets without a slash, as the
  server does, that a key of a request has a value, and that documents have the
  types JSON is decoded to.
  *Index and hardening.* Whatever documents there are, every policy is `Sound`:
  its index points to Allow statements that name the action and `hasDeny` is
  exact (`IndexesSound`). This is kept because `updateActionIndex` is sound for
  any statements (`IndexBuilt`), the canned policies have neither index nor Deny,
  and a merge rebuilds or returns what it was given. `HardeningRemoves` needs
  `Sound`: it turns `Decide` into "some Deny applies, some Allow applies"
  (`DecidedByAllow`), so the index can be left out of the argument, and then
  shows of one statement that the flag is ignored except for the resources of
  sensitive bucket writes, of which it withholds some forms (`FlagIgnored`,
  `FormsWithheld`, `HardenedApplies`). `SensitiveWrites` uses that a slash of a
  pattern must be in the name it matches (`SymbolNeeded` of `GlobProofs`), also
  after variables have been replaced, so a pattern with one matches no bare
  bucket; its invariant `VInv` says that validation has kept statements to one
  kind of action, which excludes the kinds whose resources are not matched but
  for the exception of section 4.
  *Decisions.* `LoadsKeepDecisions`, `MergesKeepAnswers`,
  `StrictPoliciesSurvive` and `BucketsKeepDecisions` suppose `Clear` (of bucket
  policies `BucketClear`): in every document that can be read, dates have whole
  seconds and no statement holds two conditions that have the same name and key
  once dropped qualifiers are gone. Both parts are needed: without the first the
  `policy_merge` run finds a violation, without the second a reload loses a
  condition (section 4). TLC evaluates the hypothesis on the documents of the
  `policy` run (`MCDocsUnambiguous`, `MCBucketDocsUnambiguous`), whose other
  variety the hypothesis is not about. The argument goes from the bottom up. A
  condition that has been read has one of a few forms (`Func`), its text is read
  back as a condition that compares the same (`RoundTrip`), and two conditions
  with one text compare the same (`TextTells`). So statements that `Equals`, a
  hash or a reload takes for the same apply to the same requests
  (`ApplyAlike`), and of two lists in which every statement has its like in the
  other some Deny, or some Allow, applies in both or in neither
  (`MirrorsApply`). Removal of duplicates is stated by the positions that stay
  (`Staying`), which gives such lists. The invariant `FInv` says that every
  loaded policy mirrors its document and what was merged is the merge of the
  policies it came from; `BInv` says the same of the bucket's policy.
  `BucketPoliciesApart` (`BSpec => Spec`) carries the theorems over to a server
  with both kinds, which is what the run checks.
- **`ServicesProofs`** has three parts.
  *workers* (`N` positive, finitely many jobs): tokens in the channel plus jobs
  at work are always `N`, and the WaitGroup counts exactly the active jobs;
  hence `Limit` and `WaitSound`.
  *env* (no assumptions): only a remote value is cached (`OnlyRemote`), nobody
  holds a newer version than the server (`NothingNewer`), and without a race the
  cached value is not behind what was returned (`NotBehind`); hence
  `LookupsNeverOlder`.
  *certs.Manager* (the default pair is one of the pairs, "none" is not): the
  property speaks of moments of rest only, so the invariant says of every moment
  that a stale certificate is known to be stale, by a pending store, a waiting
  event or a missed one (`StaleIsDirty`), which needs that a watcher without
  event has read the newest version (`SeesNewest`). `ServesFresh` follows, and
  with `DefaultFirst` that there is always a certificate to serve.
- **`GlobProofs`** holds lemmas only. `From` computes, for each number of last
  symbols of a pattern, the places of the name from which they match. That this
  recursive function exists and is what its recursion says (`FromRows`) is shown
  by induction on its length, carried out with the least natural number of a set
  (`LeastNat`, `UpTo`, `Iterates`), since schemes with an operator as parameter
  are out of reach. From it come the rows by symbol (`AfterStar`,
  `AfterOther`), segments without a star (`SegmentWalk`, `WalkBack`) and
  symbols that stand for themselves (`SymbolNeeded`).
- **`LibrariesProofs`** has six parts.
  *safe* (nobody is not a File): `NamedIntact`, `AnswersTrue` and `NothingLeft`.
  The strengthening says that a temporary file which can still be renamed is
  whole (after any failure its File is no longer in use) and that the File whose
  content is in use is closed and so writes no more. The type invariant is
  inductive only together with these, because the length of a file is bounded by
  what its File has written; it is part of `Inductive`.
  *quick* (as *safe*): `QuickImplementsSafe` shows that every step on
  the configuration file is a step or a stutter of `SafeFile`, so its theorems
  hold there. `AlwaysRecoverable` adds that the backup file is whole and that
  of one config it holds what the present configuration replaced. The
  invariant follows one Save through its stages: it has read the present
  configuration, has it in the backup once that is closed, and keeps it there
  until the rename (`Chain`); the lock makes it the only one (`OneSave`).
  *ilm* (no assumptions): `RuleAsAsked` is inductive with the shape of the
  rule. The lemmas take the edits of `ApplyRuleFields` one at a time: tags,
  prefix (`TagsShown`, `PrefixShown`), what they leave alone (`OthersKept`),
  timers, the rest; an error stops between two of them.
  *rng* (`OneAtATime`: lanes positive, the buffer a whole number of lanes, and no
  overlapping calls, which the `rng_readat` run shows to be needed): a call under
  way has delivered the stream up to its position (`Underway`), and between
  filling and copying `r.tmp` holds the lanes around it (`Filled`). That the
  bytes taken from the scratch space or straight from the buffer are those of
  the stream rests on lemmas on division (`LaneOfPlace`, `OneFurther`,
  `LaneFits`, `Aligned`).
  *wildcard* (bounds natural, otherwise arbitrary): every iteration moves
  (`mark`, `p`) up in lexicographic order, so `steps` is at most
  `mark * (P + 1) + p`; `WorkBounded`. `MatchRight`: the answer is that of `Glob`
  for every length. The invariant is the reason why one backtracking point is
  enough (`OnePoint`): the pattern matches the name exactly if its rest matches
  from the present place, or its rest behind the last star from a later place
  than the mark; what an earlier star could still do the last one can do too,
  because a segment that has matched once need not match further to the right.
  For `MatchSimple` it also says that the look ahead at a star has failed.
  *ellipses* (arguments are sequences): `RefusedRight`, the first half of
  `ExpandsToMeaning`: exactly the arguments without a reading are refused,
  though the code only ever sees the part before the patterns it has found and
  looks for stray braces in prefixes and suffixes. A pattern depends on nothing
  behind it (`StartEnds`) and two do not overlap (`Apart`), so cutting before
  the last one neither makes nor destroys another (`Left`); the invariant says
  that the patterns behind the cut can be read and that the suffixes hold the
  loose braces behind it (`Behind`).

Type invariants are stated for the proofs; the runs are spent on the rest.

Only model-checked:

- all liveness (termination of `ParEval`, `Workers`, `ErrGroup`, the `certs`
  properties about what eventually happens, the shutdown of `oidc`), which is
  out of the prover's reach;
- the second half of `ExpandsToMeaning`: what `Expand` lists is put together by
  folds over digits and over the product of all ranges, and its equality with
  the reference needs induction over each of them;
- that the documents used in practice are `Clear`.

## 6. Not modelled, and plan

What is left to prove: the second half of `ExpandsToMeaning`, by stating the
labels of a range by position instead of folds.

Left out, with the reason: generated tables (`mimedb`); system calls (`sys`,
socket options of `net`, the reading of CA directories in `certs`); terminal
output behind one mutex (`console`); cryptography (`licverifier`, `sftp`);
network clients (`ldap`, `subnet`); parsers and small sequential helpers whose
unit tests reach their cases (`net` hosts and URLs, `cors`, `xtime`, `words`,
`trie`, `randreader`); the readers of JWT claims in `policy`; the encodings of
`quick` and its etcd store. A power failure (as opposed to the crash of a
process) is outside `SafeFile`, because what survives it depends on the file
system.
