---------------------------- MODULE BucketPolicy ----------------------------
(***************************************************************************)
(* policy/bucket-policy.go, bucket-policy-statement.go and principal.go:   *)
(* the policy attached to a bucket.  Its statements have principals, and   *)
(* rules of their own: every action is checked against the resources, no   *)
(* action is checked for being known, a bucket is matched without a        *)
(* trailing slash, and every resource must reach into the bucket.          *)
(*                                                                         *)
(* A bucket policy is parsed on a server that has no other policy yet: the *)
(* two do not share state.                                                 *)
(***************************************************************************)
EXTENDS Policy

CONSTANTS BucketDocs,      \* documents: sequences of statements with a principal
          BucketRequests,  \* BucketPolicyArgs
          BucketName       \* the bucket the policy is for

ASSUME BucketDocsAssumption ==
    \A doc \in BucketDocs : IsDocument(doc) /\ \A i \in DOMAIN doc : "principal" \in DOMAIN doc[i]

VARIABLE attached  \* [doc, statements]: the bucket's policy; doc is history

bucketVars == <<vars, attached>>

\* Principal.Match.
PrincipalMatch(principal, account) == \E pattern \in principal : MatchesSimple(pattern, account)

\* The closure check() of BPStatement.IsAllowed.
BPApplies(st, args) ==
    LET resource == args.bucket \o
            IF args.object = <<>> THEN <<>> ELSE (IF Head(args.object) = "/" THEN args.object ELSE Slash \o args.object)
    IN  /\ PrincipalMatch(st.principal, args.account)
        /\ st.actions = {} \/ ActionsMatch(st.actions, args.action)
        /\ ~ActionsMatch(st.notActions, args.action)
        /\ st.resources = {} \/ ResourcesMatch(st.resources, resource, args.values)
        /\ ~ResourcesMatch(st.notResources, resource, args.values)
        /\ Evaluate(st.conditions, args.values)

\* BucketPolicy.IsAllowed: every Deny, the owner, then any Allow.
BPIsAllowed(statements, args) ==
    LET applies(effect) == \E i \in DOMAIN statements : statements[i].effect = effect /\ BPApplies(statements[i], args)
    IN  ~applies("Deny") /\ (args.isOwner \/ applies("Allow"))

IsObjectAction(a) == Covers(a) \cap S3ObjectActions # {}

\* BPStatement.isValid.  Whichever of Resource and NotResource there is has to
\* have a pattern of the kind each action needs.
BPisValid(st) ==
    /\ st.principal # {}
    /\ (st.actions = {}) # (st.notActions = {})
    /\ (st.resources = {}) # (st.notResources = {})
    /\ \A a \in st.actions :
          /\ \E r \in AllResources(st) : IF IsObjectAction(a) THEN IsObjectPattern(r) ELSE IsBucketPattern(r)
          /\ \A key \in Keys(st.conditions) : key.name \in Lookup(a)

\* Resource.ValidateBucket: the pattern matches the bucket's name, or something
\* in the bucket.  Variables are not substituted.
ValidateBucket(r) ==
    ResourceValid(r) /\ (Matches(r.pattern, BucketName) \/ Begins(r.pattern, BucketName \o Slash))

\* Mutant: the principals are not compared.
BPEqualsAnyone(s, t) == Equals(s, t)

\* BPStatement.Equals.
BPEquals(s, t) == Equals(s, t) /\ s.principal = t.principal

\* ParseBucketPolicyConfig: decoded, found valid, rid of duplicates, and
\* validated for the bucket.
ParsesFor(doc) ==
    /\ Decodes(doc)
    /\ \A i \in DOMAIN doc : BPisValid(Decoded(doc)[i]) /\ \A r \in AllResources(doc[i]) : ValidateBucket(r)

dropDuplicateBPStatements(statements) == DropDuplicates(statements, BPEquals)

ParseBucketPolicyConfig(doc) ==
    /\ loaded = <<>> /\ attached.doc = <<>>
    /\ ParsesFor(doc)
    /\ attached' = [doc |-> doc, statements |-> dropDuplicateBPStatements(Decoded(doc))]
    /\ UNCHANGED vars

\* BucketPolicy.MarshalJSON refuses what is not valid, and an empty set of
\* actions: a statement with NotAction cannot be written.
BPMarshals(statements) ==
    \A i \in DOMAIN statements :
        /\ BPisValid(statements[i])
        /\ statements[i].actions # {}
        /\ \A r \in AllResources(statements[i]) : ResourceValid(r)

\* The bucket's policy is stored and read again.
ReloadBucketPolicy ==
    /\ attached.doc # <<>> /\ BPMarshals(attached.statements)
    /\ LET text == MarshalJSON(attached)
       IN attached' = [attached EXCEPT !.statements = IF ParsesFor(text) THEN dropDuplicateBPStatements(Decoded(text)) ELSE <<>>]
    /\ UNCHANGED vars

BInit == Init /\ attached = [doc |-> <<>>, statements |-> <<>>]

BNext ==
    \/ attached.doc = <<>> /\ Next /\ UNCHANGED attached
    \/ \E doc \in BucketDocs : ParseBucketPolicyConfig(doc)
    \/ ReloadBucketPolicy

BSpec == BInit /\ [][BNext]_bucketVars

-----------------------------------------------------------------------------
\* A bucket policy that was accepted answers every request as its document
\* says, for every account: neither the removal of duplicates nor storing it
\* and reading it again loses a statement or a principal.
BucketKeepsDecisions ==
    attached.doc # <<>> => \A args \in BucketRequests :
        LET denied == \E i \in DOMAIN attached.doc : attached.doc[i].effect = "Deny" /\ BPApplies(Decoded(attached.doc)[i], args)
            granted == \E i \in DOMAIN attached.doc : attached.doc[i].effect = "Allow" /\ BPApplies(Decoded(attached.doc)[i], args)
        IN  BPIsAllowed(attached.statements, args) <=> ~denied /\ (args.isOwner \/ granted)
=============================================================================
