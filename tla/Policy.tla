------------------------------- MODULE Policy -------------------------------
(***************************************************************************)
(* policy/policy.go: a server loads policy documents (ParseConfig, or      *)
(* ParseConfigStrict for new ones), drops duplicate statements, indexes    *)
(* the rest, may merge what it has loaded into one policy, stores policies *)
(* and loads them again, and decides requests with them.                   *)
(***************************************************************************)
EXTENDS CannedPolicies

CONSTANTS Docs,         \* documents: sequences of statements
          Requests,     \* Args
          MaxPolicies,  \* bound: policies loaded
          ManyStatements  \* above this number duplicates are found by hash (10 in the code)

ASSUME MaxPoliciesAssumption == MaxPolicies \in Nat
ASSUME ManyStatementsAssumption == ManyStatements \in Nat
\* What stands before the first slash of a request's path is the bucket.
ASSUME RequestsAssumption ==
    \A args \in Requests : args.bucket \in Seq(STRING) /\ \A i \in DOMAIN args.bucket : args.bucket[i] # "/"
\* A key of a request has at least one value.
ASSUME ValuesAssumption ==
    \A args \in Requests : \A key \in DOMAIN args.values : args.values[key] \in Seq(Seq(STRING)) \ {<<>>}
\* Documents are of the types that JSON is decoded to.
ASSUME DocsAssumption == \A doc \in Docs : IsDocument(doc)

VARIABLES loaded,  \* [doc, strict, policy]; doc is history
          merged,  \* [of, policy]: MergePolicies of the first so many
          legacy   \* legacyBucketResourceMatch

vars == <<loaded, merged, legacy>>

-----------------------------------------------------------------------------
(* Duplicates and the index *)

\* The places that stay of the first n, where same relates a place to those
\* that repeat it: one goes when an earlier one that stays is the same.
Staying(n, same) ==
    LET stay[m \in 0..n] ==
            IF m = 0 THEN <<>>
            ELSE LET before == stay[m - 1]
                 IN  IF \E i \in DOMAIN before : <<before[i], m>> \in same THEN before ELSE Append(before, m)
    IN  stay[n]

DropDuplicates(statements, Same(_, _)) ==
    LET places == DOMAIN statements
        stay   == Staying(Len(statements), {pair \in places \X places : Same(statements[pair[1]], statements[pair[2]])})
    IN  [i \in DOMAIN stay |-> statements[stay[i]]]

\* Mutant: the conditions are not compared.
dropDuplicateStatementsAny(statements) == DropDuplicates(statements, SameParts)

\* Few statements are compared, many are hashed.
dropDuplicateStatements(statements) ==
    IF Len(statements) <= ManyStatements
    THEN DropDuplicates(statements, Equals)
    ELSE DropDuplicates(statements, SameHash)

\* Patterns are not indexed, nor are the actions of Deny statements.
IndexedActions(statements) ==
    {a \in UNION {statements[i].actions : i \in {j \in DOMAIN statements : statements[j].effect = "Allow"}} : ~HasWildcard(a)}

\* updateActionIndex.
updateActionIndex(statements) ==
    [statements |-> statements,
     index |-> [a \in IndexedActions(statements) |->
                   {i \in DOMAIN statements : statements[i].effect = "Allow" /\ a \in statements[i].actions}],
     hasDeny |-> \E i \in DOMAIN statements : statements[i].effect = "Deny"]

\* The statements of a document with their conditions as functions.
Decoded(doc) == [i \in DOMAIN doc |-> [doc[i] EXCEPT !.conditions = UnmarshalConditions(@)]]

\* A document with a condition that cannot be read is refused.
Decodes(doc) == \A i \in DOMAIN doc : \A j \in DOMAIN doc[i].conditions : Parses(doc[i].conditions[j])

\* Mutant: the index is built before the duplicates go.
UnmarshalJSONIndexFirst(doc) ==
    [updateActionIndex(Decoded(doc)) EXCEPT !.statements = dropDuplicateStatements(Decoded(doc))]

UnmarshalJSON(doc) == updateActionIndex(dropDuplicateStatements(Decoded(doc)))

\* Mutant: only the first policy is merged.
MergePoliciesFirst(policies) == policies[1]

\* One policy is returned as it is.
MergePolicies(policies) ==
    IF Len(policies) = 1 THEN policies[1]
    ELSE updateActionIndex(
             DropDuplicates(FlattenSeq([i \in DOMAIN policies |-> policies[i].statements]), SameHash))

-----------------------------------------------------------------------------
(* Decisions *)

\* Decide: every Deny, then the callers that need no Allow, then the indexed
\* statements, then all of them.
Decide(policy, args, flag) ==
    LET st == policy.statements
    IN  IF \E i \in DOMAIN st : st[i].effect = "Deny" /\ ~IsAllowedPtr(st[i], args, flag) THEN "deny"
        ELSE IF args.denyOnly \/ args.isOwner THEN "allow"
        ELSE IF \/ /\ args.action \in DOMAIN policy.index
                   /\ \E i \in policy.index[args.action] :
                         st[i].effect = "Allow" /\ IsAllowedPtr(st[i], args, flag)
                \/ \E i \in DOMAIN st : st[i].effect = "Allow" /\ IsAllowedPtr(st[i], args, flag)
        THEN "allow"
        ELSE "none"

IsAllowed(policy, args, flag) == Decide(policy, args, flag) = "allow"

\* HasDenyStatement: the flag, or for policies built in Go a look.
HasDenyStatement(policy) ==
    policy.hasDeny \/ \E i \in DOMAIN policy.statements : policy.statements[i].effect = "Deny"

\* IsAllowedActions: what a console shows a user.  The self-service action is
\* taken to be allowed unless it is denied.
ListedArgs(a, args) == [args EXCEPT !.action = a, !.denyOnly = (a = "admin:CreateServiceAccount"), !.isOwner = FALSE]
IsAllowedActions(policy, args, flag) ==
    {a \in S3Actions \cup AdminActions \cup KMSActions : IsAllowed(policy, ListedArgs(a, args), flag)}

\* IsAllowedSerial: the loop returns false at the first denial.
IsAllowedSerial(policies, args, flag) ==
    LET decision(i) == Decide(policies[i], args, flag)
    IN  /\ \A i \in DOMAIN policies : decision(i) # "deny"
        /\ \E i \in DOMAIN policies : decision(i) = "allow"

-----------------------------------------------------------------------------
(* Storing and loading *)

\* Nothing merged yet: the zero Policy.
Unmerged == [of |-> 0, policy |-> updateActionIndex(<<>>)]

Init ==
    /\ loaded = <<>>
    /\ merged = Unmerged
    /\ legacy \in BOOLEAN

Load(doc, strict) ==
    /\ Len(loaded) < MaxPolicies
    /\ Decodes(doc)
    /\ LET policy == UnmarshalJSON(doc)
       IN  /\ \A i \in DOMAIN policy.statements :
                  IF strict THEN isValidStrict(policy.statements[i]) ELSE isValid(policy.statements[i])
           /\ loaded' = Append(loaded, [doc |-> doc, strict |-> strict, policy |-> policy])
    /\ UNCHANGED <<merged, legacy>>

\* A canned policy is used as it is: neither checked nor indexed.
UseDefault(statements) ==
    /\ loaded = <<>> /\ MaxPolicies > 0
    /\ loaded' = <<[doc |-> statements, strict |-> TRUE,
                    policy |-> [statements |-> statements, index |-> [a \in {} |-> {}], hasDeny |-> FALSE]]>>
    /\ UNCHANGED <<merged, legacy>>

\* A policy with an error is not used.
ParseConfig(doc) == Load(doc, FALSE)
ParseConfigStrict(doc) == Load(doc, TRUE)

Policies == [i \in DOMAIN loaded |-> loaded[i].policy]

Merge ==
    /\ loaded # <<>>
    /\ merged' = [of |-> Len(loaded), policy |-> MergePolicies(Policies)]
    /\ UNCHANGED <<loaded, legacy>>

\* "Call it once during startup": before anything is loaded.
SetLegacyBucketResourceMatch ==
    /\ loaded = <<>>
    /\ legacy' = ~legacy
    /\ UNCHANGED <<loaded, merged>>

\* Marshalling fails for a resource that is not valid.
Marshals(policy) ==
    \A i \in DOMAIN policy.statements : \A r \in AllResources(policy.statements[i]) : ResourceValid(r)

\* A resource is written as its prefix and its pattern, and read by
\* ParseResource.
MarshalJSON(policy) ==
    LET text(resources) == {ParseResource(r.type, r.pattern) : r \in resources}
    IN  [i \in DOMAIN policy.statements |->
            [policy.statements[i] EXCEPT !.conditions = MarshalConditions(@),
                                         !.resources = text(@), !.notResources = text(@)]]

\* A stored policy is loaded again, by the permissive path; one that cannot be
\* read or is not valid is lost.  What was merged is computed anew.
Reload(i) ==
    /\ Marshals(loaded[i].policy)
    /\ LET text   == MarshalJSON(loaded[i].policy)
           policy == UnmarshalJSON(text)
       IN  loaded' = IF Decodes(text) /\ \A j \in DOMAIN policy.statements : isValid(policy.statements[j])
                     THEN [loaded EXCEPT ![i].policy = policy]
                     ELSE RemoveAt(loaded, i)
    /\ merged' = Unmerged
    /\ UNCHANGED legacy

Next ==
    \/ \E doc \in Docs : ParseConfig(doc) \/ ParseConfigStrict(doc)
    \/ \E statements \in DefaultPolicies : UseDefault(statements)
    \/ Merge \/ SetLegacyBucketResourceMatch
    \/ \E i \in DOMAIN loaded : Reload(i)

Spec == Init /\ [][Next]_vars

-----------------------------------------------------------------------------
AllPolicies == {loaded[i].policy : i \in DOMAIN loaded} \cup {merged.policy}

\* The index points into the statements that are left after duplicates have
\* gone, to Allow statements that name the action, and hasDeny is exact: an
\* index that is off grants by the wrong statement or ends in a panic.
IndexSound ==
    \A policy \in AllPolicies :
        /\ \A a \in DOMAIN policy.index : \A i \in policy.index[a] :
              /\ i \in DOMAIN policy.statements
              /\ policy.statements[i].effect = "Allow" /\ a \in policy.statements[i].actions
        /\ HasDenyStatement(policy) = policy.hasDeny

\* The decision by the document as it was written, without index or removal
\* of duplicates.
DocDecides(doc, args, flag) ==
    LET applies(effect) == \E i \in DOMAIN doc : doc[i].effect = effect /\ Applies(Decoded(doc)[i], args, flag)
    IN  IF applies("Deny") THEN "deny"
        ELSE IF args.denyOnly \/ args.isOwner \/ applies("Allow") THEN "allow" ELSE "none"

\* Dropping duplicates, the index and a reload from storage change no
\* decision: a loaded policy decides as its document says.
LoadKeepsDecisions ==
    \A i \in DOMAIN loaded : \A args \in Requests :
        Decide(loaded[i].policy, args, legacy) = DocDecides(loaded[i].doc, args, legacy)

\* MergePolicies changes no answer: the merged policy allows what the
\* evaluation of the single policies allows, and the actions listed for it are
\* those.  (Of no policy at all nothing is merged: there an owner is allowed by
\* Decide and refused by the loop.)
MergeKeepsAnswers ==
    merged.of > 0 => \A args \in Requests :
        LET single == SubSeq(Policies, 1, merged.of)
        IN  /\ IsAllowed(merged.policy, args, legacy) <=> IsAllowedSerial(single, args, legacy)
            /\ args.action = "s3:ListBucket" =>
                  IsAllowedActions(merged.policy, args, legacy)
                      = {a \in S3Actions \cup AdminActions \cup KMSActions : IsAllowedSerial(single, ListedArgs(a, args), legacy)}

\* "this hardening must only ever remove a grant, never create one", and "no
\* Deny is ever weakened": against the legacy matching a decision can only
\* go from allow to none.
HardeningOnlyRemoves ==
    \A policy \in AllPolicies : \A args \in Requests :
        LET now == Decide(policy, args, FALSE) before == Decide(policy, args, TRUE)
        IN now = before \/ (now = "none" /\ before = "allow")

\* The pattern that covers the write covers an admin action too, and no pattern
\* of the statement one of the admin actions on a bucket: the statement counts
\* as an admin one and its resources are not looked at.
CountsAsAdmin(st, action) ==
    (\E a \in st.actions : AdminValid(a) /\ action \in Covers(a)) /\ ~hasAdminResource(st)

\* "an object-only resource pattern must not be honored as a bucket-level
\* grant": without the flag, a sensitive write to a bucket that is allowed is
\* granted by an Allow statement that applies to it and that names the bucket by
\* a pattern without a slash, or names no resources (but exclusions).  That is
\* what the hardening was written for, and the code keeps it with one exception,
\* which the comment does not make: a statement that counts as an admin one,
\* such as "*Policy" on "b/*", grants the write through an object-only pattern.
SensitiveNeedsBucketPattern ==
    \A policy \in AllPolicies : \A args \in Requests :
        /\ Sensitive(args.action) /\ args.bucket # <<>> /\ args.object = <<>>
        /\ ~args.isOwner /\ ~args.denyOnly
        /\ IsAllowed(policy, args, FALSE)
        => \E i \in DOMAIN policy.statements :
              LET st == policy.statements[i]
              IN  /\ st.effect = "Allow" /\ Applies(st, args, FALSE)
                  /\ \/ \E r \in st.resources : ~Contains(r.pattern, "/") /\ ResourceMatch(r, args.bucket, args.values)
                     \/ st.resources = {}
                     \/ CountsAsAdmin(st, args.action)

\* A policy accepted by the strict rules is accepted by the permissive ones
\* after it has been stored: no reload loses it.
StrictSurvives ==
    [][\A i \in DOMAIN loaded : loaded[i].strict =>
          \E j \in DOMAIN loaded' : loaded'[j].doc = loaded[i].doc]_vars
=============================================================================
