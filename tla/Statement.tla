----------------------------- MODULE Statement -----------------------------
(***************************************************************************)
(* policy/statement.go with actionset.go, resource.go and resourceset.go:  *)
(* when a statement applies to a request, which statements are valid, and  *)
(* when two of them are taken to be the same.                              *)
(*                                                                         *)
(* Actions stand for their namespaces: each namespace is represented by    *)
(* the actions its code treats differently.  Names and resource patterns   *)
(* are sequences of symbols; the words "bucket" and "table" and a policy   *)
(* variable are one symbol each.                                           *)
(***************************************************************************)
EXTENDS Condition

-----------------------------------------------------------------------------
(* Actions *)

S3ObjectActions  == {"s3:GetObject", "s3:GetObjectVersion", "s3:PutObject"}
S3BucketActions  == {"s3:ListBucket", "s3:DeleteBucket"}
S3Actions        == S3ObjectActions \cup S3BucketActions
AdminActions     == {"admin:ServerInfo", "admin:SetBucketQuota", "admin:CreateServiceAccount"}
STSActions       == {"sts:AssumeRole"}
KMSActions       == {"kms:CreateKey"}
TableActions     == {"s3tables:GetTableData", "s3tables:PutTableData", "s3tables:GetTable"}
VectorsActions   == {"s3vectors:GetVectors"}
RequestActions   == S3Actions \cup AdminActions \cup STSActions \cup KMSActions \cup TableActions \cup VectorsActions

\* Action.Match: the requests a pattern covers.  "*Policy" stands for a
\* pattern that covers admin actions and sensitive S3 actions at once.
Covers(pattern) ==
    CASE pattern = "*"           -> RequestActions
      [] pattern = "s3:*"        -> S3Actions
      [] pattern = "admin:*"     -> AdminActions
      [] pattern = "admin:Server*" -> {"admin:ServerInfo"}
      [] pattern = "*Policy"     -> {"admin:ServerInfo", "s3:DeleteBucket"}
      [] pattern = "sts:*"       -> STSActions
      [] pattern = "kms:*"       -> KMSActions
      [] pattern = "s3tables:*"  -> TableActions
      [] pattern = "s3vectors:*" -> VectorsActions
      [] OTHER                   -> {pattern}

HasWildcard(action) == action \notin RequestActions

\* AdminAction.IsValid and HasResource go by what a pattern covers; the other
\* namespaces list their patterns.
AdminValid(a)   == Covers(a) \cap AdminActions # {}
HasResource(a)  == "admin:SetBucketQuota" \in Covers(a)
STSValid(a)     == a \in STSActions \cup {"sts:*"}
KMSValid(a)     == a \in KMSActions \cup {"kms:*"}
TableValid(a)   == a \in TableActions \cup {"s3tables:*"}
VectorsValid(a) == a \in VectorsActions \cup {"s3vectors:*"}
S3Valid(a)      == Covers(a) \cap S3Actions # {}

\* sensitiveBucketMutationActions.
Sensitive(action) == action = "s3:DeleteBucket"

\* implicitActions.
Implicit(a) ==
    CASE a \in {"s3:GetObjectVersion", "s3tables:GetTableData"} -> {"s3:GetObject"}
      [] a = "s3tables:PutTableData" -> {"s3:PutObject", "s3:ListBucket"}
      [] a = "s3tables:*" -> {"s3:GetObject", "s3:PutObject", "s3:ListBucket"}
      [] OTHER            -> {}

\* ActionSet.Match.
ActionsMatch(actions, action) == \E a \in actions : action \in Covers(a) \cup Implicit(a)

-----------------------------------------------------------------------------
(* Resources: [type, pattern] *)

Slash == <<"/">>

\* A policy text names a resource by an ARN prefix and the rest.
ARNPrefixes == {"s3", "s3tables", "kms", "*"}

\* The prefix itself as a pattern.
PrefixPattern(prefix) == IF prefix = "*" THEN <<"*">> ELSE <<"arn", prefix>>

\* ParseResource: a bare prefix becomes a pattern of type "*".  Texts with
\* another prefix, or whose rest begins with a slash, are not decoded.
ParseResource(prefix, rest) ==
    IF rest = <<>> THEN [type |-> "*", pattern |-> PrefixPattern(prefix)]
    ELSE [type |-> prefix, pattern |-> rest]

IsBareARN(r) == r.type = "*" /\ r.pattern \in {PrefixPattern(t) : t \in ARNPrefixes \ {"*"}}

IsS3(r)    == r.type \in {"s3", "*"}
IsKMS(r)   == r.type \in {"kms", "*"}
IsTable(r) == r.type \in {"s3tables", "*"}

IsBucketPattern(r) == ~Contains(r.pattern, "/") \/ r.pattern = <<"*">>
IsObjectPattern(r) == Contains(r.pattern, "/") \/ Contains(r.pattern, "*")

\* Resource.IsValid.
ResourceValid(r) ==
    /\ r.pattern # <<>>
    /\ IsS3(r) \/ IsTable(r) => Head(r.pattern) # "/"
    /\ IsKMS(r) => ~Contains(r.pattern, "/")

\* path.Clean on the names that occur here: a trailing slash goes.
Clean(name) == IF Len(name) > 1 /\ Last(name) = "/" THEN Front(name) ELSE name

\* Resource.Match and ResourceSet.Match.
ResourceMatch(r, name, values) ==
    LET pattern == substitute(r.pattern, values)
    IN (name # <<>> /\ Clean(name) = pattern) \/ Matches(pattern, name)

ResourcesMatch(resources, name, values) == \E r \in resources : ResourceMatch(r, name, values)

\* isTableResourceString: bucket/<name>/(table|view)[/<id>].
IsTableResource(name) ==
    /\ Len(name) \in 5..7
    /\ name[1] = "bucket" /\ name[2] = "/" /\ name[3] # "/" /\ name[4] = "/"
    /\ name[5] \in {"table", "view"}
    /\ Len(name) > 5 => name[6] = "/"
    /\ Len(name) = 7 => name[7] # "/"

-----------------------------------------------------------------------------
(* Condition keys *)

AdminKeys == CommonKeys
STSKeys   == {"username", "groups", "SecureTransport", "DurationSeconds"}

\* createActionConditionKeyMap.
S3Keys(action) ==
    CASE action = "s3:GetObject"        -> CommonKeys \cup {"ExistingObjectTag", "x-amz-server-side-encryption"}
      [] action = "s3:PutObject"        -> CommonKeys \cup {"x-amz-server-side-encryption"}
      [] action = "s3:GetObjectVersion" -> CommonKeys \cup {"ExistingObjectTag"}
      [] action = "s3:ListBucket"       -> CommonKeys \cup {"prefix", "max-keys"}
      [] action = "s3:DeleteBucket"     -> CommonKeys

\* ActionConditionKeyMap.Lookup.
Lookup(a) ==
    IF a \in {"*", "s3:*"} THEN AllSupportedKeys ELSE CommonKeys \cup UNION {S3Keys(b) : b \in Covers(a) \cap S3Actions}

\* The condition keys an action supports: S3 patterns have the keys of all
\* they cover, patterns of other namespaces must be listed.  KMS statements
\* are not asked.
SupportedKeys(a) ==
    CASE AdminValid(a) -> IF a \in AdminActions \cup {"admin:*"} THEN AdminKeys ELSE {}
      [] STSValid(a)   -> STSKeys
      [] TableValid(a) \/ VectorsValid(a) -> CommonKeys
      [] OTHER -> Lookup(a)

\* KeySet.Difference: a key with a variable is supported if its name is.
KeysSupported(st) == \A a \in st.actions : \A key \in Keys(st.conditions) : key.name \in SupportedKeys(a)

-----------------------------------------------------------------------------
(* Statements *)

isAdmin(st)   == \E a \in st.actions : AdminValid(a)
isSTS(st)     == \E a \in st.actions : STSValid(a)
isKMS(st)     == \E a \in st.actions : KMSValid(a)
isTable(st)   == \E a \in st.actions : TableValid(a)
isVectors(st) == \E a \in st.actions : VectorsValid(a)
hasAdminResource(st) == \E a \in st.actions : HasResource(a)

\* The table form of an S3 request: bucket/<bucket>/table/<first part of the object>.
TableForm(args) ==
    <<"bucket", "/">> \o args.bucket \o <<"/", "table", "/">>
        \o (IF Contains(args.object, "/") THEN SubSeq(args.object, 1, SelectInSeq(args.object, LAMBDA c : c = "/") - 1)
            ELSE args.object)

\* Mutant: the hardening looks at the bare bucket name alone.
ResourceFormsBare(plain, withheld) == {plain}

\* The forms of the resource that Resources must all match: where the
\* trailing slash was withheld, the bare name and the historical form.
ResourceForms(plain, withheld) == IF withheld THEN {plain, plain \o Slash} ELSE {plain}

\* The form NotResources is matched against.
ExclusionForm(plain, withheld) == IF withheld THEN plain \o Slash ELSE plain

\* Mutant: nothing is withheld.
WithheldNever(st, args, legacy) == FALSE

\* The trailing slash of a bucket-level request is withheld from an Allow of
\* a sensitive write, unless the legacy flag is set.
Withheld(st, args, legacy) ==
    args.object = <<>> /\ args.bucket # <<>> /\ ~legacy /\ st.effect = "Allow" /\ Sensitive(args.action)

\* The resource as it is first written.
PlainResource(st, args, legacy) ==
    args.bucket \o
        IF args.object # <<>>
        THEN (IF Head(args.object) = "/" THEN args.object ELSE Slash \o args.object)
        ELSE (IF Withheld(st, args, legacy) THEN <<>> ELSE Slash)

\* The closure check() of IsAllowedPtr: the statement applies.
Applies(st, args, legacy) ==
    LET first    == PlainResource(st, args, legacy)
        tabled   == isTable(st) /\ ~TableValid(args.action) /\ ~IsTableResource(first)
        resource == IF tabled THEN TableForm(args) ELSE first
        withheld == Withheld(st, args, legacy)
        ignore   == isSTS(st) \/ (isAdmin(st) /\ ~hasAdminResource(st))
    IN  /\ st.actions = {} \/ ActionsMatch(st.actions, args.action)
        /\ ~ActionsMatch(st.notActions, args.action)
        /\ tabled => args.bucket # <<>> /\ args.object # <<>> /\ IsTableResource(resource)
        /\ \/ isKMS(st) /\ (resource = Slash \/ st.resources = {})
           \/ ignore
           \/ /\ st.resources = {} \/ \A form \in ResourceForms(resource, withheld) :
                                          ResourcesMatch(st.resources, form, args.values)
              /\ ~ResourcesMatch(st.notResources, ExclusionForm(resource, withheld), args.values)
        /\ Evaluate(st.conditions, args.values)

\* Effect.IsAllowed(check()).
IsAllowedPtr(st, args, legacy) == Applies(st, args, legacy) = (st.effect = "Allow")

\* validateActionTypes: one namespace per statement.
Kind(a) ==
    CASE AdminValid(a) -> "admin" [] STSValid(a) -> "sts" [] KMSValid(a) -> "kms"
      [] TableValid(a) -> "table" [] VectorsValid(a) -> "vectors" [] OTHER -> "s3"
OneKind(st) == Cardinality({Kind(a) : a \in IF st.actions = {} THEN st.notActions ELSE st.actions}) <= 1

AllResources(st) == st.resources \cup st.notResources

\* What tables, vectors and S3 ask of the resources: exactly one of Resource
\* and NotResource, of the right type, and of a usable form.
ResourcesValid(st, IsType(_)) ==
    /\ (st.resources = {}) # (st.notResources = {})
    /\ \A r \in AllResources(st) : IsType(r) /\ ResourceValid(r)
    /\ st.actions # {} => \E r \in AllResources(st) : IsObjectPattern(r) \/ IsBucketPattern(r)

validateAdmin(st, strict) ==
    /\ \A a \in st.actions : AdminValid(a)
    /\ KeysSupported(st)
    /\ strict => st.resources = {} \/ st.notResources = {}
    /\ strict /\ hasAdminResource(st) => \A r \in AllResources(st) : IsS3(r) /\ ResourceValid(r)

ActionsValid(st) ==
    /\ (st.actions = {}) # (st.notActions = {})
    /\ OneKind(st)

isValid(st) ==
    /\ ActionsValid(st)
    /\ CASE isAdmin(st)   -> validateAdmin(st, FALSE)
         [] isSTS(st)     -> KeysSupported(st)
         [] isKMS(st)     -> \A r \in AllResources(st) : IsKMS(r) /\ ResourceValid(r)
         [] isTable(st)   -> KeysSupported(st) /\ ResourcesValid(st, IsTable)
         [] isVectors(st) -> KeysSupported(st) /\ ResourcesValid(st, IsS3)
         [] OTHER         -> /\ ResourcesValid(st, IsS3)
                             /\ \A a \in st.actions : S3Valid(a)
                             /\ KeysSupported(st)

\* Mutant: a strict check that forgets the general one.
isValidStrictOnly(st) == ActionsValid(st) /\ \A r \in AllResources(st) : ~IsBareARN(r)

isValidStrict(st) ==
    /\ ActionsValid(st)
    /\ \A r \in AllResources(st) : ~IsBareARN(r)
    /\ IF isAdmin(st) THEN validateAdmin(st, TRUE) ELSE isValid(st)

\* Everything but the conditions and the Sid is equal.
SameParts(s, t) ==
    /\ s.effect = t.effect
    /\ s.actions = t.actions /\ s.notActions = t.notActions
    /\ s.resources = t.resources /\ s.notResources = t.notResources
    /\ Len(s.conditions) = Len(t.conditions)

Strings(conditions) == [i \in DOMAIN conditions |-> String(conditions[i])]

\* Statement.Equals: every condition of s is one of t.
Equals(s, t) == SameParts(s, t) /\ Range(Strings(s.conditions)) \subseteq Range(Strings(t.conditions))

\* Statement.hash: the hashes of the conditions are combined by exclusive or,
\* so what occurs an even number of times leaves no trace.
Odd(conditions) ==
    {c \in Range(Strings(conditions)) : Cardinality({i \in DOMAIN conditions : String(conditions[i]) = c}) % 2 = 1}
SameHash(s, t) == SameParts(s, t) /\ Odd(s.conditions) = Odd(t.conditions)

-----------------------------------------------------------------------------
(* Documents *)

IsSequence(t) == t \in Seq(Range(t))

\* The JSON objects the decoders take: lists are lists, a condition has finitely
\* many values, and a truth value is written in one way.
IsCondition(c) ==
    /\ IsFiniteSet(c.values)
    /\ \A v \in c.values : IsSequence(v.s)
    /\ \A v \in c.values : v.t = "bool" => v.s \in {<<"true">>, <<"false">>}

IsResource(r) == r = [type |-> r.type, pattern |-> r.pattern] /\ IsSequence(r.pattern)

IsStatement(st) ==
    /\ {"effect", "actions", "notActions", "resources", "notResources", "conditions"} \subseteq DOMAIN st
    /\ \A r \in AllResources(st) : IsResource(r)

IsDocument(doc) ==
    /\ IsSequence(doc)
    /\ \A i \in DOMAIN doc :
          /\ IsStatement(doc[i])
          /\ IsSequence(doc[i].conditions)
          /\ \A j \in DOMAIN doc[i].conditions : IsCondition(doc[i].conditions[j])

\* Within a statement no two conditions have the same operator and key, once
\* the qualifiers that are not kept have gone, and dates have whole seconds:
\* then the text of a condition says all that it compares.
Unambiguous(doc) ==
    \A i \in DOMAIN doc :
        LET functions == UnmarshalConditions(doc[i].conditions)
        IN  /\ \A j, k \in DOMAIN functions :
                  j # k => <<functions[j].qualifier, functions[j].name, functions[j].key>>
                               # <<functions[k].qualifier, functions[k].name, functions[k].key>>
            /\ \A j \in DOMAIN functions : functions[j].name \in DateNames =>
                  \A t \in functions[j].values : Format(t) = t
============================================================================
