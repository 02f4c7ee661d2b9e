------------------------------ MODULE MCPolicy ------------------------------
(***************************************************************************)
(* Statements, documents and requests for the runs of Policy and           *)
(* BucketPolicy: one bucket "b", one object "o", a user who may be called  *)
(* "b".                                                                    *)
(***************************************************************************)
EXTENDS BucketPolicy

S3(rest)    == ParseResource("s3", rest)
Table(rest) == ParseResource("s3tables", rest)

Stmt(effect, actions, resources) ==
    [effect |-> effect, actions |-> actions, notActions |-> {},
     resources |-> resources, notResources |-> {}, conditions |-> <<>>]

Bucket  == S3(<<"b">>)
Objects == S3(<<"b", "/", "*">>)
OneByte == S3(<<"?">>)
Home    == S3(<<"${aws:username}", "/", "*">>)
Tables  == Table(<<"bucket", "/", "b", "/", "table", "/", "*">>)
Bare    == S3(<<>>)
Everything == ParseResource("*", <<>>)

\* Conditions as a document has them.
Cond(name, key, values) == [qualifier |-> "", name |-> name, key |-> Key(key), values |-> values]
Text(text)   == [t |-> "string", s |-> text]
Number(text) == [t |-> "int", s |-> text]
Truth(text)  == [t |-> "bool", s |-> text]
ForAll(c)    == [c EXCEPT !.qualifier = "ForAllValues"]

Null(value)  == Cond("Null", "username", {Truth(value)})
Before(time) == Cond("DateLessThan", "CurrentTime", {Text(<<time>>)})
Tagged(c)    == [c EXCEPT !.key = [name |-> "ExistingObjectTag", variable |-> "k"]]
Groups(name, values) == Cond(name, "groups", {Text(v) : v \in values})
If(st, conditions) == [st EXCEPT !.conditions = conditions]

AllowAll    == Stmt("Allow", {"s3:*"}, {Objects})
AllowOne    == Stmt("Allow", {"s3:*"}, {OneByte})
AllowDelete == Stmt("Allow", {"s3:DeleteBucket"}, {Bucket})
AllowGet    == Stmt("Allow", {"s3:GetObject", "s3:DeleteBucket"}, {Objects})
AllowBut    == [Stmt("Allow", {"s3:*"}, {}) EXCEPT !.notResources = {Objects}]
AllowNot    == [Stmt("Allow", {}, {Objects}) EXCEPT !.notActions = {"s3:GetObject"}]
DenyDelete  == Stmt("Deny", {"s3:DeleteBucket"}, {Objects})
DenyAnon    == If(Stmt("Deny", {"s3:GetObject"}, {Everything}), <<Null(<<"true">>)>>)
DenyNamed   == If(Stmt("Deny", {"s3:GetObject"}, {Everything}), <<Null(<<"false">>)>>)

\* Every other form of statement.  The last four documents are not valid by the
\* strict rules.
Single ==
    {<<AllowNot, Stmt("Allow", {"s3vectors:*"}, {Everything}), Stmt("Allow", {"kms:CreateKey"}, {})>>,
     <<Stmt("Allow", {"s3:GetObjectVersion"}, {Home}), Stmt("Allow", {"s3tables:GetTableData"}, {Tables}),
       Stmt("Allow", {"admin:*"}, {Bucket})>>,
     <<Stmt("Allow", {"kms:*"}, {ParseResource("kms", <<"b">>)}), Stmt("Allow", {"admin:Server*"}, {Bucket}),
       Stmt("Allow", {"sts:AssumeRole"}, {})>>,
     <<Stmt("Allow", {"*"}, {Objects})>>,
     <<Stmt("Allow", {"*Policy"}, {Objects}), If(AllowDelete, <<Before("12:00:01")>>)>>,
     <<Stmt("Allow", {"s3:ListBucket"}, {Bare})>>,
     <<[Stmt("Deny", {"admin:ServerInfo"}, {Bucket}) EXCEPT !.notResources = {Objects}]>>,
     <<Stmt("Allow", {"s3:GetObject", "admin:ServerInfo"}, {Bucket})>>,
     <<If(AllowDelete, <<Tagged(Null(<<"true">>))>>)>>}

\* Conditions of every kind, on statements that are otherwise the same.
Get(c)    == If(Stmt("Allow", {"s3:GetObject"}, {Objects}), <<c>>)
DenyGet(c) == If(Stmt("Deny", {"s3:GetObject"}, {Objects}), <<c>>)
List(c)   == If(Stmt("Allow", {"s3:ListBucket"}, {Bucket}), <<c>>)

Conditional ==
    {<<Get(Groups("StringEquals", {<<"b">>, <<"g">>})), DenyGet(ForAll(Groups("StringNotEquals", {<<"${aws:username}">>}))),
       List(Groups("StringNotLike", {<<"?">>}))>>,
     <<Get(Groups("StringLike", {<<"b", "*">>})), Get(ForAll(Groups("StringLike", {<<"b", "*">>}))),
       List(Cond("NumericLessThanEquals", "max-keys", {Text(<<"1">>)}))>>,
     <<Get(Groups("StringEqualsIgnoreCase", {<<"b">>})), Get(Groups("StringNotEqualsIgnoreCase", {<<"b">>})),
       DenyGet(Groups("BinaryEquals", {<<"base64", "g">>})),
       List(Cond("NumericGreaterThanIfExists", "max-keys", {Number(<<"1">>)}))>>,
     <<Get(Cond("IpAddress", "SourceIp", {Text(<<"10.0.0.1", "/24">>), Text(<<"10.0.0.0", "/24">>)})),
       DenyGet(Cond("NotIpAddress", "SourceIp", {Text(<<"10.0.0.1">>)})), List(Cond("StringEquals", "prefix", {Text(<<"b">>)}))>>,
     <<Get(Cond("StringEquals", "x-amz-server-side-encryption", {Text(<<"AES256">>)})),
       DenyGet(Cond("Bool", "SecureTransport", {Truth(<<"false">>)}))>>,
     <<Get(Cond("DateGreaterThanEquals", "CurrentTime", {Text(<<"12:00:00">>)})), DenyGet(Tagged(Cond("Null", "", {Text(<<"T">>)})))>>,
     <<Get(Cond("StringEquals", "x-amz-server-side-encryption", {Text(<<"DES">>)}))>>,
     <<Get(Cond("Bool", "username", {Truth(<<"true">>)}))>>}

\* Statements that interact.
Interacting ==
    {<<AllowDelete>>, <<AllowOne, AllowGet>>, <<AllowOne, DenyDelete>>, <<AllowOne, DenyAnon>>, <<AllowGet, AllowGet>>,
     <<DenyAnon, DenyNamed>>, <<AllowAll, DenyDelete, AllowAll>>, <<DenyAnon, AllowGet, DenyNamed>>, <<AllowGet, AllowGet, AllowBut>>}

MCDocs == Single \cup Conditional \cup Interacting

\* What the proofs about loading and merging suppose of documents; those that
\* follow are of the other kind.
ASSUME MCDocsUnambiguous == \A doc \in MCDocs : Decodes(doc) => Unambiguous(doc)

\* Documents that differ in the fraction of a second of a date.
CollidingDocs == {<<If(DenyDelete, <<Before(t)>>), AllowDelete>> : t \in {"12:00:01", "12:00:01.5"}}

\* The values of a request: nobody's, or those of the user "b".
Nobody == Key("SourceIp") :> <<<<"10.0.1.0">>>> @@ Key("CurrentTime") :> <<<<"12:00:00">>>>
             @@ Key("SecureTransport") :> <<<<"false">>>> @@ Key("Prefix") :> <<<<"b">>>>
User   == Key("username") :> <<<<"b">>>> @@ Key("groups") :> <<<<"b">>, <<"B", "g">>, <<"g">>>>
             @@ Key("SourceIp") :> <<<<"10.0.0.1">>>> @@ Key("CurrentTime") :> <<<<"12:00:01">>>>
             @@ Key("SecureTransport") :> <<<<"true">>>> @@ Key("max-keys") :> <<<<"2">>>>
             @@ Key("x-amz-server-side-encryption") :> <<<<"AES256">>>>
             @@ [name |-> "ExistingObjectTag", variable |-> "k"] :> <<<<"v">>>>

Args(action, bucket, object, values) ==
    [action |-> action, bucket |-> bucket, object |-> object, values |-> values, isOwner |-> FALSE, denyOnly |-> FALSE]
ByBoth(action, object) == {Args(action, <<"b">>, object, values) : values \in {Nobody, User}}

\* The actions that statements have conditions for, by both; the others by the
\* user.
Plain ==
    ByBoth("s3:GetObject", <<"o">>) \cup ByBoth("s3:GetObjectVersion", <<"o">>) \cup ByBoth("s3:ListBucket", <<>>)
        \cup ByBoth("s3:DeleteBucket", <<>>)
        \cup {Args("s3:PutObject", <<"b">>, <<"o">>, User), Args("s3:GetObject", <<"b">>, <<"/", "o">>, User), Args("kms:CreateKey", <<>>, <<>>, User)}
        \cup {Args(a, <<"b">>, <<>>, User) : a \in RequestActions \ S3Actions}

MCRequests ==
    Plain \cup {[a EXCEPT !.isOwner = TRUE] : a \in ByBoth("s3:GetObject", <<"o">>)}
          \cup {[a EXCEPT !.denyOnly = TRUE] : a \in ByBoth("s3:DeleteBucket", <<>>)}

-----------------------------------------------------------------------------
(* Bucket policies: everybody, the user "b", and names of one letter *)

For(principal, st) == [effect |-> st.effect, principal |-> principal, actions |-> st.actions, notActions |-> st.notActions,
                       resources |-> st.resources, notResources |-> st.notResources, conditions |-> st.conditions]
Everybody == {<<"*">>}
UserB     == {<<"b">>}

BGet    == Stmt("Allow", {"s3:GetObject"}, {Objects})
BList   == Stmt("Allow", {"s3:ListBucket"}, {Bucket})
BDeny   == If(Stmt("Deny", {"s3:*"}, {Objects, Bucket}), <<Cond("Bool", "SecureTransport", {Truth(<<"false">>)})>>)
BNot    == [BGet EXCEPT !.actions = {}, !.notActions = {"s3:PutObject"}]
BBut    == [Stmt("Allow", {"s3:*"}, {}) EXCEPT !.notResources = {Objects}]
BStatements ==
    {For(p, st) : p \in {Everybody, UserB, {<<"?">>}}, st \in {BGet, BList, BDeny}}
        \cup {For(UserB, BNot), For(UserB, BBut), For({}, BGet), For(Everybody, Stmt("Allow", {"s3:*"}, {OneByte})),
              For(Everybody, Stmt("Allow", {"s3:ListBucket"}, {Objects})), For(Everybody, Stmt("Allow", {"admin:ServerInfo"}, {Bucket})),
              For(Everybody, Stmt("Allow", {"s3:GetObject"}, {Home})), For(UserB, Stmt("Allow", {"s3:GetObject"}, {Everything}))}

MCBucketDocs == {<<s>> : s \in BStatements} \cup {<<s, t>> : s, t \in BStatements} \cup {<<s, t, s>> : s, t \in {For(p, BGet) : p \in {Everybody, UserB}}}

MCBucketRequests ==
    {[account |-> account, isOwner |-> FALSE, action |-> a.action, bucket |-> a.bucket, object |-> a.object, values |-> a.values] :
        account \in {<<"b">>, <<"c">>, <<>>}, a \in {r \in Plain : r.action \in S3Actions}}
    \cup {[account |-> <<"c">>, isOwner |-> TRUE, action |-> "s3:GetObject", bucket |-> <<"b">>, object |-> <<"o">>, values |-> v] : v \in {Nobody, User}}

ASSUME MCBucketDocsUnambiguous == \A doc \in MCBucketDocs : Unambiguous(doc)

MCBucketName == <<"b">>
=============================================================================
