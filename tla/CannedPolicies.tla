--------------------------- MODULE CannedPolicies ---------------------------
(***************************************************************************)
(* policy/constants.go: the policies every server has.  They are Go values *)
(* and never pass through UnmarshalJSON, so they have no index.  Of their  *)
(* actions the ones that Statement has are kept.                           *)
(***************************************************************************)
EXTENDS Statement

Grant(actions, resources) ==
    [effect |-> "Allow", actions |-> actions, notActions |-> {},
     resources |-> resources, notResources |-> {}, conditions |-> <<>>]

\* NewResource("*"), NewS3TablesResource("*").
AnyResource == {[type |-> "s3", pattern |-> <<"*">>]}
AnyTable    == {[type |-> "s3tables", pattern |-> <<"*">>]}

readwrite       == <<Grant({"s3:*"}, AnyResource)>>
readonly        == <<Grant({"s3:GetObject"}, AnyResource)>>
consolereadonly == <<Grant({"s3:GetObject", "s3:ListBucket"}, AnyResource)>>
writeonly       == <<Grant({"s3:PutObject"}, AnyResource)>>
diagnostics     == <<Grant({"admin:ServerInfo"}, AnyResource)>>
tablesAdmin     == <<Grant({"s3tables:*"}, AnyTable)>>
iamAdmin        == <<Grant({"admin:CreateServiceAccount"}, {})>>
infraAdmin      == <<Grant({"admin:ServerInfo", "admin:SetBucketQuota"}, {})>>
tablesReadWrite == <<Grant({"s3tables:GetTable", "s3tables:GetTableData", "s3tables:PutTableData"}, AnyTable)>>
tablesReadOnly  == <<Grant({"s3tables:GetTable", "s3tables:GetTableData"}, AnyTable)>>
consoleAdmin    == <<Grant({"admin:*"}, {}), Grant({"kms:*"}, {}), Grant({"s3:*"}, AnyResource), Grant({"s3tables:*"}, AnyTable)>>

DefaultPolicies ==
    {readwrite, readonly, consolereadonly, writeonly, diagnostics, tablesAdmin, iamAdmin, infraAdmin,
     tablesReadWrite, tablesReadOnly, consoleAdmin}
=============================================================================
