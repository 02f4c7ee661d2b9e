\* Two policies; three statements count as many, so that both ways of finding
\* duplicates are used.  When everything is loaded the server rests.
CONSTANTS
  Docs <- MCDocs
  Requests <- MCRequests
  BucketDocs <- MCBucketDocs
  BucketRequests <- MCBucketRequests
  BucketName <- MCBucketName
  MaxPolicies = 2
  ManyStatements = 2
SPECIFICATION BSpec
INVARIANTS
  IndexSound
  LoadKeepsDecisions
  MergeKeepsAnswers
  HardeningOnlyRemoves
  SensitiveNeedsBucketPattern
  BucketKeepsDecisions
PROPERTY StrictSurvives
CHECK_DEADLOCK FALSE
