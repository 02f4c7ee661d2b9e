\* Documents whose conditions differ and have the same text.
CONSTANTS
  Docs <- CollidingDocs
  Requests <- MCRequests
  BucketDocs = {}
  BucketRequests <- MCBucketRequests
  BucketName <- MCBucketName
  MaxPolicies = 2
  ManyStatements = 2
SPECIFICATION BSpec
INVARIANT MergeKeepsAnswers
