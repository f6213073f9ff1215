SPECIFICATION Spec
CONSTANTS
    Bad = Bad  Blank = Blank  Junk = Junk
    NoRange = NoRange  Nothing = Nothing  Acl = Acl
    Buckets <- MCBuckets
    MaxU64 = 7  DirectorySize = 4
    GetCalls <- MCGetCalls
    HeadCalls <- MCHeadCalls
    PutCalls <- MCPutCalls
    CopyCalls <- MCCopyCalls
    DeleteCalls <- MCDeleteCalls
    BucketCalls <- MCBucketCalls
INVARIANTS InsideBuckets AnswersMap RangeAsAsked
PROPERTY AclNeverWrites
