SPECIFICATION Spec
CONSTANTS
    Records <- UploadRecords
    MaxUpload = 3
    MaxRecordPayload = 2
    MaxPostBytes = 3
    MaxPostRecords = 2
    MaxTotalBytes = 4
    MaxTotalRecords = 2
CHECK_DEADLOCK FALSE
INVARIANTS
    TypeOK
    EveryRecordIsAnswered
    PostsKeepTheirLimits
PROPERTIES
    BatchesKeepTheirLimits
    RetriesSucceed
