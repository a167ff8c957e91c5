SPECIFICATION FairSpec
CONSTANTS
    PageCount = 6
    Pages = {1, 5}
    MaxWrites = 2
    MaxErases = 1
INVARIANTS
    TypeOK
    OneClient
    ReadsItsPage
    SentBytesAreThere
PROPERTY
    CallsEnd
