SPECIFICATION FairSpec
CONSTANT
    MaxRounds = 3
INVARIANTS
    TypeOK
    NeverStuck
    FreshSample
PROPERTY
    FetchEnds
