\* Two requests in flight, as many contracts as a third one would make.
CONSTANTS
    Docs = {1, 2, 3}
    Requests = {q1, q2}
    None = None
SPECIFICATION FairHistorySpec
INVARIANTS
    ListedContractHasFile
PROPERTIES
    SignedIsCountersigned
    ErasedByOvertakenOnly
