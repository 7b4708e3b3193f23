\* Two of whatever a page shows, and as many requests under way as make two of
\* them overlap; one failure of a visit (two on the identity page).
CONSTANTS
    None = None
    Artisans = {a1}
    Assignments = {s1}
    Quotes = {d1}
    Buyers = {b1}
    SiteCalls = {1, 2, 3}
    Bookings = {r1, r2}
    MaxErrors = 1
    MaxSessions = 1
    Contracts = {r1, r2}
    Sends = {1, 2}
    MaxFailures = 1
    Sales = {v1}
    PageCalls = {1, 2}
    PageLoads = {1, 2}
    Clients = {r1, r2}
    MaxBatches = 2
    MaxDeskErrors = 2
    MaxAtouts = 4
    MaxSendErrors = 1
    Homes = {r1, r2}
    MaxFetches = 2
    Posts = {1, 2}
    MaxVisitErrors = 1
    People = {p1, p2, p3}
    Promoters = {p3}
    MaxSignOuts = 2
    MaxReloads = 1
SPECIFICATION Spec
SYMMETRY Symmetry
INVARIANTS
    BlockShowsLastUpdate
    OneSessionUnlessError
    SignsWhatWasDrawn
    RowsAreOfView
    StuckAfterSuccessOnly
    BlindNoteStays
    RefusedForMailOnly
    ReservesWhatItShows
    WindowsAreOfTheirHome
    MenuShowsSession
PROPERTIES
    DecidedAgainByOverlapOnly
    ResubmitsAfterErrorOnly
    DecidesOnWhatWasListed
\* Visits end, and what a page may ask is bounded.
CHECK_DEADLOCK FALSE
