SPECIFICATION MCSpec
CONSTANTS
    None = None
    w1 = w1 w2 = w2 ca = ca cb = cb cc = cc Missing = Missing
    demo = demo real = real s1 = s1 s2 = s2 s3 = s3
    Emails = {e1}
    Requests = {r1, r2}
    Tokens = {t1, t2}
    Cities = {ca, cb}
    Guilds = {ca, cb}
    Wishes = {w1, w2}
    HomeCity = ca
    NoWishes = w1
    Actors = {e1}
    ActionKeys = {k1, k2}
    Submissions = {r1, r2}
    Users = {demo, real}
    DemoUsers = {demo}
    Destinations = {ca}
    Messages = {m1, m2}
    Commands <- MCCommands
    NoRow = NoRow
    Events = {s1, s2, s3}
    CityOf <- MCCityOf
    Writers = {r1, r2}
    MaxFound = 2
    MaxBegun = 3
    Absent = Absent
    Callers = {e1}
    Calls = {r1, r2}
    Handlers = {"quota", "login"}
    Limit <- MCLimit
    Width <- MCWidth
    MaxTime <- MCMaxTime
    MaxResets = 1
    SearchCities = {ca, cb, cc}
    Recommendations <- MCRecommendations
    Candidates <- MCCandidates
    Pages <- MCPages
    Merit <- MCMerit
    MeritWeight = 3
    PriceWeight = 3
    FrictionWeight = 1
    PreferredMinutes = 2
    CandidateSearchLimit = 3
    MaximumRankedOptions = 2
    SearchConcurrency = 2
    Contents <- MCContents
    Broken = Missing
    KnownCities = {ca}
    DateFrom = 240
    DateTo = 264
    EventLimit = 2
    MaximumDiscoveredEvents = 40
    SearchAttempts = 2
SYMMETRY Symmetry
INVARIANTS
    TypesOK
    AccountsWhole
    ShownIsStored
    JoinAnswered
    LimitPerBucket
    OptionsSuit
    BestAreShown
    FirstUsableReturned
    EffectOnce
    ToldStays
    ListsAreLast
PROPERTIES
    DemoUsersOnly
    EnrichedWhole
CHECK_DEADLOCK FALSE
