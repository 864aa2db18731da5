\* Listings have pages of two; the bounds of the parts.
CONSTANTS
    MaxEntry = 5
    ObjectOf <- MCObjectOf
    PageSize = 2
    Images <- MCImages
    NoTag = "-"
    NoChart = "-"
    Concurrency = 2
    HostLimit <- MCHostLimit
    MaxSessions = 2
    Fetchers = {c1, c2}
    Digests = {"amd64", "arm64"}
    MaxFetches = 3
    Commands = {c1, c2}
    CoreImages = {}
    CloudImages = {}
    AddOnImages = {"addon"}
    Selections = {{"addon"}}
    MaxRelease = 2
    MaxRuns = 2
    Items = {"a", "b"}
    Capacity = 2
    Builders = {c1, c2}
    NoBuilder = "nobody"
    PlatformOrder <- MCPlatformOrder
    Wanted <- MCWanted
    MaxBundleRelease = 2
    MaxBuilds = 2
    Users = {u1}
    Clusters = {"c"}
    MaxPid = 4
    MaxPolls = 2
SYMMETRY MCSymmetry
SPECIFICATION PartsSpec
CHECK_DEADLOCK FALSE
INVARIANTS
    PartsTypeOK
    PagesComplete
    BundlesSound
    UndisturbedServes
    DownloadsSound
    DisplayTrue
    Discoverable
PROPERTIES
    ImagesKept
