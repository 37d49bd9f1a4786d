SPECIFICATION Spec
CONSTANTS
    c1 = c1
    c2 = c2
    orig = orig
    cln = cln
    far = far
    lost = lost
    snap1 = snap1
    tag1 = tag1
    zone1 = zone1
    zone2 = zone2
    Absent = Absent
    NoSnapshot = NoSnapshot
    NoZone = NoZone
    AnyConfig = AnyConfig
    NoVolume = NoVolume
    NoObject = NoObject
    NoContent = NoContent
    Configs = {c1, c2}
    Names = {orig, cln}
    UserTags = {tag1}
    Hosts = {n1}
    Sizes = {1}
    Handlers = {h1, h2}
    Snaps = {snap1}
    Zones = {zone1, zone2}
    Claim <- CloneClaims
    SnapClaim <- OneSnapClaim
    Zone <- NoZones
    Group <- OwnGroups
    Exportable = {}
    MaxWrites = 1
    MaxFaults = 2
SYMMETRY Symmetry
INVARIANTS
    TypeOK
    BoundVolumesExist
    ContentAsRequested
    NothingLeftBehind
PROPERTIES
    ImplementsContract
CHECK_DEADLOCK FALSE
