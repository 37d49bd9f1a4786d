SPECIFICATION Spec
CONSTANTS
    c1 = c1
    c2 = c2
    orig = orig
    cln = cln
    far = far
    lost = lost
    snap1 = snap1
    tag1 = tag1
    zone1 = zone1
    zone2 = zone2
    Absent = Absent
    NoSnapshot = NoSnapshot
    NoZone = NoZone
    AnyConfig = AnyConfig
    NoVolume = NoVolume
    NoObject = NoObject
    NoContent = NoContent
    Configs = {c1, c2}
    Names = {orig, cln, far, lost}
    UserTags = {tag1}
    Hosts = {}
    Sizes = {1, 2}
    Handlers = {h1, h2}
    Snaps = {snap1}
    Zones = {zone1, zone2}
    Claim <- ZoneClaims
    SnapClaim <- OneSnapClaim
    Zone <- OneZone
    Group <- OwnGroups
    Exportable = {c1}
    MaxWrites = 0
    MaxFaults = 2
SYMMETRY Symmetry
INVARIANTS
    ContentAsRequested
    ReadySnapshotsExist
    CapacityAsReported
    PlacedAsRequested
CHECK_DEADLOCK FALSE
