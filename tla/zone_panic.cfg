SPECIFICATION Spec
CONSTANTS
    c1 = c1
    c2 = c2
    orig = orig
    cln = cln
    far = far
    lost = lost
    snap1 = snap1
    tag1 = tag1
    zone1 = zone1
    zone2 = zone2
    Absent = Absent
    NoSnapshot = NoSnapshot
    NoZone = NoZone
    AnyConfig = AnyConfig
    NoVolume = NoVolume
    NoObject = NoObject
    NoContent = NoContent
    Configs = {c1, c2}
    Names = {lost}
    UserTags = {tag1}
    Hosts = {}
    Sizes = {1}
    Handlers = {h1}
    Snaps = {}
    Zones = {zone1, zone2}
    Claim <- LostClaims
    SnapClaim <- NoSnapClaims
    Zone <- OneZone
    Group <- OwnGroups
    Exportable = {}
    MaxWrites = 0
    MaxFaults = 0
PROPERTIES
    UnmatchedZoneIsAnswered
CHECK_DEADLOCK FALSE
