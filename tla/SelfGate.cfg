CONSTANTS
    target = target
    twin = twin
    other = other
    elevation = elevation
    beacon = beacon
    beaconPackage = beaconPackage
    exporter = exporter
    sidecar1 = sidecar1
    sidecar2 = sidecar2
    eventType = eventType
    keyword = keyword
    p1 = p1
    p2 = p2
    Rows = {target, twin, other}
    Families = {elevation, beacon}
    MustFire <- MCMustFire
    MustNotFire <- MCMustNotFire
    Authored = {beaconPackage, exporter}
    Words = {eventType, keyword}
    FamilyOf <- MCFamilyOf
    Proposals = {p1, p2}
    Sidecars = {sidecar1, sidecar2}
    FirstRows = {other}
    BuiltIn = {elevation}
SYMMETRY MCSymmetry
SPECIFICATION Spec
CHECK_DEADLOCK FALSE
INVARIANTS
    TypeOK GradesHold LoadedTogether
PROPERTY
    TrunkOnlyWidens
