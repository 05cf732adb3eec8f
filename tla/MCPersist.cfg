SPECIFICATION Spec
CONSTANTS
    Path <- MCPath
    Base = {"image"}
    NoPath = "none"
    SidecarOf <- MCSidecarOf
    MaxForeign = 1
INVARIANTS TypeOK ReportsMatchDisk KeepsUnlessTold OldSidecarOutlivesOldImage
CHECK_DEADLOCK FALSE
