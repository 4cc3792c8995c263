SPECIFICATION LiveSpec
CONSTANTS
    NFiles = 2
    Contents = {c1}
    Absent = Absent
    Nobody = Nobody
    MaxFloor = 1
    MaxRetain = 1
    MaxManifests = 2
    MaxFaults = 1
INVARIANTS
    ManifestsComplete
    ReferencesKept
PROPERTIES
    FloorNeverLowered
    ResumesUnlessTorn
