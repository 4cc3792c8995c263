SPECIFICATION FairSpec
CONSTANTS
    NFiles = 1
    Contents = {c1}
    Absent = Absent
    Nobody = Nobody
    MaxFloor = 0
    MaxRetain = 1
    MaxManifests = 2
    MaxFaults = 1
PROPERTY RestoreResumes
