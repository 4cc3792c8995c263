SPECIFICATION CronFairSpec
CONSTANTS
    Sweepers = {"s1"}
    Checked = {"w"}
    MaxFires = 0
    MaxEdits = 2
    MaxFaults = 0
PROPERTY CheckbackRuns
