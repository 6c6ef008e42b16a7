SPECIFICATION Spec
CONSTANTS
    Releases = {"early", "stage4", "stage6", "stage7", "current"}
    MaxFailures = 1
INVARIANT AuthoredRowsSurvive
CHECK_DEADLOCK FALSE
