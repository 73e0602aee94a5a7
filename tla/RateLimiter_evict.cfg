SPECIFICATION Spec
CONSTANTS
 Ids <- MCThree
 Limit <- MCLimit
 Window <- MCWindow
 MaxBuckets = 2
 MaxTime = 4
 MaxGrants = 4
PROPERTIES DroppedWhenOver
CHECK_DEADLOCK FALSE
