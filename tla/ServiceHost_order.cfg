SPECIFICATION HostSpec
CONSTANT
    MaxEvents = 2
CHECK_DEADLOCK FALSE
PROPERTY
    ReportsFollowStateMachine
