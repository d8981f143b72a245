CONSTANTS
    Kinds = {"task", "resource", "monitor"}
    Timeout = 6
    Delays = {0, 1, 5}
    RequestTimes = {1, 2}
    RecoveryInterval = 1
    MaxConnection = 2
    MaxAuth = 1
    Horizon = 14
SPECIFICATION Spec
INVARIANTS DeadlineRespected PatientWithOutages
PROPERTIES ReportsTheTask Terminates
