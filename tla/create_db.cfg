CONSTANTS
    Pods = {p1, p2}
    MaxPings = 2
    Schemas <- MCSchemas
    MaxFaults = 1
SPECIFICATION DBSpec
INVARIANTS MissingIsLogged CompleteWithoutFaults
PROPERTIES ProxyStops DBJobFinishes
CHECK_DEADLOCK FALSE
