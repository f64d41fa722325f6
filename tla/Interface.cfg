\* Base station and device with every combination of arguments.
CONSTANTS
    Stations <- BsAndDevice
    Byte = 4
    PortBase = 40
    Arguments <- Anything
SPECIFICATION InterfaceSpec
INVARIANTS
    PortsFollowIds
    NoLocalLoop
CHECK_DEADLOCK FALSE
