\* Identifiers up to the number of values of a byte.
CONSTANTS
    Stations <- BsAndDevice
    Byte = 4
    PortBase = 40
    Arguments <- ByteIds
SPECIFICATION InterfaceSpec
INVARIANTS
    BuiltInRange
CHECK_DEADLOCK FALSE
