\* Three clients, replies lost or late but never beyond the sleep.
CONSTANTS
    NumClients = 3
    MaxRounds = 4
    Prompt = TRUE
SPECIFICATION MockupSpec
INVARIANTS
    RepliesMatch
PROPERTIES
    RoundsGoOn
CHECK_DEADLOCK FALSE
