\* Two clients, replies that may outlive the sleep.
CONSTANTS
    NumClients = 2
    MaxRounds = 3
    Prompt = FALSE
SPECIFICATION MockupSpec
INVARIANTS
    RepliesMatch
CHECK_DEADLOCK FALSE
