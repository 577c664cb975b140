SPECIFICATION PairingSpec
CONSTANTS
    MaxSessions = 2
    MaxWorkers = 2
INVARIANT SessionsApart
PROPERTIES PairedStays PairingReported
CHECK_DEADLOCK FALSE
