\* Everything that can fail on two connections.
CONSTANTS
    Peers <- ShortPeers
    HookActs = {"ok", "error", "starttls", "quit"}
    Connects = {"tcp", "async", "fd"}
    Tls = "openssl"
    SendMayFail = TRUE
    TreeMayFail = TRUE
    PeerMayClose = TRUE
    MaxConnects = 2
SPECIFICATION Spec
INVARIANTS NoUndefinedBehaviour OneSocket
CHECK_DEADLOCK FALSE
