\* Plain, authenticated and secure sessions, two connections one after the other.
CONSTANTS
    Peers <- SessionPeers
    HookActs = {"ok", "send", "greet", "auth", "starttls", "quit"}
    Connects = {"tcp", "async"}
    Tls = "gnutls"
    SendMayFail = TRUE
    TreeMayFail = FALSE
    PeerMayClose = TRUE
    MaxConnects = 2
SPECIFICATION FairSpec
INVARIANTS DeliversInOrder ReadIsProcessed SessionOfThisConnection
PROPERTIES CloseNoticed
CHECK_DEADLOCK FALSE
