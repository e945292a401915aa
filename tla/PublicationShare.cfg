\* One push while a page is opened by a share link.
CONSTANTS
    None = None
    MaxPushed = 1
    MaxDispatches = 0
    MaxFailures = 0
    MaxOpens = 1
    MaxMoves = 2
    MaxFaults = 0
SPECIFICATION PublicationSpec
INVARIANTS ShareLinkSkipsPassword
CHECK_DEADLOCK FALSE
