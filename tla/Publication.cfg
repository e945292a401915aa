\* Two commits after the first one, one dispatch, one failing job; two loads by the
\* person, two changes of the answers, one failing request.  The bounds stop the model.
CONSTANTS
    None = None
    MaxPushed = 2
    MaxDispatches = 1
    MaxFailures = 1
    MaxOpens = 2
    MaxMoves = 2
    MaxFaults = 1
SPECIFICATION PublicationSpec
INVARIANTS CodeIsVerifiedWhenBrought
PROPERTIES SiteNeverGoesBack NewestCommitIsPublished ReloadsStop
CHECK_DEADLOCK FALSE
