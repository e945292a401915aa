\* Two processes that stay alive.
CONSTANTS
    Process = {q1, q2}
    Nobody = Nobody
    MaxDeaths = 0
SPECIFICATION Spec
PROPERTIES ReclaimsOnlyDeadOwners
