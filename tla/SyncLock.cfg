\* Three processes, two of which may die. No symmetry: liveness.
CONSTANTS
    Process = {q1, q2, q3}
    Nobody = Nobody
    MaxDeaths = 2
SPECIFICATION LiveSpec
PROPERTIES AbandonedLockIsReclaimed
