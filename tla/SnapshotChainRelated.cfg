CONSTANTS
    Uris = {u1, u2}
    Threads = {t1, t2}
    Depth = 1
    MaxId = 4
    None = None
SPECIFICATION BoundedSpec
INVARIANTS TypeOK CommitRunsCurrent NoCircularWait GetAnswersOneInstant
PROPERTIES PublishedFromCurrent NoRegression
SYMMETRY Symmetry
