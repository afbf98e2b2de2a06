SPECIFICATION FairSpec
CONSTANTS
    Tasks = {t1, t2, t3}
    Queues = {q1, q2}
    None = None
INVARIANTS TypeOK OneAtATime TasksTimed
PROPERTIES KeepsOrder AcceptedTaskBegins
CHECK_DEADLOCK FALSE
