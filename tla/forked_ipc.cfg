SPECIFICATION Spec
CONSTANTS
    MaxLines = 3
    Copies = 3
    QueueLimit = 6
INVARIANTS
    TypeOK
    AnnouncementIsTrue
PROPERTIES
    LinesArrive
\* A process ends, and the other one with it.
CHECK_DEADLOCK FALSE
