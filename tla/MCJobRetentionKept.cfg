SPECIFICATION JobSpec
CONSTANTS
    r1 = r1
    c1 = c1
    NoRow = NoRow
    NoWorker = NoWorker
    MaxClosing = 2
    Row <- MCRow
    Worker <- MCCron
PROPERTY
    KeptUntilJobIsClosed
