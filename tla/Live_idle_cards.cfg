SPECIFICATION Spec
CHECK_DEADLOCK FALSE
CONSTANTS
    films = films
    books = books
    Jobs = {films, books}
    NoCard = NoCard
    Lane <- MCLane
    Batches <- MCBatches
    MaxRuns = 2
    MaxConnects = 2
    MaxFeed = 1
    MaxWire = 1
INVARIANTS
    ActiveCardsAreOfTheRun
