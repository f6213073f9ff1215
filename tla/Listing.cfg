SPECIFICATION FairSpec
CONSTANTS
    Slash <- SlashByte
    Objects <- ManyObjects
    Temps <- OneTemp
    Trees <- BigTrees
    Vacant <- EmptyDirectory
    Queries <- SomeQueries
    Writes = 2
    NoKey = NoKey
CHECK_DEADLOCK FALSE
INVARIANTS ListingInv PagesInv PageMatches PagesAscend NothingMissed NothingInvented
PROPERTY ListingEnds
