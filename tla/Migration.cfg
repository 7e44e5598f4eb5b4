SPECIFICATION Spec
CONSTANTS
    NULL = NULL
    SlugFormat = {}
    Runner <- MCRunner
    Restarts = 2
PROPERTIES
    MigrationsAreWhole
    RefusedOnlyIfOvertaken
    EveryRunEnds
