CONSTANTS
    Images = {"main", "plugin", "lib", "other"}
    Main = "main"
    Deps <- MCDeps
    Binders = {"main", "other"}
    InTerminators = {"dlclose"}
    MaxHandles = 2
SPECIFICATION Spec
INVARIANT HandleMeansLoaded
INVARIANT NothingDangles
INVARIANT NoGarbage
INVARIANT TerminatedFirst
PROPERTY CollectionEnds
