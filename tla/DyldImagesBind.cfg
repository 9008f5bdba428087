CONSTANTS
    Images = {"main", "plugin", "lib", "other"}
    Main = "main"
    Deps <- MCDeps
    Binders = {"main", "other"}
    InTerminators = {"bind"}
    MaxHandles = 2
SPECIFICATION Spec
INVARIANT NothingDangles
