CONSTANTS
    Images = {"main", "plugin", "lib", "other"}
    Main = "main"
    Deps <- MCDeps
    Binders = {"main", "other"}
    InTerminators = {"dlopen"}
    MaxHandles = 2
SPECIFICATION Spec
INVARIANT HandleMeansLoaded
