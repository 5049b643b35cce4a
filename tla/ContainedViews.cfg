\* A View in a member array, or in a base class with clang, is not registered.
SPECIFICATION Spec
CONSTANTS
    TypeDef <- MCTypeDef
    Functors <- MCFunctors
    Referent <- MCReferent
    Plugins = {"gcc", "clang"}
    MaxCalls = 1
INVARIANTS
    ContainedViews
CHECK_DEADLOCK FALSE
