\* Both plugins on a program with six functors, launched in any order.
SPECIFICATION Spec
CONSTANTS
    TypeDef <- MCTypeDef
    Functors <- MCFunctors
    Referent <- MCReferent
    Plugins = {"gcc", "clang"}
    MaxCalls = 3
INVARIANTS
    RegisteredAreContained
\* The program ends after its calls.
CHECK_DEADLOCK FALSE
