SPECIFICATION Spec
CONSTANTS
    Parent = parent
    Child = child
    Modules = {parent, child}
    DependsOn <- OnParent
    Defaults <- AllByDefault
    Processes = {p1, p2}
    None = None
INVARIANTS SerialUseIsSafe
PROPERTIES StaleStateExpires
