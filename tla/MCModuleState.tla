----------------------------- MODULE MCModuleState -----------------------------
EXTENDS ModuleState

CONSTANTS Parent, Child

\* Child needs Parent.
OnParent == [m \in Modules |-> IF m = Child THEN {Parent} ELSE {}]

AllByDefault == {}
===============================================================================
