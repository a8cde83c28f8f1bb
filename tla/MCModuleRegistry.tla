---------------------------- MODULE MCModuleRegistry ----------------------------
EXTENDS ModuleRegistry

\* Module 1 does not accept the version of module 3.
MCOutdated == {<<1, 3>>}

\* Every graph of packages and of one capability over the modules; the library of
\* module 2 may be missing.
MCCatalogues ==
    [default: {{1}}, missing: {{}, {2}},
     packages: {p \in [Modules -> SUBSET Modules] : \A m \in Modules : m \notin p[m]},
     owner: [Capabilities -> Modules \cup {0}],
     needs: [Modules -> SUBSET Capabilities]]

MCConfigs == [enabled: SUBSET Modules, disabled: {{}, {1}}]
===============================================================================
