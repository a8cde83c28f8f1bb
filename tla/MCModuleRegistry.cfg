SPECIFICATION Spec
CONSTANTS
    N = 3
    Capabilities = {c}
    Outdated <- MCOutdated
    Catalogues <- MCCatalogues
    Configs <- MCConfigs
CHECK_DEADLOCK FALSE
INVARIANTS OrderIsSound RefusalHasCause
PROPERTIES Decided
