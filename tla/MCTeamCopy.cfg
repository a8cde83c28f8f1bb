SPECIFICATION Spec
CONSTANTS
    Workers = {w1, w2}
    Tables <- MCTables
    Cloned = {"pipelines", "stages", "menus"}
    RefTables <- MCRefTables
    Guessed <- MCGuessed
    Required = {"stages"}
    Declared = {"stages", "menus"}
    MaxId = 5
    MaxTeams = 3
    MaxWrites = 1
    Databases <- MCDatabases
    FirstFree <- MCFirstFree
    Archives <- MCArchives
    Importer = Importer
    Stranger = Stranger
    None = None
CHECK_DEADLOCK FALSE
INVARIANTS NoForeignReference
PROPERTIES CopyIsExact OthersUntouched
