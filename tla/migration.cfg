SPECIFICATION FairSpec
CONSTANTS
    Workspaces = {"w1", "w2"}
    QueueEntries = {"lock"}
    Journals = {"j1"}
    MaxEdits = 1
    MaxDamages = 1
    MaxInterrupts = 2
INVARIANT NoSecretIsCopied
PROPERTIES HcsChoicesAreKept MigrationCompletes
CHECK_DEADLOCK FALSE
