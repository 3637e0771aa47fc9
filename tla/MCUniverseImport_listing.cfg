SPECIFICATION UniverseSpec
CONSTANTS
    Company = {"a", "b"}
    SourceId = {1}
    Listing = {"l", "m"}
    Document = {"first", "second"}
    RowsOf <- MCRowsOf
    Seeds = {"a"}
    SeedHomepage = "seed"
    SeedPrimary = "l"
    Importer = {i1, i2}
    Wave = {w1}
    WaveSize = 1
    MaxDay = 2
CHECK_DEADLOCK FALSE
PROPERTIES
    SeedPrimaryStands
