CONSTANTS
    Paths <- MCPaths
    Contents <- MCContents
    RawPaths <- MCRawPaths
    Archives <- MCArchives
    Batches <- MCBatches
    Calls = {c1}
    MaxCalls = 4
    MaxBreaks = 1
SPECIFICATION BundleSpec
INVARIANTS SettledConsistent FreshBuildIsEmpty RowsHaveFiles
CHECK_DEADLOCK FALSE
