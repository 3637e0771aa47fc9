SPECIFICATION GatesSpec
CONSTANTS
    Outlet = {"o1", "o2"}
    Story = {"t1", "t2", "t3", "t4", "t5"}
    Registries <- MCRegistries
    Fetches <- MCFetches
    Alike = {}
    MinDiscovered = 1
    MinAccepted = 1
    MinRatio = 1000
    MinSample = 5
    MinCovered = 3
INVARIANTS
    IrrelevantBatchIsRefused
