\* Two command lists, three artificial events, three copies registered; a
\* hostptr-copies ring of 3 slots holds two chunks, so a publish of three
\* finished copies finds it full.  Two readMemory calls, shmem opens may fail.
CONSTANTS
    Lists = {c1, c2}
    Events = {e1, e2, e3}
    MaxRegs = 3
    HostptrCapacity = 3
    NoEntry = NoEntry
    MaxReads = 2
    OpenMayFail = TRUE
    MaxSurfaced = 3
SPECIFICATION CopiesSpec
SYMMETRY Symmetry
INVARIANT EventsConserved
INVARIANT FinishedMeansSignaled
INVARIANT CopiesAccounted
INVARIANT ReadCopiesDue
