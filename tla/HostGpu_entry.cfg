\* A draw whose entry point the module lacks, after one whose entry point it has.
SPECIFICATION Spec
CONSTANTS
    None = None
    Bufs = {b1}
    Draws <- MCBadEntry
    Entries = {"present"}
    EntryPoints = {"main"}
    Cap <- MCCap
    ByteCap = 3
    MaxTextures = 3
INVARIANT
    BadEntryErrs
