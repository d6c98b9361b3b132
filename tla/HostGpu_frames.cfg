\* Frames of all kinds over small caches; any Vulkan call may fail; guest memory moves.
SPECIFICATION Spec
CONSTANTS
    None = None
    Bufs = {b1, b2}
    Draws <- MCDraws
    Entries <- MCEntries
    EntryPoints = {"main", "alt"}
    Cap <- MCCap
    ByteCap = 3
    MaxTextures = 3
SYMMETRY BufSymmetry
INVARIANTS
    TypeOK
    NothingDangles
    NoLeak
    FrameIsTheDraws
    ImportsMapped
