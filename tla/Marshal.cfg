SPECIFICATION Spec
CONSTANTS
    c1 = c1
    c2 = c2
    Clients <- MCClients
    PageSize = 4
    Pages = 2
    NFrames = 2
    VirtPages = 4
    Lens <- MCLens
    FileOps <- MCFileOps
    VfsOps <- MCVfsOps
    MappedSlices = TRUE
    Layouts <- ContiguousLayouts
SYMMETRY ClientSymmetry

INVARIANT ViewsRetired
INVARIANT ProviderSeesCallerBytes
