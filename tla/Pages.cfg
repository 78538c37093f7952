SPECIFICATION MCSpec
CONSTANTS
    a = a
    b = b
    i1 = i1
    i2 = i2
    i3 = i3
    r1 = r1
    r2 = r2
    d1 = d1
    d2 = d2
    x1 = x1
    x2 = x2
    x3 = x3
    f1 = f1
    f2 = f2
    None = None
    Dirs = {a, b}
    Items = {i1, i2}
    Order <- MCOrder
    PageSize = 1
    Reqs = {r1, r2}
    Folders = {Top, d1, d2}
    Top = Top
    NoFolder = NoFolder
    Parent <- MCParent
    Docs = {x1, x2, x3}
    NoDoc = NoDoc
    FolderOf <- MCFolderOf
    DocRank <- MCDocRank
    DocLimit = 1
    Gets = {r1, r2}
    Files = {f1, f2}
    NoFile = NoFile
    Foreign = {f1}
    Viewable = {f1, f2}
    Problematic = {f2}
    Runs = {r1, r2}
    MaxMade = 3
    LinkQuota = 2
    Calls = {r1, r2}
CHECK_DEADLOCK FALSE
INVARIANTS
    PagesTypeOK
    CrumbsFollowContents
    UndoneOnce
    
    ViewFollowsAddress
    FileFollowsAddress
    
PROPERTIES
    PagesEnd
