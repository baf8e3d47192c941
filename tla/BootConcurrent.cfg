SPECIFICATION Spec
CONSTANTS
    Archives <- GoodArchives
    Absent = Absent
    Packages <- MCPackages
    FirstPackage = "smartrtu"
    InitialVersion = 2
    Downloader = "apkdownloader"
    ServerPackages = {"apkdownloader"}
    MaxLosses = 0
INVARIANTS
    RemovedMeansReplaced
CHECK_DEADLOCK FALSE
