SPECIFICATION FairSupervision
CONSTANTS
    Archives <- OneArchive
    Absent = Absent
    Packages <- MCPackages
    FirstPackage = "smartrtu"
    InitialVersion = 2
    Downloader = "apkdownloader"
    ServerPackages = {"apkdownloader", "btsever1"}
    MaxLosses = 1
INVARIANTS
    SupervisionInv
PROPERTIES
    ServerAppComesBack
    WatcherReturns
    
CHECK_DEADLOCK FALSE
