SPECIFICATION FairBoot
CONSTANTS
    Archives <- AllArchives
    Absent = Absent
    Packages <- MCPackages
    FirstPackage = "smartrtu"
    InitialVersion = 2
    Downloader = "apkdownloader"
    ServerPackages = {"apkdownloader", "btsever1"}
    MaxLosses = 2
PROPERTIES
    LossHasCause
    OtherBuildNeverUpdates
    DeviceSpec
    UpdateHappens
CHECK_DEADLOCK FALSE
