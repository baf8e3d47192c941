SPECIFICATION FairSpec
CONSTANTS
    LongLen = 2
    ShortLen = 1
    Units <- MCUnits
    PAD = PADDING
    PADDING = PADDING
    RTUAPP = RTUAPP
    OTHERAPP = OTHERAPP
    MaxErrors = 2
    Modulus = 3
    Names <- MCNames
    NoFile = NoFile
    Absent = Absent
    NoHeader = NoHeader
    Installed <- MCInstalled
    NoApp = NoApp
    Downloader = "apkdownloader"
    Firmware = "firmware.apk"
    Archive <- MCArchive
    Jobs <- AllJobs
    Sessions = 1
    HeaderReplies = 1
    Echoes = {TRUE, FALSE}
    Faults = {"lose", "repeat", "number", "complement", "crc", "cut", "fin", "rst"}
    MaxFaults = 2
    Junk = Junk
INVARIANTS
    TypeOK
    AcceptedIsSource
    ReceivedInOrder
    UploadAnswered
PROPERTIES
    VerdictIsFinal
    TimedWaitsEnd
    GoodTransferSucceeds
CHECK_DEADLOCK FALSE
