SPECIFICATION Spec
CONSTANTS
    LongLen = 2
    ShortLen = 1
    Units <- MCUnits
    PAD = PADDING
    PADDING = PADDING
    RTUAPP = RTUAPP
    OTHERAPP = OTHERAPP
    MaxErrors = 2
    Modulus = 3
    Names <- MCNames
    NoFile = NoFile
    Absent = Absent
    NoHeader = NoHeader
    Installed <- MCInstalled
    NoApp = NoApp
    Downloader = "apkdownloader"
    Firmware = "firmware.apk"
    Archive <- MCArchive
    Jobs <- LongUploads
    Sessions = 2
    HeaderReplies = 2
    Echoes = {TRUE}
    Faults = {"lose", "repeat", "number", "complement", "crc", "cut", "fin", "rst"}
    MaxFaults = 1
    Junk = Junk
INVARIANTS
    ArmedIsWhole
    AcceptInv
PROPERTIES
    UploadSpec
CHECK_DEADLOCK FALSE
