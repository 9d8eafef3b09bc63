SPECIFICATION MCSpec
CONSTANTS
    Unit = 4
    Scale = 3
    DeadZone = 2
    SlowSpeed = 1
    FastSpeed = 3
    MinGain = 1
    MaxGain = 2
    LongGap = 2
    Engage = 5
    EngageOf = 2
    LetGo = 3
    LetGoOf = 2
    StartSpeed = 2
    StopSpeed = 1
    Steps <- MCSteps
    Devices <- MCDevices
    Entries <- MCEntries
    Reports <- MCReports
    None = None
    Gaps = {0, 1, 2}
    Threshold = 1
    Reach = 3
    MaxFrames = 6
    Ids = {0, 1, 2, 3}
    MaxContacts = 3
    PtpReports <- MCPtpReports
    Buttons = {"left", "right"}
    Unknown = {"other"}
    Scrolls <- MCScrolls
    Grain = 4
    WheelMax = 2
    MaxSubmits = 3
    Lists <- MCLists
    Messages <- MCMessages
    MaxMessages = 4
INVARIANTS
    NothingLost
    CoordinatesAreTold
    TouchesAccountedFor
    WindowsAccountedFor
CHECK_DEADLOCK FALSE
