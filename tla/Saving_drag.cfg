\* The instance of Saving.cfg, the saving alone.
SPECIFICATION FairSaving
CONSTANTS
    Projects = {p1, p2, p3}
    EditKeys = {slider}
    NoKey = NoKey
    NoProject = NoProject
    Limit = 2
    Interrupts = FALSE
    Docs = {"d1", "d2"}
    Contents = {1, 2}
    Titles = {"title", "blank"}
    Blank = "blank"
    NoDoc = NoDoc
    NoSave = NoSave
    MaxMounts = 2
    MaxChanges = 2
    MaxVersion = 3
    Targets = {"youtube", "tiktok"}
    File = "file"
    MaxFrames = 2
    MaxKeys = 3
    Terms = {"a"}
    Kept = 2
    MaxTickets = 3
CONSTRAINT SavingAlone
PROPERTIES
    DragsGetSaved
CHECK_DEADLOCK FALSE
