\* Three units of film, played past by one, three links and four acts of the person;
\* recordings of one or two seconds, and three openings of the devices; two attempts and
\* two reads under way; two paid videos and two openings of the studio; a message that
\* leads to a scene and one to a fact, two openings of the assistant and one look at the
\* scene's job at a time; two presses of the avatar panel's button, two openings of it
\* and two projects.
SPECIFICATION FairWatching
CONSTANTS
    MaxLength = 3
    Beyond = 1
    MaxRenewals = 3
    MaxActs = 4
    MinSeconds = 1
    MaxSeconds = 2
    MaxOpens = 3
    Prompts = {"none", "words"}
    Empty = "none"
    MaxKeys = 2
    MaxReads = 2
    Home = Home
    Elsewhere = Elsewhere
    MaxJobs = 2
    MaxMounts = 2
    Asks = {"scene", "note"}
    Scenes = {"scene"}
    Facts = {"note"}
    MaxPanels = 2
    MaxLooks = 1
    ClipProjects = {Here, There}
    MaxPresses = 2
    MaxTabs = 2
INVARIANTS
    AllTypes
PROPERTIES
    NothingIsPaidTwice
    WhatIsSaidIsSo
    WaitingEnds
CHECK_DEADLOCK FALSE
