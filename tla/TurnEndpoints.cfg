CONSTANTS
    SpeechStartFrames = 3
    SilenceEndFrames = 6
    MinTurnDuration = 4
    MaxTurnDuration = 12
SPECIFICATION FairEndpointSpec
INVARIANTS
    EndpointTypeOK
    CountersAreRuns
PROPERTIES
    EventsAreEndpoints
    EveryTurnEnds
