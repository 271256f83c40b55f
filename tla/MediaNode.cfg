CONSTANTS
    w1 = w1
    w2 = w2
    s1 = s1
    s2 = s2
    r1 = r1
    r2 = r2
    t1 = t1
    audio = audio
    Workers = {w1, w2}
    Sids = {s1, s2}
    Rooms = {r1, r2}
    Tids = {t1}
    Kinds = {audio}
    Rpcs = {"create", "destroy", "addTrack", "removeTrack", "push", "startRecording", "stopRecording"}
    SerialPerSession = TRUE
    MaxLives = 2
    MaxAdds = 3
    MaxRecordings = 2
SPECIFICATION Spec
SYMMETRY NodeSymmetry
CONSTRAINT NodeBound
INVARIANTS
    RoomsListLiveSessions
    RegistriesMirrorTracks
    LatestRecordingStops
    DeliveredOnce
    DeliveryStaysInRoom
