SPECIFICATION Spec
CONSTANTS
    v1 = v1
    v2 = v2
    v3 = v3
    Venue = {v1, v2, v3}
    Primary = v1
    Demo = Demo
    NoVenue = NoVenue
    Server = {p1}
    Seeder = Seeder
    Fixtures <- TwoReleases
    Radius = 2
    Limit = 1
    Overfetch = 2
    MaxCount = 100
    MaxSeeds = 1
INVARIANTS
    GeoTypeOK
    NearestFirst
    ShortAnswerIsComplete
CHECK_DEADLOCK FALSE
