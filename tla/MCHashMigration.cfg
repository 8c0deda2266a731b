SPECIFICATION FairMigration
CONSTANTS
    a = a
    team = team
    partOf = partOf
    malformed = malformed
    Nobody = Nobody
    NoSpec = NoSpec
    Names = {a}
    Labels = {team, partOf, malformed}
    Delivered = {team}
    Legacy = {partOf}
    Configurations <- Written
    MaxEdits = 2
INVARIANTS
    HashTypeOK
    StampsHashBuiltSpec
    LegacyAdviceSafe
PROPERTIES
    DriftMeansEdit
    EditsDriftNodes
    StampsMigrate
