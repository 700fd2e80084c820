SPECIFICATION Spec
CONSTANTS
    Fields = {wifi, address}
    Own = {address}
    Values = {v1, v2}
    Default = v1
    Versions = {1, 2}
    Blank = Blank
    Missing = Missing
    Malformed = Malformed
    Broken = Broken
    None = None
INVARIANTS
    TypeOK
    ModeFollowsSettings
