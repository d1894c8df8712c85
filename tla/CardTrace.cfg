\* Three channels, refusals, response data in pieces, a file ID that two files have, and a file
\* that the profile has not.
CONSTANTS
    MF = MF
    ef = ef
    adf = adf
    ef_imsi = ef_imsi
    ef_odd = ef_odd
    Files <- TheFiles
    DFs <- TheDFs
    Apps <- TheApps
    Parent <- ParentOf
    Fid <- FidOf
    Sfi <- SfiOf
    Known <- OddUnknown
    Usim = adf
    Paths <- ThePaths
    None = None
    Channels = {0, 1, 2}
    Pieces = {0, 2}
    Refuses = TRUE
    Corrected = {"open"}
    MaxLost = 2

SPECIFICATION Spec
CONSTRAINT OneAstray

CHECK_DEADLOCK FALSE

INVARIANT TypeOK
INVARIANT PictureRight
INVARIANT ResponsesBelong
