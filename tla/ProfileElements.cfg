\* Two profiles, three more PEs, three calls of any kind.
CONSTANTS
    hdr = hdr
    mf0 = mf0
    usim = usim
    opt = opt
    aka = aka
    isim = isim
    map = map
    rfm = rfm
    sd = sd
    app = app
    last = last
    app2 = app2
    ssd = ssd
    csim = csim
    a1 = a1
    a2 = a2
    a3 = a3
    NoAid = NoAid
    PE = {hdr, mf0, usim, opt, aka, isim, map, rfm, sd, app, last, app2, ssd, csim}
    type <- MCtype
    mandated = {mf0, usim, isim, aka, map, csim, app}
    aid <- MCaid
    algorithm <- MCalgorithm
    ber_tlv = {opt}
    New = {app2, ssd, csim}
    After = {mf0, aka, app}
    RemovedTypes = {"usim", "akaParameter", "application", "end"}
    Profile <- MCEdited
    Flag = {"gba-usim"}
    MaxCalls = 3

SPECIFICATION ElementsSpec
CHECK_DEADLOCK FALSE

INVARIANT ElementsTypeOK
INVARIANT EveryInstanceIndexed
PROPERTY RemovedLeavesNoAdf
PROPERTY AddedIsAccepted
