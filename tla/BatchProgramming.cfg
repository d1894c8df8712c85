\* Three cards, four rounds, two starts; a number for each card, or a file with a row for each.
CONSTANTS
    c1 = c1
    c2 = c2
    c3 = c3
    one = one
    two = two
    three = three
    i1 = i1
    i2 = i2
    i3 = i3
    Cards <- ThreeCards
    Handlers = {"manual", "auto"}
    Sources = {"cmdline", "csv"}
    Rows <- TheRows
    Iccid <- IccidOf
    None = None
    NoCard = NoCard
    Torn = Torn
    WriteHlr = FALSE
    MaxRounds = 4
    MaxStarts = 2

SPECIFICATION Spec

CHECK_DEADLOCK FALSE

INVARIANT TypeOK
INVARIANT GoodCardsDiffer
INVARIANT GoodCardsRecorded
INVARIANT SavedIsBeyond
