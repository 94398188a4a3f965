SPECIFICATION Spec
CONSTANTS
    Listings <- MCListings
    Shop <- MCShop
    Grade <- MCGrade
    Name <- MCName
    NameLength <- MCNameLength
    Barcode <- MCBarcode
    LoneLetters <- MCLoneLetters
    MaxProduct = 7
    MaxChanges = 2
    MaxEdits = 1
    Judged <- MCJudged
CHECK_DEADLOCK FALSE
INVARIANTS
    LinkIsNeverUndone
