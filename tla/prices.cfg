SPECIFICATION Spec
CONSTANTS
    Listings <- MCListings
    Shop <- MCShop
    Grade <- MCGrade
    Name <- MCName
    LoneLetters <- MCLoneLetters
    ShopOrder <- MCShopOrder
    Currency <- MCCurrency
    Kit <- MCKit
    Answers = {0, 13, 14, 90}
    Fallback = 12
    Catalogs <- MCCatalogs
    Legacy <- MCLegacy
    Filters <- MCFilters
    MaxRuns = 4
    MaxSpecWords = 2
    MaxSpecPins = 2
    MaxWordLen = 8
CHECK_DEADLOCK FALSE
INVARIANTS
    TypeOK
    SearchAgreesWithChart
    ChartIsWhatWasListed
    CheapestComesFirst
    WatchAgreesWithSearch
PROPERTIES
    EURIsKept
