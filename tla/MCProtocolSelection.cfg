SPECIFICATION FairSelectionSpec
CONSTANTS
    Lists <- SmallLists
    Offers <- SmallOffers
    Junk <- SmallJunk
CHECK_DEADLOCK FALSE
INVARIANTS PreferredMatch StaysInTheList
PROPERTY SelectionEnds
