SPECIFICATION Spec
CONSTANTS
    Files <- MCFiles
    Contents <- MCContents
    Listing <- MCListing
    Authored <- MCAuthored
    Namespaces <- MCNamespaces
    Canonical <- MCCanonical
    States <- MCStates
    ContentNames <- MCContentNames
    Depth <- MCDepth
    ElementNames <- MCElementNames
    Attributes <- MCAttributes
    ChildNames <- MCChildNames
    Ignored <- MCIgnored
    MaxChildren = 3
    Names <- MCNames
    Keys <- MCKeys
    Texts <- MCTexts
    MaxWord = 4
    Roots = {"choices", "mixed", "core", "overriding", "nested", "interleaved", "conflicting", "repeating", "dangling",
             "alternatives", "obliged", "eitherName",
             "pattern", "unclosed", "includingTwice", "includingPattern"}
CHECK_DEADLOCK FALSE
INVARIANTS
    LoadsAsWritten
    LoadsAsMeant
    RejectsNoValid
    AcceptsOnlyValid
    MissingChildFits
    NotAllowedNowhere
