SPECIFICATION FairSpec
CONSTANTS
    robots = robots
    sitemap = sitemap
    home = home
    page = page
    other = other
    Invalid = Invalid
    Nothing = Nothing
    Wrong <- ErrorItem
    Doc <- MCDoc
    Link <- MCLink
    Webs <- MCWebs
    Recursive <- MCRecursive
    Before <- MCBefore
    Declared <- MCDeclared
    Directory <- MCDirectory
    Token <- MCToken
    Roots <- MCRoots
    JobCapacity = 4
    Buffer = 2
    Verbose = FALSE
INVARIANTS
    TypeOK
    OnePlace
    Complete
    GivesUpForCause
    ExitTells
    ReportsWhatIsWritten
PROPERTIES
    ImplementsCrawl
    Terminates
