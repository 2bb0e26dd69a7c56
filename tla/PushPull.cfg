\* One request beside the loop and two of: edit, request, failed write, crash;
\* and a chain of three directories under a repo each for the upper two, two
\* changes and one thing going wrong.
SPECIFICATION SideSpec
CONSTANTS
    Handlers = {h1}
    SetsFamily <- MCSetsFamily
    OwnFamily <- MCOwnFamily
    Roots <- MCRoots
    Places <- MCPlaces
    Loop = loop
    None = none
    Blank = blank
    Torn = torn
    MaxEvents = 2
    Dirs = {1, 2, 3}
    Parent <- MCParent
    Above <- MCAbove
    Items = {1, 2, 3}
    Tops <- MCTops
    Lanes <- MCLanes
    treeMaxDepth = 2
    MaxChanges = 2
    MaxTroubles = 1
INVARIANTS RenderedAsWritten  AckedRulesSurvive
PROPERTIES FiltersArrive 
