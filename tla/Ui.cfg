SPECIFICATION FairSpec
CONSTANTS
    TextRows = 3
    MenuMaxRows = 4
    QueueMax = 2
    Keys = {"down", "menu", "home", "power", "alt-l"}
    Menus <- MCMenus
INVARIANTS IInv SelectedShown
PROPERTIES KeyTaken
