\* Three commands of one scenario on a plan, late and equal stamps.
CONSTANTS
    x1 = x1
    vegan = vegan
    nuts = nuts
    Day <- MCDay
    Role <- MCRole
    Recipe <- MCRecipe
    Exception = {x1}
    Tag = {vegan, nuts}
    Text = {"a", "b"}
    LastDate = 3
    MaxDays = 2
    Digits = 3
    KeyLength = 2
    Keys <- MCKeys
    Movers = {1, 3}
    Presets <- MCPresets
    None = None
    Scenarios <- MCScenarios
    Command = {1, 2, 3}
    WallTimes = {1, 2}
    Horizon = 2
SPECIFICATION Spec
INVARIANTS
    FeedCarriesPlan
    LatestWriteHolds
PROPERTIES
    ChangeCoversTheRange
    MoveLandsInPlace
