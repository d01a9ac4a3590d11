\* Up to three commands of one scenario on one scheduled recipe, late and equal stamps.
CONSTANTS
    l1 = l1
    l2 = l2
    oil = oil
    salt = salt
    pepper = pepper
    noon = noon
    evening = evening
    Schedule = {1, 2}
    Line = {l1, l2}
    Ingredient = {oil, salt, pepper}
    Versions <- MCVersions
    Place = {noon, evening}
    Diners = 2
    Percentages = {0, 100}
    Amounts = {0, 300}
    Quantities = {0, 2}
    Clients = 2
    Newest = 2
    None = None
    Scenarios <- MCScenarios
    Command = {1, 2, 3}
    WallTimes = {1, 2}
    Horizon = 1
SPECIFICATION Spec
INVARIANTS
    LatestChoiceHolds
    FeedCarriesMenu
PROPERTIES
    PriceMovesOnlyByRefresh
    RefreshCoversTheMenu
    UpdateKeepsChoices
