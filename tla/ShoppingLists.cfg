\* Four commands of one scenario, late and equal stamps.
CONSTANTS
    r1 = r1
    r2 = r2
    flour = flour
    jam = jam
    s1 = s1
    s2 = s2
    Recipe <- MCRecipe
    Ingredient <- MCIngredient
    Base <- MCBase
    Menus <- MCMenus
    None = None
    Name = {"a", "b"}
    FirstNames = {"a"}
    Section = {s1, s2}
    OpenSections = {s1}
    Item = {jam}
    Amounts = {1, 4}
    Sources <- MCSources
    Creators = {2}
    Scenarios <- MCScenarios
    Command = {1, 2, 3, 4}
    WallTimes = {1, 2}
    Horizon = 2
SPECIFICATION Spec
INVARIANTS
    CreditIsExplained
    FeedCarriesLists
    LatestWriteHolds
PROPERTIES
    CheckedRowIsSettled
    NewerCheckSurvives
