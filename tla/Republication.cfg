\* An ingredient that is published twice more.
CONSTANTS
    g = g
    kg = kg
    piece = piece
    dozen = dozen
    crate = crate
    vegan = vegan
    nuts = nuts
    oil = oil
    salt = salt
    soup = soup
    stew = stew
    l1 = l1
    l2 = l2
    Configured <- MCConfigured
    Ingredient = {oil, salt}
    Recipe = {soup, stew}
    Version <- MCVersion
    Unit <- MCUnit
    Tag = {vegan, nuts}
    Dimension <- MCDimension
    Factor <- MCFactor
    SeedKey <- MCSeedKey
    Names = {"a", "b"}
    Details = {"x", "y"}
    Tagged <- MCTagged
    Expected <- MCExpected
    Others <- MCOthers
    Mappings <- MCMappings
    None = None
    Scenarios <- Republished
    Command = {1, 2, 3}
    WallTimes = {1, 2}
    Horizon = 1
SPECIFICATION Spec
INVARIANT EveryPublicationIsDecided
