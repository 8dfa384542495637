SPECIFICATION BotSpec
CONSTANTS
    i1 = i1
    i2 = i2
    h1 = h1
    h2 = h2
    Items = {i1, i2}
    Handlers = {h1, h2}
    MaxForms = 2
    Plans <- MCPlans
    None = None
SYMMETRY Symmetry
CHECK_DEADLOCK FALSE
INVARIANTS  FormsAreWhole OncePerPrompt OnboardingIsKept
