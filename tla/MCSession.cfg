SPECIFICATION FairSpec
CONSTANTS
    a = a
    b = b
    s1 = s1
    s2 = s2
    x = x
    y = y
    Tabs = {t1, t2}
    Persons = {a, b}
    Companies = {x, y}
    Sessions = {s1, s2}
    Owner <- OneOfB
    Home <- HomeX
    Opens <- OnlyAOpensY
    None = None
    MaxOnWay = 2
    Movers = {t1}
INVARIANTS
    TokensAgree
    HeaderIsShown
PROPERTIES
    SignedOutOnlyWhenEnded
    LoadingEnds
    CarriedOutWhereShown
CHECK_DEADLOCK FALSE
