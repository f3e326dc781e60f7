SPECIFICATION Spec
CONSTANTS
    Conns = {c1, c2}
    Sweeper = Sweeper
    Groups = {g1, g2}
    DefaultGroup = g1
    Names = {alice}
    Blank = Blank
    None = None
    Timeout = 1
PROPERTIES
    SweepsOnlyExpired
