CONSTANTS
    White = {space}
    Quote = quote
    Letter = {x, y}
    Nul = nul
    Junk = junk
    Lines <- MCLines
    MaxInput = 6
    MaxArgs = 3
    MaxArgString = 6
SPECIFICATION Spec
INVARIANTS TypeOK SplitExact
