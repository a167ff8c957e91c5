SPECIFICATION Spec
CONSTANTS
    PageCount = 6
    Pages = {0, 1, 5}
    MaxWrites = 2
    MaxErases = 0
PROPERTY
    StoresItsPage
