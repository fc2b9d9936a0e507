SPECIFICATION Spec
CONSTANTS
    Wallets = {w1, w2}
    Accounts = {a1}
    Req = {r1, r2}
    MailUsers = 1
    MaxUsers = 3
    MaxRows = 3
    MaxMessages = 2
    MaxLogins = 2
    Nothing = Nothing
SYMMETRY Symmetry
PROPERTIES
    IdentityKeepsUser
    SecondRowIsRace
