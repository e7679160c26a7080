\* A PATCH fails after another one has succeeded.
SPECIFICATION Spec
CONSTANTS
    f1 = f1
    f2 = f2
    w1 = w1
    w2 = w2
    FileId = {f1, f2}
    Wallet = {w1, w2}
    WalletOf <- MCWalletOf
    Null = Null
    Sold = {f1}
    MaxDate = 2
    MaxReplies = 2
    MaxFaults = 1
INVARIANTS
    SuccessIsTrue
