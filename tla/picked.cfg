\* An asset picked while the contract of another is asked: is what is signed what was shown?
SPECIFICATION Spec
CONSTANTS
    CentsMax = 12
    UnitsPerCent = 2
    WeiPerUnit = 5
    NativeMaxUnits = 10
    Word = 52
    TipFloor = 3
    ShownUnit = 4
    Assets = {pol, usdc, trx, usdt}
    TronAssets = {trx, usdt}
    PolygonAssets = {pol}
    Coins = {pol, trx}
    OperatorSet = {usdc, usdt}
    Broken = {}
    SixDecimals = {usdc, usdt}
    Boots <- BothSet
    Digits <- MCDigits
    Balances <- FundsAtTheEdge
    FeePairs <- TwoFeePairs
    GasCoin = 1
    GasToken = 2
    QueueLen = 2
    MaxCharges = 2
    MaxPosts = 0
    Upsets = {"switch"}
CHECK_DEADLOCK FALSE
INVARIANTS
    SignedIsAgreed
