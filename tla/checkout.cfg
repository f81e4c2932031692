\* Two charges in four kinds of asset, one change of fees, Charge armed again.
SPECIFICATION Spec
CONSTANTS
    CentsMax = 12
    UnitsPerCent = 2
    WeiPerUnit = 5
    NativeMaxUnits = 10
    Word = 52
    TipFloor = 3
    ShownUnit = 4
    Assets = {pol, usdc, trx, usdt}
    TronAssets = {trx, usdt}
    PolygonAssets = {pol}
    Coins = {pol, trx}
    OperatorSet = {usdc, usdt}
    Broken = {}
    SixDecimals = {usdc}
    Boots <- OneNotSet
    Digits <- MCDigits
    Balances <- FundsAtTheEdge
    FeePairs <- TwoFeePairs
    GasCoin = 1
    GasToken = 2
    QueueLen = 2
    MaxCharges = 2
    MaxPosts = 1
    Upsets = {"switch", "unapplied"}
CHECK_DEADLOCK FALSE
INVARIANTS
    TypeOK
    SignedWasConfirmed
    PayeeWasChosen
    FeeUnderCeiling
    ExactValue
    TokensVetted
    TipWithinCap
    BalanceCovers
