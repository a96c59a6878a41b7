CONSTANTS
    u1 = u1
    u2 = u2
    b1 = b1
    b2 = b2
    k1 = k1
    k2 = k2
    p1 = p1
    p2 = p2
    Users <- MCUsers
    BotAccounts <- MCBotsTwo
    Keys <- MCKeysTwo
    ProxyAddrs <- MCProxies
    Fees <- MCFees
    NoisFees <- MCNoisFees
    MaxCallbacks <- MCMaxCallbacks
    TimeExpireds <- MCTimeExpireds
    TimePerBlocks <- MCTimePerBlocksFixed
    Deposits <- MCDeposits
    MaxNonce = 1
    MaxTime = 3
    ClockSkew = 0
    KeyRank <- MCKeyRank
    KeyOwner <- MCKeyOwnerTwo

SPECIFICATION Spec

INVARIANT BountyToKeyOwner
