CONSTANTS
    g = g
    a1 = a1
    a2 = a2
    a3 = a3
    b1 = b1
    b2 = b2
    b3 = b3
    c2 = c2
    d3 = d3
    e2 = e2
    t1 = t1
    t2 = t2
    t3 = t3
    t4 = t4
    t5 = t5
    k1 = k1
    k2 = k2
    k3 = k3
    k4 = k4
    k5 = k5
    k6 = k6
    Genesis = g
    Block <- MCBlock
    PathTo <- MCPathTo
    Tx <- MCTx
    KeyImage <- MCKeyImage
    TxsOf <- MCTxsOf
    KiOf <- MCKiOf
    MinerKi <- MCMinerKi
    NextDiff <- MCNextDiff
    Proof <- MCProof
    BadBlock = {c2}
    BadSemantic = {t4}
    FutureBlock = {}
    MaxAltBlocks = 9
    AltLivetime = 2
    Asked = {"pos", "pow"}
    MaxTime = 0
SPECIFICATION Spec
INVARIANTS
    TypeOK
    ChainsValid
    SwitchSound
    AltContainersAgree
    AltKeyImagesComplete
PROPERTIES
    BetterChainOnly
    TxsKept
