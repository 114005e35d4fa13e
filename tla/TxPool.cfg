CONSTANTS
    t1 = t1
    t2 = t2
    t3 = t3
    k1 = k1
    k2 = k2
    m1 = m1
    a1 = a1
    NoTx = NoTx
    Tx <- MCTx
    KeyImage <- MCKeyImage
    MultisigId <- MCMultisigId
    AliasKey <- MCAliasKey
    KiOf <- MCKiOf
    MsOf <- MCMsOf
    AliasOf <- MCAliasOf
SPECIFICATION Spec
INVARIANT TypeOK
INVARIANT KeyImagesIndexed
INVARIANT NoRelayedConflict
INVARIANT AliasMarksBacked
