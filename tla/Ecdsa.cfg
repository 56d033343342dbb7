SPECIFICATION Spec
CONSTANTS
  P = 79
  N = 67
  NBits = 7
  B = 7
  G <- MCG
  PrivateKeys <- MCKeys
  Nonces <- MCNonces
  InitialZs <- MCInitialZs
  Hashes <- MCHashes
  VerifyKeys <- MCVerifyKeys
  Rs <- MCRs
  Ss <- MCSs
  MaxTries = 2
INVARIANTS LadderIsMultiple VerifyIsEcdsa SignedIsAccepted
