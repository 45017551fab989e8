SPECIFICATION Spec
CONSTANTS
  Wallets = {A, B}
  Nobody = Nobody
CHECK_DEADLOCK FALSE
INVARIANT
  SessionIsOfTheWallet
