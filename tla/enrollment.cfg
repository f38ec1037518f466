SPECIFICATION AccessSpec
CONSTANTS
  Admins = {admin}
  Setups = {setup1, setup2}
  MaxCodes = 2
  MaxExchanges = 3
  MaxCuts = 1
INVARIANT UsedCodeStaysUsed SettledAgrees
