SPECIFICATION LevelsSpec
CONSTANTS
  Prices <- MCPrices
  MaxQty = 2
  Unit = 840
  Notionals = {1, 7, 13, 22}
  Bands = {0, 1000, 2000, 5000}
INVARIANTS LiquidityIsAllOfBand FillIsBest SlippageIffEnough TopIsClosest
