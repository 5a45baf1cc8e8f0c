SPECIFICATION Spec
CONSTANTS
  Ids = {1, 2, 3, 4}
  Plans <- Pair
  MaxVersion = 2
  Budgets <- Mixture
PROPERTY Converges
