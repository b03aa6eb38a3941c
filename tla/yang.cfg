SPECIFICATION Spec
CONSTANTS
  Modules <- MCModules
  Orders <- MCOrders
  Statements <- MCStatements
INVARIANTS OnePassIsEnoughInOrder RootedPathsExist ExistingPathsAccepted
