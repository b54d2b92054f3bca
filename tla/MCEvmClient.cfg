SPECIFICATION Spec
CONSTANTS
  ChainId = 1
  Heads <- MCHeads
  Addresses <- MCAddresses
  Contract <- MCContract
  Balance <- MCBalance
  ErrorReplies <- MCErrorReplies
PROPERTIES
  ReadsAreAtomic
