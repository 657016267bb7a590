SPECIFICATION MCSpec
CONSTANTS
  Telegrams <- MCTelegrams
  InBytes = {0, 1, 3, 5, 8, 16, 169, 170, 254, 255}
  MaxLength = 2
  maxPayloadAaAutoSynDrains = 3
  Lengths = {0, 1, 16}
  Fills <- MCFills
  Stray <- MCStray
INVARIANTS TransactionInv TelegramFollowed
