SPECIFICATION Spec
CONSTANTS
  Messages <- TwoTexts
  TableSize = 2
  MaxAttempts = 2
  AckTimeouts = {1}
  Slack = 0
  MaxDelay = 1
  DedupeSize = 2
  DedupeWindow = 3
  MaxSends = 1
PROPERTY NoStaleRetry
