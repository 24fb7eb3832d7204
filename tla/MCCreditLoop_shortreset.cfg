CONSTANTS
  NumRequesters = 1
  MaxCredit = 3
  SenderInitial = 0
  ReceiverInitial = 3
  PushCreditMaxChange = 1
  PopCreditMaxChange = 1
  RegisterPopOutputs = TRUE
  RegisterPushOutputs = TRUE
  CounterSize = 4
  Withhold = {0}
  MinReset = 1
SPECIFICATION Spec
INVARIANTS NoPushOverflow
