CONSTANTS
  NumRequesters = 3
  MaxCredit = 4
  SenderInitial = 1
  ReceiverInitial = 2
  PushCreditMaxChange = 2
  PopCreditMaxChange = 2
  RegisterPopOutputs = TRUE
  RegisterPushOutputs = TRUE
  CounterSize = 8
  Withhold = {0, 1}
  MinReset = 2
SPECIFICATION FairSpec
INVARIANTS TypeOK Conservation NoPushOverflow
PROPERTY FlowServed
