SPECIFICATION Spec
CONSTANTS
  Inputs <- MCInputs
  Outputs <- MCOutputs
  Senders = {tts}
  Drainers = {bargein}
  QueueSize = 2
  MaxUplink = 2
  MaxSpeech = 3
  Free = Free
INVARIANTS ShutdownReleases SpeechIsComplete DrainLeavesOne
PROPERTIES ServeReturns CallsReturn
CHECK_DEADLOCK FALSE
