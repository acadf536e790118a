SPECIFICATION FairSpec
CONSTANTS
  f1 = f1
  f2 = f2
  Programs = {"frontsvr", "monitor", "bdsvr"}
  Fd = {f1, f2}
  Delay = 5
  SendFails = TRUE
INVARIANT OneHome
PROPERTIES PromptKept SilentClosed Renewed
