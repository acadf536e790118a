SPECIFICATION FairSpec
CONSTANTS
  Programs = {"frontsvr", "bdsvr", "bdjob"}
  Kinds = {"ping", "log", "initsess"}
  Opening = {"initsess"}
  Window = 3
  Title <- Titles
  Length <- Lengths
  Nul = {"ping", "initsess"}
  Limit <- Limits
  MaxSent = 3
  MaxLoss = 1
CHECK_DEADLOCK FALSE
INVARIANTS TypeOK OncePerLine OnlyHurtLost
PROPERTY ReadsEnd
