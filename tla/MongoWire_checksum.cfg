SPECIFICATION Spec
CONSTANTS
  Inputs <- MCInputs
  MaxMsgSize = 120
  MaxBSONDoc = 100
  HelloNames <- MCHelloNames
  PingNames <- MCPingNames
  BuildNames <- MCBuildNames
  ListNames <- MCListNames
  AuthCommands <- MCAuthCommands
  CmdSuffixes <- MCCmdSuffixes
  UserKey <- MCUserKey
  Version <- MCVersion
  BuildHash <- MCBuildHash
  Now = 1234567
INVARIANT ChecksummedBodyLogged
