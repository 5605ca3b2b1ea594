CONSTANTS
  ConfigFiles <- CommentedFiles
  TextMembers <- SomeTextMembers
  NumberMembers <- SomeNumberMembers
  RpcPorts <- ThePorts
  MaxPorts = 32
SPECIFICATION ConfigSpec
INVARIANT CommentedConfigIsRead
CHECK_DEADLOCK FALSE
