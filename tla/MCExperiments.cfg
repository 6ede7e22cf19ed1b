SPECIFICATION Spec
VIEW View
CONSTANTS
  Params <- Const_Params
  Values = {"on", "off", "bad"}
  Vendor = {"X-Vendor"}
  Rejected <- Const_Rejected
  KeyOrder <- Const_KeyOrder
  Objects = {"Server", "Portal"}
  ObjectOf <- Const_ObjectOf
  Names = {"first", "overlap", "broken"}
  Forces <- Const_Forces
  Broken = {"broken"}
  Rpcs <- Const_Rpcs
INVARIANTS
  TypeOK
  ForcedIsSaved
PROPERTIES
  UntouchedKept
  AnswerTellsEffect
