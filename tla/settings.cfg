SPECIFICATION Spec
CONSTANTS
  Handlers = {h1, h2}
  Users = {owner, ann}
  Owners = {owner}
  PrivateWith = None
  Orders <- MCOrders
  Locales = {"ru", "en"}
  Modes = {"classic"}
  ValidTexts = {"hi"}
  Labels = {}
  Default <- MCDefault
  None = None
  AllowToAll = {FALSE}
  Budget = 2
  PerChat = 1
  OtherChats = 2
  MaxUpdates = 3
  MaxFaults = 1
  MaxChanges = 1
SYMMETRY Symmetry
CHECK_DEADLOCK FALSE
INVARIANTS TypeOK SetterIsEntitled QuietWhenTold ConfirmedIsStored GreetingInv StarvedByMany
