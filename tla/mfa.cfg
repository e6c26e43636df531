\* A customer's two devices, a factor of each kind, everybody signed out twice.
SPECIFICATION Spec
CONSTANTS
  laptop = laptop
  phone = phone
  app = app
  mail = mail
  key = key
  c1 = c1
  None = None
  Browsers <- Devices
  Patient <- OneDevice
  Ids = {"user"}
  Factors <- AllFactors
  Kind <- KindOf
  Owner <- OwnedBy
  Challenges <- OneChallenge
  Settings <- UserSettings
  Sets <- TwoSets
  MAX_ATTEMPTS = 2
  MaxEpoch = 2
CHECK_DEADLOCK FALSE

  
  
PROPERTIES
  LetBackIn
