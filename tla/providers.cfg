SPECIFICATION Spec
CONSTANTS
  Parts = {"serving", "refusing", "relaying", "coding", "counting", "chatting", "native", "strings", "responses"}
  r1 = r1
  r2 = r2
  none = none
SYMMETRY Symmetry
INVARIANTS
  CallsAreSound
  StreamsAreConverted
  
PROPERTIES
  FaultsFindTheirOwner
