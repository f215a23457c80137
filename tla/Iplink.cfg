SPECIFICATION Spec
CONSTANTS
  u1 = u1
  u2 = u2
  Users = {u1, u2}
  Commands <- SomeCommands
  Abbreviates <- SomeWords
  Links = {"eth0"}
  NoLink = "none"
INVARIANTS
  TypeOK
  ShownAsAsked
