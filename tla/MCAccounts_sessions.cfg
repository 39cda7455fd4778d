SPECIFICATION AccountsSpec
CONSTANTS
  Accounts = {1, 2}
  Passwords = {p1, p2}
  Subjects = {google}
  Clients = {c1, c2}
  NoPassword = none
  MaxVersion = 2
  MaxTokens = 2
  MaxServed = 5
  MaxFaults = 1
CHECK_DEADLOCK FALSE
 
PROPERTIES RegistrationMailArrives
