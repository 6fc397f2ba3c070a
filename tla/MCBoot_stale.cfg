SPECIFICATION Spec
CONSTANTS
  ServerTries = 3
  MaxRestarts = 0
  Environments <- ForgetfulModem
PROPERTY ServerComesBack
