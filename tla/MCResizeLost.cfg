SPECIFICATION SizesFairSpec
CONSTANTS
    Clients <- MCClients
    Base <- MCBase
    MaxConnections = 2
CHECK_DEADLOCK FALSE
PROPERTIES SizeReachesSender
