SPECIFICATION IPSpec
CONSTANTS
    Requests = {"link", "busmon", "config", "raw"}
    Services <- MCServices
    NAddrs = 2
    NChannels = 2
    Seqnos = 3
    MaxConn = 3
    Cases <- MCCases
    Hosts = {1, 2}
    Setups <- MCSetups
    ErrorLimit = 1
    Faulty = {"single", "multi"}
    MaxSend = 2
    Configs <- MCConfigs
    MaxClients = 4
    Lines <- MCLines
INVARIANTS BooksExact Serves GroupExact ChainsComplete OptionsLand
CHECK_DEADLOCK FALSE
