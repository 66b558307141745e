SPECIFICATION FairSpec
CONSTANTS
  redis = redis
  mysql = mysql
  elasticsearch = elasticsearch
  k1 = k1
  Second = 100000
  MaxInt = 4194303
  Configs <- MCConfigs
  TCP = {redis, mysql}
  HTTP = {elasticsearch}
  Clients = {k1}
INVARIANTS TypeOK TCPEventsKept StopsOnlyWhenTold ConfigUsable
PROPERTY SignalEnds
