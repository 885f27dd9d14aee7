\* A server that ends removes the entry of the one that replaced it.
CONSTANTS
  Server = {s1, s2}
  Message = {w1}
  MaxReceipts = 1
  Nobody = nobody
SPECIFICATION ChannelSpec
PROPERTIES ReplacementKept
\* Servers that have ended stay so.
CHECK_DEADLOCK FALSE
