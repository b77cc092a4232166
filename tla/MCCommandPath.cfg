CONSTANTS
    Cap = 11
    Vmids = {101, 102, 313}
    Zeros = {"", "0", "0000000"}
    MaxTok = 5
    Agents = {4, 5, 6, 7}
    Stores = {"s1"}
    MaxBody = 2
    WriteOps = {"ticket.article.create"}
    MaxProtected = 2
    Configs <- MCConfigs
    Commands <- MCCommands
    Bodies <- MCBodies
SPECIFICATION Spec
INVARIANT DeclaredIsInForce
INVARIANT ProtectedNeverSent
 
INVARIANT BlackNeverSent
INVARIANT QuotingNeverPermits
INVARIANT SecretsNeverSigned
INVARIANT FilteredIsAllowlisted
INVARIANT OneEncoding
CHECK_DEADLOCK FALSE
