SPECIFICATION Spec
CONSTANTS
 Tabs <- MCThreeTabs
 BrowserOf <- MCTwoBrowsers
 Identities <- MCIdentities
 Candidates <- MCCandidates
 Names <- MCNames
 Legacy <- MCLegacy
 Servers <- MCServers
 SignupLimit = 1
 MaxStarts = 3
PROPERTIES ClosedLoseSessions
CHECK_DEADLOCK FALSE
