\* Reads, the provider's commands, the event ring and the queue removal.
SPECIFICATION Spec
CONSTANTS
    PlayerName <- MCPlayers
    SourceName <- MCSources
    NoProvider = NoProvider
    Read = {r1}
    Nobody = Nobody
    Players <- MCPlayers
    Catalogue <- MCCatalogue
    Items <- MCItems
    Providers <- MCProviders
    Accounts <- MCAccounts
    DefaultModes <- MCDefaultModes
    MaxEdits = 2
    Definition <- MCDefinition
    Diagnostics = {"tail_log"}
    Targeted = {"remove_items_safe"}
    Dispatcher = {d1}
    Spawned = {s1}
    Native = {}
    MaxGrants = 1
    MaxSaves = 1
    Event = {"e1", "e2", "e3"}
    EventKind = {"added", "updated"}
    KindOf <- MCKindOf
    Capacities = {2, 3}
    MaxSeen = 5
    MaxItems = 4
    MaxRequest = 2
INVARIANTS TypeOK OutcomesAudited ShownRight
    AllOrNothing ConfirmedInDispatch
    RingAccounting
PROPERTIES ReadMonitorSpec RemovalSafe
CHECK_DEADLOCK FALSE
