CONSTANTS Services = {owner, other}
Owner = owner
MaxLives = 2
MaxCalls <- CallsUsed
Hwm = 2
Client = {worker1, worker2}
Server = {ventiler1, ventiler2}
Named = ventiler1
StartPrice = 10
SellBelow = 9
BuyAbove = 12
StopLoss <- StopUsed
TakeProfit = 1
RiskLimit = 0
MaxPositions = 2
Moves <- MovesUsed
MaxTicks = 4
MaxQueue = 2
Symbols <- SymbolsUsed
Nodes <- NodesUsed
BindingNames <- BindingNamesUsed
Lookups <- LookupsUsed
Self <- SelfUsed
MaxBindings = 2
SPECIFICATION Spec
INVARIANTS StopIsEffective AcceptedIsHeld SendsWhenConnected ScopeIsTheCallers DocumentedNodesAreCandidates
PROPERTIES ViewsOfOneLife NullOnlyWhenUnlisted OrdersAnswered
CHECK_DEADLOCK FALSE
