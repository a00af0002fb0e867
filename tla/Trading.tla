------------------------------- MODULE Trading ------------------------------
(***************************************************************************)
(* The algotrading example: a broker publishes a price, an evaluator turns *)
(* it into orders, an executor forwards them to a money manager, which     *)
(* accepts or refuses them and closes its positions on the prices it gets. *)
(* PUB/SUB between broker and the others, PUSH/PULL from evaluator to      *)
(* executor, REQ/REP between executor and money manager.                   *)
(***************************************************************************)
EXTENDS Integers, Sequences, SequencesExt, FiniteSetsExt

CONSTANTS StartPrice, SellBelow, BuyAbove, \* prices, in units of price
          StopLoss, TakeProfit, RiskLimit, \* amounts, one unit of price times the leverage
          MaxPositions,
          Moves,       \* bound: what the price may move by between two ticks
          MaxTicks,    \* bound: prices published
          MaxQueue     \* bound: prices waiting at a subscriber

ASSUME TradingAssumption ==
    /\ {StartPrice, SellBelow, BuyAbove, StopLoss, TakeProfit, RiskLimit} \subseteq Int
    /\ Moves \subseteq Int /\ {MaxPositions, MaxTicks, MaxQueue} \subseteq Nat

VARIABLES price, ticks,
          connected,   \* links whose connect() is done, that of a deferred one included
          evalPrices, moneyPrices, \* prices on their way
          orders,      \* order sizes on their way to the executor
          sent,        \* orders the evaluator has sent
          exec,        \* the executor's REQ socket: "ready" | "waiting", or it is "dead"
          query,       \* order on its way to the money manager
          answer,      \* its answer on its way back
          portfolio, runPnl,
          acks, errors, \* answers the executor has read
          closed       \* positions the money manager has logged as closed

brokerVars == <<price, ticks>>
evalVars   == <<evalPrices, orders, sent>>
execVars   == <<exec, query, answer, acks, errors>>
moneyVars  == <<moneyPrices, portfolio, runPnl, closed>>
tradingVars == <<brokerVars, connected, evalVars, execVars, moneyVars>>

Links == {"eval.stream", "eval.exec", "money.stream", "exec.money"}

\* RUN_PNL is not initialised: it is either side of the risk limit.
TradingInit ==
    /\ price = StartPrice /\ ticks = 0 /\ connected = {}
    /\ evalPrices = <<>> /\ orders = <<>> /\ sent = 0
    /\ exec = "ready" /\ query = <<>> /\ answer = <<>> /\ acks = 0 /\ errors = 0
    /\ moneyPrices = <<>> /\ portfolio = <<>> /\ closed = 0
    /\ runPnl \in {RiskLimit - 1, 0}

\* A directory update reaches a service: the connection it has deferred is made.
Connect(link) ==
    /\ link \notin connected
    /\ connected' = connected \cup {link}
    /\ UNCHANGED <<brokerVars, evalVars, execVars, moneyVars>>

\* The broker's hkloop(): a random walk, published to who has joined.
Delivered(prices, link) ==
    IF link \in connected /\ Len(prices) < MaxQueue THEN Append(prices, price') ELSE prices
BrokerLoop ==
    /\ ticks < MaxTicks
    /\ ticks' = ticks + 1 /\ price' \in {price + d : d \in Moves}
    /\ evalPrices' = Delivered(evalPrices, "eval.stream")
    /\ moneyPrices' = Delivered(moneyPrices, "money.stream")
    /\ UNCHANGED <<connected, orders, sent, execVars, portfolio, runPnl, closed>>

\* The evaluator's process_data() and send_order(): an order while the
\* connection to the executor is deferred is discarded.
EvalStream ==
    LET p     == Head(evalPrices)
        order == (IF p # 0 /\ p <= SellBelow THEN <<-1>> ELSE <<>>)
                 \o (IF p >= BuyAbove THEN <<1>> ELSE <<>>)
        out   == IF "eval.exec" \in connected THEN order ELSE <<>>
    IN  /\ evalPrices # <<>>
        /\ evalPrices' = Tail(evalPrices)
        /\ orders' = orders \o out /\ sent' = sent + Len(out)
        /\ UNCHANGED <<brokerVars, connected, execVars, moneyVars>>

\* The executor's process_orders(): it sends on the REQ socket whatever its
\* state, and dies if that is null or waits for an answer.
ExecOrder ==
    /\ exec # "dead" /\ orders # <<>>
    /\ orders' = Tail(orders)
    /\ IF exec = "ready" /\ "exec.money" \in connected
       THEN exec' = "waiting" /\ query' = <<Head(orders)>>
       ELSE exec' = "dead" /\ UNCHANGED query
    /\ UNCHANGED <<brokerVars, connected, evalPrices, sent, answer, acks, errors, moneyVars>>

\* The executor's mm_answers().
ExecAnswer ==
    /\ exec = "waiting" /\ answer # <<>>
    /\ exec' = "ready" /\ answer' = <<>>
    /\ acks' = IF answer = <<"ack">> THEN acks + 1 ELSE acks
    /\ errors' = IF answer = <<"error">> THEN errors + 1 ELSE errors
    /\ UNCHANGED <<brokerVars, connected, evalVars, query, moneyVars>>

\* Mutation: the order is acknowledged before the portfolio is looked at.
AnswerEarly ==
    /\ query # <<>> /\ query' = <<>>
    /\ answer' = IF runPnl >= RiskLimit THEN <<"ack">> ELSE <<"error">>
    /\ portfolio' = IF runPnl >= RiskLimit /\ Len(portfolio) < MaxPositions
                    THEN Append(portfolio, [size |-> Head(query), open |-> 0]) ELSE portfolio
    /\ UNCHANGED <<brokerVars, connected, evalVars, exec, acks, errors, moneyPrices, runPnl, closed>>

\* Mutation: an order waits until it can be accepted.
AnswerAccepted ==
    /\ query # <<>> /\ runPnl >= RiskLimit /\ Len(portfolio) < MaxPositions
    /\ query' = <<>> /\ answer' = <<"ack">>
    /\ portfolio' = Append(portfolio, [size |-> Head(query), open |-> 0])
    /\ UNCHANGED <<brokerVars, connected, evalVars, exec, acks, errors, moneyPrices, runPnl, closed>>

\* The money manager's process_mmqueries().
MoneyQuery ==
    LET accepted == runPnl >= RiskLimit /\ Len(portfolio) < MaxPositions
    IN  /\ query # <<>> /\ query' = <<>>
        /\ answer' = IF accepted THEN <<"ack">> ELSE <<"error">>
        /\ portfolio' = IF accepted THEN Append(portfolio, [size |-> Head(query), open |-> 0])
                        ELSE portfolio
        /\ UNCHANGED <<brokerVars, connected, evalVars, exec, acks, errors,
                       moneyPrices, runPnl, closed>>

\* erase(begin() + i): past the last element it is the last one that goes.
Erased(held, i) == RemoveAt(held, Min({i, Len(held)}))

\* One turn of update_portfolio()'s loop, for the i-th position of the copy:
\* what it writes to and erases from the portfolio is at the same index.
Revalued(s, copy, i, p) ==
    LET open == IF copy[i].open = 0 THEN p ELSE copy[i].open
        pnl  == copy[i].size * (p - open)
        held == IF copy[i].open = 0 /\ i <= Len(s.held) THEN [s.held EXCEPT ![i].open = p]
                ELSE s.held
        out  == pnl <= StopLoss \/ pnl >= TakeProfit
    IN  [held |-> IF out THEN Erased(held, i) ELSE held,
         pnl |-> s.pnl + pnl, closed |-> s.closed + IF out THEN 1 ELSE 0]

\* What the loop makes of the portfolio, the sum and the log at price p.
Revaluation(p) ==
    LET turn[i \in 0 .. Len(portfolio)] ==
            IF i = 0 THEN [held |-> portfolio, pnl |-> 0, closed |-> closed]
            ELSE Revalued(turn[i - 1], portfolio, i, p)
    IN  turn[Len(portfolio)]

\* The money manager's update_portfolio().
MoneyStream ==
    LET s == Revaluation(Head(moneyPrices))
    IN  /\ moneyPrices # <<>>
        /\ moneyPrices' = Tail(moneyPrices)
        /\ portfolio' = s.held /\ runPnl' = s.pnl /\ closed' = s.closed
        /\ UNCHANGED <<brokerVars, connected, evalVars, execVars>>

TradingNext == BrokerLoop \/ EvalStream \/ ExecOrder \/ ExecAnswer \/ MoneyQuery \/ MoneyStream
        \/ \E link \in Links : Connect(link)

\* Each service's loop comes back to every socket that has a message.
Fairness == WF_tradingVars(MoneyQuery) /\ WF_tradingVars(ExecAnswer)
TradingSpec == TradingInit /\ [][TradingNext]_tradingVars /\ Fairness

---------------------------------------------------------------------------
\* Between three processes no order is lost or counted twice: what the
\* evaluator has sent is on its way, was lost with the executor, waits for its
\* answer or has one; and as many were accepted as positions are held or closed,
\* although update_portfolio() erases by the index of a copy.
Waiting == Len(query) + Len(answer)
AcceptedIsHeld ==
    LET accepted == acks + IF answer = <<"ack">> THEN 1 ELSE 0
    IN  /\ accepted = Len(portfolio) + closed
        /\ Waiting <= 1
        /\ sent = Len(orders) + Waiting + acks + errors + IF exec = "dead" THEN 1 ELSE 0

\* A forwarded order is answered, unless the executor dies of a second one:
\* the money manager has an answer for every order, refused ones included.
OrdersAnswered == exec = "waiting" ~> exec \in {"ready", "dead"}
=============================================================================
