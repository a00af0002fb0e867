--------------------------- MODULE Examples_proofs --------------------------
(***************************************************************************)
(* Theorems about the example programs: Requests, for any clients, servers *)
(* and server they name; Trading, for any prices, limits and bounds.       *)
(***************************************************************************)
EXTENDS Trading, Requests, SequenceTheorems, Induction_proofs

-----------------------------------------------------------------------------
(* Requests: a client is busy while it waits, and has at most one request  *)
(* or answer on its way; it is connected as soon as its copy of the        *)
(* directory lists a server that its connect() names.                      *)
ClientsInOrder ==
  /\ program \in Programs
  /\ known \in [Client -> SUBSET listed] /\ busy \in [Client -> BOOLEAN]
  /\ socket \in [Client -> {"ready", "waiting", "dead"}] /\ DOMAIN peer = Client
  /\ asked \cap answered = {}
  /\ \A c \in Client : /\ c \in asked \cup answered <=> socket[c] = "waiting"
                       /\ socket[c] = "waiting" => busy[c]
                       /\ Connectable(known[c]) # {} => peer[c] # NoPeer
                       /\ socket[c] = "dead" => program = "worker" /\ ~(listed \subseteq {Named})

LEMMA NextClientsInOrder == ClientsInOrder /\ [RequestsNext]_requestVars => ClientsInOrder'
<1> SUFFICES ASSUME ClientsInOrder, [RequestsNext]_requestVars PROVE ClientsInOrder'
  OBVIOUS
<1> USE DEF ClientsInOrder, Connectable, NoPeer, Programs
<1>1. ASSUME NEW s \in Server, Bind(s)
      PROVE  ClientsInOrder'
  BY <1>1 DEF Bind
<1>2. ASSUME NEW c \in Client, Update(c)
      PROVE  ClientsInOrder'
  <2>1. /\ UNCHANGED <<program, listed, busy, socket, asked, answered>>
        /\ known' = [known EXCEPT ![c] = listed]
    BY <1>2 DEF Update
  <2>2. PICK p \in {{s} : s \in Connectable(listed)} \cup {NoPeer} :
          /\ p = NoPeer <=> (Connectable(listed) = {} \/ peer[c] # NoPeer)
          /\ peer' = [peer EXCEPT ![c] = IF p = NoPeer THEN @ ELSE p]
    BY <1>2, Zenon DEF Update
  <2>3. DOMAIN peer' = Client /\ known' \in [Client -> SUBSET listed]
    BY <2>1, <2>2
  <2>4. \A d \in Client : Connectable(known'[d]) # {} => peer'[d] # NoPeer
    <3>1. CASE p = NoPeer
      BY <2>1, <2>2, <3>1
    <3>2. CASE p # NoPeer
      BY <2>1, <2>2, <3>2
    <3> QED BY <3>1, <3>2
  <2>5. \A d \in Client : /\ d \in asked' \cup answered' <=> socket'[d] = "waiting"
                          /\ socket'[d] = "waiting" => busy'[d]
                          /\ socket'[d] = "dead" => program' = "worker" /\ ~(listed' \subseteq {Named})
    BY <2>1
  <2>6. asked' \cap answered' = {} /\ program' \in Programs /\ busy' \in [Client -> BOOLEAN]
        /\ socket' \in [Client -> {"ready", "waiting", "dead"}] /\ UNCHANGED <<program, listed>>
    BY <2>1
  <2> QED BY <2>3, <2>4, <2>5, <2>6
<1>3. ASSUME NEW c \in Client, Hkloop(c)
      PROVE  ClientsInOrder'
  <2>1. /\ known[c] # {} /\ ~busy[c] /\ socket[c] = "ready" /\ c \notin asked \cup answered
        /\ UNCHANGED <<program, listed, known, peer, answered>>
    BY <1>3 DEF Hkloop, Wants
  <2>2. CASE /\ socket' = [socket EXCEPT ![c] = "waiting"] /\ asked' = asked \cup {c}
             /\ busy' = [busy EXCEPT ![c] = TRUE]
    BY <2>1, <2>2
  <2>3. CASE peer[c] = NoPeer /\ socket' = [socket EXCEPT ![c] = "dead"] /\ UNCHANGED <<asked, busy>>
    <3>1. Connectable(known[c]) = {}
      BY <2>3
    <3>2. program = "worker" /\ Named \notin known[c] /\ known[c] \subseteq listed
      BY <2>1, <3>1
    <3>3. ~(listed \subseteq {Named})
      BY <2>1, <3>2
    <3> QED BY <2>1, <2>3, <3>2, <3>3
  <2> QED BY <1>3, <2>1, <2>2, <2>3 DEF Hkloop
<1>4. ASSUME NEW c \in Client, Serve(c)
      PROVE  ClientsInOrder'
  BY <1>4 DEF Serve
<1>5. ASSUME NEW c \in Client, TakeAnswer(c)
      PROVE  ClientsInOrder'
  BY <1>5 DEF TakeAnswer
<1>6. CASE UNCHANGED requestVars
  BY <1>6 DEF requestVars
<1> QED BY <1>1, <1>2, <1>3, <1>4, <1>5, <1>6 DEF RequestsNext

(* Whenever servers appear and however updates, requests and answers are   *)
(* ordered: no client sends on a null socket or on one that waits for its  *)
(* answer, but for a worker whose named ventiler is missing while another  *)
(* one is listed.                                                          *)
THEOREM ClientsSendWhenConnected == RequestsSpec => []SendsWhenConnected
<1>1. RequestsInit => ClientsInOrder
  BY DEF RequestsInit, ClientsInOrder, Connectable, NoPeer, Programs
<1>2. ClientsInOrder => SendsWhenConnected
  BY DEF ClientsInOrder, SendsWhenConnected
<1> QED BY <1>1, <1>2, NextClientsInOrder, PTL DEF RequestsSpec

-----------------------------------------------------------------------------
(* Trading: the executor has an order with the money manager exactly while *)
(* it waits, until it dies.                                                *)
Position == [size : Int, open : Int]
Answers  == {<<>>, <<"ack">>, <<"error">>}

TradingTypes ==
  /\ exec \in {"ready", "waiting", "dead"}
  /\ orders \in Seq(Int) /\ query \in Seq(Int) /\ answer \in Answers
  /\ price \in Int /\ evalPrices \in Seq(Int) /\ moneyPrices \in Seq(Int)
  /\ portfolio \in Seq(Position)
  /\ {sent, acks, errors, closed} \subseteq Nat

OrdersInOrder ==
  /\ AcceptedIsHeld
  /\ exec = "ready" => Waiting = 0
  /\ exec = "waiting" => Waiting = 1

LEMMA ErasedLength ==
  ASSUME NEW D, NEW held \in Seq(D), NEW i \in Nat, i >= 1, Len(held) >= 1
  PROVE  Erased(held, i) \in Seq(D) /\ Len(Erased(held, i)) = Len(held) - 1
<1> DEFINE n == Len(held)
           m == Min({i, n})
<1>1. n \in Nat /\ n >= 1
  OBVIOUS
<1> HIDE DEF n
<1>2. \E x \in {i, n} : \A y \in {i, n} : x =< y
  BY <1>1
<1>3. m \in {i, n} /\ \A y \in {i, n} : m =< y
  BY <1>2 DEF Min
<1> HIDE DEF m
<1>4. m \in Nat /\ 1 <= m /\ m <= n
  BY <1>1, <1>3
<1>5. Erased(held, i) = SubSeq(held, 1, m - 1) \o SubSeq(held, m + 1, n)
  BY DEF Erased, RemoveAt, m, n
<1>6. SubSeq(held, 1, m - 1) \in Seq(D) /\ Len(SubSeq(held, 1, m - 1)) = m - 1
  BY <1>1, <1>4 DEF n
<1>7. SubSeq(held, m + 1, n) \in Seq(D) /\ Len(SubSeq(held, m + 1, n)) = n - m
  BY <1>1, <1>4 DEF n
<1> HIDE DEF n
<1> DEFINE a == SubSeq(held, 1, m - 1)
           b == SubSeq(held, m + 1, n)
<1> HIDE DEF a, b
<1>8. a \in Seq(D) /\ b \in Seq(D) /\ Len(a) = m - 1 /\ Len(b) = n - m
  BY <1>6, <1>7 DEF a, b
<1>9. a \o b \in Seq(D) /\ Len(a \o b) = Len(a) + Len(b)
  BY <1>8
<1>10. Erased(held, i) = a \o b
  BY <1>5, Zenon DEF a, b
<1>11. Len(a) + Len(b) = n - 1
  BY <1>1, <1>4, <1>8
<1> QED BY <1>9, <1>10, <1>11 DEF n

LEMMA ErasedType ==
  ASSUME NEW D, NEW held \in Seq(D), NEW i \in Nat, i >= 1
  PROVE  Erased(held, i) \in Seq(D)
<1>1. CASE Len(held) >= 1
  BY <1>1, ErasedLength
<1>2. CASE ~(Len(held) >= 1)
  <2>1. Len(held) \in Nat
    OBVIOUS
  <2>2. Len(held) = 0 /\ held = <<>>
    BY <1>2, <2>1
  <2>3. Min({i, 0}) = 0
    <3>1. \E x \in {i, 0} : \A y \in {i, 0} : x =< y
      OBVIOUS
    <3>2. Min({i, 0}) \in {i, 0} /\ \A y \in {i, 0} : Min({i, 0}) =< y
      BY <3>1 DEF Min
    <3> QED BY <3>2
  <2>4. SubSeq(held, 1, -1) \in Seq(D) /\ SubSeq(held, 1, 0) \in Seq(D)
    BY <2>2
  <2>5. Erased(held, i) = SubSeq(held, 1, 0 - 1) \o SubSeq(held, 0 + 1, 0)
    BY <2>2, <2>3, Zenon DEF Erased, RemoveAt
  <2>6. 0 - 1 = -1 /\ 0 + 1 = 1
    OBVIOUS
  <2>7. Erased(held, i) = SubSeq(held, 1, -1) \o SubSeq(held, 1, 0)
    BY <2>5, <2>6
  <2> QED BY <2>4, <2>7
<1> QED BY <1>1, <1>2

(* One turn of the loop: it keeps the count of positions held and closed,  *)
(* and erases one at most.                                                 *)
Revaluations == [held : Seq(Position), pnl : Int, closed : Nat]

KeepsCount(s, r) == /\ Len(r.held) + r.closed = Len(s.held) + s.closed
                    /\ Len(r.held) >= Len(s.held) - 1

LEMMA RevaluedCounts ==
  ASSUME NEW s \in Revaluations, NEW copy \in Seq(Position), NEW i \in 1..Len(copy), NEW p \in Int
  PROVE  /\ Revalued(s, copy, i, p) \in Revaluations
         /\ Len(s.held) >= 1 => KeepsCount(s, Revalued(s, copy, i, p))
<1> DEFINE open == IF copy[i].open = 0 THEN p ELSE copy[i].open
           pnl  == copy[i].size * (p - open)
           held == IF copy[i].open = 0 /\ i <= Len(s.held) THEN [s.held EXCEPT ![i].open = p]
                   ELSE s.held
           out  == pnl <= StopLoss \/ pnl >= TakeProfit
           r    == [held |-> IF out THEN Erased(held, i) ELSE held,
                    pnl |-> s.pnl + pnl, closed |-> s.closed + IF out THEN 1 ELSE 0]
<1>1. Revalued(s, copy, i, p) = r
  BY DEF Revalued
<1>2. copy[i] \in Position /\ i \in Nat /\ i >= 1
  OBVIOUS
<1>3. s.held \in Seq(Position) /\ s.pnl \in Int /\ s.closed \in Nat
  BY DEF Revaluations
<1>4. pnl \in Int
  <2>1. copy[i].size \in Int /\ open \in Int
    BY <1>2 DEF Position
  <2> QED BY <2>1
<1>5. held \in Seq(Position) /\ Len(held) = Len(s.held)
  <2>1. CASE copy[i].open = 0 /\ i <= Len(s.held)
    <3>1. i \in 1..Len(s.held) /\ s.held[i] \in Position
      BY <1>2, <1>3, <2>1
    <3>2. [s.held[i] EXCEPT !.open = p] \in Position
      BY <3>1 DEF Position
    <3>3. held = [s.held EXCEPT ![i] = [s.held[i] EXCEPT !.open = p]]
      BY <2>1
    <3> QED BY <1>3, <3>1, <3>2, <3>3
  <2>2. CASE ~(copy[i].open = 0 /\ i <= Len(s.held))
    BY <1>3, <2>2
  <2> QED BY <2>1, <2>2
<1> HIDE DEF pnl, held
<1>6. CASE out
  <2>1. Erased(held, i) \in Seq(Position)
    BY <1>2, <1>5, ErasedType
  <2>2. r.held = Erased(held, i) /\ r.pnl = s.pnl + pnl /\ r.closed = s.closed + 1
    BY <1>6
  <2>3. r \in Revaluations
    BY <1>3, <1>4, <1>6, <2>1 DEF Revaluations
  <2>4. Len(s.held) \in Nat
    BY <1>3
  <2> HIDE DEF r, out
  <2>5. ASSUME Len(s.held) >= 1 PROVE KeepsCount(s, r)
    <3>1. Len(Erased(held, i)) = Len(held) - 1
      BY <1>2, <1>5, <2>5, ErasedLength
    <3>2. Len(r.held) = Len(s.held) - 1
      BY <1>5, <2>2, <3>1, Zenon
    <3>3. r.closed = s.closed + 1 /\ s.closed \in Nat
      BY <1>3, <2>2
    <3>4. Len(r.held) + r.closed = Len(s.held) + s.closed /\ Len(r.held) >= Len(s.held) - 1
      BY <2>4, <3>2, <3>3
    <3> QED BY <3>4, Zenon DEF KeepsCount
  <2> QED BY <1>1, <2>3, <2>5
<1>7. CASE ~out
  <2>1. r.held = held /\ r.pnl = s.pnl + pnl /\ r.closed = s.closed + 0
    BY <1>7
  <2>2. r \in Revaluations
    BY <1>3, <1>4, <1>5, <1>7 DEF Revaluations
  <2>3. Len(s.held) \in Nat
    BY <1>3
  <2> HIDE DEF r, out
  <2>4. Len(r.held) = Len(s.held) /\ r.closed = s.closed
    <3>1. Len(r.held) = Len(s.held)
      BY <1>5, <2>1, Zenon
    <3> QED BY <1>3, <2>1, <3>1
  <2>5. KeepsCount(s, r)
    BY <1>3, <2>3, <2>4 DEF KeepsCount
  <2> QED BY <1>1, <2>2, <2>5
<1> QED BY <1>6, <1>7

(* The whole loop, by induction over the positions of the copy: at turn k  *)
(* there are still as many held as there are turns left.                   *)
LEMMA RevaluationCounts ==
  ASSUME NEW p \in Int, portfolio \in Seq(Position), closed \in Nat
  PROVE  /\ Revaluation(p) \in Revaluations
         /\ Len(Revaluation(p).held) + Revaluation(p).closed = Len(portfolio) + closed
<1> DEFINE n == Len(portfolio)
           first == [held |-> portfolio, pnl |-> 0, closed |-> closed]
           F == [x \in Revaluations \X Nat |->
                   IF x[2] \in 1..n THEN Revalued(x[1], portfolio, x[2], p) ELSE x[1]]
           Turn(g) == [k \in 0..n |-> IF k = 0 THEN first ELSE Revalued(g[k - 1], portfolio, k, p)]
<1>1. n \in Nat
  OBVIOUS
<1>2. first \in Revaluations /\ first.held = portfolio /\ first.closed = closed
  BY DEF Revaluations
<1>3. F \in [Revaluations \X Nat -> Revaluations]
  <2>1. ASSUME NEW x \in Revaluations \X Nat
        PROVE  (IF x[2] \in 1..n THEN Revalued(x[1], portfolio, x[2], p) ELSE x[1]) \in Revaluations
    <3>1. x[1] \in Revaluations
      OBVIOUS
    <3> QED BY <3>1, RevaluedCounts
  <2> QED BY <2>1
<1> HIDE DEF n, first, F
<1>4. PICK f \in [0..n -> Revaluations] : Recurs(f, first, F, n)
  BY <1>1, <1>2, <1>3, RecursionExists
<1>5. ASSUME NEW k \in 0..n
      PROVE  f[k] = IF k = 0 THEN first ELSE Revalued(f[k - 1], portfolio, k, p)
  <2>1. CASE k = 0
    BY <1>4, <2>1 DEF Recurs
  <2>2. CASE k # 0
    <3>1. k \in 1..n /\ k - 1 \in 0..n /\ k \in Nat
      BY <1>1, <2>2
    <3>2. f[k] = F[<<f[k - 1], k>>] /\ f[k - 1] \in Revaluations
      BY <1>4, <3>1 DEF Recurs
    <3> QED BY <2>2, <3>1, <3>2 DEF F
  <2> QED BY <2>1, <2>2
<1>6. f = Turn(f)
  BY <1>4, <1>5
<1> DEFINE turn == CHOOSE g : g = Turn(g)
<1>7. turn = Turn(turn)
  BY <1>6
<1>8. Revaluation(p) = turn[n]
  BY DEF Revaluation, n, first
<1> HIDE DEF turn
<1>9. turn[0] = first
  BY <1>1, <1>7
<1> DEFINE S == {k \in Nat : /\ turn[k] \in Revaluations
                             /\ Len(turn[k].held) + turn[k].closed = n + closed
                             /\ Len(turn[k].held) >= n - k}
<1>10. 0 \in S
  BY <1>1, <1>2, <1>9 DEF n
<1>11. ASSUME NEW k \in Nat, k < n, k \in S
       PROVE  k + 1 \in S
  <2> DEFINE s == turn[k]
             r == turn[k + 1]
  <2>1. k + 1 \in 0..n /\ k + 1 # 0 /\ (k + 1) - 1 = k /\ k + 1 \in 1..n
    BY <1>1, <1>11
  <2>2. r = Revalued(s, portfolio, k + 1, p)
    BY <1>7, <2>1
  <2>3. s \in Revaluations /\ Len(s.held) + s.closed = n + closed /\ Len(s.held) >= n - k
    BY <1>11
  <2> HIDE DEF s, r
  <2>4. Len(s.held) \in Nat /\ s.closed \in Nat
    BY <2>3 DEF Revaluations
  <2>5. Len(s.held) >= 1
    BY <1>1, <1>11, <2>3, <2>4
  <2>6. r \in Revaluations /\ KeepsCount(s, r)
    BY <2>1, <2>2, <2>3, <2>5, RevaluedCounts DEF n
  <2>7. Len(r.held) \in Nat /\ r.closed \in Nat
    BY <2>6 DEF Revaluations
  <2>8. Len(r.held) + r.closed = n + closed /\ Len(r.held) >= n - (k + 1)
    BY <1>1, <2>3, <2>4, <2>6, <2>7 DEF KeepsCount
  <2> QED BY <2>1, <2>6, <2>8 DEF r
<1> HIDE DEF S
<1>12. n \in S
  <2>1. 0..n \subseteq S
    BY <1>1, <1>10, <1>11, BoundedInduction
  <2> QED BY <1>1, <2>1
<1> QED BY <1>8, <1>12 DEF S, n

LEMMA NextTradingTypes == TradingTypes /\ [TradingNext]_tradingVars => TradingTypes'
<1> SUFFICES ASSUME TradingTypes, [TradingNext]_tradingVars PROVE TradingTypes'
  OBVIOUS
<1>0. /\ exec \in {"ready", "waiting", "dead"} /\ orders \in Seq(Int) /\ query \in Seq(Int)
      /\ answer \in Answers /\ price \in Int /\ evalPrices \in Seq(Int)
      /\ moneyPrices \in Seq(Int) /\ portfolio \in Seq(Position)
      /\ sent \in Nat /\ acks \in Nat /\ errors \in Nat /\ closed \in Nat
  BY DEF TradingTypes
<1>1. CASE BrokerLoop
  <2>1. price' \in Int
    BY <1>0, <1>1, TradingAssumption DEF BrokerLoop
  <2>2. ASSUME NEW prices \in Seq(Int), NEW link PROVE Delivered(prices, link) \in Seq(Int)
    BY <2>1 DEF Delivered
  <2>3. evalPrices' \in Seq(Int) /\ moneyPrices' \in Seq(Int)
    BY <1>0, <1>1, <2>2 DEF BrokerLoop
  <2> QED BY <1>0, <1>1, <2>1, <2>3 DEF BrokerLoop, execVars, TradingTypes
<1>2. CASE EvalStream
  <2> DEFINE p == Head(evalPrices)
             sell == IF p # 0 /\ p <= SellBelow THEN <<-1>> ELSE <<>>
             buy == IF p >= BuyAbove THEN <<1>> ELSE <<>>
             out == IF "eval.exec" \in connected THEN sell \o buy ELSE <<>>
  <2>1. sell \in Seq(Int) /\ buy \in Seq(Int)
    OBVIOUS
  <2> HIDE DEF sell, buy
  <2>2. out \in Seq(Int)
    BY <2>1
  <2>3. evalPrices # <<>> /\ evalPrices' = Tail(evalPrices) /\ orders' = orders \o out
        /\ sent' = sent + Len(out)
        /\ UNCHANGED <<brokerVars, connected, execVars, moneyVars>>
    BY <1>2, Zenon DEF EvalStream, sell, buy
  <2> HIDE DEF out
  <2>4. orders' \in Seq(Int) /\ evalPrices' \in Seq(Int) /\ sent' \in Nat
    BY <1>0, <2>2, <2>3
  <2> QED BY <1>0, <2>3, <2>4 DEF brokerVars, execVars, moneyVars, TradingTypes
<1>3. CASE ExecOrder
  <2>1. orders' \in Seq(Int) /\ Head(orders) \in Int
    BY <1>0, <1>3 DEF ExecOrder
  <2>2. query' \in Seq(Int) /\ exec' \in {"waiting", "dead"}
    <3>1. query' \in {query, <<Head(orders)>>} /\ exec' \in {"waiting", "dead"}
      BY <1>3 DEF ExecOrder
    <3>2. <<Head(orders)>> \in Seq(Int)
      BY <2>1
    <3> QED BY <1>0, <3>1, <3>2
  <2> QED BY <1>0, <1>3, <2>1, <2>2 DEF ExecOrder, brokerVars, moneyVars, TradingTypes
<1>4. CASE ExecAnswer
  BY <1>0, <1>4 DEF ExecAnswer, brokerVars, evalVars, moneyVars, TradingTypes, Answers
<1>5. CASE MoneyQuery
  <2>1. query' \in Seq(Int) /\ answer' \in Answers
    BY <1>0, <1>5 DEF MoneyQuery, Answers
  <2>2. portfolio' \in Seq(Position)
    <3>1. [size |-> Head(query), open |-> 0] \in Position
      BY <1>0, <1>5 DEF MoneyQuery, Position
    <3> QED BY <1>0, <1>5, <3>1 DEF MoneyQuery
  <2> QED BY <1>0, <1>5, <2>1, <2>2 DEF MoneyQuery, brokerVars, evalVars, TradingTypes
<1>6. CASE MoneyStream
  <2> DEFINE s == Revaluation(Head(moneyPrices))
  <2>1. /\ moneyPrices # <<>> /\ moneyPrices' = Tail(moneyPrices)
        /\ portfolio' = s.held /\ closed' = s.closed
        /\ UNCHANGED <<brokerVars, connected, evalVars, execVars>>
    BY <1>6 DEF MoneyStream
  <2>2. s \in Revaluations
    BY <1>0, <2>1, RevaluationCounts
  <2>3. portfolio' \in Seq(Position) /\ closed' \in Nat /\ moneyPrices' \in Seq(Int)
    BY <1>0, <2>1, <2>2 DEF Revaluations
  <2> QED BY <1>0, <2>1, <2>3 DEF brokerVars, evalVars, execVars, TradingTypes
<1>7. ASSUME NEW link \in Links, Connect(link)
      PROVE  TradingTypes'
  BY <1>0, <1>7 DEF Connect, brokerVars, evalVars, execVars, moneyVars, TradingTypes
<1>8. CASE UNCHANGED tradingVars
  BY <1>0, <1>8 DEF tradingVars, brokerVars, evalVars, execVars, moneyVars, TradingTypes
<1> QED BY <1>1, <1>2, <1>3, <1>4, <1>5, <1>6, <1>7, <1>8 DEF TradingNext

(* The parts of OrdersInOrder, as sums of numbers.                         *)
Queried  == Len(query)
Answered == Len(answer)
Ordered  == Len(orders)
Held     == Len(portfolio)
Acked == IF answer = <<"ack">> THEN 1 ELSE 0
Dead  == IF exec = "dead" THEN 1 ELSE 0
HeldSum == acks + Acked = Held + closed
SentSum == sent = Ordered + Waiting + acks + errors + Dead
WaitingFits == /\ Waiting <= 1
               /\ exec = "ready" => Waiting = 0
               /\ exec = "waiting" => Waiting = 1
Numbers == /\ Queried \in Nat /\ Answered \in Nat /\ Waiting = Queried + Answered
           /\ Waiting \in Nat /\ Ordered \in Nat /\ Held \in Nat
           /\ sent \in Nat /\ acks \in Nat /\ errors \in Nat /\ closed \in Nat
           /\ Acked \in Nat /\ Dead \in Nat

LEMMA OrdersParts ==
  /\ OrdersInOrder <=> HeldSum /\ SentSum /\ WaitingFits
  /\ OrdersInOrder' <=> HeldSum' /\ SentSum' /\ WaitingFits'
BY DEF OrdersInOrder, AcceptedIsHeld, HeldSum, SentSum, WaitingFits, Acked, Dead, Ordered, Held

LEMMA NumbersType == (TradingTypes => Numbers) /\ (TradingTypes' => Numbers')
<1>1. ASSUME NEW q \in Seq(Int), NEW o \in Seq(Int), NEW h \in Seq(Position), NEW a \in Answers
      PROVE  Len(q) \in Nat /\ Len(o) \in Nat /\ Len(h) \in Nat /\ Len(a) \in Nat
  BY DEF Answers
<1>2. TradingTypes => Numbers
  <2>1. TradingTypes => Len(query) \in Nat /\ Len(orders) \in Nat /\ Len(portfolio) \in Nat
                        /\ Len(answer) \in Nat
    BY <1>1 DEF TradingTypes
  <2> QED BY <2>1 DEF TradingTypes, Numbers, Waiting, Queried, Answered, Ordered, Held, Acked, Dead
<1>3. TradingTypes' => Numbers'
  <2>1. TradingTypes' => Len(query') \in Nat /\ Len(orders') \in Nat /\ Len(portfolio') \in Nat
                         /\ Len(answer') \in Nat
    BY <1>1 DEF TradingTypes
  <2> QED BY <2>1 DEF TradingTypes, Numbers, Waiting, Queried, Answered, Ordered, Held, Acked, Dead
<1> QED BY <1>2, <1>3

LEMMA NextOrdersInOrder ==
  TradingTypes /\ TradingTypes' /\ OrdersInOrder /\ [TradingNext]_tradingVars => OrdersInOrder'
<1> SUFFICES ASSUME TradingTypes, TradingTypes', OrdersInOrder, [TradingNext]_tradingVars
             PROVE  OrdersInOrder'
  OBVIOUS
<1>0. Numbers /\ Numbers' /\ HeldSum /\ SentSum /\ WaitingFits
  BY NumbersType, OrdersParts
<1>1. SUFFICES HeldSum' /\ SentSum' /\ WaitingFits'
  BY OrdersParts
<1>2. /\ exec \in {"ready", "waiting", "dead"} /\ orders \in Seq(Int) /\ query \in Seq(Int)
      /\ answer \in Answers /\ moneyPrices \in Seq(Int) /\ portfolio \in Seq(Position)
      /\ closed \in Nat
  BY DEF TradingTypes
<1>3. /\ query # <<>> => Queried >= 1
      /\ answer # <<>> => Answered = 1
  <2>1. query # <<>> => Queried >= 1
    BY <1>2 DEF Queried
  <2>2. answer # <<>> => Answered = 1
    BY <1>2 DEF Answers, Answered
  <2> QED BY <2>1, <2>2
<1>4. CASE UNCHANGED <<exec, orders, query, answer, portfolio, sent, acks, errors, closed>>
  BY <1>0, <1>4 DEF HeldSum, SentSum, WaitingFits, Waiting, Ordered, Held, Acked, Dead
<1>5. CASE EvalStream
  <2> DEFINE p == Head(evalPrices)
             sell == IF p # 0 /\ p <= SellBelow THEN <<-1>> ELSE <<>>
             buy == IF p >= BuyAbove THEN <<1>> ELSE <<>>
             out == IF "eval.exec" \in connected THEN sell \o buy ELSE <<>>
  <2>1. sell \in Seq(Int) /\ buy \in Seq(Int)
    OBVIOUS
  <2> HIDE DEF sell, buy
  <2>2. out \in Seq(Int)
    BY <2>1
  <2>3. orders' = orders \o out /\ sent' = sent + Len(out)
        /\ UNCHANGED <<exec, query, answer, portfolio, acks, errors, closed>>
    BY <1>5, Zenon DEF EvalStream, sell, buy, execVars, moneyVars
  <2> HIDE DEF out
  <2>4. sent' = sent + (Ordered' - Ordered)
    <3>1. Len(orders') = Len(orders) + Len(out)
      BY <1>2, <2>2, <2>3
    <3> QED BY <2>3, <3>1 DEF Ordered
  <2>5. UNCHANGED <<Waiting, Acked, Dead>>
    BY <2>3 DEF Waiting, Acked, Dead
  <2>6. HeldSum' /\ WaitingFits'
    BY <1>0, <2>3, <2>5 DEF HeldSum, Held, WaitingFits
  <2>7. SentSum'
    <3>1. UNCHANGED <<acks, errors>>
      BY <2>3
    <3>2. sent = Ordered + Waiting + acks + errors + Dead
      BY <1>0 DEF SentSum
    <3>3. /\ sent \in Nat /\ Ordered \in Nat /\ Waiting \in Nat /\ acks \in Nat /\ errors \in Nat
          /\ Dead \in Nat /\ Ordered' \in Nat
      BY <1>0 DEF Numbers
    <3>4. sent' = Ordered' + Waiting + acks + errors + Dead
      BY <2>4, <3>2, <3>3
    <3> QED BY <2>5, <3>1, <3>4, Zenon DEF SentSum
  <2> QED BY <2>6, <2>7
<1>6. CASE ExecOrder
  <2>1. /\ exec # "dead" /\ orders # <<>> /\ orders' = Tail(orders)
        /\ UNCHANGED <<sent, answer, acks, errors, portfolio, closed>>
    BY <1>6 DEF ExecOrder, moneyVars
  <2>2. Ordered' = Ordered - 1
    BY <1>2, <2>1 DEF Ordered
  <2>3. HeldSum'
    BY <1>0, <2>1 DEF HeldSum, Held, Acked
  <2>4. CASE exec = "ready" /\ exec' = "waiting" /\ query' = <<Head(orders)>>
    <3>1. Queried' = 1 /\ Answered' = Answered
      BY <2>1, <2>4 DEF Queried, Answered
    <3>2. Waiting = 0
      BY <1>0, <2>4 DEF WaitingFits
    <3>3. Waiting' = 1
      BY <1>0, <3>1, <3>2 DEF Numbers
    <3>4. Dead = 0 /\ Dead' = 0
      BY <2>4 DEF Dead
    <3>5. SentSum'
      <4>1. sent = Ordered + Waiting + acks + errors + Dead
        BY <1>0 DEF SentSum
      <4>2. /\ sent \in Nat /\ Ordered \in Nat /\ acks \in Nat /\ errors \in Nat
            /\ Ordered' \in Nat /\ acks' \in Nat /\ errors' \in Nat
        BY <1>0 DEF Numbers
      <4>3. sent' = Ordered' + Waiting' + acks' + errors' + Dead'
        BY <2>1, <2>2, <3>2, <3>3, <3>4, <4>1, <4>2
      <4> QED BY <4>3, Zenon DEF SentSum
    <3> QED BY <2>3, <2>4, <3>3, <3>5 DEF WaitingFits
  <2>5. CASE exec' = "dead" /\ UNCHANGED query
    <3>1. Waiting' = Waiting
      BY <2>1, <2>5 DEF Waiting
    <3>2. Dead = 0 /\ Dead' = 1
      BY <2>1, <2>5 DEF Dead
    <3>3. SentSum'
      <4>1. sent = Ordered + Waiting + acks + errors + Dead
        BY <1>0 DEF SentSum
      <4>2. /\ sent \in Nat /\ Ordered \in Nat /\ Waiting \in Nat /\ acks \in Nat /\ errors \in Nat
            /\ Ordered' \in Nat /\ acks' \in Nat /\ errors' \in Nat
        BY <1>0 DEF Numbers
      <4>3. sent' = Ordered' + Waiting' + acks' + errors' + Dead'
        BY <2>1, <2>2, <3>1, <3>2, <4>1, <4>2
      <4> QED BY <4>3, Zenon DEF SentSum
    <3> QED BY <1>0, <2>3, <2>5, <3>1, <3>3 DEF WaitingFits
  <2> QED BY <1>6, <2>4, <2>5 DEF ExecOrder
<1>7. CASE ExecAnswer
  <2>1. /\ exec = "waiting" /\ answer # <<>> /\ exec' = "ready" /\ answer' = <<>>
        /\ UNCHANGED <<orders, sent, query, portfolio, closed>>
        /\ acks' = IF answer = <<"ack">> THEN acks + 1 ELSE acks
        /\ errors' = IF answer = <<"error">> THEN errors + 1 ELSE errors
    BY <1>7 DEF ExecAnswer, evalVars, moneyVars
  <2>2. Waiting = 1 /\ Answered = 1
    BY <1>0, <1>3, <2>1 DEF WaitingFits
  <2>3. Waiting' = 0
    <3>1. Queried' = Queried /\ Answered' = 0
      BY <2>1 DEF Queried, Answered
    <3> QED BY <1>0, <2>2, <3>1 DEF Numbers
  <2>4. Acked' = 0 /\ Dead = 0 /\ Dead' = 0 /\ Ordered' = Ordered /\ Held' = Held
    BY <2>1 DEF Acked, Dead, Ordered, Held
  <2>5. CASE answer = <<"ack">>
    <3>1. acks' = acks + 1 /\ errors' = errors /\ Acked = 1
      <4>1. <<"ack">> # <<"error">>
        OBVIOUS
      <4> QED BY <2>1, <2>5, <4>1 DEF Acked
    <3>2. HeldSum'
      BY <1>0, <2>1, <2>4, <3>1 DEF HeldSum, Numbers
    <3>3. SentSum'
      <4>1. sent = Ordered + Waiting + acks + errors + Dead
        BY <1>0 DEF SentSum
      <4>2. /\ sent \in Nat /\ Ordered \in Nat /\ acks \in Nat /\ errors \in Nat
            /\ Ordered' \in Nat /\ acks' \in Nat /\ errors' \in Nat
        BY <1>0 DEF Numbers
      <4>3. sent' = Ordered' + Waiting' + acks' + errors' + Dead'
        BY <2>1, <2>2, <2>3, <2>4, <3>1, <4>1, <4>2
      <4> QED BY <4>3, Zenon DEF SentSum
    <3> QED BY <2>1, <2>3, <3>2, <3>3 DEF WaitingFits
  <2>6. CASE answer = <<"error">>
    <3>1. acks' = acks /\ errors' = errors + 1 /\ Acked = 0
      <4>1. <<"ack">> # <<"error">>
        OBVIOUS
      <4> QED BY <2>1, <2>6, <4>1 DEF Acked
    <3>2. HeldSum'
      BY <1>0, <2>1, <2>4, <3>1 DEF HeldSum, Numbers
    <3>3. SentSum'
      <4>1. sent = Ordered + Waiting + acks + errors + Dead
        BY <1>0 DEF SentSum
      <4>2. /\ sent \in Nat /\ Ordered \in Nat /\ acks \in Nat /\ errors \in Nat
            /\ Ordered' \in Nat /\ acks' \in Nat /\ errors' \in Nat
        BY <1>0 DEF Numbers
      <4>3. sent' = Ordered' + Waiting' + acks' + errors' + Dead'
        BY <2>1, <2>2, <2>3, <2>4, <3>1, <4>1, <4>2
      <4> QED BY <4>3, Zenon DEF SentSum
    <3> QED BY <2>1, <2>3, <3>2, <3>3 DEF WaitingFits
  <2> QED BY <1>2, <2>1, <2>5, <2>6 DEF Answers
<1>8. CASE MoneyQuery
  <2> DEFINE accepted == runPnl >= RiskLimit /\ Len(portfolio) < MaxPositions
             position == [size |-> Head(query), open |-> 0]
  <2>1. /\ query # <<>> /\ query' = <<>>
        /\ answer' = IF accepted THEN <<"ack">> ELSE <<"error">>
        /\ portfolio' = IF accepted THEN Append(portfolio, position) ELSE portfolio
        /\ UNCHANGED <<exec, orders, sent, acks, errors, closed>>
    BY <1>8 DEF MoneyQuery, evalVars
  <2>2. position \in Position
    BY <1>2, <2>1 DEF Position
  <2> HIDE DEF accepted, position
  <2>3. Queried >= 1 /\ Waiting <= 1
    BY <1>0, <1>3, <2>1 DEF WaitingFits
  <2>4. Answered = 0 /\ Waiting = 1
    BY <1>0, <2>3 DEF Numbers
  <2>5. Waiting' = 1
    <3>1. Queried' = 0 /\ Answered' = 1
      BY <2>1 DEF Queried, Answered
    <3> QED BY <1>0, <3>1 DEF Numbers
  <2>6. Acked = 0
    BY <1>3, <2>4 DEF Acked
  <2>7. SentSum' /\ WaitingFits'
    <3>1. Dead' = Dead /\ Ordered' = Ordered
      BY <2>1 DEF Dead, Ordered
    <3>2. SentSum'
      BY <1>0, <2>1, <2>4, <2>5, <3>1 DEF SentSum
    <3> QED BY <1>0, <2>1, <2>4, <2>5, <3>2 DEF WaitingFits
  <2>8. CASE accepted
    <3>1. Held' = Held + 1 /\ Acked' = 1
      <4>1. answer' = <<"ack">> /\ portfolio' = Append(portfolio, position)
        BY <2>1, <2>8
      <4> QED BY <1>2, <2>2, <4>1 DEF Acked, Held
    <3>2. HeldSum'
      BY <1>0, <2>1, <2>6, <3>1 DEF HeldSum, Numbers
    <3> QED BY <2>7, <3>2
  <2>9. CASE ~accepted
    <3>1. Held' = Held /\ Acked' = 0
      <4>1. <<"ack">> # <<"error">>
        OBVIOUS
      <4> QED BY <2>1, <2>9, <4>1 DEF Acked, Held
    <3>2. HeldSum'
      BY <1>0, <2>1, <2>6, <3>1 DEF HeldSum, Numbers
    <3> QED BY <2>7, <3>2
  <2> QED BY <2>8, <2>9
<1>9. CASE MoneyStream
  <2> DEFINE s == Revaluation(Head(moneyPrices))
  <2>1. /\ moneyPrices # <<>> /\ portfolio' = s.held /\ closed' = s.closed
        /\ UNCHANGED <<exec, orders, sent, query, answer, acks, errors>>
    BY <1>9 DEF MoneyStream, evalVars, execVars
  <2>2. Len(s.held) + s.closed = Len(portfolio) + closed
    BY <1>2, <2>1, RevaluationCounts
  <2>3. Held' + closed' = Held + closed
    BY <2>1, <2>2, Zenon DEF Held
  <2>4. UNCHANGED <<Waiting, Ordered, Acked, Dead>>
    BY <2>1 DEF Waiting, Ordered, Acked, Dead
  <2>5. HeldSum'
    BY <1>0, <2>1, <2>3, <2>4 DEF HeldSum
  <2> QED BY <1>0, <2>1, <2>4, <2>5 DEF SentSum, WaitingFits
<1> QED BY <1>4, <1>5, <1>6, <1>7, <1>8, <1>9
        DEF TradingNext, BrokerLoop, Connect, tradingVars, brokerVars, evalVars, execVars, moneyVars

(* For any prices, limits and queue bounds: every order the evaluator has  *)
(* sent is on its way, answered, or lost with the executor, and as many    *)
(* were accepted as positions are held or closed.                          *)
THEOREM OrdersAccounted == TradingSpec => []AcceptedIsHeld
<1>1. TradingInit => TradingTypes /\ OrdersInOrder
  <2> SUFFICES ASSUME TradingInit PROVE TradingTypes /\ OrdersInOrder
    OBVIOUS
  <2>1. price \in Int
    BY TradingAssumption DEF TradingInit
  <2> QED BY <2>1 DEF TradingInit, TradingTypes, Answers, OrdersInOrder, AcceptedIsHeld, Waiting
<1>2. OrdersInOrder => AcceptedIsHeld
  BY DEF OrdersInOrder
<1> QED BY <1>1, <1>2, NextTradingTypes, NextOrdersInOrder, PTL DEF TradingSpec
=============================================================================
