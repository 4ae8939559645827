-------------------------- MODULE DeskAccountProofs --------------------------
(***************************************************************************)
(* The money and the shares of TradingDesk for every value of its           *)
(* constants: the paper ledger backs the positions, the log accounts for   *)
(* the bankroll, and the paper desk implements PaperAccount.                *)
(***************************************************************************)
EXTENDS TradingDeskProofs, SumTheorems

(* What the orders in flight come to: the shares that are in the ledger and *)
(* not yet in the position of token k.                                     *)
Sizes == [t \in Trades |-> order[t].size]
Values == [t \in Trades |-> Value(order[t])]
At(steps) == {t \in Trades : xpc[t] \in steps}
Ordered(step, k) == {t \in Trades : xpc[t] = step /\ order[t].token = k}
Pending(k) == SumFunctionOnSet(Sizes, Ordered("upsert", k))

(* A summand of the one or of the other. *)
Part(condition, n) == IF condition THEN n ELSE 0

(* A paper order is never posted and a paper bankroll never reconciled. *)
PaperSteps ==
  mode = "paper" => /\ \A t \in Trades : xpc[t] # "post"
                    /\ mpc \notin {"reconcile", "store"}

(* An open position has shares, and those that the manager has read from   *)
(* the one it evaluates are still there.                                    *)
SharesHeld ==
  /\ \A k \in Open : positions[k].shares >= 1
  /\ mpc \in Evaluating => mshares \in 1 .. positions[mtoken].shares

(* The ledger holds what the positions claim and what they are about to    *)
(* claim, but for the shares of a sale, which leave the ledger first.      *)
Debited(k) == Part(k = mtoken /\ mpc \in {"credit", "cas", "remove"}, mshares)
PaperBacked ==
  mode = "paper" =>
    \A k \in Token : positions[k].shares + Pending(k) <= balance[k] + Debited(k)
-----------------------------------------------------------------------------
(* A step of execute_trade changes the order of its own trade only. *)
LEMMA OthersOrders ==
  ASSUME DeskInv, NEW t \in Trades, ExecuteNext(t)
  PROVE  /\ \A u \in Trades \ {t} : xpc'[u] = xpc[u] /\ order'[u] = order[u]
         /\ mode' = mode
BY DEF DeskInv, TypeOK, ExecutorTypeOK, ExecuteNext, SizeOrder, RefuseOrder, BuyAccepted,
  BuyRejected, BuyAnswerLost, LoadBankroll, PaperBankrollTooLow, LiveBankrollTooLow,
  Deduct, DeductAgain, CreditLedger, UpsertPosition, XReturn, XGoto, executorVars

(* So a sum over the orders changes by what that trade contributes. *)
LEMMA OrderSums ==
  ASSUME DeskInv, NEW t \in Trades, ExecuteNext(t)
  PROVE  /\ UnloggedBuys \in Nat /\ UnloggedBuys' \in Nat
         /\ UnloggedBuys' + Part(xpc[t] \in {"ledger", "upsert"}, Value(order[t]))
              = UnloggedBuys + Part(xpc'[t] \in {"ledger", "upsert"}, Value(order[t])')
         /\ \A k : /\ Pending(k) \in Nat /\ Pending(k)' \in Nat
                   /\ Pending(k)'
                        + Part(xpc[t] = "upsert" /\ order[t].token = k, order[t].size)
                      = Pending(k)
                        + Part(xpc'[t] = "upsert" /\ order'[t].token = k, order'[t].size)
         /\ \A k : /\ SharesBought(k) \in Nat /\ SharesBought(k)' \in Nat
                   /\ SharesBought(k)'
                        + Part(xpc[t] = "ledger" /\ order[t].token = k, order[t].size)
                      = SharesBought(k)
                        + Part(xpc'[t] = "ledger" /\ order'[t].token = k, order'[t].size)
<1>1. ExecutorTypeOK /\ ExecutorTypeOK'
  BY ExecuteType DEF DeskInv, TypeOK
<1>2. \A u \in Trades \ {t} : xpc'[u] = xpc[u] /\ order'[u] = order[u]
  BY OthersOrders
<1>3. Sizes \in [Trades -> Nat] /\ Sizes' \in [Trades -> Nat]
  BY <1>1 DEF Sizes, ExecutorTypeOK
<1>4. Values \in [Trades -> Nat]
  BY <1>1, ValueNat DEF Values
<1>5. Values' \in [Trades -> Nat]
  <2>1. \A u \in Trades : order'[u].price \in Nat /\ order'[u].size \in Nat
    BY <1>1 DEF ExecutorTypeOK
  <2>2. \A u \in Trades : order'[u].price * order'[u].size \in Nat
    BY <2>1, ProductNat
  <2> QED
    BY <2>2 DEF Values, Value
<1>6. IsFiniteSet(Trades)
  BY TradesAssumption
<1>7. /\ UnloggedBuys \in Nat /\ UnloggedBuys' \in Nat
      /\ UnloggedBuys' + Part(xpc[t] \in {"ledger", "upsert"}, Value(order[t]))
           = UnloggedBuys + Part(xpc'[t] \in {"ledger", "upsert"}, Value(order[t])')
  <2> DEFINE S == At({"ledger", "upsert"})
             T == {u \in Trades : xpc'[u] \in {"ledger", "upsert"}}
  <2>1. \A u \in Trades \ {t} : Values[u] = Values'[u] /\ (u \in S <=> u \in T)
    BY <1>2 DEF Values, Value, At
  <2>2. S \in SUBSET Trades /\ T \in SUBSET Trades
    BY DEF At
  <2>3. UnloggedBuys = SumFunctionOnSet(Values, S)
        /\ UnloggedBuys' = SumFunctionOnSet(Values', T)
    BY DEF UnloggedBuys, Values, At
  <2>4. /\ Values[t] = Value(order[t]) /\ Values'[t] = Value(order[t])'
        /\ t \in S <=> xpc[t] \in {"ledger", "upsert"}
        /\ t \in T <=> xpc'[t] \in {"ledger", "upsert"}
    BY DEF Values, At
  <2> HIDE DEF S, T
  <2>5. /\ SumFunctionOnSet(Values, S) \in Nat /\ SumFunctionOnSet(Values', T) \in Nat
        /\ SumFunctionOnSet(Values', T) + (IF t \in S THEN Values[t] ELSE 0)
             = SumFunctionOnSet(Values, S) + (IF t \in T THEN Values'[t] ELSE 0)
    BY <1>4, <1>5, <1>6, <2>1, <2>2, SumChange
  <2> QED
    BY <2>3, <2>4, <2>5 DEF Part
<1>8. ASSUME NEW k, NEW step
      PROVE  LET S == Ordered(step, k)
                 T == {u \in Trades : xpc'[u] = step /\ order'[u].token = k}
             IN  /\ SumFunctionOnSet(Sizes, S) \in Nat /\ SumFunctionOnSet(Sizes', T) \in Nat
                 /\ SumFunctionOnSet(Sizes', T)
                      + Part(xpc[t] = step /\ order[t].token = k, order[t].size)
                    = SumFunctionOnSet(Sizes, S)
                      + Part(xpc'[t] = step /\ order'[t].token = k, order'[t].size)
  <2> DEFINE S == Ordered(step, k)
             T == {u \in Trades : xpc'[u] = step /\ order'[u].token = k}
  <2>1. \A u \in Trades \ {t} : Sizes[u] = Sizes'[u] /\ (u \in S <=> u \in T)
    BY <1>2 DEF Sizes, Ordered
  <2>2. S \in SUBSET Trades /\ T \in SUBSET Trades
    BY DEF Ordered
  <2>3. /\ Sizes[t] = order[t].size /\ Sizes'[t] = order'[t].size
        /\ t \in S <=> (xpc[t] = step /\ order[t].token = k)
        /\ t \in T <=> (xpc'[t] = step /\ order'[t].token = k)
    BY DEF Sizes, Ordered
  <2> HIDE DEF S, T
  <2>4. /\ SumFunctionOnSet(Sizes, S) \in Nat /\ SumFunctionOnSet(Sizes', T) \in Nat
        /\ SumFunctionOnSet(Sizes', T) + (IF t \in S THEN Sizes[t] ELSE 0)
             = SumFunctionOnSet(Sizes, S) + (IF t \in T THEN Sizes'[t] ELSE 0)
    BY <1>3, <1>6, <2>1, <2>2, SumChange
  <2>5. /\ SumFunctionOnSet(Sizes, S) \in Nat /\ SumFunctionOnSet(Sizes', T) \in Nat
        /\ SumFunctionOnSet(Sizes', T)
             + Part(xpc[t] = step /\ order[t].token = k, order[t].size)
           = SumFunctionOnSet(Sizes, S)
             + Part(xpc'[t] = step /\ order'[t].token = k, order'[t].size)
    BY <2>3, <2>4 DEF Part
  <2> QED
    BY <2>5 DEF S, T
<1>9. ASSUME NEW k
      PROVE  /\ Pending(k) \in Nat /\ Pending(k)' \in Nat
             /\ Pending(k)'
                  + Part(xpc[t] = "upsert" /\ order[t].token = k, order[t].size)
                = Pending(k)
                  + Part(xpc'[t] = "upsert" /\ order'[t].token = k, order'[t].size)
  <2> DEFINE S == Ordered("upsert", k)
             T == {u \in Trades : xpc'[u] = "upsert" /\ order'[u].token = k}
  <2>1. Pending(k) = SumFunctionOnSet(Sizes, S) /\ Pending(k)' = SumFunctionOnSet(Sizes', T)
    BY DEF Pending, Ordered
  <2>2. /\ SumFunctionOnSet(Sizes, S) \in Nat /\ SumFunctionOnSet(Sizes', T) \in Nat
        /\ SumFunctionOnSet(Sizes', T)
             + Part(xpc[t] = "upsert" /\ order[t].token = k, order[t].size)
           = SumFunctionOnSet(Sizes, S)
             + Part(xpc'[t] = "upsert" /\ order'[t].token = k, order'[t].size)
    BY <1>8
  <2> HIDE DEF S, T
  <2> QED
    BY <2>1, <2>2
<1>10. ASSUME NEW k
       PROVE  /\ SharesBought(k) \in Nat /\ SharesBought(k)' \in Nat
             /\ SharesBought(k)'
                  + Part(xpc[t] = "ledger" /\ order[t].token = k, order[t].size)
                = SharesBought(k)
                  + Part(xpc'[t] = "ledger" /\ order'[t].token = k, order'[t].size)
  <2> DEFINE S == Ordered("ledger", k)
             T == {u \in Trades : xpc'[u] = "ledger" /\ order'[u].token = k}
  <2>1. SharesBought(k) = SumFunctionOnSet(Sizes, S) /\ SharesBought(k)' = SumFunctionOnSet(Sizes', T)
    BY DEF SharesBought, Sizes, Ordered
  <2>2. /\ SumFunctionOnSet(Sizes, S) \in Nat /\ SumFunctionOnSet(Sizes', T) \in Nat
        /\ SumFunctionOnSet(Sizes', T)
             + Part(xpc[t] = "ledger" /\ order[t].token = k, order[t].size)
           = SumFunctionOnSet(Sizes, S)
             + Part(xpc'[t] = "ledger" /\ order'[t].token = k, order'[t].size)
    BY <1>8
  <2> HIDE DEF S, T
  <2> QED
    BY <2>1, <2>2
<1> QED
  BY <1>7, <1>9, <1>10
-----------------------------------------------------------------------------
(* What a step of a paper order may do: nothing to money and shares, or one *)
(* of the three accesses of a buy.                                         *)
LEMMA PaperOrderStep ==
  ASSUME DeskInv, PaperSteps, mode = "paper", NEW t \in Trades, ExecuteNext(t)
  PROVE  /\ mode' = "paper" /\ xpc'[t] # "post"
         /\ \/ /\ {xpc[t], xpc'[t]} \cap {"ledger", "upsert"} = {}
               /\ UNCHANGED <<bankroll, holdingVars>>
            \/ Deduct(t) \/ CreditLedger(t) \/ UpsertPosition(t)
<1> USE DEF DeskInv, TypeOK, ExecutorTypeOK, XReturn, XGoto
<1>1. xpc[t] # "post"
  BY DEF PaperSteps
<1>2. CASE SizeOrder(t)
  BY <1>2 DEF SizeOrder
<1>3. CASE RefuseOrder(t)
  BY <1>3 DEF RefuseOrder, executorVars
<1>4. CASE LoadBankroll(t)
  BY <1>4 DEF LoadBankroll
<1>5. CASE PaperBankrollTooLow(t)
  BY <1>5 DEF PaperBankrollTooLow
<1>6. CASE DeductAgain(t)
  BY <1>6 DEF DeductAgain
<1>7. CASE Deduct(t)
  BY <1>7 DEF Deduct
<1>8. CASE CreditLedger(t)
  BY <1>8 DEF CreditLedger
<1>9. CASE UpsertPosition(t)
  BY <1>9 DEF UpsertPosition
<1> QED
  BY <1>1, <1>2, <1>3, <1>4, <1>5, <1>6, <1>7, <1>8, <1>9 DEF ExecuteNext, BuyAccepted,
    BuyRejected, BuyAnswerLost, LiveBankrollTooLow

(* And a step of the manager on paper: nothing to money and shares, a       *)
(* position dropped at its expiry, or one of the accesses of a sale.        *)
LEMMA PaperManagerStep ==
  ASSUME PaperSteps, mode = "paper", ManagerNext
  PROVE  /\ mode' = "paper" /\ mpc' \notin {"reconcile", "store"}
         /\ UNCHANGED <<xpc, order, xcur, tradeVars, shared>>
         /\ \/ /\ UNCHANGED <<bankroll, holdingVars>>
               /\ \/ {mpc, mpc'} \cap {"credit", "cas", "remove"} = {}
                  \/ {mpc, mpc'} = {"credit", "cas"} /\ UNCHANGED <<mtoken, mshares, mbid>>
            \/ RedeemFails \/ DebitLedger \/ Credit \/ RemovePosition
<1> USE DEF MGoto, NextToken, executorVars
<1>1. mpc \notin {"reconcile", "store"}
  BY DEF PaperSteps
<1>2. CASE WakeManager
  BY <1>2 DEF WakeManager
<1>3. CASE ListPositions \/ RoundOver \/ ReadPosition
  BY <1>3 DEF ListPositions, RoundOver, ReadPosition
<1>4. CASE Hold \/ StartRedeem \/ StartSell
  BY <1>4 DEF Hold, StartRedeem, StartSell
<1>5. CASE LoadForCredit \/ CreditAgain
  BY <1>5 DEF LoadForCredit, CreditAgain
<1>6. CASE RedeemFails \/ DebitLedger
  BY <1>6 DEF RedeemFails, DebitLedger
<1>7. CASE Credit \/ RemovePosition
  BY <1>7 DEF Credit, RemovePosition
<1> QED
  BY <1>1, <1>2, <1>3, <1>4, <1>5, <1>6, <1>7 DEF ManagerNext, ReadChain, ReadChainFails,
    StoreBankroll, RedeemSucceeds, SellAccepted, SellRejected, SellAnswerLost

(* The mode is read once. *)
LEMMA ModeKept == ManagerNext => mode' = mode
BY DEF ManagerNext, WakeManager, ReadChain, ReadChainFails, StoreBankroll, ListPositions,
  RoundOver, ReadPosition, Hold, StartRedeem, StartSell, RedeemSucceeds, RedeemFails,
  DebitLedger, SellAccepted, SellRejected, SellAnswerLost, ExchangeSells, LoadForCredit,
  Credit, CreditAgain, RemovePosition, executorVars

LEMMA PaperStepsNext == DeskInv /\ PaperSteps /\ [Next]_vars => PaperSteps'
<1> SUFFICES ASSUME DeskInv, PaperSteps, [Next]_vars PROVE PaperSteps'
  OBVIOUS
<1>1. ASSUME NEW t \in Trades, Execute(t) PROVE PaperSteps'
  <2>1. mode' = mode /\ mpc' = mpc /\ \A u \in Trades \ {t} : xpc'[u] = xpc[u]
    BY <1>1, OthersOrders DEF Execute, managerVars
  <2>2. mode = "paper" => xpc'[t] # "post"
    BY <1>1, PaperOrderStep DEF Execute
  <2> QED
    BY <2>1, <2>2 DEF PaperSteps
<1>2. CASE Manager
  <2>1. mode' = mode /\ UNCHANGED xpc
    BY <1>2, ManagerType, ModeKept DEF Manager, DeskInv
  <2> QED
    BY <1>2, <2>1, PaperManagerStep DEF Manager, PaperSteps
<1>3. CASE \/ Clock \/ TickFires \/ TickExpires \/ FeedBid
           \/ \E r \in Rollovers : Rollover(r)
           \/ \E t \in Trades : CountAndRearm(t)
           \/ UNCHANGED vars
  BY <1>3, EnvironmentStep DEF DeskInv, executorVars, managerVars, PaperSteps
<1> QED
  BY <1>1, <1>2, <1>3 DEF Next
-----------------------------------------------------------------------------
(* What the manager has read of a position is not taken from it before it   *)
(* is sold: a buy only adds to it, and only the manager removes it.         *)
LEMMA SharesHeldNext ==
  DeskInv /\ EvaluatesOpenPositions /\ SharesHeld /\ [Next]_vars => SharesHeld'
<1> SUFFICES ASSUME DeskInv, EvaluatesOpenPositions, SharesHeld, [Next]_vars
             PROVE  SharesHeld'
  OBVIOUS
<1> USE DEF SharesHeld
<1>1. positions \in [Token -> Position] /\ mshares \in Nat
  BY DEF DeskInv, TypeOK, ExecutorTypeOK, ManagerTypeOK
<1>2. ASSUME NEW t \in Trades, Execute(t) PROVE SharesHeld'
  <2>1. CASE UpsertPosition(t)
    <3> DEFINE j == order[t].token
               n == order[t].size
    <3>1. n \in Nat /\ n >= 1
      BY <2>1 DEF DeskInv, OrderSized, UpsertPosition, XReturn, XGoto, TypeOK, ExecutorTypeOK
    <3>2. \A k \in Token : positions'[k].shares
            = IF k = j THEN positions[k].shares + n ELSE positions[k].shares
      BY <1>1, <2>1 DEF UpsertPosition
    <3>3. \A k \in Token \ {j} : positions'[k] = positions[k]
      BY <1>1, <2>1 DEF UpsertPosition
    <3>4. \A k \in Token : positions[k].shares \in Nat
      BY <1>1 DEF Position
    <3> HIDE DEF j, n
    <3>5. \A k \in Open' : positions'[k].shares >= 1
      BY <3>1, <3>2, <3>3, <3>4 DEF Open
    <3>6. mpc' \in Evaluating => mshares' \in 1 .. positions'[mtoken'].shares
      <4>1. UNCHANGED managerVars
        BY <1>2 DEF Execute
      <4>2. mpc \in Evaluating => mtoken \in Token
        BY DEF EvaluatesOpenPositions, Open
      <4> QED
        BY <1>1, <3>1, <3>2, <3>4, <4>1, <4>2 DEF managerVars
    <3> QED
      BY <3>5, <3>6
  <2>2. CASE ~UpsertPosition(t)
    <3>1. UNCHANGED positions
      BY <1>2, <2>2 DEF Execute, ExecuteNext, SizeOrder, RefuseOrder, BuyAccepted,
        BuyRejected, BuyAnswerLost, ExchangeBuys, LoadBankroll, PaperBankrollTooLow,
        LiveBankrollTooLow, Deduct, DeductAgain, CreditLedger, executorVars, holdingVars
    <3> QED
      BY <1>2, <3>1 DEF Execute, managerVars, Open
  <2> QED
    BY <2>1, <2>2
<1>3. CASE Manager
  <2> USE DEF MGoto, NextToken, Evaluating
  <2>1. ManagerNext
    BY <1>3 DEF Manager
  <2>2. CASE RedeemSucceeds \/ RedeemFails \/ RemovePosition
    <3>1. Drop(mtoken) /\ mpc' = "next"
      BY <2>2 DEF RedeemSucceeds, RedeemFails, RemovePosition
    <3>2. \A k \in Open' : k \in Open /\ positions'[k] = positions[k]
      BY <1>1, <3>1 DEF Drop, Open
    <3> QED
      BY <3>1, <3>2
  <2>3. CASE ReadPosition
    <3>1. PICK k \in mtodo : mtoken' = k /\ mshares' = positions[k].shares
      BY <2>3 DEF ReadPosition
    <3>2. UNCHANGED positions /\ k \in Open
      BY <2>3, <3>1 DEF ReadPosition, executorVars, holdingVars, EvaluatesOpenPositions
    <3>3. positions[k].shares \in Nat
      BY <1>1, <3>2 DEF Open, Position
    <3> QED
      BY <3>1, <3>2, <3>3 DEF Open
  <2>4. CASE \/ WakeManager \/ ReadChain \/ ReadChainFails \/ StoreBankroll
             \/ ListPositions \/ RoundOver \/ Hold \/ SellRejected \/ SellAnswerLost
    <3>1. UNCHANGED positions /\ mpc' \notin Evaluating
      BY <2>4 DEF WakeManager, ReadChain, ReadChainFails, StoreBankroll, ListPositions,
        RoundOver, Hold, SellRejected, SellAnswerLost, ExchangeSells, executorVars,
        holdingVars
    <3> QED
      BY <3>1 DEF Open
  <2>5. CASE \/ StartRedeem \/ StartSell \/ DebitLedger \/ SellAccepted
             \/ LoadForCredit \/ Credit \/ CreditAgain
    <3>1. UNCHANGED <<positions, mtoken, mshares>> /\ mpc \in Evaluating
      BY <2>5 DEF StartRedeem, StartSell, DebitLedger, SellAccepted, ExchangeSells,
        LoadForCredit, Credit, CreditAgain, executorVars, holdingVars
    <3> QED
      BY <3>1 DEF Open
  <2> QED
    BY <2>1, <2>2, <2>3, <2>4, <2>5 DEF ManagerNext
<1>4. CASE \/ Clock \/ TickFires \/ TickExpires \/ FeedBid
           \/ \E r \in Rollovers : Rollover(r)
           \/ \E t \in Trades : CountAndRearm(t)
           \/ UNCHANGED vars
  BY <1>4, EnvironmentStep DEF DeskInv, executorVars, holdingVars, managerVars, Open
<1> QED
  BY <1>2, <1>3, <1>4 DEF Next
-----------------------------------------------------------------------------
LEMMA AccountInit ==
  Init => PaperSteps /\ SharesHeld /\ PaperBacked /\ CashConserved
<1> SUFFICES ASSUME Init
             PROVE  PaperSteps /\ SharesHeld /\ PaperBacked /\ CashConserved
  OBVIOUS
<1> USE DEF Init, ExecutorInit, ManagerInit
<1>1. PaperSteps
  BY DEF PaperSteps
<1>2. SharesHeld
  BY DEF SharesHeld, Open, Evaluating
<1>3. PaperBacked
  <2>1. \A k : Ordered("upsert", k) = {}
    BY DEF Ordered
  <2>2. \A k : Pending(k) = 0
    BY <2>1, SumOfNone DEF Pending
  <2> QED
    BY <2>2 DEF PaperBacked, Debited, Part, NoPosition
<1>4. CashConserved
  <2>1. {t \in Trades : xpc[t] \in {"ledger", "upsert"}} = {}
    OBVIOUS
  <2>2. UnloggedBuys = 0
    BY <2>1, SumOfNone DEF UnloggedBuys
  <2>3. UnloggedSale = 0
    BY DEF UnloggedSale
  <2> QED
    BY <2>2, <2>3, ExecutorAssumption DEF CashConserved
<1> QED
  BY <1>1, <1>2, <1>3, <1>4

(* An order writes the ledger first and the position last. *)
LEMMA OrderBacked ==
  ASSUME DeskInv, PaperSteps, PaperBacked, NEW t \in Trades, Execute(t)
  PROVE  PaperBacked'
<1> SUFFICES ASSUME mode = "paper", NEW k \in Token
             PROVE  (positions[k].shares + Pending(k) <= balance[k] + Debited(k))'
  BY OthersOrders DEF Execute, PaperBacked
<1> USE DEF XReturn, XGoto
<1> DEFINE j == order[t].token
           n == order[t].size
<1>1. /\ positions \in [Token -> Position] /\ balance \in [Token -> Nat]
      /\ positions[k].shares \in Nat /\ balance[k] \in Nat /\ n \in Nat
      /\ mshares \in Nat
  BY DEF DeskInv, TypeOK, ExecutorTypeOK, ManagerTypeOK, Position
<1>2. positions[k].shares + Pending(k) <= balance[k] + Debited(k)
  BY DEF PaperBacked
<1>3. Debited(k)' = Debited(k) /\ Debited(k) \in Nat
  BY <1>1 DEF Execute, managerVars, Debited, Part
<1>4. ExecuteNext(t)
  BY DEF Execute
<1>5. /\ Pending(k) \in Nat /\ Pending(k)' \in Nat
      /\ Pending(k)' + Part(xpc[t] = "upsert" /\ order[t].token = k, order[t].size)
           = Pending(k) + Part(xpc'[t] = "upsert" /\ order'[t].token = k, order'[t].size)
  BY <1>4, OrderSums
<1>6. CASE /\ {xpc[t], xpc'[t]} \cap {"ledger", "upsert"} = {}
           /\ UNCHANGED <<bankroll, holdingVars>>
  <2>1. xpc[t] # "upsert" /\ xpc'[t] # "upsert"
    BY <1>6
  <2>2. Pending(k)' = Pending(k)
    BY <1>5, <2>1 DEF Part
  <2> QED
    BY <1>2, <1>3, <1>6, <2>2 DEF holdingVars
<1>7. CASE Deduct(t)
  <2>1. xpc[t] = "cas" /\ xpc'[t] = "ledger"
    BY <1>7 DEF Deduct, DeskInv, TypeOK, ExecutorTypeOK
  <2>2. Pending(k)' = Pending(k)
    BY <1>5, <2>1 DEF Part
  <2> QED
    BY <1>2, <1>3, <1>7, <2>2 DEF Deduct, holdingVars
<1>8. CASE CreditLedger(t)
  <2>1. xpc[t] = "ledger" /\ xpc'[t] = "upsert" /\ order' = order
        /\ positions' = positions
    BY <1>8 DEF CreditLedger, DeskInv, TypeOK, ExecutorTypeOK
  <2>2. Pending(k)' = Pending(k) + Part(j = k, n)
    BY <1>1, <1>5, <2>1 DEF Part
  <2>3. balance'[k] = balance[k] + Part(j = k, n)
    BY <1>1, <1>8 DEF CreditLedger, Part
  <2> HIDE DEF j, n
  <2>4. Part(j = k, n) \in Nat
    BY <1>1 DEF Part
  <2> QED
    BY <1>1, <1>2, <1>3, <1>5, <2>1, <2>2, <2>3, <2>4
<1>9. CASE UpsertPosition(t)
  <2>1. xpc[t] = "upsert" /\ xpc'[t] = "idle" /\ balance' = balance
    BY <1>9 DEF UpsertPosition, DeskInv, TypeOK, ExecutorTypeOK
  <2>2. Pending(k)' + Part(j = k, n) = Pending(k)
    BY <1>1, <1>5, <2>1 DEF Part
  <2>3. positions'[k].shares = positions[k].shares + Part(j = k, n)
    BY <1>1, <1>9 DEF UpsertPosition, Part
  <2> HIDE DEF j, n
  <2>4. Part(j = k, n) \in Nat
    BY <1>1 DEF Part
  <2> QED
    BY <1>1, <1>2, <1>3, <1>5, <2>1, <2>2, <2>3, <2>4
<1> QED
  BY <1>4, <1>6, <1>7, <1>8, <1>9, PaperOrderStep

LEMMA PendingNat ==
  ASSUME DeskInv, NEW k
  PROVE  Pending(k) \in Nat
<1>1. Sizes \in [Trades -> Nat] /\ Ordered("upsert", k) \in SUBSET Trades
  BY DEF Sizes, Ordered, DeskInv, TypeOK, ExecutorTypeOK
<1>2. IsFiniteSet(Ordered("upsert", k))
  BY <1>1, TradesAssumption, FS_Subset
<1> QED
  BY <1>1, <1>2, SumNat DEF Pending

(* A sale takes the shares that it read out of the ledger, and then the     *)
(* position that had at least as many.                                     *)
LEMMA SaleBacked ==
  ASSUME DeskInv, EvaluatesOpenPositions, PaperSteps, SharesHeld, PaperBacked, Manager
  PROVE  PaperBacked'
<1> SUFFICES ASSUME mode = "paper", NEW k \in Token
             PROVE  (positions[k].shares + Pending(k) <= balance[k] + Debited(k))'
  BY ModeKept DEF Manager, PaperBacked
<1> USE DEF MGoto, NextToken
<1>1. /\ positions \in [Token -> Position] /\ balance \in [Token -> Nat]
      /\ positions[k].shares \in Nat /\ balance[k] \in Nat /\ mshares \in Nat
  BY DEF DeskInv, TypeOK, ExecutorTypeOK, ManagerTypeOK, Position
<1>2. positions[k].shares + Pending(k) <= balance[k] + Debited(k)
  BY DEF PaperBacked
<1>3. Pending(k) \in Nat
  BY PendingNat
<1>4. UNCHANGED <<xpc, order>>
  BY PaperManagerStep DEF Manager
<1>5. Pending(k)' = Pending(k)
  BY <1>4 DEF Pending, Sizes, Ordered
<1>6. mpc \in Evaluating => mtoken \in Token /\ mshares \in 1 .. positions[mtoken].shares
  BY DEF SharesHeld, EvaluatesOpenPositions, Open
<1>7. CASE /\ UNCHANGED <<bankroll, holdingVars>>
           /\ \/ {mpc, mpc'} \cap {"credit", "cas", "remove"} = {}
              \/ {mpc, mpc'} = {"credit", "cas"} /\ UNCHANGED <<mtoken, mshares, mbid>>
  <2>1. Debited(k)' = Debited(k)
    BY <1>7 DEF Debited, Part
  <2> QED
    BY <1>2, <1>5, <1>7, <2>1 DEF holdingVars
<1>8. CASE RedeemFails
  <2>1. positions'[k].shares <= positions[k].shares /\ positions'[k].shares \in Nat
    BY <1>1, <1>8 DEF RedeemFails, Drop, NoPosition
  <2>2. Debited(k) = 0 /\ Debited(k)' = 0 /\ balance' = balance
    BY <1>8 DEF RedeemFails, Debited, Part
  <2> QED
    BY <1>1, <1>2, <1>3, <1>5, <2>1, <2>2
<1>9. CASE DebitLedger
  <2>1. /\ Debited(k) = 0 /\ Debited(k)' = Part(k = mtoken, mshares)
        /\ positions' = positions
    BY <1>9 DEF DebitLedger, Debited, Part
  <2>2. mpc \in Evaluating
    BY <1>9 DEF DebitLedger, Evaluating
  <2>3. k = mtoken => mshares <= balance[k]
    BY <1>1, <1>2, <1>3, <1>6, <2>1, <2>2
  <2>4. balance'[k] + Part(k = mtoken, mshares) = balance[k] /\ balance'[k] \in Nat
    BY <1>1, <1>9, <2>3 DEF DebitLedger, Part
  <2> QED
    BY <1>1, <1>2, <1>3, <1>5, <2>1, <2>4 DEF Part
<1>10. CASE Credit
  <2>1. Debited(k)' = Debited(k)
    BY <1>10 DEF Credit, Debited, Part
  <2> QED
    BY <1>2, <1>5, <1>10, <2>1 DEF Credit, holdingVars
<1>11. CASE RemovePosition
  <2>1. Debited(k) = Part(k = mtoken, mshares) /\ Debited(k)' = 0 /\ balance' = balance
    BY <1>11 DEF RemovePosition, Debited, Part
  <2>2. positions'[k].shares = IF k = mtoken THEN 0 ELSE positions[k].shares
    BY <1>1, <1>11 DEF RemovePosition, Drop, NoPosition
  <2>3. k = mtoken => mshares <= positions[k].shares
    BY <1>1, <1>6, <1>11 DEF RemovePosition, Evaluating
  <2> QED
    BY <1>1, <1>2, <1>3, <1>5, <2>1, <2>2, <2>3 DEF Part
<1> QED
  BY <1>7, <1>8, <1>9, <1>10, <1>11, PaperManagerStep DEF Manager

LEMMA PaperBackedNext ==
  /\ DeskInv /\ EvaluatesOpenPositions /\ PaperSteps /\ SharesHeld /\ PaperBacked
  /\ [Next]_vars
  => PaperBacked'
<1> SUFFICES ASSUME DeskInv, EvaluatesOpenPositions, PaperSteps, SharesHeld, PaperBacked,
                    [Next]_vars
             PROVE  PaperBacked'
  OBVIOUS
<1>1. CASE \/ Clock \/ TickFires \/ TickExpires \/ FeedBid
           \/ \E r \in Rollovers : Rollover(r)
           \/ \E t \in Trades : CountAndRearm(t)
           \/ UNCHANGED vars
  <2>1. UNCHANGED <<executorVars, managerVars>>
    BY <1>1, EnvironmentStep DEF DeskInv
  <2>2. /\ \A k : Pending(k)' = Pending(k) /\ Debited(k)' = Debited(k)
        /\ UNCHANGED <<mode, positions, balance>>
    BY <2>1 DEF executorVars, holdingVars, managerVars, Pending, Sizes, Ordered, Debited, Part
  <2> QED
    BY <2>2 DEF PaperBacked
<1> QED
  BY <1>1, OrderBacked, SaleBacked DEF Next
-----------------------------------------------------------------------------
(* The paper bankroll and the log, under a step of an order ... *)
LEMMA OrderConserves ==
  ASSUME DeskInv, PaperSteps, CashConserved, NEW t \in Trades, Execute(t)
  PROVE  CashConserved'
<1> SUFFICES ASSUME mode = "paper"
             PROVE  (bankroll = Start - trade_log.spent + trade_log.earned - UnloggedBuys
                                + UnloggedSale)'
  BY OthersOrders DEF Execute, CashConserved
<1> USE DEF XReturn, XGoto
<1> DEFINE v == Value(order[t])
           w == Value(order[t])'
<1>1. /\ bankroll \in Nat /\ trade_log \in [spent : Nat, earned : Nat]
      /\ trade_log.spent \in Nat /\ trade_log.earned \in Nat
  BY DEF DeskInv, TypeOK, ExecutorTypeOK
<1>2. v \in Nat
  BY ValueNat DEF DeskInv, TypeOK
<1>3. bankroll = Start - trade_log.spent + trade_log.earned - UnloggedBuys + UnloggedSale
  BY DEF CashConserved
<1>4. UnloggedSale' = UnloggedSale /\ UnloggedSale \in Nat
  <2>1. Proceeds \in Nat
    BY ProductNat DEF Proceeds, DeskInv, TypeOK, ManagerTypeOK
  <2> QED
    BY <2>1 DEF Execute, managerVars, UnloggedSale, Proceeds
<1>5. ExecuteNext(t)
  BY DEF Execute
<1>6. /\ UnloggedBuys \in Nat /\ UnloggedBuys' \in Nat
      /\ UnloggedBuys' + Part(xpc[t] \in {"ledger", "upsert"}, v)
           = UnloggedBuys + Part(xpc'[t] \in {"ledger", "upsert"}, w)
  BY <1>5, OrderSums
<1>7. CASE /\ {xpc[t], xpc'[t]} \cap {"ledger", "upsert"} = {}
           /\ UNCHANGED <<bankroll, holdingVars>>
  <2>1. xpc[t] \notin {"ledger", "upsert"} /\ xpc'[t] \notin {"ledger", "upsert"}
    BY <1>7
  <2> HIDE DEF v, w
  <2>2. /\ Part(xpc[t] \in {"ledger", "upsert"}, v) = 0
        /\ Part(xpc'[t] \in {"ledger", "upsert"}, w) = 0
    BY <2>1 DEF Part
  <2>3. UnloggedBuys' = UnloggedBuys
    BY <1>6, <2>2
  <2> QED
    BY <1>3, <1>4, <1>7, <2>3 DEF holdingVars
<1>8. CASE Deduct(t)
  <2>1. /\ xpc[t] = "cas" /\ xpc'[t] = "ledger" /\ order' = order
        /\ trade_log' = trade_log /\ bankroll' = bankroll - v
    BY <1>8 DEF Deduct, holdingVars, DeskInv, TypeOK, ExecutorTypeOK
  <2>2. w = v
    BY <2>1 DEF Value
  <2> HIDE DEF v, w
  <2>3. /\ Part(xpc[t] \in {"ledger", "upsert"}, v) = 0
        /\ Part(xpc'[t] \in {"ledger", "upsert"}, w) = v
    BY <2>1, <2>2 DEF Part
  <2>4. UnloggedBuys' = UnloggedBuys + v
    BY <1>2, <1>6, <2>3
  <2> QED
    BY <1>1, <1>2, <1>3, <1>4, <1>6, <2>1, <2>4, ExecutorAssumption
<1>9. CASE CreditLedger(t)
  <2>1. /\ xpc[t] = "ledger" /\ xpc'[t] = "upsert" /\ order' = order
        /\ trade_log' = trade_log /\ bankroll' = bankroll
    BY <1>9 DEF CreditLedger, DeskInv, TypeOK, ExecutorTypeOK
  <2>2. w = v
    BY <2>1 DEF Value
  <2> HIDE DEF v, w
  <2>3. /\ Part(xpc[t] \in {"ledger", "upsert"}, v) = v
        /\ Part(xpc'[t] \in {"ledger", "upsert"}, w) = v
    BY <2>1, <2>2 DEF Part
  <2>4. UnloggedBuys' = UnloggedBuys
    BY <1>2, <1>6, <2>3
  <2> QED
    BY <1>3, <1>4, <2>1, <2>4
<1>10. CASE UpsertPosition(t)
  <2>1. /\ xpc[t] = "upsert" /\ xpc'[t] = "idle" /\ bankroll' = bankroll
        /\ trade_log' = [trade_log EXCEPT !.spent = @ + v]
    BY <1>10 DEF UpsertPosition, DeskInv, TypeOK, ExecutorTypeOK
  <2> HIDE DEF v, w
  <2>2. /\ Part(xpc[t] \in {"ledger", "upsert"}, v) = v
        /\ Part(xpc'[t] \in {"ledger", "upsert"}, w) = 0
    BY <2>1 DEF Part
  <2>3. trade_log'.spent = trade_log.spent + v /\ trade_log'.earned = trade_log.earned
    BY <1>1, <2>1
  <2>4. UnloggedBuys' + v = UnloggedBuys
    <3>1. UnloggedBuys' + v = UnloggedBuys + 0
      BY <1>6, <2>2, Zenon
    <3> QED
      BY <1>6, <3>1
  <2> QED
    BY <1>1, <1>2, <1>3, <1>4, <1>6, <2>1, <2>3, <2>4, ExecutorAssumption
<1> QED
  BY <1>5, <1>7, <1>8, <1>9, <1>10, PaperOrderStep

(* ... and of the manager. *)
LEMMA SaleConserves ==
  ASSUME DeskInv, PaperSteps, CashConserved, Manager
  PROVE  CashConserved'
<1> SUFFICES ASSUME mode = "paper"
             PROVE  (bankroll = Start - trade_log.spent + trade_log.earned - UnloggedBuys
                                + UnloggedSale)'
  BY ModeKept DEF Manager, CashConserved
<1> USE DEF MGoto, NextToken
<1>1. /\ bankroll \in Nat /\ trade_log \in [spent : Nat, earned : Nat]
      /\ trade_log.spent \in Nat /\ trade_log.earned \in Nat
  BY DEF DeskInv, TypeOK, ExecutorTypeOK
<1>2. bankroll = Start - trade_log.spent + trade_log.earned - UnloggedBuys + UnloggedSale
  BY DEF CashConserved
<1>3. Proceeds \in Nat
  BY ProductNat DEF Proceeds, DeskInv, TypeOK, ManagerTypeOK
<1>4. UNCHANGED <<xpc, order>>
  BY PaperManagerStep DEF Manager
<1>5. UnloggedBuys' = UnloggedBuys
  BY <1>4 DEF UnloggedBuys, Value
<1>6. UnloggedBuys \in Nat
  <2>1. Values \in [Trades -> Nat] /\ At({"ledger", "upsert"}) \in SUBSET Trades
    BY ValueNat DEF Values, At, DeskInv, TypeOK
  <2>2. IsFiniteSet(At({"ledger", "upsert"}))
    BY <2>1, TradesAssumption, FS_Subset
  <2>3. SumFunctionOnSet(Values, At({"ledger", "upsert"})) \in Nat
    BY <2>1, <2>2, SumNat
  <2> QED
    BY <2>3 DEF UnloggedBuys, Values, At
<1>7. CASE /\ UNCHANGED <<bankroll, holdingVars>>
           /\ \/ {mpc, mpc'} \cap {"credit", "cas", "remove"} = {}
              \/ {mpc, mpc'} = {"credit", "cas"} /\ UNCHANGED <<mtoken, mshares, mbid>>
  <2>1. UnloggedSale = 0 /\ UnloggedSale' = 0
    BY <1>7 DEF UnloggedSale
  <2> QED
    BY <1>2, <1>5, <1>7, <2>1 DEF holdingVars
<1>8. CASE RedeemFails \/ DebitLedger
  <2>1. UnloggedSale = 0 /\ UnloggedSale' = 0 /\ UNCHANGED <<bankroll, trade_log>>
    BY <1>8 DEF RedeemFails, DebitLedger, UnloggedSale
  <2> QED
    BY <1>2, <1>5, <2>1
<1>9. CASE Credit
  <2>1. UnloggedSale = 0 /\ UnloggedSale' = Proceeds /\ UNCHANGED trade_log
        /\ bankroll' = bankroll + Proceeds
    BY <1>9 DEF Credit, UnloggedSale, Proceeds, holdingVars
  <2> QED
    BY <1>1, <1>2, <1>3, <1>5, <1>6, <2>1, ExecutorAssumption
<1>10. CASE RemovePosition
  <2>1. UnloggedSale = Proceeds /\ UnloggedSale' = 0 /\ UNCHANGED bankroll
        /\ trade_log' = [trade_log EXCEPT !.earned = @ + Proceeds]
    BY <1>10 DEF RemovePosition, UnloggedSale
  <2>2. trade_log'.spent = trade_log.spent /\ trade_log'.earned = trade_log.earned + Proceeds
    BY <1>1, <2>1
  <2> QED
    BY <1>1, <1>2, <1>3, <1>5, <1>6, <2>1, <2>2, ExecutorAssumption
<1> QED
  BY <1>7, <1>8, <1>9, <1>10, PaperManagerStep DEF Manager

LEMMA CashNext ==
  DeskInv /\ PaperSteps /\ CashConserved /\ [Next]_vars => CashConserved'
<1> SUFFICES ASSUME DeskInv, PaperSteps, CashConserved, [Next]_vars
             PROVE  CashConserved'
  OBVIOUS
<1>1. CASE \/ Clock \/ TickFires \/ TickExpires \/ FeedBid
           \/ \E r \in Rollovers : Rollover(r)
           \/ \E t \in Trades : CountAndRearm(t)
           \/ UNCHANGED vars
  <2>1. UNCHANGED <<executorVars, managerVars>>
    BY <1>1, EnvironmentStep DEF DeskInv
  <2>2. /\ UnloggedBuys' = UnloggedBuys /\ UnloggedSale' = UnloggedSale
        /\ UNCHANGED <<mode, bankroll, trade_log>>
    BY <2>1 DEF executorVars, holdingVars, managerVars, UnloggedBuys, Value, UnloggedSale,
      Proceeds
  <2> QED
    BY <2>2 DEF CashConserved
<1> QED
  BY <1>1, OrderConserves, SaleConserves DEF Next
-----------------------------------------------------------------------------
LEMMA DeskInvariant == Spec => [](DeskInv /\ EvaluatesOpenPositions /\ PaperSteps /\ SharesHeld)
<1>1. Spec => []DeskInv
  BY DeskInit, DeskNext, PTL DEF Spec
<1>2. Spec => []PaperSteps
  BY <1>1, AccountInit, PaperStepsNext, PTL DEF Spec
<1>3. Spec => []SharesHeld
  BY <1>1, OnlyOpenPositions, AccountInit, SharesHeldNext, PTL DEF Spec
<1> QED
  BY <1>1, <1>2, <1>3, OnlyOpenPositions, PTL

(* No paper position claims more shares than the ledger holds, for any       *)
(* number of orders that are averaged into a position while it is sold, so  *)
(* that debit_sell never cuts a sale off at zero.                           *)
THEOREM LedgerBacksPositions == Spec => []PaperNeverOversold
<1>1. Spec => []PaperBacked
  BY DeskInvariant, AccountInit, PaperBackedNext, PTL DEF Spec
<1>2. DeskInv /\ PaperBacked => PaperNeverOversold
  <2> SUFFICES ASSUME DeskInv, PaperBacked, mode = "paper", NEW k \in Open,
                      ~(k = mtoken /\ mpc \in {"credit", "cas", "remove"})
               PROVE  positions[k].shares <= balance[k]
    BY DEF PaperNeverOversold
  <2>1. k \in Token /\ Debited(k) = 0
    BY DEF Open, Debited, Part
  <2>2. positions[k].shares + Pending(k) <= balance[k]
    BY <2>1 DEF PaperBacked, DeskInv, TypeOK, ExecutorTypeOK
  <2>3. Pending(k) \in Nat
    BY PendingNat
  <2>4. positions[k].shares \in Nat /\ balance[k] \in Nat
    BY <2>1 DEF DeskInv, TypeOK, ExecutorTypeOK, Position
  <2> QED
    BY <2>2, <2>3, <2>4
<1> QED
  BY <1>1, <1>2, DeskInvariant, PTL

(* On paper no money is made or lost between the bankroll and the log, for  *)
(* any number of orders and sales that meet in their compare_exchange.      *)
THEOREM LogAccountsForBankroll == Spec => []CashConserved
BY DeskInvariant, AccountInit, CashNext, PTL DEF Spec
-----------------------------------------------------------------------------
(* Every market that a task holds is one that update_market can pick.       *)
MarketsKnown ==
  /\ market \in Markets \cup {NoMarket}
  /\ \A r \in Rollovers : fetched[r] \in Markets \cup {NoMarket}
  /\ \A t \in InFlight : snap[t].market \in Markets

(* An order is for such a market, and at the price of an offer. *)
OrderOffered ==
  \A t \in Trades : xpc[t] # "idle" =>
    /\ order[t].token \in Token
    /\ order[t].price \in {o.price : o \in Offers} /\ order[t].price >= 1

(* A sale is at the price of a bid. *)
SaleOffered == mpc \in {"sell", "credit", "cas", "remove"} => mbid.price \in BidPrices

LEMMA OfferedInit == Init => MarketsKnown /\ OrderOffered /\ SaleOffered
<1> SUFFICES ASSUME Init PROVE MarketsKnown /\ OrderOffered /\ SaleOffered
  OBVIOUS
<1>1. NextExpiry(0) \in Markets
  BY ClockAssumption DEF Markets
<1>2. MarketsKnown
  BY <1>1 DEF Init, SharedInit, RolloverInit, TradeInit, MarketsKnown, InFlight
<1> QED
  BY <1>2 DEF Init, ExecutorInit, ManagerInit, OrderOffered, SaleOffered

LEMMA MarketsKnownNext == DeskInv /\ MarketsKnown /\ [Next]_vars => MarketsKnown'
<1> SUFFICES ASSUME DeskInv, MarketsKnown, [Next]_vars PROVE MarketsKnown'
  OBVIOUS
<1> USE DEF MarketsKnown, InFlight
<1>1. tpc \in [Trades -> {"idle", "execute", "count", "escalate", "debounce"}]
      /\ snap \in [Trades -> TriggerSnapshot] /\ DOMAIN fetched = Rollovers
  BY DEF DeskInv, TypeOK, TradeTypeOK, RolloverTypeOK
<1>2. CASE Clock \/ TickExpires \/ FeedBid \/ UNCHANGED vars
  BY <1>2 DEF Clock, Tick, TickExpires, SpawnRollover, FeedBid, vars, shared, marketVars,
    rolloverVars, tradeVars
<1>3. CASE TickFires
  <2>1. PICK t \in Trades : SpawnTrade(t, [market |-> market, ts |-> wall, price |-> market])
    BY <1>3 DEF TickFires
  <2>2. market \in Markets /\ UNCHANGED <<market, fetched>>
    BY <1>3 DEF TickFires, marketVars, rolloverVars
  <2>3. snap'[t].market = market /\ \A u \in Trades \ {t} : snap'[u] = snap[u] /\ tpc'[u] = tpc[u]
    BY <1>1, <2>1 DEF SpawnTrade
  <2> QED
    BY <2>2, <2>3
<1>4. ASSUME NEW r \in Rollovers, Rollover(r) PROVE MarketsKnown'
  <2>1. UNCHANGED <<tpc, snap>>
    BY <1>4 DEF Rollover, tradeVars
  <2>2. CASE PickWindow(r)
    <3>1. NextExpiry(wall) \in Markets
      BY DEF Markets, DeskInv, TypeOK, SharedTypeOK
    <3> QED
      BY <1>1, <2>1, <2>2, <3>1 DEF PickWindow, shared
  <2>3. CASE PublishMarket(r)
    BY <2>1, <2>3 DEF PublishMarket
  <2>4. CASE ClearRolling(r)
    BY <1>1, <2>1, <2>4 DEF ClearRolling, marketVars
  <2>5. CASE ~(PickWindow(r) \/ PublishMarket(r) \/ ClearRolling(r))
    <3>1. UNCHANGED <<market, fetched>>
      BY <1>4, <2>5 DEF Rollover, RolloverNext, Disarm, NotifyDisconnect, ResetBook, ResetEma,
        ResetLastTs, ResetShots, ResetDynamic, ResetTriggers, FetchOk, FetchErr,
        PublishExpiry, NotifyReconnect, Arm, marketVars, shared
    <3> QED
      BY <2>1, <3>1
  <2> QED
    BY <2>2, <2>3, <2>4, <2>5
<1>5. ASSUME NEW t \in Trades, Execute(t) PROVE MarketsKnown'
  <2>1. \/ BuyFilled(t) \/ BuyFailed(t) \/ UNCHANGED <<tradeVars, shared>>
    BY <1>5 DEF Execute, ExecuteNext, SizeOrder, RefuseOrder, BuyAccepted, BuyRejected,
      BuyAnswerLost, LoadBankroll, PaperBankrollTooLow, LiveBankrollTooLow, Deduct,
      DeductAgain, CreditLedger, UpsertPosition
  <2>2. UNCHANGED <<market, fetched, snap>> /\ \A u \in Trades : tpc[u] = "idle" => tpc'[u] = "idle"
    BY <1>1, <1>5, <2>1 DEF Execute, BuyFilled, BuyFailed, rolloverVars, tradeVars, shared
  <2> QED
    BY <2>2
<1>6. ASSUME NEW t \in Trades, CountAndRearm(t) PROVE MarketsKnown'
  <2>1. /\ UNCHANGED <<market, fetched>>
        /\ \A u \in Trades : tpc'[u] # "idle" => tpc[u] # "idle" /\ snap'[u] = snap[u]
    <3>1. UNCHANGED <<market, fetched>>
      BY <1>6 DEF CountAndRearm, IncrementShots, Escalate, Rearm, marketVars, rolloverVars
    <3>2. CASE IncrementShots(t) \/ Escalate(t)
      BY <1>1, <3>1, <3>2 DEF IncrementShots, Escalate
    <3>3. CASE Rearm(t)
      <4>1. tpc' = [tpc EXCEPT ![t] = "idle"] /\ snap' = [snap EXCEPT ![t] = NoSnapshot]
        BY <3>3 DEF Rearm
      <4>2. tpc[t] # "idle"
        BY <3>3 DEF Rearm
      <4>3. tpc'[t] = "idle" /\ \A u \in Trades \ {t} : tpc'[u] = tpc[u] /\ snap'[u] = snap[u]
        BY <1>1, <4>1
      <4> QED
        BY <3>1, <4>3
    <3> QED
      BY <1>6, <3>2, <3>3 DEF CountAndRearm
  <2> QED
    BY <2>1
<1>7. CASE Manager
  BY <1>7, ManagerType DEF Manager, DeskInv, rolloverVars, tradeVars, shared
<1> QED
  BY <1>2, <1>3, <1>4, <1>5, <1>6, <1>7 DEF Next

LEMMA OrderOfferedNext ==
  DeskInv /\ MarketsKnown /\ OrderOffered /\ [Next]_vars => OrderOffered'
<1> SUFFICES ASSUME DeskInv, MarketsKnown, OrderOffered, [Next]_vars PROVE OrderOffered'
  OBVIOUS
<1> USE DEF OrderOffered
<1>1. ASSUME NEW t \in Trades, Execute(t) PROVE OrderOffered'
  <2>1. \A u \in Trades \ {t} : xpc'[u] = xpc[u] /\ order'[u] = order[u]
    BY <1>1, OthersOrders DEF Execute
  <2>2. xpc \in [Trades -> Steps] /\ order \in [Trades -> Order]
    BY DEF DeskInv, TypeOK, ExecutorTypeOK, Steps, Order
  <2>3. CASE SizeOrder(t)
    <3>1. PICK o \in Offers, side \in Sides :
            /\ Acceptable(o)
            /\ order' = [order EXCEPT ![t] = [token |-> <<snap[t].market, side>>,
                                            price |-> o.price, size |-> BuySize(o)]]
      BY <2>3 DEF SizeOrder
    <3>2. order'[t] = [token |-> <<snap[t].market, side>>, price |-> o.price,
                       size |-> BuySize(o)]
      BY <2>2, <3>1
    <3>3. snap[t].market \in Markets
      BY <2>3 DEF SizeOrder, MarketsKnown, InFlight
    <3>4. order'[t].token \in Token
      BY <3>2, <3>3 DEF Token
    <3>5. order'[t].price = o.price /\ o.price > 1 /\ o.price \in Nat
      BY <3>1, <3>2, ExecutorAssumption DEF Acceptable
    <3> QED
      BY <2>1, <3>4, <3>5
  <2>4. CASE ~SizeOrder(t)
    <3>1. xpc'[t] # "idle" => xpc[t] # "idle" /\ order'[t] = order[t]
      BY <1>1, <2>2, <2>4 DEF Execute, ExecuteNext, RefuseOrder, BuyAccepted, BuyRejected,
        BuyAnswerLost, LoadBankroll, PaperBankrollTooLow, LiveBankrollTooLow, Deduct,
        DeductAgain, CreditLedger, UpsertPosition, XReturn, XGoto, executorVars
    <3> QED
      BY <2>1, <3>1
  <2> QED
    BY <2>3, <2>4
<1>2. CASE Manager
  BY <1>2, ManagerType DEF Manager, DeskInv
<1>3. CASE \/ Clock \/ TickFires \/ TickExpires \/ FeedBid
           \/ \E r \in Rollovers : Rollover(r)
           \/ \E t \in Trades : CountAndRearm(t)
           \/ UNCHANGED vars
  BY <1>3, EnvironmentStep DEF DeskInv, executorVars
<1> QED
  BY <1>1, <1>2, <1>3 DEF Next

LEMMA SaleOfferedNext == DeskInv /\ SaleOffered /\ [Next]_vars => SaleOffered'
<1> SUFFICES ASSUME DeskInv, SaleOffered, [Next]_vars PROVE SaleOffered'
  OBVIOUS
<1> USE DEF SaleOffered
<1>1. CASE Manager
  <2>1. ManagerNext
    BY <1>1 DEF Manager
  <2>2. CASE StartSell
    <3>1. PICK price \in BidPrices : mbid' = [market |-> Bid, price |-> price]
      BY <2>2 DEF StartSell
    <3> QED
      BY <3>1
  <2>3. CASE DebitLedger \/ SellAccepted \/ LoadForCredit \/ Credit \/ CreditAgain
    BY <2>3 DEF DebitLedger, SellAccepted, LoadForCredit, Credit, CreditAgain, MGoto
  <2>4. CASE \/ WakeManager \/ ReadChain \/ ReadChainFails \/ StoreBankroll
             \/ ListPositions \/ RoundOver \/ ReadPosition \/ Hold \/ StartRedeem
             \/ RedeemSucceeds \/ RedeemFails \/ SellRejected \/ SellAnswerLost
             \/ RemovePosition
    BY <2>4 DEF WakeManager, ReadChain, ReadChainFails, StoreBankroll, ListPositions,
      RoundOver, ReadPosition, Hold, StartRedeem, RedeemSucceeds, RedeemFails, SellRejected,
      SellAnswerLost, RemovePosition, NextToken, MGoto
  <2> QED
    BY <2>1, <2>2, <2>3, <2>4 DEF ManagerNext
<1>2. ASSUME NEW t \in Trades, Execute(t) PROVE SaleOffered'
  BY <1>2 DEF Execute, managerVars
<1>3. CASE \/ Clock \/ TickFires \/ TickExpires \/ FeedBid
           \/ \E r \in Rollovers : Rollover(r)
           \/ \E t \in Trades : CountAndRearm(t)
           \/ UNCHANGED vars
  BY <1>3, EnvironmentStep DEF DeskInv, managerVars
<1> QED
  BY <1>1, <1>2, <1>3 DEF Next
-----------------------------------------------------------------------------
LEMMA ProductPositive ==
  ASSUME NEW a \in Nat, NEW b \in Nat, a >= 1, b >= 1
  PROVE  a * b >= 1
OBVIOUS

Offered == MarketsKnown /\ OrderOffered /\ SaleOffered
Money == IF mode = "paper" THEN bankroll ELSE Start

LEMMA AccountStarts == Init => Account!Init
<1> SUFFICES ASSUME Init PROVE Account!Init
  OBVIOUS
<1> USE DEF Init, ExecutorInit, ManagerInit
<1>1. Money = Start
  BY DEF Money
<1>2. \A k : {t \in Trades : xpc[t] = "ledger" /\ order[t].token = k} = {}
  OBVIOUS
<1>3. \A k : SharesBought(k) = 0 /\ SharesSold(k) = 0
  BY <1>2, SumOfNone DEF SharesBought, SharesSold
<1>4. PaperShares = [k \in Token |-> 0]
  BY <1>3 DEF PaperShares
<1> QED
  BY <1>1, <1>4 DEF Account!Init, Money

(* A live desk leaves the paper account alone, as do all the steps that     *)
(* change no balance, no deduction and no sale.                             *)
LEMMA AccountStutters ==
  ASSUME mode' = mode,
         mode = "paper" =>
           /\ bankroll' = bankroll
           /\ \A k \in Token : balance'[k] + SharesBought(k)' + SharesSold(k)'
                                 = balance[k] + SharesBought(k) + SharesSold(k)
  PROVE  UNCHANGED Account!vars
<1>1. Money' = Money
  BY DEF Money
<1>2. PaperShares' = PaperShares
  BY DEF PaperShares
<1> QED
  BY <1>1, <1>2 DEF Account!vars, Money

(* A deduction is the purchase: all that the order bought changes hands.    *)
LEMMA OrderImplements ==
  ASSUME DeskInv, PaperSteps, Offered, NEW t \in Trades, Execute(t)
  PROVE  [Account!Next]_Account!vars
<1> USE DEF XReturn, XGoto
<1> DEFINE j == order[t].token
           n == order[t].size
<1>1. /\ balance \in [Token -> Nat] /\ n \in Nat /\ bankroll \in Nat
      /\ order[t] \in Order /\ mshares \in Nat
  BY ValueNat DEF DeskInv, TypeOK, ExecutorTypeOK, ManagerTypeOK
<1>2. ExecuteNext(t) /\ mode' = mode
  BY OthersOrders DEF Execute
<1>3. CASE mode # "paper"
  BY <1>2, <1>3, AccountStutters
<1>4. \A k : SharesSold(k)' = SharesSold(k) /\ SharesSold(k) \in Nat
  BY <1>1 DEF Execute, managerVars, SharesSold
<1>5. ASSUME NEW k
      PROVE  /\ SharesBought(k) \in Nat /\ SharesBought(k)' \in Nat
             /\ SharesBought(k)'
                  + Part(xpc[t] = "ledger" /\ order[t].token = k, order[t].size)
                = SharesBought(k)
                  + Part(xpc'[t] = "ledger" /\ order'[t].token = k, order'[t].size)
  BY <1>2, OrderSums
<1>6. CASE /\ mode = "paper" /\ {xpc[t], xpc'[t]} \cap {"ledger", "upsert"} = {}
           /\ UNCHANGED <<bankroll, holdingVars>>
  <2>1. xpc[t] # "ledger" /\ xpc'[t] # "ledger" /\ UNCHANGED <<bankroll, balance>>
    BY <1>6 DEF holdingVars
  <2>2. \A k : SharesBought(k)' = SharesBought(k)
    BY <1>5, <2>1 DEF Part
  <2> QED
    BY <1>2, <1>4, <2>1, <2>2, AccountStutters
<1>7. CASE mode = "paper" /\ CreditLedger(t)
  <2>1. /\ xpc[t] = "ledger" /\ xpc'[t] = "upsert" /\ order' = order
        /\ bankroll' = bankroll
    BY <1>7 DEF CreditLedger, DeskInv, TypeOK, ExecutorTypeOK
  <2>2. \A k : SharesBought(k)' + Part(j = k, n) = SharesBought(k)
    BY <1>5, <2>1 DEF Part
  <2>3. \A k \in Token : balance'[k] = balance[k] + Part(j = k, n)
    BY <1>1, <1>7 DEF CreditLedger, Part
  <2> HIDE DEF j, n
  <2>4. \A k : Part(j = k, n) \in Nat
    BY <1>1 DEF Part
  <2>5. \A k \in Token : balance'[k] + SharesBought(k)' + SharesSold(k)'
                           = balance[k] + SharesBought(k) + SharesSold(k)
    <3> TAKE k \in Token
    <3>1. balance[k] \in Nat /\ SharesBought(k)' \in Nat /\ SharesSold(k) \in Nat
      BY <1>1, <1>4, <1>5
    <3> QED
      BY <3>1, <1>4, <2>2, <2>3, <2>4
  <2> QED
    BY <1>2, <2>1, <2>5, AccountStutters
<1>8. CASE mode = "paper" /\ UpsertPosition(t)
  <2>1. xpc[t] = "upsert" /\ xpc'[t] = "idle" /\ UNCHANGED <<balance, bankroll>>
    BY <1>8 DEF UpsertPosition, DeskInv, TypeOK, ExecutorTypeOK
  <2>2. \A k : SharesBought(k)' = SharesBought(k)
    BY <1>5, <2>1 DEF Part
  <2> QED
    BY <1>2, <1>4, <2>1, <2>2, AccountStutters
<1>9. CASE mode = "paper" /\ Deduct(t)
  <2> DEFINE price == order[t].price
             Shares == PaperShares
  <2>1. /\ xpc[t] = "cas" /\ xpc'[t] = "ledger" /\ UNCHANGED <<order, balance>>
        /\ bankroll' = bankroll - price * n /\ bankroll >= price * n
    BY <1>9 DEF Deduct, holdingVars, DeskInv, TypeOK, ExecutorTypeOK, CasGuard, Value
  <2>2. /\ j \in Token /\ price \in {o.price : o \in Offers} /\ price >= 1
        /\ n >= 1 /\ price \in Nat
    BY <1>1, <2>1 DEF Offered, OrderOffered, DeskInv, OrderSized, Order
  <2>3. price * n \in Nat /\ price * n >= 1
    BY <1>1, <2>2, ProductNat, ProductPositive
  <2>4. \A k : SharesBought(k)' = SharesBought(k) + Part(j = k, n)
    BY <1>5, <2>1 DEF Part
  <2> HIDE DEF j, n, price
  <2>5. Shares \in [Token -> Nat] /\ Shares' = [k \in Token |-> Shares[k] + Part(j = k, n)]
    <3>1. mode' = "paper" /\ mode = "paper"
      BY <1>2, <1>9
    <3>2. \A k \in Token : balance'[k] + SharesBought(k)' + SharesSold(k)'
                             = balance[k] + SharesBought(k) + SharesSold(k) + Part(j = k, n)
      BY <1>1, <1>4, <1>5, <2>1, <2>4 DEF Part
    <3>3. \A k \in Token : balance[k] + SharesBought(k) + SharesSold(k) \in Nat
      BY <1>1, <1>4, <1>5
    <3> QED
      BY <3>1, <3>2, <3>3 DEF PaperShares
  <2> HIDE DEF Shares
  <2>6. Shares'[j] - Shares[j] = n /\ Shares'[j] > Shares[j]
    BY <1>1, <2>2, <2>5 DEF Part
  <2>7. Shares' = [Shares EXCEPT ![j] = @ + n]
    <3>1. \A k \in Token : Shares[k] + Part(j = k, n) = [Shares EXCEPT ![j] = @ + n][k]
      BY <1>1, <2>2, <2>5 DEF Part
    <3>2. [Shares EXCEPT ![j] = @ + n] = [k \in Token |-> [Shares EXCEPT ![j] = @ + n][k]]
      BY <2>5
    <3> QED
      BY <2>5, <3>1, <3>2
  <2>8. Money = bankroll /\ Money' = bankroll'
    BY <1>2, <1>9 DEF Money
  <2>9. Money' < Money /\ price * n <= Money /\ Money' = Money - price * n
    BY <1>1, <2>1, <2>3, <2>8
  <2>10. Account!Buy(j)
    BY <2>2, <2>6, <2>7, <2>9 DEF Account!Buy, Money, Shares
  <2> QED
    BY <2>2, <2>10 DEF Account!Next
<1> QED
  BY <1>2, <1>3, <1>6, <1>7, <1>8, <1>9, PaperOrderStep

(* The credit is the sale: the shares that the ledger was debited of.        *)
LEMMA SaleImplements ==
  ASSUME DeskInv, EvaluatesOpenPositions, PaperSteps, SharesHeld, PaperBacked, Offered,
         Manager
  PROVE  [Account!Next]_Account!vars
<1> USE DEF MGoto, NextToken
<1>1. /\ balance \in [Token -> Nat] /\ bankroll \in Nat /\ mshares \in Nat
      /\ mbid.price \in Nat
  BY DEF DeskInv, TypeOK, ExecutorTypeOK, ManagerTypeOK
<1>2. ManagerNext /\ mode' = mode
  BY ModeKept DEF Manager
<1>3. CASE mode # "paper"
  BY <1>2, <1>3, AccountStutters
<1>4. UNCHANGED <<xpc, order>>
  BY <1>2, ManagerType DEF DeskInv
<1>5. \A k : SharesBought(k)' = SharesBought(k)
  BY <1>4 DEF SharesBought
<1>6. ASSUME NEW k PROVE SharesBought(k) \in Nat /\ SharesSold(k) \in Nat
  <2> DEFINE S == {t \in Trades : xpc[t] = "ledger" /\ order[t].token = k}
  <2>1. Sizes \in [Trades -> Nat] /\ S \in SUBSET Trades
    BY DEF Sizes, DeskInv, TypeOK, ExecutorTypeOK
  <2>2. IsFiniteSet(S)
    BY <2>1, TradesAssumption, FS_Subset
  <2>3. SharesBought(k) = SumFunctionOnSet(Sizes, S)
    BY DEF SharesBought, Sizes
  <2> HIDE DEF S
  <2> QED
    BY <1>1, <2>1, <2>2, <2>3, SumNat DEF SharesSold
<1>7. mpc \in Evaluating => mtoken \in Token /\ mshares \in 1 .. positions[mtoken].shares
  BY DEF SharesHeld, EvaluatesOpenPositions, Open
<1>8. CASE /\ mode = "paper" /\ UNCHANGED <<bankroll, holdingVars>>
           /\ \/ {mpc, mpc'} \cap {"credit", "cas", "remove"} = {}
              \/ {mpc, mpc'} = {"credit", "cas"} /\ UNCHANGED <<mtoken, mshares, mbid>>
  <2>1. UNCHANGED <<bankroll, balance>>
    BY <1>8 DEF holdingVars
  <2>2. \A k : SharesSold(k)' = SharesSold(k)
    BY <1>8 DEF SharesSold
  <2> QED
    BY <1>2, <1>5, <2>1, <2>2, AccountStutters
<1>9. CASE mode = "paper" /\ (RedeemFails \/ RemovePosition)
  <2>1. UNCHANGED <<bankroll, balance>> /\ \A k : SharesSold(k)' = SharesSold(k)
    BY <1>9 DEF RedeemFails, RemovePosition, SharesSold
  <2> QED
    BY <1>2, <1>5, <2>1, AccountStutters
<1>10. CASE mode = "paper" /\ DebitLedger
  <2>1. mtoken \in Token /\ mshares <= positions[mtoken].shares
        /\ positions[mtoken].shares \in Nat
    BY <1>1, <1>7, <1>10 DEF DebitLedger, Evaluating, DeskInv, TypeOK, ExecutorTypeOK, Position
  <2>2. Debited(mtoken) = 0
    BY <1>10 DEF DebitLedger, Debited, Part
  <2>3. mshares <= balance[mtoken]
    BY <1>1, <1>10, <2>1, <2>2, PendingNat DEF PaperBacked
  <2>4. \A k \in Token : balance'[k] + Part(k = mtoken, mshares) = balance[k]
                         /\ balance'[k] \in Nat
    BY <1>1, <1>10, <2>3 DEF DebitLedger, Part
  <2>5. \A k : SharesSold(k) = 0 /\ SharesSold(k)' = Part(k = mtoken, mshares)
    BY <1>10 DEF DebitLedger, SharesSold, Part
  <2>6. \A k \in Token : balance'[k] + SharesBought(k)' + SharesSold(k)'
                           = balance[k] + SharesBought(k) + SharesSold(k)
    <3> TAKE k \in Token
    <3>1. Part(k = mtoken, mshares) \in Nat
      BY <1>1 DEF Part
    <3> QED
      BY <1>1, <1>5, <1>6, <2>4, <2>5, <3>1
  <2> QED
    BY <1>2, <1>10, <2>6, AccountStutters DEF DebitLedger
<1>11. CASE mode = "paper" /\ Credit
  <2> DEFINE Shares == PaperShares
             price == mbid.price
             n == mshares
             j == mtoken
  <2>1. /\ mpc = "cas" /\ mpc' = "remove" /\ UNCHANGED <<mtoken, mshares, balance>>
        /\ bankroll' = bankroll + price * n
    BY <1>11 DEF Credit, holdingVars, Proceeds
  <2>2. j \in Token /\ price \in BidPrices /\ price >= 1 /\ n >= 1
    BY <1>1, <1>7, <2>1, BidAssumption DEF Evaluating, Offered, SaleOffered
  <2>3. price * n \in Nat /\ price * n >= 1
    BY <1>1, <2>2, ProductNat, ProductPositive
  <2>4. \A k : SharesSold(k) = Part(k = j, n) /\ SharesSold(k)' = 0
    BY <2>1 DEF SharesSold, Part
  <2>5. /\ n \in Nat /\ \A k : Part(k = j, n) \in Nat
    BY <1>1 DEF Part
  <2> HIDE DEF j, n, price
  <2>6. /\ Shares \in [Token -> Nat]
        /\ Shares' \in [Token -> Nat]
        /\ \A k \in Token : Shares[k] = Shares'[k] + Part(k = j, n)
    <3>1. mode' = "paper" /\ mode = "paper"
      BY <1>2, <1>11
    <3>2. \A k \in Token : balance[k] + SharesBought(k) + SharesSold(k)
             = balance'[k] + SharesBought(k)' + SharesSold(k)' + Part(k = j, n)
      <4> TAKE k \in Token
      <4> QED
        BY <1>1, <1>5, <1>6, <2>1, <2>4, <2>5
    <3>3. \A k \in Token : /\ balance[k] + SharesBought(k) + SharesSold(k) \in Nat
                           /\ balance'[k] + SharesBought(k)' + SharesSold(k)' \in Nat
      BY <1>1, <1>5, <1>6, <2>1, <2>4
    <3> QED
      BY <3>1, <3>2, <3>3 DEF PaperShares
  <2> HIDE DEF Shares
  <2>7. Shares[j] - Shares'[j] = n /\ Shares'[j] < Shares[j]
    BY <2>2, <2>5, <2>6 DEF Part
  <2>8. Shares' = [Shares EXCEPT ![j] = @ - n]
    <3>1. \A k \in Token : Shares'[k] = [Shares EXCEPT ![j] = @ - n][k]
      BY <2>2, <2>5, <2>6 DEF Part
    <3>2. [Shares EXCEPT ![j] = @ - n] = [k \in Token |-> [Shares EXCEPT ![j] = @ - n][k]]
      BY <2>6
    <3> QED
      BY <2>6, <3>1, <3>2
  <2>9. Money = bankroll /\ Money' = bankroll'
    BY <1>2, <1>11 DEF Money
  <2>10. Money' > Money /\ Money' = Money + price * n
    BY <1>1, <2>1, <2>3, <2>9
  <2>11. Account!Sell(j)
    BY <2>2, <2>7, <2>8, <2>10 DEF Account!Sell, Money, Shares
  <2> QED
    BY <2>2, <2>11 DEF Account!Next
<1> QED
  BY <1>2, <1>3, <1>8, <1>9, <1>10, <1>11, PaperManagerStep

(* A buy and a sale are three accesses each, on three variables that no     *)
(* lock covers together, and any number of them interleave: still the       *)
(* paper desk is an account in which each is one step, that never pays with *)
(* money that is not there nor sells shares that it does not hold.          *)
THEOREM AccountImplemented == Spec => ImplementsAccount
<1>1. Spec => []DeskInv /\ []EvaluatesOpenPositions /\ []PaperSteps /\ []SharesHeld
  BY DeskInvariant, PTL
<1>2. Spec => []PaperBacked
  BY <1>1, AccountInit, PaperBackedNext, PTL DEF Spec
<1>3. Spec => []MarketsKnown
  BY <1>1, OfferedInit, MarketsKnownNext, PTL DEF Spec
<1>4. Spec => []OrderOffered
  BY <1>1, <1>3, OfferedInit, OrderOfferedNext, PTL DEF Spec
<1>5. Spec => []SaleOffered
  BY <1>1, OfferedInit, SaleOfferedNext, PTL DEF Spec
<1>6. ASSUME DeskInv, EvaluatesOpenPositions, PaperSteps, SharesHeld, PaperBacked,
             MarketsKnown, OrderOffered, SaleOffered, [Next]_vars
      PROVE  [Account!Next]_Account!vars
  <2>1. CASE \/ Clock \/ TickFires \/ TickExpires \/ FeedBid
             \/ \E r \in Rollovers : Rollover(r)
             \/ \E t \in Trades : CountAndRearm(t)
             \/ UNCHANGED vars
    <3>1. UNCHANGED <<executorVars, managerVars>>
      BY <1>6, <2>1, EnvironmentStep DEF DeskInv
    <3>2. /\ \A k : SharesBought(k)' = SharesBought(k) /\ SharesSold(k)' = SharesSold(k)
          /\ UNCHANGED <<mode, bankroll, balance>>
      BY <3>1 DEF executorVars, holdingVars, managerVars, SharesBought, SharesSold
    <3> QED
      BY <3>2, AccountStutters
  <2> QED
    BY <1>6, <2>1, OrderImplements, SaleImplements DEF Next, Offered
<1> QED
  BY <1>1, <1>2, <1>3, <1>4, <1>5, <1>6, AccountStarts, PTL
    DEF Spec, ImplementsAccount, Account!Spec
=============================================================================
