---------------------------- MODULE BetFlowProofs ---------------------------
(* Proofs about BetFlow for every set of bets, markets, handlers, faults.  *)
EXTENDS BetFlow, LedgerProofs, TLAPS

-----------------------------------------------------------------------------
(* Arithmetic and handlers.                                                *)

\* Odds are above 1: a payout is at least a cent.
LEMMA PayoutPositive == ASSUME NEW b \in Bet PROVE Payout(b) \in Nat \ {0}
<1> DEFINE s == Slip[b].stake
           o == OddsInt[Slip[b].market]
<1>1. s \in Nat /\ s >= 1 /\ o \in Nat /\ o >= 101
    BY SlipAssumption, OddsAssumption, MaxCentsAssumption DEF Amount
<1> HIDE DEF s, o
<1>2. s * o >= o /\ s * o \in Nat
    BY <1>1, Z3
<1>3. (s * o) \div 100 \in Nat \ {0}
    BY <1>1, <1>2
<1> QED
    BY <1>3 DEF Payout, s, o

LEMMA SlipType ==
    ASSUME NEW b \in Bet
    PROVE  /\ Slip[b].user \in User /\ Slip[b].market \in Market
           /\ Slip[b].stake \in Amount /\ b \in Ref
    BY SlipAssumption, BetAssumption

\* The two postings of a bet keep the types of the ledger.
LEMMA PostType ==
    ASSUME LedgerTypeOK, NEW b \in Bet,
           (CanDebit(b) /\ PostDebit(b)) \/ (CanCredit(b) /\ PostCredit(b))
    PROVE  LedgerTypeOK'
<1>0. balance[Slip[b].user] \in Cents
    BY SlipType DEF LedgerTypeOK
<1>1. CASE CanDebit(b) /\ PostDebit(b)
    BY <1>0, <1>1, SlipType, PostKeepsTypes DEF CanDebit, PostDebit, TransactionType
<1>2. CASE CanCredit(b) /\ PostCredit(b)
    <2>1. Payout(b) \in Amount
        BY <1>0, <1>2, PayoutPositive, MaxCentsAssumption
           DEF CanCredit, CanPost, NewBalance, Cents, Amount
    <2> QED
        BY <1>0, <1>2, <2>1, SlipType, PostKeepsTypes
           DEF CanCredit, PostCredit, TransactionType
<1> QED
    BY <1>1, <1>2

ReqType == req \in [Request -> Placing \cup {Idle}]
WorkerType == worker \in [Worker -> Accepting \cup {Idle}]
AdminType == admin \in [Admin -> Administering \cup {Idle}]

LEMMA PlacedType ==
    ASSUME ReqType, NEW q \in Request, req[q] # Idle
    PROVE  req[q] \in Placing /\ req[q].bet \in Bet
    BY DEF ReqType, Placing

LEMMA ProceedType ==
    ASSUME ReqType, NEW q \in Request, req[q] # Idle, NEW pc \in PlaceStep,
           Proceed(q, pc)
    PROVE  ReqType'
    BY PlacedType DEF ReqType, Proceed, Placing

LEMMA ReturnType ==
    ASSUME ReqType, NEW q \in Request, Return(q)
    PROVE  ReqType'
    BY DEF ReqType, Return

LEMMA WorkingType ==
    ASSUME WorkerType, NEW w \in Worker, worker[w] # Idle
    PROVE  worker[w] \in Accepting /\ worker[w].bet \in Bet
    BY DEF WorkerType, Accepting

LEMMA ContinueType ==
    ASSUME WorkerType, NEW w \in Worker, worker[w] # Idle,
           NEW pc \in {"read", "update", "terminal", "ack", "nack"},
           Continue(w, pc)
    PROVE  WorkerType'
    BY WorkingType DEF WorkerType, Continue, Accepting

LEMMA ManagingType ==
    ASSUME AdminType, NEW a \in Admin, admin[a] # Idle
    PROVE  /\ admin[a] \in Administering /\ admin[a].market \in Market
           /\ admin[a].todo \subseteq Bet
    BY DEF AdminType, Administering

LEMMA MoveOnType ==
    ASSUME AdminType, NEW a \in Admin, admin[a] # Idle,
           NEW pc \in {"save", "find", "loop", "credit", "post", "close",
                       "notify", "announce"},
           MoveOn(a, pc)
    PROVE  AdminType'
    BY ManagingType DEF AdminType, MoveOn, Administering

LEMMA FinishType ==
    ASSUME AdminType, NEW a \in Admin, Finish(a)
    PROVE  AdminType'
    BY DEF AdminType, Finish

LEMMA BackToLoopType ==
    ASSUME AdminType, NEW a \in Admin, admin[a] # Idle, BackToLoop(a)
    PROVE  AdminType'
    BY ManagingType DEF AdminType, BackToLoop, Administering

LEMMA BeginType ==
    ASSUME AdminType, NEW a \in Admin, NEW m \in Market,
           NEW pc \in {"save", "find", "announce"},
           NEW arg \in {"CREATED", "OPEN", "SUSPENDED"} \cup MarketResult,
           Begin(a, pc, m, arg)
    PROVE  AdminType'
    BY DEF AdminType, Begin, Administering

-----------------------------------------------------------------------------
(* Type correctness.                                                       *)

DataType ==
    /\ bets \in [Bet -> BetStatus \cup {"ABSENT"}]
    /\ market \in [Market -> MarketStatus \cup {"ABSENT"}]
    /\ cached \subseteq Bet
    /\ queue \subseteq Bet
    /\ dead \subseteq Bet
    /\ notes \subseteq BetNote

LEMMA TypeParts ==
    TypeOK <=> /\ LedgerTypeOK /\ DataType
               /\ ReqType /\ WorkerType /\ AdminType /\ AdminSteps
    BY DEF TypeOK, DataType, ReqType, WorkerType, AdminType

LEMMA TypeNext ==
    ASSUME LedgerTypeOK', DataType', ReqType', WorkerType', AdminType', AdminSteps'
    PROVE  TypeOK'
    BY DEF TypeOK, DataType, ReqType, WorkerType, AdminType

LEMMA FlowInitType == Init => TypeOK
<1> 0 \in Cents
    BY MaxCentsAssumption DEF Cents
<1> QED
    BY DEF Init, LedgerInit, TypeOK, LedgerTypeOK, AdminSteps

\* What a step leaves alone keeps its type.
LEMMA KeepsMoney == ASSUME LedgerTypeOK, UNCHANGED money PROVE LedgerTypeOK'
    BY DEF LedgerTypeOK, money

LEMMA KeepsReq == ASSUME ReqType, UNCHANGED req PROVE ReqType'
    BY DEF ReqType

LEMMA KeepsWorker == ASSUME WorkerType, UNCHANGED worker PROVE WorkerType'
    BY DEF WorkerType

LEMMA KeepsAdmin ==
    ASSUME AdminType, AdminSteps, UNCHANGED admin PROVE AdminType' /\ AdminSteps'
    BY DEF AdminType, AdminSteps

LEMMA KeepsData ==
    ASSUME DataType, UNCHANGED <<bets, market, cached, broker, notes>> PROVE DataType'
    BY DEF DataType, broker

LEMMA PlaceBetType ==
    ASSUME TypeOK, NEW q \in Request, PlaceBet(q)
    PROVE  TypeOK'
<1>0. LedgerTypeOK /\ DataType /\ ReqType /\ WorkerType /\ AdminType /\ AdminSteps
    BY TypeParts
<1> USE DEF Placed
<1>1. UNCHANGED <<worker, admin>>
    BY DEF PlaceBet, CacheGet, LookupBet, AssertMarketOpen, DebitFind, DebitPost,
           InsertBet, CacheSet, Publish, Confirm
<1>2. req[q] # Idle /\ req[q].bet \in Bet
    BY <1>0, PlacedType
       DEF PlaceBet, CacheGet, LookupBet, AssertMarketOpen, DebitFind, DebitPost,
           InsertBet, CacheSet, Publish, Confirm
<1>3. Return(q) \/ \E pc \in PlaceStep : Proceed(q, pc)
    BY DEF PlaceBet, CacheGet, LookupBet, AssertMarketOpen, DebitFind, DebitPost,
           InsertBet, CacheSet, Publish, Confirm, PlaceStep
<1>4. ReqType'
    BY <1>0, <1>2, <1>3, ProceedType, ReturnType
<1>5. CASE DebitPost(q)
    <2>1. LedgerTypeOK'
        BY <1>0, <1>2, <1>5, PostType, KeepsMoney DEF DebitPost
    <2>2. DataType'
        BY <1>0, <1>5, KeepsData DEF DebitPost
    <2> QED
        BY <1>0, <1>1, <1>4, <2>1, <2>2, KeepsWorker, KeepsAdmin, TypeNext
<1>6. CASE ~DebitPost(q)
    <2>1. UNCHANGED money
        BY <1>6 DEF PlaceBet, CacheGet, LookupBet, AssertMarketOpen, DebitFind,
                    InsertBet, CacheSet, Publish, Confirm
    <2>2. DataType'
        BY <1>0, <1>2, <1>6
           DEF PlaceBet, CacheGet, LookupBet, AssertMarketOpen, DebitFind,
               InsertBet, CacheSet, Publish, Confirm, DataType, broker, BetStatus
    <2> QED
        BY <1>0, <1>1, <1>4, <2>1, <2>2, KeepsMoney, KeepsWorker, KeepsAdmin, TypeNext
<1> QED
    BY <1>5, <1>6

LEMMA HandleMessageType ==
    ASSUME TypeOK, NEW w \in Worker, HandleMessage(w) \/ WorkerError(w) \/ LoseChannel(w)
    PROVE  TypeOK'
<1>0. LedgerTypeOK /\ DataType /\ ReqType /\ WorkerType /\ AdminType /\ AdminSteps
    BY TypeParts
<1> USE DEF Working, Holds
<1>1. UNCHANGED <<money, req, admin>>
    BY DEF HandleMessage, Deliver, ReadStatus, UpdateStatus, CheckTerminal, Answer,
           WorkerError, LoseChannel
<1>2. CASE \E b \in Bet : Deliver(w, b)
    <2>1. WorkerType' /\ DataType'
        BY <1>0, <1>2 DEF Deliver, WorkerType, Accepting, DataType
    <2> QED
        BY <1>0, <1>1, <2>1, KeepsMoney, KeepsReq, KeepsAdmin, TypeNext
<1>3. CASE Answer(w)
    <2>1. worker[w].bet \in Bet
        BY <1>0, <1>3, WorkingType DEF Answer
    <2>2. WorkerType' /\ DataType'
        BY <1>0, <1>3, <2>1 DEF Answer, WorkerType, DataType
    <2> QED
        BY <1>0, <1>1, <2>2, KeepsMoney, KeepsReq, KeepsAdmin, TypeNext
<1>4. CASE LoseChannel(w)
    <2>1. worker[w] \in Accepting /\ worker[w].bet \in Bet
        BY <1>0, <1>4, WorkingType DEF LoseChannel
    <2>2. WorkerType' /\ DataType'
        BY <1>0, <1>4, <2>1 DEF LoseChannel, WorkerType, Accepting, DataType
    <2> QED
        BY <1>0, <1>1, <2>2, KeepsMoney, KeepsReq, KeepsAdmin, TypeNext
<1>5. CASE ReadStatus(w) \/ UpdateStatus(w) \/ CheckTerminal(w) \/ WorkerError(w)
    <2>1. worker[w] # Idle /\ worker[w].bet \in Bet
        BY <1>0, <1>5, WorkingType
           DEF ReadStatus, UpdateStatus, CheckTerminal, WorkerError
    <2>2. \E pc \in {"read", "update", "terminal", "ack", "nack"} : Continue(w, pc)
        BY <1>5 DEF ReadStatus, UpdateStatus, CheckTerminal, WorkerError
    <2>3. WorkerType'
        BY <1>0, <2>1, <2>2, ContinueType
    <2>4. DataType'
        BY <1>0, <1>5, <2>1
           DEF ReadStatus, UpdateStatus, CheckTerminal, WorkerError, DataType,
               broker, BetStatus
    <2> QED
        BY <1>0, <1>1, <2>3, <2>4, KeepsMoney, KeepsReq, KeepsAdmin, TypeNext
<1> QED
    BY <1>2, <1>3, <1>4, <1>5 DEF HandleMessage

\* One administrator's step keeps the others' arguments in order.
LEMMA OneAdminSteps ==
    ASSUME AdminSteps, NEW a \in Admin,
           \A o \in Admin \ {a} : admin'[o] = admin[o],
           admin'[a] # Idle =>
               /\ admin'[a].pc \in {"credit", "post", "close", "notify"} =>
                      admin'[a].bet \in Bet
               /\ admin'[a].pc \in {"find", "loop", "credit", "post", "close", "notify"} =>
                      admin'[a].arg \in MarketResult
               /\ admin'[a].pc = "save" => admin'[a].arg \in {"OPEN", "SUSPENDED"}
    PROVE  AdminSteps'
<1> SUFFICES ASSUME NEW o \in Admin, admin'[o] # Idle
             PROVE  /\ admin'[o].pc \in {"credit", "post", "close", "notify"} =>
                           admin'[o].bet \in Bet
                    /\ admin'[o].pc \in {"find", "loop", "credit", "post", "close", "notify"} =>
                           admin'[o].arg \in MarketResult
                    /\ admin'[o].pc = "save" => admin'[o].arg \in {"OPEN", "SUSPENDED"}
    BY DEF AdminSteps
<1>1. CASE o = a
    BY <1>1
<1>2. CASE o # a
    BY <1>2 DEF AdminSteps
<1> QED
    BY <1>1, <1>2

\* What each step makes of the call that takes it.
LEMMA MoveOnSteps ==
    ASSUME AdminType, AdminSteps, NEW a \in Admin, admin[a] # Idle,
           NEW pc \in {"loop", "credit", "post", "close", "notify", "announce"},
           MoveOn(a, pc),
           pc = "announce" \/ admin[a].pc \in {"credit", "post", "close"}
    PROVE  AdminSteps'
<1>1. /\ admin'[a].pc = pc
      /\ admin'[a].bet = admin[a].bet /\ admin'[a].arg = admin[a].arg
      /\ \A o \in Admin \ {a} : admin'[o] = admin[o]
    BY ManagingType DEF MoveOn, AdminType, Administering
<1>2. CASE pc = "announce"
    BY <1>1, <1>2, OneAdminSteps
<1>3. CASE admin[a].pc \in {"credit", "post", "close"}
    <2>1. admin[a].bet \in Bet /\ admin[a].arg \in MarketResult
        BY <1>3 DEF AdminSteps
    <2> QED
        BY <1>1, <2>1, OneAdminSteps
<1> QED
    BY <1>2, <1>3

LEMMA FinishSteps ==
    ASSUME AdminType, AdminSteps, NEW a \in Admin, Finish(a)
    PROVE  AdminSteps'
<1>1. admin'[a] = Idle /\ \A o \in Admin \ {a} : admin'[o] = admin[o]
    BY DEF Finish, AdminType
<1> QED
    BY <1>1, OneAdminSteps

LEMMA BackToLoopSteps ==
    ASSUME AdminType, AdminSteps, NEW a \in Admin, admin[a] # Idle,
           admin[a].pc \in {"credit", "post", "close", "notify"}, BackToLoop(a)
    PROVE  AdminSteps'
<1>1. admin[a].arg \in MarketResult
    BY DEF AdminSteps
<1>2. /\ admin'[a].pc = "loop" /\ admin'[a].arg = admin[a].arg
      /\ \A o \in Admin \ {a} : admin'[o] = admin[o]
    BY ManagingType DEF BackToLoop, AdminType, Administering
<1> QED
    BY <1>1, <1>2, OneAdminSteps

LEMMA BeginSteps ==
    ASSUME AdminType, AdminSteps, NEW a \in Admin, NEW m \in Market,
           NEW pc \in {"save", "find", "announce"}, NEW arg, Begin(a, pc, m, arg),
           pc = "save" => arg \in {"OPEN", "SUSPENDED"},
           pc = "find" => arg \in MarketResult
    PROVE  AdminSteps'
<1>1. /\ admin'[a].pc = pc /\ admin'[a].arg = arg
      /\ \A o \in Admin \ {a} : admin'[o] = admin[o]
    BY DEF Begin, AdminType
<1> QED
    BY <1>1, OneAdminSteps

LEMMA AdministerType ==
    ASSUME TypeOK, NEW a \in Admin, Administer(a)
    PROVE  TypeOK'
<1>0. LedgerTypeOK /\ DataType /\ ReqType /\ WorkerType /\ AdminType /\ AdminSteps
    BY TypeParts
<1> USE DEF Managing
<1>1. UNCHANGED <<req, worker>> /\ admin[a] # Idle
    BY DEF Administer, SaveStatus, FindAccepted, PickBet, CreditFind, CreditPost,
           CloseBet, NotifySettled, MarkSettled, Announce
<1>2. /\ admin[a] \in Administering /\ admin[a].market \in Market
      /\ admin[a].todo \subseteq Bet
    BY <1>0, <1>1, ManagingType
<1>3. /\ admin[a].pc \in {"credit", "post", "close", "notify"} => admin[a].bet \in Bet
      /\ admin[a].pc \in {"find", "loop", "credit", "post", "close", "notify"} =>
             admin[a].arg \in MarketResult
      /\ admin[a].pc = "save" => admin[a].arg \in {"OPEN", "SUSPENDED"}
    BY <1>0, <1>1 DEF AdminSteps
<1>4. ReqType' /\ WorkerType'
    BY <1>0, <1>1, KeepsReq, KeepsWorker
<1>5. CASE SaveStatus(a) \/ MarkSettled(a) \/ Announce(a)
    <2>1. AdminType' /\ AdminSteps'
        BY <1>0, <1>1, <1>5, MoveOnType, MoveOnSteps, FinishType, FinishSteps
           DEF SaveStatus, MarkSettled, Announce
    <2>2. LedgerTypeOK'
        BY <1>0, <1>5, KeepsMoney DEF SaveStatus, MarkSettled, Announce
    <2>3. DataType'
        BY <1>0, <1>2, <1>3, <1>5
           DEF SaveStatus, MarkSettled, Announce, DataType, broker, MarketStatus
    <2> QED
        BY <1>4, <2>1, <2>2, <2>3, TypeNext
<1>6. CASE FindAccepted(a) \/ \E b \in Bet : PickBet(a, b)
    <2>1. AdminType' /\ AdminSteps'
        <3>1. CASE FindAccepted(a)
            <4>1. /\ admin'[a] = [admin[a] EXCEPT !.pc = "loop",
                                                 !.todo = LiveBets(admin[a].market)]
                  /\ \A o \in Admin \ {a} : admin'[o] = admin[o]
                BY <1>0, <3>1 DEF FindAccepted, AdminType
            <4>2. LiveBets(admin[a].market) \in SUBSET Bet
                BY DEF LiveBets
            <4>3. /\ admin'[a] \in Administering
                  /\ admin'[a].pc = "loop" /\ admin'[a].arg = admin[a].arg
                BY <1>2, <4>1, <4>2 DEF Administering
            <4>4. AdminType'
                BY <1>0, <3>1, <4>3 DEF FindAccepted, AdminType
            <4> QED
                BY <1>0, <1>3, <3>1, <4>1, <4>3, <4>4, OneAdminSteps DEF FindAccepted
        <3>2. ASSUME NEW b \in Bet, PickBet(a, b) PROVE AdminType' /\ AdminSteps'
            <4>1. /\ admin'[a] = [admin[a] EXCEPT
                         !.pc = IF admin[a].arg = "WIN" THEN "credit" ELSE "close",
                         !.todo = @ \ {b}, !.bet = b]
                  /\ \A o \in Admin \ {a} : admin'[o] = admin[o]
                BY <1>0, <3>2 DEF PickBet, AdminType
            <4>2. /\ admin'[a] \in Administering
                  /\ admin'[a].pc \in {"credit", "close"}
                  /\ admin'[a].arg = admin[a].arg /\ admin'[a].bet = b
                BY <1>2, <4>1 DEF Administering
            <4>3. AdminType'
                BY <1>0, <3>2, <4>2 DEF PickBet, AdminType
            <4> QED
                BY <1>0, <1>3, <3>2, <4>1, <4>2, <4>3, OneAdminSteps DEF PickBet
        <3> QED
            BY <1>6, <3>1, <3>2
    <2> QED
        BY <1>0, <1>4, <1>6, <2>1, KeepsMoney, KeepsData, TypeNext
           DEF FindAccepted, PickBet
<1>7. CASE CreditFind(a) \/ CreditPost(a) \/ CloseBet(a) \/ NotifySettled(a)
    <2>0. admin[a].bet \in Bet /\ admin[a].arg \in MarketResult
        BY <1>3, <1>7 DEF CreditFind, CreditPost, CloseBet, NotifySettled
    <2>1. AdminType' /\ AdminSteps'
        BY <1>0, <1>1, <1>7, MoveOnType, MoveOnSteps, BackToLoopType, BackToLoopSteps
           DEF CreditFind, CreditPost, CloseBet, NotifySettled
    <2>2. LedgerTypeOK'
        BY <1>0, <1>7, <2>0, PostType, KeepsMoney
           DEF CreditFind, CreditPost, CloseBet, NotifySettled
    <2>3. DataType'
        BY <1>0, <1>7, <2>0
           DEF CreditFind, CreditPost, CloseBet, NotifySettled, DataType, broker,
               BetStatus, BetNote
    <2> QED
        BY <1>4, <2>1, <2>2, <2>3, TypeNext
<1> QED
    BY <1>5, <1>6, <1>7 DEF Administer

LEMMA EnvironmentType == ASSUME TypeOK, Environment PROVE TypeOK'
<1>0. LedgerTypeOK /\ DataType /\ ReqType /\ WorkerType /\ AdminType /\ AdminSteps
    BY TypeParts
<1>1. ASSUME NEW u \in User, NEW cents \in DepositCents, NEW ref \in Ref \ Bet,
             Deposit(u, cents, ref)
      PROVE  TypeOK'
    <2>1. LedgerTypeOK'
        <3>1. balance[u] \in Cents /\ cents \in Amount
            BY <1>0, DepositAssumption DEF LedgerTypeOK
        <3> QED
            BY <1>0, <1>1, <3>1, PostKeepsTypes DEF Deposit, TransactionType
    <2> QED
        BY <1>0, <1>1, <2>1, KeepsData, KeepsReq, KeepsWorker, KeepsAdmin, TypeNext
           DEF Deposit, handlers
<1>2. ASSUME NEW q \in Request, NEW b \in Bet, Receive(q, b) PROVE TypeOK'
    <2>1. ReqType'
        BY <1>0, <1>2 DEF Receive, ReqType, Placing, PlaceStep
    <2> QED
        BY <1>0, <1>2, <2>1, KeepsMoney, KeepsData, KeepsWorker, KeepsAdmin, TypeNext
           DEF Receive
<1>3. ASSUME NEW b \in Bet, ExpireKey(b) PROVE TypeOK'
    <2>1. DataType'
        BY <1>0, <1>3 DEF ExpireKey, DataType, broker
    <2> QED
        BY <1>0, <1>3, <2>1, KeepsMoney, KeepsReq, KeepsWorker, KeepsAdmin, TypeNext
           DEF ExpireKey, handlers
<1>4. ASSUME NEW a \in Admin, NEW m \in Market, CreateMarket(a, m) PROVE TypeOK'
    <2>1. AdminType' /\ AdminSteps'
        BY <1>0, <1>4, BeginType, BeginSteps DEF CreateMarket
    <2>2. DataType'
        BY <1>0, <1>4 DEF CreateMarket, DataType, broker, MarketStatus
    <2> QED
        BY <1>0, <1>4, <2>1, <2>2, KeepsMoney, KeepsReq, KeepsWorker, TypeNext
           DEF CreateMarket
<1>5. ASSUME NEW a \in Admin, NEW m \in Market,
             (\E status \in {"OPEN", "SUSPENDED"} : StartUpdate(a, m, status))
             \/ (\E result \in MarketResult : StartSettle(a, m, result))
      PROVE  TypeOK'
    <2>1. AdminType' /\ AdminSteps'
        BY <1>0, <1>5, BeginType, BeginSteps DEF StartUpdate, StartSettle
    <2> QED
        BY <1>0, <1>5, <2>1, KeepsMoney, KeepsData, KeepsReq, KeepsWorker, TypeNext
           DEF StartUpdate, StartSettle
<1> QED
    BY <1>1, <1>2, <1>3, <1>4, <1>5 DEF Environment

LEMMA RestartType == ASSUME TypeOK, Restart PROVE TypeOK'
<1>0. LedgerTypeOK /\ DataType /\ ReqType /\ WorkerType /\ AdminType /\ AdminSteps
    BY TypeParts
<1>1. ReqType' /\ WorkerType' /\ AdminType' /\ AdminSteps'
    BY DEF Restart, ReqType, WorkerType, AdminType, AdminSteps
<1>2. DataType'
    BY <1>0 DEF Restart, DataType
<1> QED
    BY <1>0, <1>1, <1>2, KeepsMoney, TypeNext DEF Restart

LEMMA FailureType == ASSUME TypeOK, Failure PROVE TypeOK'
<1>0. LedgerTypeOK /\ DataType /\ ReqType /\ WorkerType /\ AdminType /\ AdminSteps
    BY TypeParts
<1>1. ASSUME NEW q \in Request, RequestError(q) PROVE TypeOK'
    BY <1>0, <1>1, ReturnType, KeepsMoney, KeepsData, KeepsWorker, KeepsAdmin, TypeNext
       DEF RequestError
<1>2. ASSUME NEW q \in Request, Republish(q) PROVE TypeOK'
    <2>1. DataType'
        BY <1>0, <1>2, PlacedType DEF Republish, Placed, DataType
    <2> QED
        BY <1>0, <1>2, <2>1, KeepsMoney, KeepsReq, KeepsWorker, KeepsAdmin, TypeNext
           DEF Republish, handlers
<1>3. ASSUME NEW w \in Worker, WorkerError(w) \/ LoseChannel(w) PROVE TypeOK'
    BY <1>3, HandleMessageType
<1>4. ASSUME NEW a \in Admin, BetError(a) PROVE TypeOK'
    BY <1>0, <1>4, BackToLoopType, BackToLoopSteps, KeepsMoney, KeepsData, KeepsReq,
       KeepsWorker, TypeNext DEF BetError
<1>5. ASSUME NEW a \in Admin, AdminError(a) PROVE TypeOK'
    BY <1>0, <1>5, FinishType, FinishSteps, KeepsMoney, KeepsData, KeepsReq,
       KeepsWorker, TypeNext DEF AdminError
<1> QED
    BY <1>1, <1>2, <1>3, <1>4, <1>5, RestartType
       DEF Failure, Crash, AnswerOnLostChannel

LEMMA StutterType == ASSUME TypeOK, UNCHANGED vars PROVE TypeOK'
    BY TypeParts, KeepsMoney, KeepsData, KeepsReq, KeepsWorker, KeepsAdmin, TypeNext
       DEF vars, handlers

LEMMA FlowNextType == TypeOK /\ [Next]_vars => TypeOK'
    BY PlaceBetType, HandleMessageType, AdministerType, EnvironmentType, FailureType,
       StutterType DEF Next

\* Every variable keeps its type, and a settlement its argument and the bet it
\* has in hand, for any number of handlers and whatever fails.
THEOREM FlowTypeCorrect == Spec => []TypeOK
    BY FlowInitType, FlowNextType, PTL DEF Spec
=============================================================================
