--------------------------- MODULE SessionsProofs ---------------------------
(* Sessions for every number of tabs, requests and grants: types, and, for *)
(* a browser whose requests do not overlap, the one live token of a login, *)
(* the effect of its logout and the chain its tokens form, whatever fails  *)
(* or is lost; and, with overlap too, how many steps a request can take.   *)
EXTENDS Sessions, TLAPS

ReqTypeOK ==
    /\ req \in [Request -> Busy \cup {Idle}]
    /\ \A r \in Request : req[r] # Idle => Equipped(req[r])

LEMMA InitType == Init => TypeOK
    BY DEF Init, TypeOK, Maybe

\* A request is given a new record.
LEMMA SetType ==
    ASSUME TypeOK, NEW r \in Request, NEW call \in Busy, Equipped(call),
           req' = [req EXCEPT ![r] = call]
    PROVE  ReqTypeOK'
    BY DEF TypeOK, ReqTypeOK, Equipped

LEMMA GotoType ==
    ASSUME TypeOK, NEW r \in Request, req[r] # Idle,
           NEW pc \in ServerStep \cup ClientStep, Goto(r, pc),
           Equipped([req[r] EXCEPT !.pc = pc])
    PROVE  ReqTypeOK'
<1>1. req[r] \in Busy
    BY DEF TypeOK
<1>2. [req[r] EXCEPT !.pc = pc] \in Busy
    BY <1>1 DEF Busy
<1>3. req' = [req EXCEPT ![r] = [req[r] EXCEPT !.pc = pc]]
    BY DEF Goto
<1> QED
    BY <1>2, <1>3, SetType

LEMMA LeaveType ==
    ASSUME TypeOK, NEW r \in Request, Leave(r)
    PROVE  ReqTypeOK' /\ access' \in [Tab -> Maybe]
    BY DEF Leave, TypeOK, ReqTypeOK, Maybe, Equipped

\* The browser's steps.
LEMMA SendType ==
    ASSUME TypeOK, NEW r \in Request, NEW kind \in Kind,
           NEW pc \in {"guard", "read", "password"}, Send(r, kind, pc),
           pc = "password" => kind = "login"
    PROVE  ReqTypeOK'
<1> DEFINE call == [pc |-> pc, kind |-> kind, bearer |-> access[Home[r]],
                    cookie |-> jar, grant |-> None, retried |-> FALSE]
<1>1. Home[r] \in Tab
    BY HomeAssumption
<1>2. call \in Busy /\ Equipped(call)
    BY <1>1 DEF TypeOK, Busy, Maybe, ServerStep, Equipped
<1>3. req' = [req EXCEPT ![r] = call]
    BY DEF Send
<1> HIDE DEF call
<1> QED
    BY <1>2, <1>3, SetType

LEMMA BrowserType ==
    ASSUME TypeOK, NEW r \in Request,
           \/ \E kind \in {"data", "logout"} : Call(r, kind)
           \/ Load(r) \/ Login(r)
           \/ Unauthorized(r) \/ RefreshFailed(r) \/ Granted(r) \/ Cleared(r)
    PROVE  TypeOK'
<1> USE DEF rows, clocks, browser
<1>0. Home[r] \in Tab
    BY HomeAssumption
<1>1. ASSUME NEW kind \in {"data", "logout"}, Call(r, kind) PROVE TypeOK'
    <2>1. ReqTypeOK'
        BY <1>1, SendType DEF Call, Kind
    <2> QED
        BY <1>1, <2>1 DEF Call, TypeOK, ReqTypeOK
<1>2. CASE Load(r)
    <2>1. ReqTypeOK'
        BY <1>2, SendType DEF Load, Kind
    <2> QED
        BY <1>0, <1>2, <2>1 DEF Load, TypeOK, ReqTypeOK, Maybe
<1>3. CASE Login(r)
    <2>1. ReqTypeOK'
        BY <1>3, SendType DEF Login, Kind
    <2> QED
        BY <1>3, <2>1 DEF Login, TypeOK, ReqTypeOK
<1>4. CASE Unauthorized(r)
    <2> DEFINE call == [req[r] EXCEPT !.pc = "read", !.cookie = jar]
    <2>1. req[r] \in Busy
        BY <1>4 DEF Unauthorized, At, TypeOK
    <2>2. call \in Busy /\ Equipped(call)
        BY <2>1 DEF Busy, TypeOK, ServerStep, Equipped
    <2>3. ~req[r].retried => req' = [req EXCEPT ![r] = call] /\ UNCHANGED access
        BY <1>4 DEF Unauthorized
    <2> HIDE DEF call
    <2>4. ReqTypeOK' /\ access' \in [Tab -> Maybe]
        BY <1>4, <2>2, <2>3, LeaveType, SetType DEF Unauthorized, TypeOK
    <2> QED
        BY <1>4, <2>4 DEF Unauthorized, TypeOK, ReqTypeOK
<1>5. CASE RefreshFailed(r)
    BY <1>5 DEF RefreshFailed, TypeOK, Maybe
<1>6. CASE Granted(r)
    <2> DEFINE call == [req[r] EXCEPT !.pc = "guard", !.bearer = req[r].grant,
                                      !.cookie = req[r].grant, !.retried = TRUE]
    <2>1. req[r] \in Busy /\ req[r].grant \in Maybe
        BY <1>6 DEF Granted, At, TypeOK, Busy
    <2>2. call \in Busy /\ Equipped(call)
        BY <2>1 DEF Busy, ServerStep, Equipped
    <2>3. req[r].kind \notin {"load", "login"} => req' = [req EXCEPT ![r] = call]
        BY <1>6 DEF Granted
    <2> HIDE DEF call
    <2>4. CASE req[r].kind \notin {"load", "login"}
        <3>1. ReqTypeOK'
            BY <2>2, <2>3, <2>4, SetType
        <3> QED
            BY <1>6, <2>1, <3>1 DEF Granted, TypeOK, ReqTypeOK
    <2>5. CASE req[r].kind \in {"load", "login"}
        BY <1>6, <2>1, <2>5 DEF Granted, TypeOK
    <2> QED
        BY <2>4, <2>5
<1>7. CASE Cleared(r)
    BY <1>7, LeaveType DEF Cleared, TypeOK, ReqTypeOK, Maybe
<1> QED
    BY <1>1, <1>2, <1>3, <1>4, <1>5, <1>6, <1>7

\* The server's steps.
LEMMA ServerType ==
    ASSUME TypeOK, NEW r \in Request,
           \/ Guard(r) \/ CheckPassword(r) \/ ReadToken(r) \/ RevokeFamily(r)
           \/ SaveUsed(r) \/ InsertToken(r) \/ RevokeCookie(r) \/ Blacklist(r)
    PROVE  TypeOK'
<1> USE DEF rows, clocks, browser, At, ServerStep, ClientStep
<1>1. req[r] \in Busy /\ req[r] # Idle /\ Equipped(req[r])
    BY DEF Guard, CheckPassword, ReadToken, RevokeFamily, SaveUsed, InsertToken,
           RevokeCookie, Blacklist, TypeOK
<1>2. req[r].cookie \in Maybe /\ req[r].bearer \in Maybe
    BY <1>1 DEF Busy
<1>3. CASE Guard(r)
    <2>1. CASE Accepted(req[r].bearer) /\ req[r].kind # "logout"
        BY <1>3, <2>1 DEF Guard, TypeOK
    <2>2. CASE Accepted(req[r].bearer) /\ req[r].kind = "logout"
        <3>1. req[r].bearer \in Token
            BY <1>2, <2>2 DEF Accepted, Maybe
        <3>2. Equipped([req[r] EXCEPT !.pc = "revoke"])
            BY <1>1, <3>1 DEF Equipped, Busy
        <3>3. ReqTypeOK'
            BY <1>1, <1>3, <2>2, <3>2, GotoType DEF Guard
        <3> QED
            BY <1>3, <3>3 DEF Guard, TypeOK, ReqTypeOK
    <2>3. CASE ~Accepted(req[r].bearer)
        <3>1. Equipped([req[r] EXCEPT !.pc = "unauthorized"])
            BY <1>1 DEF Equipped, Busy
        <3>2. ReqTypeOK'
            BY <1>1, <1>3, <2>3, <3>1, GotoType DEF Guard
        <3> QED
            BY <1>3, <3>2 DEF Guard, TypeOK, ReqTypeOK
    <2> QED
        BY <2>1, <2>2, <2>3
<1>4. CASE CheckPassword(r)
    <2>1. CASE Leave(r)
        BY <1>4, <2>1, LeaveType DEF CheckPassword, TypeOK, ReqTypeOK
    <2>2. CASE Goto(r, "insert") /\ UNCHANGED access
        <3>1. Equipped([req[r] EXCEPT !.pc = "insert"])
            BY <1>1, <1>4 DEF Equipped, Busy, CheckPassword
        <3>2. ReqTypeOK'
            BY <1>1, <2>2, <3>1, GotoType
        <3> QED
            BY <1>4, <2>2, <3>2 DEF CheckPassword, TypeOK, ReqTypeOK
    <2> QED
        BY <1>4, <2>1, <2>2 DEF CheckPassword
<1>5. CASE ReadToken(r)
    <2> DEFINE t == req[r].cookie
    <2>1. PICK pc \in {"refused", "family", "save"} :
              Goto(r, pc) /\ (pc # "refused" => t # None)
        <3>1. CASE t = None \/ t \in revoked
            BY <1>5, <3>1 DEF ReadToken
        <3>2. CASE ~(t = None \/ t \in revoked) /\ t \in used
            BY <1>5, <3>2 DEF ReadToken
        <3>3. CASE ~(t = None \/ t \in revoked) /\ t \notin used /\ t \in expired
            BY <1>5, <3>3 DEF ReadToken
        <3>4. CASE ~(t = None \/ t \in revoked) /\ t \notin used /\ t \notin expired
            BY <1>5, <3>4 DEF ReadToken
        <3> QED
            BY <3>1, <3>2, <3>3, <3>4
    <2>2. Equipped([req[r] EXCEPT !.pc = pc])
        BY <1>1, <1>2, <2>1 DEF Equipped, Busy, Maybe
    <2>3. ReqTypeOK'
        BY <1>1, <2>1, <2>2, GotoType
    <2> QED
        BY <1>5, <2>3 DEF ReadToken, TypeOK, ReqTypeOK
<1>6. CASE RevokeFamily(r)
    <2>1. Equipped([req[r] EXCEPT !.pc = "refused"])
        BY <1>1 DEF Equipped, Busy
    <2>2. ReqTypeOK'
        BY <1>1, <1>6, <2>1, GotoType DEF RevokeFamily
    <2> QED
        BY <1>6, <2>2 DEF RevokeFamily, TypeOK, ReqTypeOK
<1>7. CASE SaveUsed(r)
    <2>1. req[r].cookie \in Token
        BY <1>1, <1>7 DEF Equipped, SaveUsed
    <2>2. Equipped([req[r] EXCEPT !.pc = "insert"])
        BY <1>1, <2>1 DEF Equipped, Busy
    <2>3. ReqTypeOK'
        BY <1>1, <1>7, <2>2, GotoType DEF SaveUsed
    <2> QED
        BY <1>7, <2>1, <2>3 DEF SaveUsed, TypeOK, ReqTypeOK
<1>8. CASE InsertToken(r)
    <2> DEFINE call == [req[r] EXCEPT !.pc = "granted", !.grant = NewToken]
    <2>1. NewToken \in Token
        BY <1>8 DEF InsertToken, NewToken
    <2>2. call \in Busy /\ Equipped(call)
        BY <1>1, <2>1 DEF Busy, Equipped, Maybe
    <2>3. req' = [req EXCEPT ![r] = call]
        BY <1>8 DEF InsertToken
    <2> HIDE DEF call
    <2>4. ReqTypeOK'
        BY <2>2, <2>3, SetType
    <2>5. family' \in [Token -> Maybe]
        <3>1. req[r].kind # "login" => family[req[r].cookie] \in Maybe
            BY <1>1, <1>8 DEF Equipped, InsertToken, TypeOK
        <3> QED
            BY <1>8, <2>1, <3>1 DEF InsertToken, TypeOK, Maybe
    <2> QED
        BY <1>8, <2>4, <2>5 DEF InsertToken, TypeOK, ReqTypeOK
<1>9. CASE RevokeCookie(r)
    <2>1. Equipped([req[r] EXCEPT !.pc = "blacklist"])
        BY <1>1, <1>9 DEF Equipped, Busy, RevokeCookie
    <2>2. ReqTypeOK'
        BY <1>1, <1>9, <2>1, GotoType DEF RevokeCookie
    <2> QED
        BY <1>2, <1>9, <2>2 DEF RevokeCookie, TypeOK, ReqTypeOK, Maybe
<1>10. CASE Blacklist(r)
    <2>1. Equipped([req[r] EXCEPT !.pc = "cleared"])
        BY <1>1, <1>10 DEF Equipped, Busy, Blacklist
    <2>2. ReqTypeOK'
        BY <1>1, <1>10, <2>1, GotoType DEF Blacklist
    <2>3. req[r].bearer \in Token
        BY <1>1, <1>10 DEF Equipped, Blacklist
    <2> QED
        BY <1>10, <2>2, <2>3 DEF Blacklist, TypeOK, ReqTypeOK
<1> QED
    BY <1>3, <1>4, <1>5, <1>6, <1>7, <1>8, <1>9, <1>10

\* Time and failures.
LEMMA FailureType ==
    ASSUME TypeOK,
           \/ \E r \in Request : ServerError(r) \/ LoseAnswer(r)
           \/ \E t \in Token : Expire(t)
    PROVE  TypeOK'
<1> USE DEF rows, clocks, browser, ServerStep, ClientStep
<1>1. ASSUME NEW r \in Request, ServerError(r) PROVE TypeOK'
    <2>1. CASE Leave(r)
        BY <1>1, <2>1, LeaveType DEF ServerError, TypeOK, ReqTypeOK
    <2>2. CASE Goto(r, "refused") /\ UNCHANGED access
        <3>1. req[r] \in Busy /\ req[r] # Idle
            BY <1>1 DEF ServerError, TypeOK
        <3>2. Equipped([req[r] EXCEPT !.pc = "refused"])
            BY <3>1 DEF Equipped, Busy
        <3>3. ReqTypeOK'
            BY <2>2, <3>1, <3>2, GotoType
        <3> QED
            BY <1>1, <2>2, <3>3 DEF ServerError, TypeOK, ReqTypeOK
    <2> QED
        BY <1>1, <2>1, <2>2 DEF ServerError
<1>2. ASSUME NEW r \in Request, LoseAnswer(r) PROVE TypeOK'
    BY <1>2, LeaveType DEF LoseAnswer, TypeOK, ReqTypeOK
<1>3. ASSUME NEW t \in Token, Expire(t) PROVE TypeOK'
    BY <1>3 DEF Expire, TypeOK, Equipped
<1> QED
    BY <1>1, <1>2, <1>3

LEMMA NextType == TypeOK /\ [Next]_vars => TypeOK'
<1>1. TypeOK /\ UNCHANGED vars => TypeOK'
    BY DEF TypeOK, vars, rows, clocks, browser, Equipped
<1> QED
    BY <1>1, BrowserType, ServerType, FailureType DEF Next, Progress

\* No refresh or logout gets to a write without the token it is to write.
THEOREM SessionsTypeCorrect == Spec => []TypeOK
    BY InitType, NextType, PTL DEF Spec

-----------------------------------------------------------------------------
(* A browser whose requests do not overlap.                                *)

Alone == \A q, r \in Request : (req[q] # Idle /\ req[r] # Idle) => q = r

\* Only Send makes an idle request busy, and only when no other one is.
LEMMA NextAlone == ASSUME Serial, TypeOK, Alone, [Next]_vars PROVE Alone'
<1> USE DEF Alone
<1>1. ASSUME NEW r \in Request, NEW kind, NEW pc, Send(r, kind, pc) PROVE Alone'
    <2>1. \A q \in Request : req[q] = Idle
        BY <1>1 DEF Send, Compatible
    <2> QED
        BY <1>1, <2>1 DEF Send, TypeOK
<1>2. ASSUME NEW r \in Request, req[r] # Idle, NEW call, req' = [req EXCEPT ![r] = call]
      PROVE  Alone'
    BY <1>2 DEF TypeOK
<1>3. ASSUME NEW r \in Request, Progress(r) PROVE Alone'
    <2>1. req[r] # Idle
        BY <1>3 DEF Progress, At, Unauthorized, RefreshFailed, Granted, Cleared, Guard,
               CheckPassword, ReadToken, RevokeFamily, SaveUsed, InsertToken,
               RevokeCookie, Blacklist
    <2>2. \E call : req' = [req EXCEPT ![r] = call]
        BY <1>3 DEF Progress, Goto, Leave, Unauthorized, RefreshFailed, Granted, Cleared,
               Guard, CheckPassword, ReadToken, RevokeFamily, SaveUsed, InsertToken,
               RevokeCookie, Blacklist
    <2> QED
        BY <1>2, <2>1, <2>2
<1>4. ASSUME NEW r \in Request, ServerError(r) \/ LoseAnswer(r) PROVE Alone'
    <2>1. \E call : req' = [req EXCEPT ![r] = call]
        BY <1>4 DEF ServerError, LoseAnswer, Goto, Leave
    <2> QED
        BY <1>2, <1>4, <2>1 DEF ServerError, LoseAnswer
<1>5. UNCHANGED req => Alone'
    OBVIOUS
<1> QED
    BY <1>1, <1>3, <1>4, <1>5 DEF Next, Call, Load, Login, Expire, vars

\* A token's family is that of a login, whose first token is its own family.
Roots == \A t \in Token : family[t] # None =>
             /\ family[t] \in Token
             /\ family[family[t]] = family[t]

\* What a refresh has found or done when it comes to its next write.
Exchanging(call) ==
    /\ call.pc = "save" => call.cookie \notin used \cup revoked
    /\ (call.pc = "insert" /\ call.kind # "login") =>
           \A t \in Token : Live(t) => family[t] # family[call.cookie]

ChainInv ==
    /\ TypeOK
    /\ Alone
    /\ Roots
    /\ OneLiveToken
    /\ \A r \in Request : req[r] # Idle => Exchanging(req[r])

LEMMA InitChain == Init => ChainInv
    BY InitType DEF Init, ChainInv, Alone, Roots, OneLiveToken, Live

\* Steps that write no row and do not take a request to its next write.
LEMMA SameRows ==
    ASSUME ChainInv, TypeOK', Alone', UNCHANGED rows,
           \A r \in Request : req'[r] \in {req[r], Idle} \/ Exchanging(req[r])'
    PROVE  ChainInv'
<1>1. Roots' /\ OneLiveToken'
    BY DEF ChainInv, rows, Roots, OneLiveToken, Live
<1>2. ASSUME NEW r \in Request, req'[r] # Idle PROVE Exchanging(req[r])'
    BY <1>2 DEF ChainInv, Exchanging, rows, Live
<1> QED
    BY <1>1, <1>2 DEF ChainInv

\* Steps that write rows: every other request is idle.
LEMMA NewRows ==
    ASSUME ChainInv, TypeOK', Alone', NEW r \in Request, req'[r] # Idle,
           Roots', OneLiveToken', Exchanging(req[r])'
    PROVE  ChainInv'
    BY DEF ChainInv, Alone

LEMMA NextChain == ASSUME Serial, ChainInv, [Next]_vars PROVE ChainInv'
<1> USE DEF At, rows
<1>0. TypeOK' /\ Alone'
    BY NextType, NextAlone DEF ChainInv
<1>1. UNCHANGED <<rows, req>> => ChainInv'
    BY <1>0, SameRows
<1>2. ASSUME NEW r \in Request, NEW kind, NEW pc \in {"guard", "read", "password"},
             Send(r, kind, pc), UNCHANGED rows
      PROVE  ChainInv'
    BY <1>0, <1>2, SameRows DEF Send, Exchanging, ChainInv, TypeOK
<1>3. ASSUME NEW r \in Request, Leave(r), UNCHANGED rows PROVE ChainInv'
    BY <1>0, <1>3, SameRows DEF Leave, ChainInv, TypeOK
<1>4. ASSUME NEW r \in Request, NEW pc, Goto(r, pc), pc \notin {"save", "insert"},
             UNCHANGED rows, req[r] # Idle
      PROVE  ChainInv'
    <2>1. req[r] \in Busy
        BY <1>4 DEF ChainInv, TypeOK
    <2>2. req'[r].pc = pc
        BY <1>4, <2>1 DEF Goto, ChainInv, TypeOK, Busy
    <2>3. Exchanging(req[r])'
        BY <1>4, <2>2 DEF Exchanging
    <2> QED
        BY <1>0, <1>4, <2>3, SameRows DEF Goto, ChainInv, TypeOK
<1>4a. ASSUME NEW r \in Request, req[r] # Idle, NEW pc, pc \notin {"save", "insert"},
              Goto(r, pc), pc \in ServerStep \cup ClientStep, UNCHANGED <<family, used>>, revoked \subseteq revoked'
       PROVE  ChainInv'
    <2>1. req[r] \in Busy
        BY <1>4a DEF ChainInv, TypeOK
    <2>2. req'[r].pc = pc
        BY <1>4a, <2>1 DEF Goto, ChainInv, TypeOK, Busy
    <2>3. Exchanging(req[r])' /\ req'[r] # Idle
        BY <1>4a, <2>1, <2>2 DEF Exchanging, Goto, ChainInv, TypeOK, Busy, Idle
    <2>4. Roots' /\ OneLiveToken'
        BY <1>4a DEF ChainInv, Roots, OneLiveToken, Live
    <2> QED
        BY <1>0, <2>3, <2>4, NewRows
<1>5. CASE \E r \in Request : \/ \E kind \in {"data", "logout"} : Call(r, kind)
                              \/ Load(r) \/ Login(r)
    BY <1>2, <1>5 DEF Call, Load, Login
<1>6. ASSUME NEW r \in Request, Unauthorized(r) PROVE ChainInv'
    <2>1. CASE req[r].retried
        BY <1>3, <1>6, <2>1 DEF Unauthorized
    <2>2. CASE ~req[r].retried
        <3>1. req[r] \in Busy
            BY <1>6 DEF Unauthorized, ChainInv, TypeOK
        <3>2. req'[r].pc = "read"
            BY <1>6, <2>2, <3>1 DEF Unauthorized, ChainInv, TypeOK, Busy
        <3>3. Exchanging(req[r])'
            BY <3>2 DEF Exchanging
        <3> QED
            BY <1>0, <1>6, <2>2, <3>3, SameRows DEF Unauthorized, ChainInv, TypeOK
    <2> QED
        BY <2>1, <2>2
<1>7. ASSUME NEW r \in Request, RefreshFailed(r) PROVE ChainInv'
    BY <1>0, <1>7, SameRows DEF RefreshFailed, ChainInv, TypeOK
<1>8. ASSUME NEW r \in Request, Granted(r) PROVE ChainInv'
    <2>1. req[r] \in Busy
        BY <1>8 DEF Granted, ChainInv, TypeOK
    <2>2. req'[r] = Idle \/ req'[r].pc = "guard"
        BY <1>8, <2>1 DEF Granted, ChainInv, TypeOK, Busy
    <2>3. req'[r] = Idle \/ Exchanging(req[r])'
        BY <2>2 DEF Exchanging
    <2> QED
        BY <1>0, <1>8, <2>3, SameRows DEF Granted, ChainInv, TypeOK
<1>9. ASSUME NEW r \in Request, Cleared(r) \/ LoseAnswer(r) PROVE ChainInv'
    BY <1>3, <1>9 DEF Cleared, LoseAnswer
<1>10. ASSUME NEW r \in Request, Guard(r) PROVE ChainInv'
    <2>1. CASE req[r].kind # "logout" /\ Accepted(req[r].bearer)
        BY <1>0, <1>10, <2>1, SameRows DEF Guard, ChainInv, TypeOK
    <2>2. CASE req[r].kind = "logout" /\ Accepted(req[r].bearer)
        BY <1>4, <1>10, <2>2 DEF Guard
    <2>3. CASE ~Accepted(req[r].bearer)
        BY <1>4, <1>10, <2>3 DEF Guard
    <2> QED
        BY <2>1, <2>2, <2>3
<1>11. ASSUME NEW r \in Request, CheckPassword(r) PROVE ChainInv'
    <2>1. CASE Leave(r)
        BY <1>3, <1>11, <2>1 DEF CheckPassword
    <2>2. CASE Goto(r, "insert")
        <3>1. req[r] \in Busy /\ req[r].kind = "login"
            BY <1>11 DEF CheckPassword, ChainInv, TypeOK, Equipped
        <3>2. req'[r].pc = "insert" /\ req'[r].kind = "login"
            BY <2>2, <3>1 DEF Goto, ChainInv, TypeOK, Busy
        <3>3. Exchanging(req[r])'
            BY <3>2 DEF Exchanging
        <3> QED
            BY <1>0, <1>11, <2>2, <3>3, SameRows DEF CheckPassword, Goto, ChainInv, TypeOK
    <2> QED
        BY <1>11, <2>1, <2>2 DEF CheckPassword
<1>12. ASSUME NEW r \in Request, ReadToken(r) PROVE ChainInv'
    <2> DEFINE t == req[r].cookie
    <2>1. CASE t = None \/ t \in revoked
        BY <1>4, <1>12, <2>1 DEF ReadToken
    <2>2. CASE ~(t = None \/ t \in revoked) /\ t \in used
        BY <1>4, <1>12, <2>2 DEF ReadToken
    <2>3. CASE ~(t = None \/ t \in revoked) /\ t \notin used /\ t \in expired
        BY <1>4, <1>12, <2>3 DEF ReadToken
    <2>4. CASE ~(t = None \/ t \in revoked) /\ t \notin used /\ t \notin expired
        <3>1. Goto(r, "save") /\ UNCHANGED rows
            BY <1>12, <2>4 DEF ReadToken
        <3>2. req[r] \in Busy
            BY <1>12 DEF ReadToken, ChainInv, TypeOK
        <3>3. req'[r].pc = "save" /\ req'[r].cookie = t
            BY <3>1, <3>2 DEF Goto, ChainInv, TypeOK, Busy
        <3>4. Exchanging(req[r])'
            BY <2>4, <3>1, <3>3 DEF Exchanging
        <3> QED
            BY <1>0, <1>12, <3>1, <3>4, SameRows DEF Goto, ChainInv, TypeOK
    <2> QED
        BY <2>1, <2>2, <2>3, <2>4
<1>13. ASSUME NEW r \in Request, RevokeFamily(r) PROVE ChainInv'
    BY <1>13, <1>4a DEF RevokeFamily, ServerStep, ClientStep
<1>14. ASSUME NEW r \in Request, SaveUsed(r) PROVE ChainInv'
    <2> DEFINE c == req[r].cookie
    <2>1. req[r] \in Busy /\ c \in Token /\ c \notin used \cup revoked
        BY <1>14 DEF SaveUsed, ChainInv, TypeOK, Equipped, Exchanging
    <2>2. req'[r].pc = "insert" /\ req'[r].cookie = c /\ req'[r] # Idle
        BY <1>14, <2>1 DEF SaveUsed, Goto, ChainInv, TypeOK, Busy, Idle
    <2>3. \A t \in Token : Live(t)' => Live(t) /\ t # c
        BY <1>14 DEF SaveUsed, Live
    <2>4. \A t \in Token : Live(t)' => family[t] # family[c]
        BY <2>1, <2>3 DEF ChainInv, OneLiveToken, Live
    <2>5. Roots' /\ OneLiveToken'
        BY <1>14, <2>3 DEF SaveUsed, ChainInv, Roots, OneLiveToken
    <2>6. Exchanging(req[r])'
        BY <1>14, <2>2, <2>4 DEF Exchanging, SaveUsed
    <2> QED
        BY <1>0, <2>2, <2>5, <2>6, NewRows
<1>15. ASSUME NEW r \in Request, InsertToken(r) PROVE ChainInv'
    <2> DEFINE c == req[r].cookie
               n == NewToken
               f == IF req[r].kind = "login" THEN n ELSE family[c]
    <2>1. n \in Token /\ family[n] = None /\ n # None
        BY <1>15, NoneAssumption DEF InsertToken, NewToken
    <2>2. req[r] \in Busy /\ (req[r].kind # "login" => c \in Token)
        BY <1>15 DEF InsertToken, ChainInv, TypeOK, Equipped
    <2>3. family' = [family EXCEPT ![n] = f] /\ UNCHANGED <<used, revoked>>
        BY <1>15 DEF InsertToken
    <2>4. \A t \in Token : Live(t) => family[t] # f
        <3>1. CASE req[r].kind = "login"
            BY <2>1, <3>1 DEF ChainInv, Roots, Live
        <3>2. CASE req[r].kind # "login"
            BY <1>15, <3>2 DEF InsertToken, ChainInv, Exchanging
        <3> QED
            BY <3>1, <3>2
    <2>5. f = None \/ f = n \/ (f \in Token /\ f # n /\ family[f] = f)
        BY <2>1, <2>2 DEF ChainInv, Roots
    <2>6. req'[r].pc = "granted" /\ req'[r] # Idle
        BY <1>15, <2>2 DEF InsertToken, ChainInv, TypeOK, Busy, Idle
    <2>7. family \in [Token -> Maybe]
        BY DEF ChainInv, TypeOK
    <2>8. Roots
        BY DEF ChainInv
    <2> HIDE DEF n, f, c
    <2>9. Roots'
        BY <2>1, <2>3, <2>5, <2>7, <2>8 DEF Roots
    <2>10. OneLiveToken'
        <3>1. \A t \in Token : t # n => (Live(t)' => Live(t)) /\ family'[t] = family[t]
            BY <2>3, <2>7 DEF Live
        <3>2. family'[n] = f
            BY <2>1, <2>3, <2>7
        <3> QED
            BY <2>4, <3>1, <3>2 DEF ChainInv, OneLiveToken
    <2>11. Exchanging(req[r])'
        BY <2>6 DEF Exchanging
    <2> QED
        BY <1>0, <2>6, <2>9, <2>10, <2>11, NewRows
<1>16. ASSUME NEW r \in Request, RevokeCookie(r) PROVE ChainInv'
    BY <1>16, <1>4a DEF RevokeCookie, ServerStep, ClientStep
<1>17. ASSUME NEW r \in Request, Blacklist(r) PROVE ChainInv'
    BY <1>4, <1>17 DEF Blacklist
<1>18. ASSUME NEW r \in Request, ServerError(r) PROVE ChainInv'
    BY <1>3, <1>4, <1>18 DEF ServerError
<1>19. ASSUME NEW t \in Token, Expire(t) PROVE ChainInv'
    BY <1>1, <1>19 DEF Expire
<1> QED
    BY <1>1, <1>5, <1>6, <1>7, <1>8, <1>9, <1>10, <1>11, <1>12, <1>13, <1>14, <1>15,
       <1>16, <1>17, <1>18, <1>19 DEF Next, Progress, vars

\* A login has at most one refresh token that can be exchanged, while the
\* browser's requests do not overlap: whatever await of refresh() fails and
\* whatever answer is lost.
THEOREM OneLiveTokenPerLogin == Serial => (Spec => []OneLiveToken)
<1> SUFFICES ASSUME Serial PROVE Spec => []OneLiveToken
    OBVIOUS
<1>1. ChainInv /\ [Next]_vars => ChainInv'
    BY NextChain
<1>2. ChainInv => OneLiveToken
    BY DEF ChainInv
<1> QED
    BY <1>1, <1>2, InitChain, PTL DEF Spec

-----------------------------------------------------------------------------
(* The logout of such a browser.                                           *)

\* A call carries what the browser holds, and a logout has done away with
\* each of the two by the time it is answered.
Leaving(r, call) ==
    /\ call.pc \in {"guard", "revoke", "blacklist", "cleared"} =>
           call.bearer = access[Home[r]] /\ call.cookie = jar
    /\ call.pc \in {"blacklist", "cleared"} => call.cookie \in revoked \cup {None}
    /\ call.pc = "cleared" => call.bearer \in blacklist \cup stale

LogoutInv ==
    /\ TypeOK
    /\ Alone
    /\ \A r \in Request : req[r] # Idle => Leaving(r, req[r])

LEMMA InitLogout == Init => LogoutInv
    BY InitType DEF Init, LogoutInv, Alone

\* A step of the one request under way.
LEMMA OwnStep ==
    ASSUME LogoutInv, TypeOK', Alone', NEW r \in Request, req[r] # Idle,
           \A q \in Request \ {r} : req'[q] = req[q],
           req'[r] # Idle => Leaving(r, req[r])'
    PROVE  LogoutInv'
    BY DEF LogoutInv, Alone

LEMMA NextLogout == ASSUME Serial, LogoutInv, [Next]_vars PROVE LogoutInv'
<1> USE DEF At, rows, clocks, browser
<1>0. TypeOK' /\ Alone'
    BY NextType, NextAlone DEF LogoutInv
<1>1. UNCHANGED vars => LogoutInv'
    BY <1>0 DEF LogoutInv, Leaving, vars
<1>2. ASSUME NEW r \in Request, NEW kind, NEW pc \in {"guard", "read", "password"},
             Send(r, kind, pc), pc = "guard" => UNCHANGED <<jar, access>>
      PROVE  LogoutInv'
    <2>1. req'[r] = [pc |-> pc, kind |-> kind, bearer |-> access[Home[r]],
                     cookie |-> jar, grant |-> None, retried |-> FALSE]
        BY <1>2 DEF Send, LogoutInv, TypeOK
    <2>2. Leaving(r, req[r])' /\ req'[r] # Idle
        BY <1>2, <2>1 DEF Leaving, Idle
    <2>3. \A q \in Request \ {r} : req'[q] = Idle
        BY <1>2 DEF Send, Compatible, LogoutInv, TypeOK
    <2> QED
        BY <1>0, <2>2, <2>3 DEF LogoutInv
<1>3. ASSUME NEW r \in Request, Leave(r), req[r] # Idle PROVE LogoutInv'
    BY <1>0, <1>3, OwnStep DEF Leave, LogoutInv, TypeOK
<1>4. ASSUME NEW r \in Request, NEW pc, Goto(r, pc), req[r] # Idle,
             pc \notin {"guard", "revoke", "blacklist", "cleared"}
      PROVE  LogoutInv'
    <2>1. req[r] \in Busy
        BY <1>4 DEF LogoutInv, TypeOK
    <2>2. req'[r].pc = pc
        BY <1>4, <2>1 DEF Goto, LogoutInv, TypeOK, Busy
    <2>3. Leaving(r, req[r])'
        BY <1>4, <2>2 DEF Leaving
    <2> QED
        BY <1>0, <1>4, <2>3, OwnStep DEF Goto, LogoutInv, TypeOK
<1>5. CASE \E r \in Request : \/ \E kind \in {"data", "logout"} : Call(r, kind)
                              \/ Load(r) \/ Login(r)
    BY <1>2, <1>5 DEF Call, Load, Login
<1>6. ASSUME NEW r \in Request, Unauthorized(r) PROVE LogoutInv'
    <2>1. CASE req[r].retried
        BY <1>3, <1>6, <2>1 DEF Unauthorized
    <2>2. CASE ~req[r].retried
        <3>1. req[r] \in Busy
            BY <1>6 DEF Unauthorized, LogoutInv, TypeOK
        <3>2. req'[r].pc = "read"
            BY <1>6, <2>2, <3>1 DEF Unauthorized, LogoutInv, TypeOK, Busy
        <3>3. Leaving(r, req[r])'
            BY <3>2 DEF Leaving
        <3> QED
            BY <1>0, <1>6, <2>2, <3>3, OwnStep DEF Unauthorized, LogoutInv, TypeOK
    <2> QED
        BY <2>1, <2>2
<1>7. ASSUME NEW r \in Request, RefreshFailed(r) PROVE LogoutInv'
    BY <1>0, <1>7, OwnStep DEF RefreshFailed, LogoutInv, TypeOK
<1>8. ASSUME NEW r \in Request, Granted(r) PROVE LogoutInv'
    <2>1. req[r] \in Busy /\ Home[r] \in Tab
        BY <1>8, HomeAssumption DEF Granted, LogoutInv, TypeOK
    <2>2. jar' = req[r].grant /\ access'[Home[r]] = req[r].grant
        BY <1>8, <2>1 DEF Granted, LogoutInv, TypeOK
    <2>3. req'[r] # Idle =>
              /\ req'[r].pc = "guard" /\ req'[r].bearer = req[r].grant
              /\ req'[r].cookie = req[r].grant
        BY <1>8, <2>1 DEF Granted, LogoutInv, TypeOK, Busy
    <2>4. req'[r] # Idle => Leaving(r, req[r])'
        BY <2>2, <2>3 DEF Leaving
    <2> QED
        BY <1>0, <1>8, <2>4, OwnStep DEF Granted, LogoutInv, TypeOK
<1>9. ASSUME NEW r \in Request, Cleared(r) \/ LoseAnswer(r) PROVE LogoutInv'
    BY <1>3, <1>9 DEF Cleared, LoseAnswer
<1>10. ASSUME NEW r \in Request, Guard(r) PROVE LogoutInv'
    <2>1. CASE Goto(r, "unauthorized")
        BY <1>4, <1>10, <2>1 DEF Guard
    <2>2. CASE req' = [req EXCEPT ![r] = Idle]
        BY <1>0, <1>10, <2>2, OwnStep DEF Guard, LogoutInv, TypeOK
    <2>3. CASE Goto(r, "revoke")
        <3>1. req[r] \in Busy /\ Leaving(r, req[r])
            BY <1>10 DEF Guard, LogoutInv, TypeOK
        <3>2. /\ req'[r].pc = "revoke" /\ req'[r].bearer = req[r].bearer
              /\ req'[r].cookie = req[r].cookie
            BY <2>3, <3>1 DEF Goto, LogoutInv, TypeOK, Busy
        <3>3. Leaving(r, req[r])'
            BY <1>10, <3>1, <3>2 DEF Guard, Leaving
        <3> QED
            BY <1>0, <1>10, <2>3, <3>3, OwnStep DEF Guard, Goto, LogoutInv, TypeOK
    <2> QED
        BY <1>10, <2>1, <2>2, <2>3 DEF Guard
<1>11. ASSUME NEW r \in Request, CheckPassword(r) PROVE LogoutInv'
    BY <1>3, <1>4, <1>11 DEF CheckPassword
<1>12. ASSUME NEW r \in Request, ReadToken(r) PROVE LogoutInv'
    <2>1. \E pc \in {"refused", "family", "save"} : Goto(r, pc)
        BY <1>12 DEF ReadToken
    <2> QED
        BY <1>4, <1>12, <2>1 DEF ReadToken
<1>13. ASSUME NEW r \in Request, RevokeFamily(r) \/ SaveUsed(r) PROVE LogoutInv'
    BY <1>4, <1>13 DEF RevokeFamily, SaveUsed
<1>14. ASSUME NEW r \in Request, InsertToken(r) PROVE LogoutInv'
    <2>1. req[r] \in Busy
        BY <1>14 DEF InsertToken, LogoutInv, TypeOK
    <2>2. req'[r].pc = "granted"
        BY <1>14, <2>1 DEF InsertToken, LogoutInv, TypeOK, Busy
    <2>3. Leaving(r, req[r])'
        BY <2>2 DEF Leaving
    <2> QED
        BY <1>0, <1>14, <2>3, OwnStep DEF InsertToken, LogoutInv, TypeOK
<1>15. ASSUME NEW r \in Request, RevokeCookie(r) PROVE LogoutInv'
    <2>1. req[r] \in Busy /\ Leaving(r, req[r])
        BY <1>15 DEF RevokeCookie, LogoutInv, TypeOK
    <2>2. /\ req'[r].pc = "blacklist" /\ req'[r].bearer = req[r].bearer
          /\ req'[r].cookie = req[r].cookie
        BY <1>15, <2>1 DEF RevokeCookie, Goto, LogoutInv, TypeOK, Busy
    <2>3. Leaving(r, req[r])'
        BY <1>15, <2>1, <2>2 DEF RevokeCookie, Leaving
    <2> QED
        BY <1>0, <1>15, <2>3, OwnStep DEF RevokeCookie, Goto, LogoutInv, TypeOK
<1>16. ASSUME NEW r \in Request, Blacklist(r) PROVE LogoutInv'
    <2>1. req[r] \in Busy /\ Leaving(r, req[r])
        BY <1>16 DEF Blacklist, LogoutInv, TypeOK
    <2>2. /\ req'[r].pc = "cleared" /\ req'[r].bearer = req[r].bearer
          /\ req'[r].cookie = req[r].cookie
        BY <1>16, <2>1 DEF Blacklist, Goto, LogoutInv, TypeOK, Busy
    <2>3. Leaving(r, req[r])'
        BY <1>16, <2>1, <2>2 DEF Blacklist, Leaving
    <2> QED
        BY <1>0, <1>16, <2>3, OwnStep DEF Blacklist, Goto, LogoutInv, TypeOK
<1>17. ASSUME NEW r \in Request, ServerError(r) PROVE LogoutInv'
    BY <1>3, <1>4, <1>17 DEF ServerError
<1>18. ASSUME NEW t \in Token, Expire(t) PROVE LogoutInv'
    BY <1>0, <1>18 DEF Expire, LogoutInv, Leaving
<1> QED
    BY <1>1, <1>5, <1>6, <1>7, <1>8, <1>9, <1>10, <1>11, <1>12, <1>13, <1>14, <1>15,
       <1>16, <1>17, <1>18 DEF Next, Progress

\* While the browser's requests do not overlap, an answered logout leaves
\* neither the cookie's token nor the tab's of any use, with whatever tokens
\* the call began.
THEOREM LogoutIsEffective == Serial => (Spec => LogoutEndsSession)
<1> SUFFICES ASSUME Serial PROVE Spec => LogoutEndsSession
    OBVIOUS
<1> DEFINE Step == \A r \in Request : Cleared(r) =>
               /\ jar = None \/ ~Live(jar)
               /\ ~Accepted(access[Home[r]])
<1>1. LogoutInv /\ [Next]_vars => LogoutInv'
    BY NextLogout
<1>2. LogoutInv => Step
    <2> SUFFICES ASSUME LogoutInv, NEW r \in Request, Cleared(r)
                 PROVE  (jar = None \/ ~Live(jar)) /\ ~Accepted(access[Home[r]])
        OBVIOUS
    <2>1. Leaving(r, req[r]) /\ req[r].pc = "cleared"
        BY DEF Cleared, At, LogoutInv
    <2> QED
        BY <2>1 DEF Leaving, Live, Accepted
<1>3. LogoutInv /\ [Next]_vars => [Step]_vars
    BY <1>2
<1> QED
    BY <1>1, <1>3, InitLogout, PTL DEF Spec, LogoutEndsSession

-----------------------------------------------------------------------------
(* A login's tokens form the chain of SessionChain.                        *)

\* Nothing is known of a token that has no row.
Issued(t) == t = None \/ family[t] # None
IssuedInv ==
    /\ Issued(jar)
    /\ \A r \in Request : req[r] # Idle => Issued(req[r].cookie) /\ Issued(req[r].grant)
    /\ \A t \in used \cup revoked : family[t] # None

LEMMA InitIssued == Init => IssuedInv
    BY DEF Init, IssuedInv, Issued

\* Rows are not deleted, and a row is made by one step.
LEMMA RowSteps ==
    ASSUME [Next]_vars
    PROVE  UNCHANGED family \/ \E r \in Request : InsertToken(r)
<1>1. ASSUME NEW r \in Request, Progress(r), ~InsertToken(r) PROVE UNCHANGED family
    BY <1>1 DEF Progress, Unauthorized, RefreshFailed, Granted, Cleared, Guard,
           CheckPassword, ReadToken, RevokeFamily, SaveUsed, RevokeCookie, Blacklist, rows
<1> QED
    BY <1>1 DEF Next, Call, Load, Login, ServerError, LoseAnswer, Expire, vars, rows

LEMMA RowsGrow ==
    ASSUME TypeOK, IssuedInv, [Next]_vars
    PROVE  \A t \in Token : family[t] # None => family'[t] = family[t]
<1>1. ASSUME NEW r \in Request, InsertToken(r), NEW t \in Token, family[t] # None
      PROVE  family'[t] = family[t]
    <2>1. NewToken \in Token /\ family[NewToken] = None
        BY <1>1 DEF InsertToken, NewToken
    <2> QED
        BY <1>1, <2>1 DEF InsertToken, TypeOK
<1> QED
    BY <1>1, RowSteps

\* What a step makes of a call, as far as its cookie and its grant go.
LEMMA CallSteps ==
    ASSUME TypeOK, [Next]_vars, NEW r \in Request, req'[r] # Idle
    PROVE  /\ \/ req[r] # Idle /\ req'[r].cookie = req[r].cookie
              \/ req'[r].cookie = jar
              \/ req[r] # Idle /\ req'[r].cookie = req[r].grant
           /\ \/ req[r] # Idle /\ req'[r].grant = req[r].grant
              \/ req'[r].grant = None
              \/ InsertToken(r) /\ req'[r].grant = NewToken
<1>1. CASE req'[r] = req[r]
    BY <1>1
<1>2. ASSUME NEW kind, NEW pc, Send(r, kind, pc)
      PROVE  req'[r].cookie = jar /\ req'[r].grant = None
    BY <1>2 DEF Send, TypeOK
<1>3. ASSUME NEW pc, Goto(r, pc), req[r] # Idle
      PROVE  req'[r].cookie = req[r].cookie /\ req'[r].grant = req[r].grant
    BY <1>3 DEF Goto, TypeOK, Busy
<1>4. ~Leave(r)
    BY DEF Leave, TypeOK
<1>5. ASSUME Progress(r) PROVE req[r] # Idle
    BY <1>5 DEF Progress, At, Unauthorized, RefreshFailed, Granted, Cleared, Guard,
           CheckPassword, ReadToken, RevokeFamily, SaveUsed, InsertToken, RevokeCookie,
           Blacklist
<1>6. ASSUME Unauthorized(r)
      PROVE  req'[r].cookie = jar /\ req'[r].grant = req[r].grant
    BY <1>4, <1>6 DEF Unauthorized, At, TypeOK, Busy
<1>7. ASSUME Granted(r)
      PROVE  req'[r].cookie = req[r].grant /\ req'[r].grant = req[r].grant
    BY <1>7 DEF Granted, At, TypeOK, Busy
<1>8. ASSUME InsertToken(r)
      PROVE  req'[r].cookie = req[r].cookie /\ req'[r].grant = NewToken
    BY <1>8 DEF InsertToken, At, TypeOK, Busy
<1>9. ASSUME Progress(r), ~Unauthorized(r), ~Granted(r), ~InsertToken(r)
      PROVE  \E pc : Goto(r, pc)
    <2>1. ~RefreshFailed(r) /\ ~Cleared(r)
        BY <1>4 DEF RefreshFailed, Cleared, TypeOK
    <2>2. Guard(r) => \E pc : Goto(r, pc)
        BY DEF Guard, TypeOK
    <2> QED
        BY <1>4, <1>9, <2>1, <2>2
           DEF Progress, CheckPassword, ReadToken, RevokeFamily, SaveUsed, RevokeCookie,
               Blacklist
<1>10. ASSUME ServerError(r) \/ LoseAnswer(r) PROVE req[r] # Idle /\ \E pc : Goto(r, pc)
    BY <1>4, <1>10 DEF ServerError, LoseAnswer
<1>11. CASE \E q \in Request \ {r} :
                \/ Progress(q) \/ \E kind \in {"data", "logout"} : Call(q, kind)
                \/ Load(q) \/ Login(q) \/ ServerError(q) \/ LoseAnswer(q)
    <2>1. PICK q \in Request \ {r} :
              \/ Progress(q) \/ \E kind \in {"data", "logout"} : Call(q, kind)
              \/ Load(q) \/ Login(q) \/ ServerError(q) \/ LoseAnswer(q)
        BY <1>11
    <2>2. \E call : req' = [req EXCEPT ![q] = call]
        BY <2>1 DEF Progress, Goto, Leave, Unauthorized, RefreshFailed, Granted, Cleared,
               Guard, CheckPassword, ReadToken, RevokeFamily, SaveUsed, InsertToken,
               RevokeCookie, Blacklist, Call, Load, Login, Send, ServerError, LoseAnswer
    <2> QED
        BY <1>1, <2>2 DEF TypeOK
<1>12. CASE UNCHANGED req
    BY <1>1, <1>12
<1> QED
    BY <1>2, <1>3, <1>5, <1>6, <1>7, <1>8, <1>9, <1>10, <1>11, <1>12
       DEF Next, Call, Load, Login, Expire, vars

LEMMA NextIssued == ASSUME TypeOK, IssuedInv, [Next]_vars PROVE IssuedInv'
<1> USE DEF At
<1>1. \A t \in Maybe : Issued(t) => Issued(t)'
    BY RowsGrow DEF Issued, Maybe
<1>2. \A r \in Request : req[r] # Idle =>
          req[r].cookie \in Maybe /\ req[r].grant \in Maybe
    BY DEF TypeOK, Busy
<1>3. jar \in Maybe /\ used \cup revoked \subseteq Maybe
    BY DEF TypeOK, Maybe
<1>4. ASSUME NEW r \in Request, req'[r] # Idle PROVE Issued(req[r].cookie)'
    <2>1. \E t \in Maybe : req'[r].cookie = t /\ Issued(t)
        BY <1>2, <1>3, <1>4, CallSteps DEF IssuedInv
    <2> QED
        BY <1>1, <2>1 DEF Issued
<1>5. ASSUME NEW r \in Request, InsertToken(r), NEW n, n = NewToken
      PROVE  family'[n] # None
    <2>1. n \in Token /\ n # None
        BY <1>5, NoneAssumption DEF InsertToken, NewToken
    <2>2. req[r].kind # "login" => req[r].cookie \in Token /\ family[req[r].cookie] # None
        BY <1>5, NoneAssumption DEF InsertToken, TypeOK, Equipped, IssuedInv, Issued
    <2> QED
        BY <1>5, <2>1, <2>2 DEF InsertToken, TypeOK
<1>6. ASSUME NEW r \in Request, req'[r] # Idle, NEW g, g = req'[r].grant
      PROVE  Issued(g)'
    <2>1. CASE \E t \in Maybe : g = t /\ Issued(t)
        BY <1>1, <2>1
    <2>2. CASE InsertToken(r) /\ g = NewToken
        BY <1>5, <2>2 DEF Issued
    <2>3. CASE g = None
        BY <2>3 DEF Issued
    <2> QED
        BY <1>2, <1>6, <2>1, <2>2, <2>3, CallSteps DEF IssuedInv
<1>7. Issued(jar)'
    <2>1. ASSUME NEW r \in Request, Granted(r)
          PROVE  \E t \in Maybe : jar' = t /\ Issued(t)
        BY <1>2, <2>1 DEF Granted, IssuedInv
    <2>2. ASSUME NEW r \in Request, Progress(r), ~Granted(r)
          PROVE  jar' = jar \/ jar' = None
        BY <2>2 DEF Progress, Unauthorized, RefreshFailed, Cleared, Guard, CheckPassword,
               ReadToken, RevokeFamily, SaveUsed, InsertToken, RevokeCookie, Blacklist,
               browser
    <2>3. jar' = jar \/ jar' = None \/ \E t \in Maybe : jar' = t /\ Issued(t)
        BY <2>1, <2>2 DEF Next, Call, Load, Login, ServerError, LoseAnswer, Expire,
               vars, browser
    <2> QED
        BY <1>1, <1>3, <2>3 DEF IssuedInv, Issued
<1>8. ASSUME NEW t \in used' \cup revoked' PROVE family'[t] # None
    <2>1. ASSUME NEW r \in Request, Progress(r)
          PROVE  t \in used \cup revoked \/ (t \in Token /\ family[t] # None)
        <3>1. CASE SaveUsed(r) \/ RevokeCookie(r)
            BY <1>8, <3>1, NoneAssumption
               DEF SaveUsed, RevokeCookie, TypeOK, Equipped, Busy, Maybe, IssuedInv, Issued
        <3>2. CASE RevokeFamily(r)
            BY <1>8, <3>2, NoneAssumption
               DEF RevokeFamily, TypeOK, Equipped, IssuedInv, Issued
        <3>3. CASE ~SaveUsed(r) /\ ~RevokeCookie(r) /\ ~RevokeFamily(r)
            BY <1>8, <2>1, <3>3
               DEF Progress, Unauthorized, RefreshFailed, Granted, Cleared, Guard,
                   CheckPassword, ReadToken, InsertToken, Blacklist, rows
        <3> QED
            BY <3>1, <3>2, <3>3
    <2>2. t \in Token /\ family[t] # None
        BY <1>8, <2>1 DEF Next, Call, Load, Login, ServerError, LoseAnswer, Expire, vars,
               rows, IssuedInv, TypeOK
    <2> QED
        BY <2>2, RowsGrow
<1> QED
    BY <1>4, <1>6, <1>7, <1>8 DEF IssuedInv

\* A login does not pass the steps of a refresh.
LoginPath ==
    \A r \in Request : (req[r] # Idle /\ req[r].kind = "login") =>
        req[r].pc \in {"password", "insert", "granted"}

LEMMA NextLoginPath == ASSUME TypeOK, LoginPath, [Next]_vars PROVE LoginPath'
<1> USE DEF At
<1>1. ASSUME NEW r \in Request, NEW kind \in {"data", "logout", "load"}, NEW pc, Send(r, kind, pc)
      PROVE  LoginPath'
    BY <1>1 DEF Send, TypeOK, LoginPath
<1>2. ASSUME NEW r \in Request, Login(r) PROVE LoginPath'
    BY <1>2 DEF Login, Send, TypeOK, LoginPath
<1>3. ASSUME NEW r \in Request, Leave(r) PROVE LoginPath'
    BY <1>3 DEF Leave, TypeOK, LoginPath
<1>4. ASSUME NEW r \in Request, req[r] # Idle, NEW pc, Goto(r, pc),
             pc \in {"insert", "granted"} \/ req[r].kind # "login"
      PROVE  LoginPath'
    <2>1. req[r] \in Busy
        BY <1>4 DEF TypeOK
    <2>2. req'[r].kind = req[r].kind /\ req'[r].pc = pc
        BY <1>4, <2>1 DEF Goto, TypeOK, Busy
    <2> QED
        BY <1>4, <2>2 DEF Goto, TypeOK, LoginPath
<1>5. ASSUME NEW r \in Request, Progress(r) PROVE LoginPath'
    <2>1. req[r] # Idle /\ req[r] \in Busy
        BY <1>5 DEF Progress, Unauthorized, RefreshFailed, Granted, Cleared, Guard,
               CheckPassword, ReadToken, RevokeFamily, SaveUsed, InsertToken,
               RevokeCookie, Blacklist, TypeOK
    <2>2. ASSUME req' = [req EXCEPT ![r] = Idle] PROVE LoginPath'
        BY <2>2 DEF TypeOK, LoginPath
    <2>3. CASE Unauthorized(r) \/ Cleared(r)
        <3>1. req[r].kind # "login"
            BY <2>1, <2>3 DEF Unauthorized, Cleared, LoginPath
        <3>2. CASE Leave(r)
            BY <1>3, <3>2
        <3>3. CASE ~Leave(r)
            <4>1. /\ req'[r].kind = req[r].kind
                  /\ \A q \in Request \ {r} : req'[q] = req[q]
                BY <2>1, <2>3, <3>3 DEF Unauthorized, Cleared, TypeOK, Busy
            <4> QED
                BY <3>1, <4>1 DEF LoginPath
        <3> QED
            BY <3>2, <3>3
    <2>4. CASE RefreshFailed(r)
        BY <2>2, <2>4 DEF RefreshFailed
    <2>5. CASE Granted(r)
        <3>1. CASE req[r].kind \in {"load", "login"}
            BY <2>2, <2>5, <3>1 DEF Granted
        <3>2. CASE req[r].kind \notin {"load", "login"}
            <4>1. /\ req'[r].kind = req[r].kind
                  /\ \A q \in Request \ {r} : req'[q] = req[q]
                BY <2>1, <2>5, <3>2 DEF Granted, TypeOK, Busy
            <4> QED
                BY <3>2, <4>1 DEF LoginPath
        <3> QED
            BY <3>1, <3>2
    <2>6. CASE \/ Guard(r) \/ ReadToken(r) \/ RevokeFamily(r) \/ SaveUsed(r)
               \/ RevokeCookie(r) \/ Blacklist(r)
        <3>1. req[r].kind # "login"
            BY <2>1, <2>6 DEF Guard, ReadToken, RevokeFamily, SaveUsed, RevokeCookie,
                   Blacklist, LoginPath
        <3>2. req' = [req EXCEPT ![r] = Idle] \/ \E pc : Goto(r, pc)
            BY <2>6 DEF Guard, ReadToken, RevokeFamily, SaveUsed, RevokeCookie, Blacklist
        <3> QED
            BY <1>4, <2>1, <2>2, <3>1, <3>2
    <2>7. CASE CheckPassword(r)
        BY <1>3, <1>4, <2>1, <2>7 DEF CheckPassword
    <2>8. CASE InsertToken(r)
        <3>1. req'[r].pc = "granted" /\ \A q \in Request \ {r} : req'[q] = req[q]
            BY <2>1, <2>8 DEF InsertToken, TypeOK, Busy
        <3> QED
            BY <3>1 DEF LoginPath
    <2> QED
        BY <1>5, <2>3, <2>4, <2>5, <2>6, <2>7, <2>8 DEF Progress
<1>6. ASSUME NEW r \in Request, ServerError(r) PROVE LoginPath'
    BY <1>3, <1>4, <1>6 DEF ServerError
<1>7. ASSUME NEW r \in Request, LoseAnswer(r) PROVE LoginPath'
    BY <1>3, <1>7 DEF LoseAnswer
<1>8. UNCHANGED req => LoginPath'
    BY DEF LoginPath
<1> QED
    BY <1>1, <1>2, <1>5, <1>6, <1>7, <1>8 DEF Next, Call, Load, Expire, vars

HasLive(f) == \E t \in Token : family[t] = f /\ Live(t)

\* The four phases exclude each other.
PhaseIsRight ==
    \A f \in Token :
        /\ family[f] # f => Phase[f] = "none"
        /\ HasLive(f) => Phase[f] = "live"
        /\ Rotating(f) => Phase[f] = "rotating"
        /\ family[f] = f /\ ~HasLive(f) /\ ~Rotating(f) => Phase[f] = "dead"

LEMMA PhaseValues == ChainInv => PhaseIsRight
<1> SUFFICES ASSUME ChainInv, NEW f \in Token
             PROVE  /\ family[f] # f => Phase[f] = "none"
                    /\ HasLive(f) => Phase[f] = "live"
                    /\ Rotating(f) => Phase[f] = "rotating"
                    /\ family[f] = f /\ ~HasLive(f) /\ ~Rotating(f) => Phase[f] = "dead"
    BY DEF PhaseIsRight
<1> DEFINE Value == CASE family[f] # f -> "none"
                      [] HasLive(f) -> "live"
                      [] Rotating(f) -> "rotating"
                      [] OTHER -> "dead"
<1>1. Phase[f] = Value
    BY DEF Phase, HasLive
<1>2. family[f] # f => ~HasLive(f)
    BY DEF ChainInv, Roots, HasLive, Live
<1>3. Rotating(f) => ~HasLive(f) /\ family[f] = f
    <2> SUFFICES ASSUME NEW r \in Request, At(r, "insert"), req[r].kind # "login",
                        family[req[r].cookie] = f
                 PROVE  ~HasLive(f) /\ family[f] = f
        BY DEF Rotating
    <2>1. req[r] # Idle /\ req[r].pc = "insert" /\ req[r].cookie \in Token
        BY DEF At, ChainInv, TypeOK, Equipped
    <2> QED
        BY <2>1, NoneAssumption DEF ChainInv, Roots, Exchanging, HasLive, Live
<1> HIDE DEF HasLive, Rotating
<1>4. family[f] # f => Value = "none"
    BY <1>2, <1>3
<1>5. HasLive(f) => Value = "live"
    BY <1>2, <1>3
<1>6. Rotating(f) => Value = "rotating"
    BY <1>2, <1>3
<1>7. family[f] = f /\ ~HasLive(f) /\ ~Rotating(f) => Value = "dead"
    OBVIOUS
<1> QED
    BY <1>1, <1>4, <1>5, <1>6, <1>7

\* Where nothing changes for a login, its phase is the same.
LEMMA PhaseSame ==
    ASSUME NEW f \in Token,
           family'[f] = f <=> family[f] = f,
           HasLive(f)' <=> HasLive(f),
           Rotating(f)' <=> Rotating(f)
    PROVE  Phase'[f] = Phase[f]
    BY DEF Phase, HasLive

LEMMA PhaseValuesNext == ChainInv' => PhaseIsRight'
    BY PhaseValues, PTL

\* A step that turns one login's phase is a step of the chain.
LEMMA OneTurn ==
    ASSUME NEW f \in Token, NEW to, Phase'[f] = to,
           \A g \in Token \ {f} : Phase'[g] = Phase[g]
    PROVE  Phase' = [Phase EXCEPT ![f] = to]
<1>1. Phase = [g \in Token |-> Phase[g]] /\ Phase' = [g \in Token |-> Phase'[g]]
    BY DEF Phase
<1> HIDE DEF Phase
<1> QED
    BY <1>1

\* A call that has used up its token and is about to issue the next one.
Swapping(call) == call # Idle /\ call.pc = "insert" /\ call.kind # "login"

LEMMA RotatingIs ==
    \A f \in Token :
        Rotating(f) <=> \E r \in Request : Swapping(req[r]) /\ family[req[r].cookie] = f
    BY DEF Rotating, Swapping, At

\* Steps that write no row and neither begin nor end an exchange.
LEMMA QuietChain ==
    ASSUME TypeOK, UNCHANGED rows, NEW r \in Request, NEW call,
           req' = [req EXCEPT ![r] = call], ~Swapping(req[r]), ~Swapping(call)
    PROVE  UNCHANGED Phase
<1>1. \A q \in Request : /\ Swapping(req'[q]) <=> Swapping(req[q])
                         /\ Swapping(req[q]) => req'[q] = req[q]
    BY DEF TypeOK
<1> HIDE DEF Swapping
<1>2. ASSUME NEW f \in Token PROVE Phase'[f] = Phase[f]
    <2>1. Rotating(f)' <=> Rotating(f)
        BY <1>1 DEF rows, Rotating, Swapping, At
    <2>2. HasLive(f)' <=> HasLive(f)
        BY DEF rows, HasLive, Live
    <2> QED
        BY <2>1, <2>2, PhaseSame DEF rows
<1>3. Phase = [g \in Token |-> Phase[g]] /\ Phase' = [g \in Token |-> Phase'[g]]
    BY DEF Phase
<1> HIDE DEF Phase
<1> QED
    BY <1>2, <1>3

\* A revocation ends a login that has a live token, and leaves the others
\* alone.
LEMMA RevocationEnds ==
    ASSUME TypeOK, Roots, Alone, PhaseIsRight, PhaseIsRight', NEW r \in Request, NEW pc,
           req[r] # Idle, req[r].pc # "insert", Goto(r, pc), pc # "insert",
           UNCHANGED <<family, used>>, NEW f,
           \A t \in Token : Live(t)' <=> Live(t) /\ (family[t] = f => ~HasLive(f)),
           HasLive(f) => f \in Token
    PROVE  [Chain!Next]_Phase
<1>1. ~Swapping(req[r]) /\ ~Swapping(req'[r])
    BY DEF Swapping, Goto, TypeOK, Busy
<1>2. \A q \in Request \ {r} : req[q] = Idle /\ req'[q] = Idle
    BY DEF Alone, Goto, TypeOK
<1>3. \A g \in Token : ~Rotating(g) /\ ~Rotating(g)'
    BY <1>1, <1>2 DEF Rotating, Swapping, At
<1>4. \A g \in Token \ {f} : HasLive(g)' <=> HasLive(g)
    BY DEF HasLive
<1>5. \A g \in Token \ {f} : Phase'[g] = Phase[g]
    BY <1>3, <1>4, PhaseSame
<1>6. CASE HasLive(f)
    <2>1. ~HasLive(f)' /\ family[f] = f
        BY <1>6 DEF HasLive, Live, Roots
    <2>2. Phase[f] = "live" /\ Phase'[f] = "dead"
        BY <1>3, <1>6, <2>1 DEF PhaseIsRight
    <2>3. Phase' = [Phase EXCEPT ![f] = "dead"]
        BY <1>5, <1>6, <2>2, OneTurn
    <2> QED
        BY <1>6, <2>2, <2>3 DEF Chain!Next, Chain!End, Chain!Turn
<1>7. CASE ~HasLive(f)
    <2>1. ASSUME NEW g \in Token PROVE Phase'[g] = Phase[g]
        <3>1. HasLive(g)' <=> HasLive(g)
            BY <1>4, <1>7 DEF HasLive
        <3> QED
            BY <1>3, <3>1, PhaseSame
    <2>2. Phase = [g \in Token |-> Phase[g]] /\ Phase' = [g \in Token |-> Phase'[g]]
        BY DEF Phase
    <2> HIDE DEF Phase
    <2> QED
        BY <2>1, <2>2
<1> QED
    BY <1>6, <1>7

LEMMA StepFollowsChain ==
    ASSUME Serial, ChainInv, IssuedInv, LoginPath, [Next]_vars
    PROVE  [Chain!Next]_Phase
<1>0. /\ TypeOK /\ Roots /\ Alone /\ OneLiveToken /\ PhaseIsRight /\ PhaseIsRight'
      /\ TypeOK' /\ Alone'
    <2>1. ChainInv'
        BY NextChain
    <2> QED
        BY <2>1, PhaseValues, PhaseValuesNext DEF ChainInv
<1>1. ASSUME NEW r \in Request, NEW pc, Goto(r, pc), UNCHANGED rows, ~Swapping(req[r]),
             pc # "insert" \/ req[r].kind = "login", req[r] # Idle
      PROVE  UNCHANGED Phase
    <2>1. ~Swapping([req[r] EXCEPT !.pc = pc])
        BY <1>0, <1>1 DEF Swapping, TypeOK, Busy
    <2> QED
        BY <1>0, <1>1, <2>1, QuietChain DEF Goto
<1>2. ASSUME NEW r \in Request, Leave(r), UNCHANGED rows, ~Swapping(req[r])
      PROVE  UNCHANGED Phase
    BY <1>0, <1>2, QuietChain DEF Leave, Swapping
<1>3. ASSUME NEW r \in Request, NEW kind, NEW pc \in {"guard", "read", "password"},
             Send(r, kind, pc), UNCHANGED rows
      PROVE  UNCHANGED Phase
    BY <1>0, <1>3, QuietChain DEF Send, Swapping
<1>4. CASE UNCHANGED <<rows, req>>
    BY <1>4 DEF Phase, Live, Rotating, At, rows
<1>5. CASE \E r \in Request : \/ \E kind \in {"data", "logout"} : Call(r, kind)
                              \/ Load(r) \/ Login(r)
    BY <1>3, <1>5 DEF Call, Load, Login
<1>6. ASSUME NEW r \in Request,
             \/ Unauthorized(r) \/ RefreshFailed(r) \/ Granted(r) \/ Cleared(r)
             \/ Guard(r) \/ ReadToken(r) \/ Blacklist(r) \/ LoseAnswer(r)
      PROVE  UNCHANGED Phase
    <2>1. req[r] # Idle /\ req[r] \in Busy /\ ~Swapping(req[r]) /\ UNCHANGED rows
        BY <1>0, <1>6
           DEF Unauthorized, RefreshFailed, Granted, Cleared, Guard, ReadToken, Blacklist,
               LoseAnswer, ClientStep, At, Swapping, TypeOK
    <2>2. CASE Unauthorized(r) /\ ~req[r].retried
        <3>1. ~Swapping([req[r] EXCEPT !.pc = "read", !.cookie = jar])
            BY <2>1 DEF Swapping, Busy
        <3> QED
            BY <1>0, <2>1, <2>2, <3>1, QuietChain DEF Unauthorized
    <2>3. CASE Granted(r)
        <3>1. ~Swapping([req[r] EXCEPT !.pc = "guard", !.bearer = req[r].grant,
                                       !.cookie = req[r].grant, !.retried = TRUE])
            BY <2>1 DEF Swapping, Busy
        <3>2. ~Swapping(Idle)
            BY DEF Swapping
        <3> QED
            BY <1>0, <2>1, <2>3, <3>1, <3>2, QuietChain DEF Granted
    <2>4. CASE RefreshFailed(r)
        BY <1>0, <2>1, <2>4, QuietChain DEF RefreshFailed, Swapping
    <2>5. CASE Guard(r) \/ ReadToken(r) \/ Blacklist(r)
        <3>1. ASSUME req' = [req EXCEPT ![r] = Idle] PROVE UNCHANGED Phase
            BY <1>0, <2>1, <3>1, QuietChain DEF Swapping
        <3>2. \/ req' = [req EXCEPT ![r] = Idle]
              \/ \E pc : pc # "insert" /\ Goto(r, pc)
            BY <2>5 DEF Guard, ReadToken, Blacklist
        <3> QED
            BY <1>1, <2>1, <3>1, <3>2
    <2> QED
        BY <1>2, <1>6, <2>1, <2>2, <2>3, <2>4, <2>5 DEF Unauthorized, Cleared, LoseAnswer
<1>7. ASSUME NEW r \in Request, CheckPassword(r) PROVE UNCHANGED Phase
    <2>1. req[r] # Idle /\ req[r].kind = "login" /\ ~Swapping(req[r]) /\ UNCHANGED rows
        BY <1>0, <1>7 DEF CheckPassword, At, Swapping, TypeOK, Equipped
    <2> QED
        BY <1>1, <1>2, <1>7, <2>1 DEF CheckPassword
<1>8. ASSUME NEW r \in Request, RevokeFamily(r) PROVE [Chain!Next]_Phase
    <2>1. PICK c \in Token : c = req[r].cookie
        BY <1>0, <1>8 DEF RevokeFamily, At, TypeOK, Equipped
    <2>2. PICK f : f = family[c]
        OBVIOUS
    <2>3. \A t \in Token : Live(t)' <=> Live(t) /\ (family[t] = f => ~HasLive(f))
        BY <1>8, <2>1, <2>2 DEF RevokeFamily, Live, HasLive
    <2>4. HasLive(f) => f \in Token
        BY <1>0 DEF HasLive, Live, Roots
    <2> QED
        BY <1>0, <1>8, <2>3, <2>4, RevocationEnds DEF RevokeFamily, At
<1>9. ASSUME NEW r \in Request, RevokeCookie(r) PROVE [Chain!Next]_Phase
    <2>1. PICK c \in Maybe : c = req[r].cookie
        BY <1>0, <1>9 DEF RevokeCookie, At, TypeOK, Busy
    <2>2. \A t \in Token : Live(t)' <=> Live(t) /\ t # c
        BY <1>9, <2>1, NoneAssumption DEF RevokeCookie, Live
    <2>3. PICK f : f = IF c \in Token /\ Live(c) THEN family[c] ELSE None
        OBVIOUS
    <2>4. \A t \in Token : Live(t)' <=> Live(t) /\ (family[t] = f => ~HasLive(f))
        <3>1. CASE c \in Token /\ Live(c)
            <4>1. HasLive(f) /\ f = family[c]
                BY <2>3, <3>1 DEF HasLive
            <4>2. \A t \in Token : Live(t) => (family[t] = f <=> t = c)
                BY <1>0, <3>1, <4>1 DEF OneLiveToken
            <4> QED
                BY <2>2, <4>1, <4>2
        <3>2. CASE ~(c \in Token /\ Live(c))
            BY <2>2, <2>3, <3>2 DEF HasLive, Live
        <3> QED
            BY <3>1, <3>2
    <2>5. HasLive(f) => f \in Token
        BY <1>0 DEF HasLive, Live, Roots
    <2> QED
        BY <1>0, <1>9, <2>4, <2>5, RevocationEnds DEF RevokeCookie, At
<1>10. ASSUME NEW r \in Request, SaveUsed(r) PROVE [Chain!Next]_Phase
    <2>1. /\ req[r] # Idle /\ req[r] \in Busy /\ req[r].pc = "save"
          /\ req[r].cookie \in Token /\ req[r].cookie \notin used \cup revoked
        BY <1>0, <1>10 DEF SaveUsed, At, TypeOK, Equipped, ChainInv, Exchanging
    <2>2. PICK c \in Token : c = req[r].cookie
        BY <2>1
    <2>3. PICK f : f = family[c]
        OBVIOUS
    <2>4. family[c] # None /\ Live(c) /\ HasLive(f) /\ f \in Token /\ family[f] = f
        BY <1>0, <2>1, <2>2, <2>3, NoneAssumption DEF IssuedInv, Issued, Live, HasLive, Roots
    <2>5. req[r].kind # "login"
        BY <2>1 DEF LoginPath
    <2>6. /\ req'[r] = [req[r] EXCEPT !.pc = "insert"]
          /\ UNCHANGED family
          /\ \A q \in Request \ {r} : req[q] = Idle /\ req'[q] = Idle
        BY <1>0, <1>10, <2>1 DEF SaveUsed, Goto, Alone, TypeOK
    <2>7. Swapping(req'[r]) /\ req'[r].cookie = c /\ ~Swapping(req[r])
        BY <2>1, <2>2, <2>5, <2>6 DEF Swapping, Busy, Idle
    <2>8. \A t \in Token : Live(t)' <=> Live(t) /\ t # c
        BY <1>10, <2>1, <2>2 DEF SaveUsed, Live
    <2>9. ~HasLive(f)'
        BY <1>0, <2>3, <2>4, <2>6, <2>8 DEF HasLive, OneLiveToken
    <2>10. \A g \in Token : ~Rotating(g) /\ (Rotating(g)' <=> g = f)
        BY <2>3, <2>6, <2>7 DEF Rotating, Swapping, At
    <2>11. \A g \in Token \ {f} : HasLive(g)' <=> HasLive(g)
        BY <2>3, <2>6, <2>8 DEF HasLive
    <2>12. \A g \in Token \ {f} : Phase'[g] = Phase[g]
        BY <2>6, <2>10, <2>11, PhaseSame
    <2>13. Phase[f] = "live" /\ Phase'[f] = "rotating"
        BY <1>0, <2>4, <2>10 DEF PhaseIsRight
    <2>14. Phase' = [Phase EXCEPT ![f] = "rotating"]
        BY <2>4, <2>12, <2>13, OneTurn
    <2> QED
        BY <2>4, <2>13, <2>14 DEF Chain!Next, Chain!Exchange, Chain!Turn
<1>11. ASSUME NEW r \in Request, InsertToken(r) PROVE [Chain!Next]_Phase
    <2>1. /\ req[r] # Idle /\ req[r] \in Busy /\ req[r].pc = "insert"
          /\ req[r].kind # "login" => req[r].cookie \in Token
        BY <1>0, <1>11 DEF InsertToken, At, TypeOK, Equipped
    <2>2. PICK n : n = NewToken
        OBVIOUS
    <2>3. PICK f : f = IF req[r].kind = "login" THEN n ELSE family[req[r].cookie]
        OBVIOUS
    <2>4. n \in Token /\ family[n] = None /\ n # None
        BY <1>11, <2>2, NoneAssumption DEF InsertToken, NewToken
    <2>5. family' = [family EXCEPT ![n] = f] /\ UNCHANGED <<used, revoked>>
        BY <1>11, <2>2, <2>3 DEF InsertToken
    <2>6. /\ family'[n] = f /\ \A t \in Token \ {n} : family'[t] = family[t]
          /\ f \in Token /\ f # None
        BY <1>0, <2>1, <2>3, <2>4, <2>5, NoneAssumption
           DEF TypeOK, IssuedInv, Issued, Roots
    <2>7. /\ ~Swapping(req'[r])
          /\ \A q \in Request \ {r} : req[q] = Idle /\ req'[q] = Idle
        BY <1>0, <1>11, <2>1 DEF InsertToken, Swapping, Alone, TypeOK, Busy
    <2>8. \A g \in Token : ~Rotating(g)'
        BY <2>7 DEF Rotating, Swapping, At
    <2>9. Live(n)' /\ ~Live(n) /\ \A t \in Token \ {n} : Live(t)' <=> Live(t)
        BY <1>0, <2>4, <2>5, <2>6 DEF Live, IssuedInv
    <2>10. HasLive(f)' /\ \A g \in Token \ {f} : HasLive(g)' <=> HasLive(g)
        BY <2>4, <2>6, <2>9 DEF HasLive
    <2>11. Phase'[f] = "live"
        BY <1>0, <2>6, <2>10 DEF PhaseIsRight
    <2>12. \A g \in Token \ {f} : ~Rotating(g)
        BY <2>1, <2>3, <2>7 DEF Rotating, At
    <2>13. ASSUME NEW g \in Token \ {f} PROVE Phase'[g] = Phase[g]
        <3>1. family'[g] = g <=> family[g] = g
            BY <2>4, <2>6
        <3> QED
            BY <2>8, <2>10, <2>12, <3>1, PhaseSame
    <2>14. Phase' = [Phase EXCEPT ![f] = "live"]
        BY <2>6, <2>11, <2>13, OneTurn
    <2>15. CASE req[r].kind = "login"
        <3>1. f = n /\ Phase[f] = "none"
            BY <1>0, <2>3, <2>4, <2>15 DEF PhaseIsRight
        <3> QED
            BY <2>6, <2>14, <3>1 DEF Chain!Next, Chain!Login, Chain!Turn
    <2>16. CASE req[r].kind # "login"
        <3>1. Rotating(f)
            BY <2>1, <2>3, <2>16 DEF Rotating, At
        <3>2. Phase[f] = "rotating"
            BY <1>0, <2>6, <3>1 DEF PhaseIsRight
        <3> QED
            BY <2>6, <2>14, <3>2 DEF Chain!Next, Chain!Succeed, Chain!Turn
    <2> QED
        BY <2>15, <2>16
<1>12. ASSUME NEW r \in Request, ServerError(r) PROVE [Chain!Next]_Phase
    <2>1. req[r] # Idle /\ req[r] \in Busy /\ UNCHANGED rows
        BY <1>0, <1>12 DEF ServerError, TypeOK
    <2>2. CASE ~Swapping(req[r])
        <3>1. Leave(r) \/ Goto(r, "refused")
            BY <1>12 DEF ServerError
        <3> QED
            BY <1>1, <1>2, <2>1, <2>2, <3>1
    <2>3. CASE Swapping(req[r])
        <3>1. PICK c \in Token : c = req[r].cookie
            BY <1>0, <2>3 DEF Swapping, TypeOK, Equipped
        <3>2. PICK f \in Token : f = family[c]
            BY <1>0, <2>1, <3>1, NoneAssumption DEF IssuedInv, Issued, Roots
        <3>3. Goto(r, "refused")
            BY <1>12, <2>3 DEF ServerError, Swapping
        <3>4. /\ ~Swapping(req'[r])
              /\ \A q \in Request \ {r} : req[q] = Idle /\ req'[q] = Idle
            BY <1>0, <2>1, <3>3 DEF Goto, Swapping, Alone, TypeOK, Busy
        <3>5. Rotating(f) /\ \A g \in Token \ {f} : ~Rotating(g)
            BY <2>3, <3>1, <3>2, <3>4 DEF Rotating, Swapping, At
        <3>6. \A g \in Token : ~Rotating(g)' /\ (HasLive(g)' <=> HasLive(g))
            BY <2>1, <3>4 DEF Rotating, Swapping, At, HasLive, Live, rows
        <3>7. \A g \in Token \ {f} : Phase'[g] = Phase[g]
            BY <2>1, <3>5, <3>6, PhaseSame DEF rows
        <3>8. ~HasLive(f) /\ family[f] = f
            BY <2>3, <3>1, <3>2, <1>0, NoneAssumption
               DEF ChainInv, Exchanging, Swapping, HasLive, Roots
        <3>9. Phase[f] = "rotating" /\ Phase'[f] = "dead"
            BY <1>0, <2>1, <3>5, <3>6, <3>8 DEF PhaseIsRight, rows
        <3>10. Phase' = [Phase EXCEPT ![f] = "dead"]
            BY <3>7, <3>9, OneTurn
        <3> QED
            BY <3>9, <3>10 DEF Chain!Next, Chain!End, Chain!Turn
    <2> QED
        BY <2>2, <2>3
<1>13. ASSUME NEW t \in Token, Expire(t) PROVE [Chain!Next]_Phase
    BY <1>4, <1>13 DEF Expire, rows
<1> QED
    BY <1>4, <1>5, <1>6, <1>7, <1>8, <1>9, <1>10, <1>11, <1>12, <1>13
       DEF Next, Progress, vars

LEMMA StartsChain == Init => Chain!Init /\ LoginPath
<1> SUFFICES ASSUME Init PROVE Chain!Init /\ LoginPath
    OBVIOUS
<1>1. PhaseIsRight
    BY InitChain, PhaseValues
<1>2. \A f \in Token : Phase[f] = "none"
    BY <1>1, NoneAssumption DEF PhaseIsRight, Init
<1>3. Phase = [f \in Token |-> Phase[f]]
    BY DEF Phase
<1>4. Phase = [f \in Token |-> "none"]
    BY <1>2, <1>3
<1>5. LoginPath
    BY DEF Init, LoginPath
<1> QED
    BY <1>4, <1>5 DEF Chain!Init

\* While the browser's requests do not overlap, a login's tokens form a chain
\* that never comes to life again, however its last exchange went wrong.
THEOREM SessionsImplementChain == Serial => (Spec => ImplementsChain)
<1> SUFFICES ASSUME Serial PROVE Spec => ImplementsChain
    OBVIOUS
<1>1. ChainInv /\ [Next]_vars => ChainInv'
    BY NextChain
<1>2. ChainInv => TypeOK
    BY DEF ChainInv
<1>3. TypeOK /\ IssuedInv /\ [Next]_vars => IssuedInv'
    BY NextIssued
<1>4. TypeOK /\ LoginPath /\ [Next]_vars => LoginPath'
    BY NextLoginPath
<1>5. ChainInv /\ IssuedInv /\ LoginPath /\ [Next]_vars => [Chain!Next]_Phase
    BY StepFollowsChain
<1> QED
    BY <1>1, <1>2, <1>3, <1>4, <1>5, InitChain, InitIssued, StartsChain, PTL
       DEF Spec, ImplementsChain, Chain!Spec

\* A session that has ended is not revived.
EndedStaysEnded == \A f \in Token : Phase[f] = "dead" => Phase'[f] = "dead"

LEMMA ChainKeepsEnd == [Chain!Next]_Phase => EndedStaysEnded
<1> SUFFICES ASSUME [Chain!Next]_Phase, NEW f \in Token, Phase[f] = "dead"
             PROVE  Phase'[f] = "dead"
    BY DEF EndedStaysEnded
<1>1. Phase = [g \in Token |-> Phase[g]]
    BY DEF Phase
<1>2. CASE UNCHANGED Phase
    BY <1>2
<1>3. ASSUME NEW g \in Token, NEW from, NEW to, "dead" \notin from, Chain!Turn(g, from, to)
      PROVE  Phase'[f] = "dead"
    <2>1. g # f /\ Phase' = [Phase EXCEPT ![g] = to]
        BY <1>3 DEF Chain!Turn
    <2> HIDE DEF Phase
    <2> QED
        BY <1>1, <2>1
<1>4. CASE Chain!Next
    <2> PICK g \in Token : Chain!Login(g) \/ Chain!Exchange(g) \/ Chain!Succeed(g) \/ Chain!End(g)
        BY <1>4 DEF Chain!Next
    <2>1. "dead" \notin {"none"} /\ "dead" \notin {"live"} /\ "dead" \notin {"rotating"}
          /\ "dead" \notin {"live", "rotating"}
        OBVIOUS
    <2> QED
        BY <1>3, <2>1 DEF Chain!Login, Chain!Exchange, Chain!Succeed, Chain!End
<1> QED
    BY <1>2, <1>4

\* While the browser's requests do not overlap, a login of which no token can be
\* exchanged, and none is being exchanged, has ended for good: a token that
\* was revoked while its exchange failed half-way does not come back to life.
THEOREM EndedSessionsStayEnded == Serial => (Spec => [][EndedStaysEnded]_Phase)
<1> SUFFICES ASSUME Serial PROVE Spec => [][EndedStaysEnded]_Phase
    OBVIOUS
<1>1. Spec => ImplementsChain
    BY SessionsImplementChain
<1>2. [Chain!Next]_Phase => [EndedStaysEnded]_Phase
    BY ChainKeepsEnd
<1> QED
    BY <1>1, <1>2, PTL DEF ImplementsChain, Chain!Spec

-----------------------------------------------------------------------------
(* How long a request can take: what RequestsEnd rests on besides the      *)
(* fairness of the two event loops, and here also for requests that do     *)
(* overlap.                                                                *)

\* The steps that a request can still take at most: the first 401 sends it
\* through a refresh and to the guard once more, the second is its end.
StepsLeft(r) ==
    IF req[r] = Idle THEN 0
    ELSE CASE req[r].pc = "guard" -> (IF req[r].retried THEN 5 ELSE 11)
           [] req[r].pc = "unauthorized" -> (IF req[r].retried THEN 1 ELSE 10)
           [] req[r].pc = "password" -> 9
           [] req[r].pc = "read" -> 9
           [] req[r].pc \in {"family", "save"} -> 8
           [] req[r].pc = "insert" -> 7
           [] req[r].pc = "granted" -> 6
           [] req[r].pc = "revoke" -> 4
           [] req[r].pc = "blacklist" -> 3
           [] req[r].pc = "cleared" -> 2
           [] OTHER -> 1

RequestsAdvance ==
    \A r \in Request :
        (req[r] # Idle /\ req'[r] # req[r]) => StepsLeft(r)' < StepsLeft(r)

LEMMA StepAdvances ==
    ASSUME TypeOK, [Next]_vars, NEW r \in Request, req[r] # Idle, req'[r] # req[r]
    PROVE  StepsLeft(r)' < StepsLeft(r)
<1>0. req[r] \in Busy /\ req \in [Request -> Busy \cup {Idle}]
    BY DEF TypeOK
<1>1. CASE req'[r] = Idle
    BY <1>0, <1>1 DEF StepsLeft, Busy
<1>2. CASE req'[r] # Idle
    <2>1. PICK q \in Request :
              \/ Progress(q) \/ \E kind \in {"data", "logout"} : Call(q, kind)
              \/ Load(q) \/ Login(q) \/ ServerError(q) \/ LoseAnswer(q)
        BY DEF Next, Expire, vars
    <2>2. q = r
        <3>1. \E call : req' = [req EXCEPT ![q] = call]
            BY <2>1 DEF Progress, Goto, Leave, Unauthorized, RefreshFailed, Granted, Cleared,
                   Guard, CheckPassword, ReadToken, RevokeFamily, SaveUsed, InsertToken,
                   RevokeCookie, Blacklist, Call, Load, Login, Send, ServerError, LoseAnswer
        <3> QED
            BY <1>0, <3>1
    <2>3. Progress(r) \/ ServerError(r)
        BY <1>0, <1>2, <2>1, <2>2 DEF Call, Load, Login, Send, LoseAnswer, Leave
    <2>4. ~Leave(r)
        BY <1>0, <1>2 DEF Leave
    <2>5. CASE Unauthorized(r)
        <3>1. /\ req[r].pc = "unauthorized" /\ ~req[r].retried
              /\ req'[r].pc = "read"
            BY <1>0, <2>4, <2>5 DEF Unauthorized, At, Busy
        <3> QED
            BY <1>2, <3>1 DEF StepsLeft
    <2>6. CASE Granted(r)
        <3>1. req[r].pc = "granted" /\ req'[r].pc = "guard" /\ req'[r].retried
            BY <1>0, <1>2, <2>6 DEF Granted, At, Busy
        <3> QED
            BY <1>2, <3>1 DEF StepsLeft
    <2>7. CASE InsertToken(r)
        <3>1. req[r].pc = "insert" /\ req'[r].pc = "granted"
            BY <1>0, <2>7 DEF InsertToken, At, Busy
        <3> QED
            BY <1>2, <3>1 DEF StepsLeft
    <2>8. CASE ~Unauthorized(r) /\ ~Granted(r) /\ ~InsertToken(r)
        <3>1. \E pc : /\ Goto(r, pc)
                     /\ \/ req[r].pc = "guard" /\ pc \in {"unauthorized", "revoke"}
                        \/ req[r].pc = "password" /\ pc = "insert"
                        \/ req[r].pc = "read" /\ pc \in {"refused", "family", "save"}
                        \/ req[r].pc \in {"family", "save", "insert"} /\ pc = "refused"
                        \/ req[r].pc = "save" /\ pc = "insert"
                        \/ req[r].pc = "revoke" /\ pc = "blacklist"
                        \/ req[r].pc = "blacklist" /\ pc = "cleared"
            <4>1. ~RefreshFailed(r) /\ ~Cleared(r)
                BY <1>0, <1>2, <2>4 DEF RefreshFailed, Cleared
            <4>2. CASE Guard(r)
                BY <1>0, <1>2, <4>2 DEF Guard, At
            <4>3. CASE CheckPassword(r) \/ ReadToken(r) \/ RevokeFamily(r) \/ SaveUsed(r)
                BY <2>4, <4>3 DEF CheckPassword, ReadToken, RevokeFamily, SaveUsed, At
            <4>4. CASE RevokeCookie(r) \/ Blacklist(r) \/ ServerError(r)
                BY <2>4, <4>4 DEF RevokeCookie, Blacklist, ServerError, At
            <4> QED
                BY <2>3, <2>8, <4>1, <4>2, <4>3, <4>4 DEF Progress
        <3>2. PICK pc : /\ Goto(r, pc)
                        /\ \/ req[r].pc = "guard" /\ pc \in {"unauthorized", "revoke"}
                           \/ req[r].pc = "password" /\ pc = "insert"
                           \/ req[r].pc = "read" /\ pc \in {"refused", "family", "save"}
                           \/ req[r].pc \in {"family", "save", "insert"} /\ pc = "refused"
                           \/ req[r].pc = "save" /\ pc = "insert"
                           \/ req[r].pc = "revoke" /\ pc = "blacklist"
                           \/ req[r].pc = "blacklist" /\ pc = "cleared"
            BY <3>1
        <3>3. req'[r].pc = pc /\ req'[r].retried = req[r].retried
            BY <1>0, <3>2 DEF Goto, Busy
        <3> QED
            BY <1>2, <3>2, <3>3 DEF StepsLeft
    <2> QED
        BY <2>5, <2>6, <2>7, <2>8
<1> QED
    BY <1>1, <1>2

\* No request runs in a circle: a token that expires again before the repeated
\* request arrives, a refresh that is refused or fails, and the requests of
\* other tabs leave it with fewer steps to its end than before.
THEOREM SessionRequestsAdvance == Spec => [][RequestsAdvance]_vars
<1>1. TypeOK /\ [Next]_vars => [RequestsAdvance]_vars
    BY StepAdvances DEF RequestsAdvance
<1> QED
    BY <1>1, SessionsTypeCorrect, PTL DEF Spec
=============================================================================
