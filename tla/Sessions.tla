------------------------------ MODULE Sessions ------------------------------
(***************************************************************************)
(* A browser's session: its tabs (client.ts, AuthBootstrap, useAuth), the  *)
(* cookie they share, and IdentityService with JwtAuthGuard behind them.   *)
(* A response grants an access token and a refresh token together; both    *)
(* are named by the row of the refresh token.  Every await of the server   *)
(* and every arrival of an answer is a step of its own.                    *)
(***************************************************************************)
EXTENDS Naturals, FiniteSets

CONSTANTS
    Tab,
    Request,    \* requests the tabs may have under way
    Home,       \* Home[r]: the tab that makes r
    Token,      \* the grants: a bound on their number
    None,       \* no token, no family
    Serial,     \* whether the browser's requests never overlap
    Faults      \* which of "error" and "lost" may happen

ASSUME NoneAssumption == None \notin Token
ASSUME HomeAssumption == Home \in [Request -> Tab]
ASSUME SerialAssumption == Serial \in BOOLEAN

VARIABLES
    family,         \* family[t]: the first token of t's login, None if t has no row
    used, revoked,  \* the flags of the refreshTokens rows
    expired,        \* refresh tokens past expiresAt
    stale,          \* access tokens past exp
    blacklist,      \* access tokens with a blacklist:jti key
    jar,            \* the refresh cookie
    access,         \* access[tab]: the token in the tab's store
    req

rows == <<family, used, revoked>>
clocks == <<expired, stale>>
browser == <<jar, access>>
vars == <<rows, clocks, blacklist, browser, req>>

Maybe == Token \cup {None}
Kind == {"data", "logout", "load", "login"}
ServerStep == {"password", "guard", "read", "family", "save", "insert", "revoke",
               "blacklist"}
ClientStep == {"unauthorized", "refused", "granted", "cleared"}
Busy == [pc : ServerStep \cup ClientStep, kind : Kind, bearer : Maybe,
         cookie : Maybe, grant : Maybe, retried : BOOLEAN]
Idle == [pc |-> "idle"]

\* What a request has in hand at the steps that need it.
Equipped(call) ==
    /\ call.pc = "password" => call.kind = "login"
    /\ call.pc \in {"family", "save"} => call.cookie \in Token
    /\ (call.pc = "insert" /\ call.kind # "login") => call.cookie \in Token
    /\ call.pc = "granted" => call.grant \in Token
    /\ call.pc \in {"revoke", "blacklist", "cleared"} => call.bearer \in Token

TypeOK ==
    /\ family \in [Token -> Maybe]
    /\ used \subseteq Token
    /\ revoked \subseteq Token
    /\ expired \subseteq Token
    /\ stale \subseteq Token
    /\ blacklist \subseteq Token
    /\ jar \in Maybe
    /\ access \in [Tab -> Maybe]
    /\ req \in [Request -> Busy \cup {Idle}]
    /\ \A r \in Request : req[r] # Idle => Equipped(req[r])

Init ==
    /\ family = [t \in Token |-> None]
    /\ used = {} /\ revoked = {} /\ expired = {} /\ stale = {} /\ blacklist = {}
    /\ jar = None
    /\ access = [tab \in Tab |-> None]
    /\ req = [r \in Request |-> Idle]

At(r, pc) == req[r] # Idle /\ req[r].pc = pc
Goto(r, pc) == req' = [req EXCEPT ![r].pc = pc]

\* A bound: r and every other request under way can be given a grant.
GrantsLeft(r) ==
    Cardinality({t \in Token : family[t] = None})
        > Cardinality({q \in Request \ {r} : req[q] # Idle})

-----------------------------------------------------------------------------
(* The browser sends a request.                                            *)

\* While a tab loads or logs in it does nothing else.
Compatible(r, kind) ==
    \A q \in Request : req[q] # Idle =>
        /\ ~Serial
        /\ Home[q] = Home[r] => {kind, req[q].kind} \subseteq {"data", "logout"}

Send(r, kind, pc) ==
    /\ req[r] = Idle
    /\ Compatible(r, kind)
    /\ req' = [req EXCEPT ![r] =
           [pc |-> pc, kind |-> kind, bearer |-> access[Home[r]],
            cookie |-> jar, grant |-> None, retried |-> FALSE]]

\* An API call of a signed-in tab, or its logout.
Call(r, kind) ==
    /\ access[Home[r]] # None
    /\ GrantsLeft(r)
    /\ Send(r, kind, "guard")
    /\ UNCHANGED <<rows, clocks, blacklist, browser>>

\* The page is loaded: the store is empty and AuthBootstrap asks for a token.
Load(r) ==
    /\ GrantsLeft(r)
    /\ Send(r, "load", "read")
    /\ access' = [access EXCEPT ![Home[r]] = None]
    /\ UNCHANGED <<rows, clocks, blacklist, jar>>

Login(r) ==
    /\ access[Home[r]] = None
    /\ Send(r, "login", "password")
    /\ UNCHANGED <<rows, clocks, blacklist, browser>>

-----------------------------------------------------------------------------
(* The answer arrives, or the request fails for good.                      *)

\* useAuth's logout clears the tab whatever came of the request.
Leave(r) ==
    /\ req' = [req EXCEPT ![r] = Idle]
    /\ access' = IF req[r].kind = "logout"
                 THEN [access EXCEPT ![Home[r]] = None] ELSE access

\* client.ts: the first 401 asks for a new token, the second is an error.
Unauthorized(r) ==
    /\ At(r, "unauthorized")
    /\ IF req[r].retried
       THEN Leave(r)
       ELSE /\ req' = [req EXCEPT ![r].pc = "read", ![r].cookie = jar]
            /\ UNCHANGED access
    /\ UNCHANGED <<rows, clocks, blacklist, jar>>

\* Mutant of RefreshFailed: the refresh is repeated until it succeeds.
RefreshAgain(r) ==
    /\ At(r, "refused")
    /\ Goto(r, "read")
    /\ UNCHANGED <<rows, clocks, blacklist, browser>>

\* A refresh that is refused signs the tab out.
RefreshFailed(r) ==
    /\ At(r, "refused")
    /\ req' = [req EXCEPT ![r] = Idle]
    /\ access' = [access EXCEPT ![Home[r]] = None]
    /\ UNCHANGED <<rows, clocks, blacklist, jar>>

\* The new cookie and token are stored, and a call is made once more.
Granted(r) ==
    /\ At(r, "granted")
    /\ jar' = req[r].grant
    /\ access' = [access EXCEPT ![Home[r]] = req[r].grant]
    /\ req' = IF req[r].kind \in {"load", "login"}
              THEN [req EXCEPT ![r] = Idle]
              ELSE [req EXCEPT ![r].pc = "guard", ![r].bearer = req[r].grant,
                               ![r].cookie = req[r].grant, ![r].retried = TRUE]
    /\ UNCHANGED <<rows, clocks, blacklist>>

\* The answer to a logout clears the cookie.
Cleared(r) ==
    /\ At(r, "cleared")
    /\ jar' = None
    /\ Leave(r)
    /\ UNCHANGED <<rows, clocks, blacklist>>

-----------------------------------------------------------------------------
(* JwtAuthGuard and IdentityService.                                       *)

Accepted(t) == t # None /\ t \notin stale /\ t \notin blacklist

Guard(r) ==
    /\ At(r, "guard")
    /\ IF ~Accepted(req[r].bearer)
       THEN Goto(r, "unauthorized")
       ELSE IF req[r].kind = "logout"
            THEN Goto(r, "revoke")
            ELSE req' = [req EXCEPT ![r] = Idle]
    /\ UNCHANGED <<rows, clocks, blacklist, browser>>

\* login() finds the user and compares the password.
CheckPassword(r) ==
    /\ At(r, "password")
    /\ \/ GrantsLeft(r) /\ Goto(r, "insert") /\ UNCHANGED access
       \/ Leave(r)
    /\ UNCHANGED <<rows, clocks, blacklist, jar>>

\* Mutant of ReadToken: a request without a cookie is not refused.
ReadNoToken(r) ==
    LET t == req[r].cookie IN
    /\ At(r, "read")
    /\ Goto(r, IF t \in revoked \cup expired THEN "refused"
               ELSE IF t \in used THEN "family" ELSE "save")
    /\ UNCHANGED <<rows, clocks, blacklist, browser>>

\* refresh() looks the cookie's row up and decides by what it finds.
ReadToken(r) ==
    LET t == req[r].cookie IN
    /\ At(r, "read")
    /\ Goto(r, IF t = None \/ t \in revoked THEN "refused"
               ELSE IF t \in used THEN "family"
               ELSE IF t \in expired THEN "refused"
               ELSE "save")
    /\ UNCHANGED <<rows, clocks, blacklist, browser>>

\* revokeFamilyByFamilyId, after which the refresh is refused.
RevokeFamily(r) ==
    /\ At(r, "family")
    /\ revoked' = revoked \cup {t \in Token : family[t] = family[req[r].cookie]}
    /\ Goto(r, "refused")
    /\ UNCHANGED <<family, used, clocks, blacklist, browser>>

\* Mutant of SaveUsed: the flag is set on the object and not saved.
SaveNothing(r) ==
    /\ At(r, "save")
    /\ Goto(r, "insert")
    /\ UNCHANGED <<rows, clocks, blacklist, browser>>

\* save() writes what differs from the row as it is now: used, and also the
\* revoked = false that was read when the row has been revoked since.
SaveUsed(r) ==
    /\ At(r, "save")
    /\ used' = used \cup {req[r].cookie}
    /\ revoked' = revoked \ {req[r].cookie}
    /\ Goto(r, "insert")
    /\ UNCHANGED <<family, clocks, blacklist, browser>>

\* A new row's id; it makes no difference which.
NewToken == CHOOSE t \in Token : family[t] = None

\* Mutant of InsertToken: the successor is not put into the family.
InsertOrphan(r) ==
    /\ At(r, "insert")
    /\ \E t \in Token : family[t] = None
    /\ family' = [family EXCEPT ![NewToken] = NewToken]
    /\ req' = [req EXCEPT ![r].pc = "granted", ![r].grant = NewToken]
    /\ UNCHANGED <<used, revoked, clocks, blacklist, browser>>

\* issueRefreshToken: a login begins a family, a refresh continues one.
InsertToken(r) ==
    /\ At(r, "insert")
    /\ \E t \in Token : family[t] = None
    /\ family' = [family EXCEPT ![NewToken] =
           IF req[r].kind = "login" THEN NewToken ELSE family[req[r].cookie]]
    /\ req' = [req EXCEPT ![r].pc = "granted", ![r].grant = NewToken]
    /\ UNCHANGED <<used, revoked, clocks, blacklist, browser>>

\* logout(), in its two writes.
RevokeCookie(r) ==
    /\ At(r, "revoke")
    /\ revoked' = revoked \cup ({req[r].cookie} \ {None})
    /\ Goto(r, "blacklist")
    /\ UNCHANGED <<family, used, clocks, blacklist, browser>>

\* Mutant of Blacklist: the sign of ttl is mistaken.
BlacklistExpired(r) ==
    /\ At(r, "blacklist")
    /\ blacklist' = blacklist \cup ({req[r].bearer} \cap stale)
    /\ Goto(r, "cleared")
    /\ UNCHANGED <<rows, clocks, browser>>

Blacklist(r) ==
    /\ At(r, "blacklist")
    /\ blacklist' = blacklist \cup ({req[r].bearer} \ stale)
    /\ Goto(r, "cleared")
    /\ UNCHANGED <<rows, clocks, browser>>

-----------------------------------------------------------------------------
(* Time and failures.                                                      *)

\* A token that nobody holds expires unseen.
Held(t) ==
    \/ t = jar
    \/ \E tab \in Tab : access[tab] = t
    \/ \E r \in Request : req[r] # Idle /\ t \in {req[r].bearer, req[r].cookie}

Expire(t) ==
    /\ Held(t)
    /\ \/ stale' = stale \cup {t} /\ UNCHANGED expired
       \/ expired' = expired \cup {t} /\ UNCHANGED stale
    /\ UNCHANGED <<rows, blacklist, browser, req>>

\* An await rejects or the process ends, and the browser gets a 5xx; a 429
\* of the gateway is the same at the first step.  For a refresh the client
\* makes no difference between this and a refusal.
ServerError(r) ==
    /\ "error" \in Faults
    /\ req[r] # Idle
    /\ req[r].pc \in ServerStep
    /\ IF req[r].pc \in {"read", "family", "save", "insert"} /\ req[r].kind # "login"
       THEN Goto(r, "refused") /\ UNCHANGED access
       ELSE Leave(r)
    /\ UNCHANGED <<rows, clocks, blacklist, jar>>

\* The answer does not arrive: fetch throws.
LoseAnswer(r) ==
    /\ "lost" \in Faults
    /\ req[r] # Idle
    /\ req[r].pc \in ClientStep
    /\ Leave(r)
    /\ UNCHANGED <<rows, clocks, blacklist, jar>>

-----------------------------------------------------------------------------
Progress(r) ==
    \/ Unauthorized(r) \/ RefreshFailed(r) \/ Granted(r) \/ Cleared(r)
    \/ Guard(r) \/ CheckPassword(r) \/ ReadToken(r) \/ RevokeFamily(r) \/ SaveUsed(r)
    \/ InsertToken(r) \/ RevokeCookie(r) \/ Blacklist(r)

Next ==
    \/ \E r \in Request :
        \/ Progress(r)
        \/ \E kind \in {"data", "logout"} : Call(r, kind)
        \/ Load(r) \/ Login(r)
        \/ ServerError(r) \/ LoseAnswer(r)
    \/ \E t \in Token : Expire(t)

\* The server's and the browser's event loops serve what has resolved.
Fairness == \A r \in Request : WF_vars(Progress(r))

Spec == Init /\ [][Next]_vars
FairSpec == Spec /\ Fairness

-----------------------------------------------------------------------------
(* Properties *)

\* The row can be exchanged for a new token (until it expires).
Live(t) == family[t] # None /\ t \notin used /\ t \notin revoked

\* A login has at most one refresh token that can be exchanged, whatever
\* fails or gets lost between the save of used, the insert and the arrival
\* of the answer, while the browser's requests do not overlap.
OneLiveToken ==
    \A s, t \in Token :
        (Live(s) /\ Live(t) /\ family[s] = family[t]) => s = t

\* When a logout is answered, what the tab and the cookie jar held until
\* then is of no use any more, although the call may have been refused,
\* refreshed and repeated with other tokens than it began with.
LogoutEndsSession ==
    [][\A r \in Request : Cleared(r) =>
           /\ jar = None \/ ~Live(jar)
           /\ ~Accepted(access[Home[r]])]_vars

\* Every request ends, with its retry, its refresh and their failures.
RequestsEnd == \A r \in Request : req[r] # Idle ~> req[r] = Idle

\* The tokens of a login form the chain that SessionChain describes: its
\* session never comes to life again, however its last exchange went wrong.
Rotating(f) ==
    \E r \in Request :
        At(r, "insert") /\ req[r].kind # "login" /\ family[req[r].cookie] = f
Phase ==
    [f \in Token |->
        CASE family[f] # f -> "none"
          [] \E t \in Token : family[t] = f /\ Live(t) -> "live"
          [] Rotating(f) -> "rotating"
          [] OTHER -> "dead"]
Chain == INSTANCE SessionChain WITH Family <- Token, phase <- Phase
ImplementsChain == Chain!Spec

\* IdentityService.ts:150, "A used token being replayed is an unambiguous
\* theft signal": a browser whose answers all arrive never sends it.
ReuseMeansTheft == \A r \in Request : ~At(r, "family")
=============================================================================
