------------------------------ MODULE Realtime ------------------------------
(***************************************************************************)
(* How a tab learns of what became of its user's money: the notifications  *)
(* queue, NotificationWorker, the rooms of RealtimeGateway, useSocket, and *)
(* the balance that useWallet fetches again.  A balance is the set of the  *)
(* postings made before it was read: what counts is which came later.      *)
(***************************************************************************)
EXTENDS Naturals, FiniteSets

CONSTANTS
    Won,            \* bets of the tab's user that a settlement pays
    Own,            \* deposits and stakes that the tab itself asks for
    Prefetch,       \* messages a consumer may hold without having acknowledged them
    MaxLosses,      \* bound on the consumer channels lost
    Faults          \* which of "network", "channel" and "error" may happen

Posting == Won \cup Own

ASSUME RealtimeAssumption ==
    /\ Won \cap Own = {}
    /\ Prefetch \in Nat \ {0}
    /\ MaxLosses \in Nat

VARIABLES
    posted,     \* postings in the wallet
    passed,     \* won bets whose turn in settle() is over
    queue,      \* messages in the notifications queue
    unacked,    \* messages pushed and not yet acknowledged at the broker
    losses,     \* channels lost so far
    conn,       \* how far the tab's socket has come
    wire,       \* events on their way to the tab
    signedIn,   \* the tab has an access token
    expired,    \* the token in the socket's handshake is past exp
    revoked,    \* that token is blacklisted
    answers,    \* own postings whose answer is on its way
    fetch,      \* how far the balance query has come
    got,        \* postings made before it read
    loaded,     \* there is a balance in the cache
    shown,      \* postings made before it was read
    missed,     \* announced since the last read, without leading to another one
    toasted     \* what the tab has announced since it signed in

broker == <<passed, queue, unacked, losses>>
socket == <<conn, wire, signedIn, expired, revoked>>
query == <<fetch, got, loaded, shown, missed>>
tab == <<answers, query, toasted>>
vars == <<posted, broker, socket, tab>>

\* "outside" is connected without being in the room; "waiting" is the delay
\* before a reconnection; "off" stays off until useSocket makes a new socket.
SocketStep == {"off", "waiting", "verify", "lookup", "join", "room", "outside"}
QueryStep == {"none", "sent", "read", "fresh", "stale", "failed"}

TypeOK ==
    /\ posted \subseteq Posting
    /\ passed \subseteq Won /\ queue \subseteq Won /\ unacked \subseteq Won
    /\ losses \in 0..MaxLosses
    /\ conn \in SocketStep
    /\ wire \subseteq Won
    /\ signedIn \in BOOLEAN /\ expired \in BOOLEAN /\ revoked \in BOOLEAN
    /\ ~signedIn => conn = "off"
    /\ wire # {} => conn = "room"
    /\ answers \subseteq Own
    /\ fetch \in QueryStep
    /\ got \subseteq posted /\ shown \subseteq posted
    /\ loaded \in BOOLEAN
    /\ missed \subseteq toasted
    /\ toasted \subseteq Posting

Init ==
    /\ posted = {}
    /\ passed = {} /\ queue = {} /\ unacked = {} /\ losses = 0
    /\ conn = "off" /\ wire = {}
    /\ signedIn = FALSE /\ expired = FALSE /\ revoked = FALSE
    /\ answers = {}
    /\ fetch = "none" /\ got = {} /\ loaded = FALSE /\ shown = {} /\ missed = {}
    /\ toasted = {}

-----------------------------------------------------------------------------
(* The wallet and settle().                                                *)

\* settle() credits the payout and closes the bet before it notifies.
Credit(b) ==
    /\ b \notin posted
    /\ posted' = posted \cup {b}
    /\ UNCHANGED <<broker, socket, tab>>

\* Mutant of Notify: the user is told before the payout is posted.
NotifyEarly(b) ==
    /\ b \notin passed
    /\ passed' = passed \cup {b}
    /\ queue' = queue \cup {b}
    /\ UNCHANGED <<posted, unacked, losses, socket, tab>>

Notify(b) ==
    /\ b \in posted \ passed
    /\ passed' = passed \cup {b}
    /\ queue' = queue \cup {b}
    /\ UNCHANGED <<posted, unacked, losses, socket, tab>>

\* The publication fails, or the process stops in front of it: nobody repeats it.
NotifyError(b) ==
    /\ "error" \in Faults
    /\ b \in posted \ passed
    /\ passed' = passed \cup {b}
    /\ UNCHANGED <<posted, queue, unacked, losses, socket, tab>>

-----------------------------------------------------------------------------
(* The notifications queue and NotificationWorker.                         *)

\* The handler pushes to whoever is in the room and acknowledges.
Deliver(b) ==
    /\ b \in queue
    /\ Cardinality(unacked) < Prefetch
    /\ queue' = queue \ {b}
    /\ unacked' = unacked \cup {b}
    /\ wire' = IF conn = "room" THEN wire \cup {b} ELSE wire
    /\ UNCHANGED <<posted, passed, losses, conn, signedIn, expired, revoked, tab>>

\* Mutant of Acknowledged: only what somebody has received is acknowledged.
AcknowledgedIfSeen(b) ==
    /\ b \in unacked \cap toasted
    /\ unacked' = unacked \ {b}
    /\ UNCHANGED <<posted, passed, queue, losses, socket, tab>>

\* The ack reaches the broker.
Acknowledged(b) ==
    /\ b \in unacked
    /\ unacked' = unacked \ {b}
    /\ UNCHANGED <<posted, passed, queue, losses, socket, tab>>

LoseChannel ==
    /\ "channel" \in Faults
    /\ losses < MaxLosses
    /\ losses' = losses + 1
    /\ queue' = queue \cup unacked
    /\ unacked' = {}
    /\ UNCHANGED <<posted, passed, socket, tab>>

-----------------------------------------------------------------------------
(* The balance query of useWallet.                                         *)

Fetching == fetch \in {"sent", "read"}

\* p is announced, and invalidateQueries called: an active query starts anew,
\* and what the one under way brings is ignored, unless there is no balance
\* yet: the first answer then stands.  Without an observer it is only marked.
Announce(p) ==
    /\ toasted' = toasted \cup {p}
    /\ IF signedIn /\ (loaded \/ ~Fetching)
       THEN fetch' = "sent" /\ got' = {} /\ UNCHANGED missed
       ELSE /\ fetch' = (IF fetch = "fresh" THEN "stale" ELSE fetch)
            /\ missed' = (IF Fetching THEN missed \cup {p} ELSE missed)
            /\ UNCHANGED got
    /\ UNCHANGED <<loaded, shown>>

\* getBalance reads the replica, which may lag behind what has been posted.
ReadBalance ==
    /\ fetch = "sent"
    /\ fetch' = "read"
    /\ got' = posted /\ missed' = {}
    /\ UNCHANGED <<posted, broker, socket, answers, loaded, shown, toasted>>

ShowBalance ==
    /\ fetch = "read"
    /\ fetch' = "fresh"
    /\ shown' = got /\ got' = {} /\ loaded' = TRUE
    /\ UNCHANGED <<posted, broker, socket, answers, missed, toasted>>

\* Every retry has failed; the balance that was shown stays.
FetchFails ==
    /\ "network" \in Faults
    /\ Fetching
    /\ fetch' = "failed" /\ got' = {}
    /\ UNCHANGED <<posted, broker, socket, answers, loaded, shown, missed, toasted>>

\* The window gets the focus or a page is opened after the 30 s of staleTime.
Refetch ==
    /\ signedIn
    /\ fetch \in {"fresh", "stale", "failed"}
    /\ fetch' = "sent"
    /\ UNCHANGED <<posted, broker, socket, answers, got, loaded, shown, missed, toasted>>

-----------------------------------------------------------------------------
(* What the tab announces.                                                 *)

\* bet:settled arrives.
Arrive(b) ==
    /\ b \in wire
    /\ wire' = wire \ {b}
    /\ Announce(b)
    /\ UNCHANGED <<posted, broker, conn, signedIn, expired, revoked, answers>>

\* The tab deposits or stakes, and the service commits.
Ask(d) ==
    /\ signedIn
    /\ d \notin posted
    /\ posted' = posted \cup {d}
    /\ answers' = answers \cup {d}
    /\ UNCHANGED <<broker, socket, query, toasted>>

Answered(d) ==
    /\ d \in answers
    /\ answers' = answers \ {d}
    /\ Announce(d)
    /\ UNCHANGED <<posted, broker, socket>>

\* The answer is lost: the tab says that it failed, and fetches nothing.
AnswerLost(d) ==
    /\ "network" \in Faults
    /\ d \in answers
    /\ answers' = answers \ {d}
    /\ UNCHANGED <<posted, broker, socket, query, toasted>>

-----------------------------------------------------------------------------
(* The session of the tab and its socket.                                  *)

\* useSocket closes the socket it had and makes one with the new token.
NewSocket ==
    /\ conn' = "verify"
    /\ wire' = {}
    /\ expired' = FALSE /\ revoked' = FALSE

\* Mutant of NoSocket: the effect has no cleanup.
KeepSocket == UNCHANGED <<conn, wire>> /\ expired' = FALSE /\ revoked' = FALSE

NoSocket ==
    /\ conn' = "off"
    /\ wire' = {}
    /\ expired' = FALSE /\ revoked' = FALSE

\* A page of the dashboard is mounted.  A balance in the cache is shown, and
\* fetched again unless it is fresh; a query under way is joined.
SignIn ==
    /\ ~signedIn
    /\ signedIn' = TRUE
    /\ NewSocket
    /\ toasted' = {} /\ missed' = {}
    /\ \/ (Fetching \/ fetch = "fresh") /\ UNCHANGED fetch
       \/ ~Fetching /\ fetch' = "sent"
    /\ UNCHANGED <<posted, broker, answers, got, loaded, shown>>

\* A 401 has made client.ts refresh the session: the token changes.
Renew ==
    /\ signedIn
    /\ expired
    /\ ~revoked
    /\ NewSocket
    /\ UNCHANGED <<posted, broker, signedIn, tab>>

\* ... or has not: client.ts clears the credentials and leaves the cache.
Lapse ==
    /\ signedIn
    /\ signedIn' = FALSE
    /\ NoSocket
    /\ UNCHANGED <<posted, broker, tab>>

Logout ==
    /\ signedIn
    /\ ~revoked
    /\ revoked' = TRUE
    /\ UNCHANGED <<posted, broker, conn, wire, signedIn, expired, tab>>

\* The call of useAuth's logout is over, whatever came of it: the query and
\* its data are removed.
SignOut ==
    /\ signedIn
    /\ signedIn' = FALSE
    /\ NoSocket
    /\ fetch' = "none" /\ got' = {} /\ loaded' = FALSE /\ shown' = {} /\ missed' = {}
    /\ UNCHANGED <<posted, broker, answers, toasted>>

ExpireToken ==
    /\ signedIn
    /\ ~expired
    /\ expired' = TRUE
    /\ UNCHANGED <<posted, broker, conn, wire, signedIn, revoked, tab>>

Moves(to) == conn' = to /\ UNCHANGED <<posted, broker, wire, signedIn, expired, revoked, tab>>

\* handleConnection: a socket that the server disconnects does not come back.
VerifyToken == conn = "verify" /\ Moves(IF expired THEN "off" ELSE "lookup")
LookBlacklist == conn = "lookup" /\ Moves(IF revoked THEN "off" ELSE "join")
Join == conn = "join" /\ Moves("room")

\* The lookup or the join rejects: the socket is left connected.
HandshakeError == "error" \in Faults /\ conn \in {"lookup", "join"} /\ Moves("outside")

\* The connection or the API process is lost, and comes back with the token
\* that the socket was made with.
Disconnect ==
    /\ "network" \in Faults
    /\ conn \notin {"off", "waiting"}
    /\ conn' = "waiting"
    /\ wire' = {}
    /\ UNCHANGED <<posted, broker, signedIn, expired, revoked, tab>>

Reconnect == conn = "waiting" /\ Moves("verify")

-----------------------------------------------------------------------------
Settlement == \E b \in Won : Credit(b) \/ Notify(b) \/ NotifyError(b)
Queue == LoseChannel \/ \E b \in Won : Deliver(b) \/ Acknowledged(b)
Balance == ReadBalance \/ ShowBalance \/ FetchFails \/ Refetch
Announcements ==
    \/ \E b \in Won : Arrive(b)
    \/ \E d \in Own : Ask(d) \/ Answered(d) \/ AnswerLost(d)
Session == SignIn \/ Renew \/ Lapse \/ Logout \/ SignOut \/ ExpireToken
Handshake ==
    VerifyToken \/ LookBlacklist \/ Join \/ HandshakeError \/ Disconnect \/ Reconnect

Next == Settlement \/ Queue \/ Balance \/ Announcements \/ Session \/ Handshake

Fairness ==
    \A b \in Won :
        /\ WF_vars(Deliver(b))
        /\ WF_vars(Acknowledged(b))
        /\ WF_vars(Arrive(b))

Spec == Init /\ [][Next]_vars
FairSpec == Spec /\ Fairness

-----------------------------------------------------------------------------
(* Properties *)

\* useSocket.ts:91, "Refresh wallet balance and bets list so the UI reflects
\* the new state": the balance was read after everything that was announced
\* had been posted, however announcements, lost connections and the answers
\* of earlier queries interleave, but for what is announced while the first
\* balance is on its way (missed).  What else it may lack, the replica lacked.
BalanceCoversToasts ==
    (signedIn /\ fetch = "fresh") => toasted \ missed \subseteq shown

\* A settlement in the queue is announced to a tab that is in the room and
\* stays in it: also when the channel is lost after the push or before it, and
\* when messages before it found nobody to receive them.
SettlementShown ==
    \A b \in Won : (b \in queue /\ conn = "room") ~> (b \in toasted \/ conn # "room")
=============================================================================
