--------------------------- MODULE RealtimeProofs ---------------------------
(* Realtime for any numbers of settlements and postings, and any prefetch: *)
(* types, what a balance covers, and what a tab in its room hears of.      *)
EXTENDS Realtime, TLAPS

USE DEF broker, socket, query, tab, Posting, Fetching

LEMMA SettlementType == TypeOK /\ Settlement => TypeOK'
    BY DEF TypeOK, Settlement, Credit, Notify, NotifyError

LEMMA QueueType == TypeOK /\ Queue => TypeOK'
<1>1. ASSUME TypeOK, LoseChannel PROVE TypeOK'
    <2>1. losses' \in 0..MaxLosses
        BY <1>1, RealtimeAssumption DEF TypeOK, LoseChannel
    <2> QED
        BY <1>1, <2>1 DEF TypeOK, LoseChannel
<1>2. ASSUME TypeOK, NEW b \in Won, Deliver(b) \/ Acknowledged(b) PROVE TypeOK'
    BY <1>2 DEF TypeOK, Deliver, Acknowledged
<1> QED
    BY <1>1, <1>2 DEF Queue

LEMMA BalanceType == TypeOK /\ Balance => TypeOK'
    BY DEF TypeOK, Balance, ReadBalance, ShowBalance, FetchFails, Refetch, QueryStep

LEMMA AnnouncementType == TypeOK /\ Announcements => TypeOK'
<1>1. ASSUME TypeOK, NEW b \in Won, Arrive(b) PROVE TypeOK'
    BY <1>1 DEF TypeOK, Arrive, Announce, QueryStep
<1>2. ASSUME TypeOK, NEW d \in Own, Ask(d) \/ AnswerLost(d) PROVE TypeOK'
    BY <1>2 DEF TypeOK, Ask, AnswerLost
<1>3. ASSUME TypeOK, NEW d \in Own, Answered(d) PROVE TypeOK'
    BY <1>3 DEF TypeOK, Answered, Announce, QueryStep
<1> QED
    BY <1>1, <1>2, <1>3 DEF Announcements

LEMMA SessionType == TypeOK /\ Session => TypeOK'
<1> USE DEF TypeOK, NewSocket, NoSocket, SocketStep, QueryStep
<1>1. TypeOK /\ SignIn => TypeOK'
    BY DEF SignIn
<1>2. TypeOK /\ (Renew \/ Lapse \/ Logout) => TypeOK'
    BY DEF Renew, Lapse, Logout
<1>3. TypeOK /\ (SignOut \/ ExpireToken) => TypeOK'
    BY DEF SignOut, ExpireToken
<1> QED
    BY <1>1, <1>2, <1>3 DEF Session

LEMMA HandshakeType == TypeOK /\ Handshake => TypeOK'
    BY DEF TypeOK, Handshake, VerifyToken, LookBlacklist, Join, HandshakeError, Disconnect,
           Reconnect, Moves, SocketStep

LEMMA NextType == TypeOK /\ [Next]_vars => TypeOK'
<1>1. TypeOK /\ UNCHANGED vars => TypeOK'
    BY DEF TypeOK, vars
<1> QED
    BY <1>1, SettlementType, QueueType, BalanceType, AnnouncementType, SessionType,
       HandshakeType DEF Next

\* A tab without a session has no socket, and events are on their way only to
\* a socket that is in the room.
THEOREM RealtimeTypeCorrect == Spec => []TypeOK
<1>1. ASSUME Init PROVE TypeOK
    <2>1. 0 \in 0..MaxLosses
        BY RealtimeAssumption
    <2> QED
        BY <1>1, <2>1 DEF Init, TypeOK, SocketStep, QueryStep
<1> QED
    BY <1>1, NextType, PTL DEF Spec

-----------------------------------------------------------------------------
\* What is announced, or is going to be, has been posted; and a query that
\* has read has read it.
CoverInv ==
    /\ passed \cup queue \cup unacked \cup wire \cup answers \cup toasted \subseteq posted
    /\ (signedIn /\ fetch = "read") => toasted \ missed \subseteq got
    /\ BalanceCoversToasts

LEMMA CoverNext == CoverInv /\ [Next]_vars => CoverInv'
<1> USE DEF CoverInv, BalanceCoversToasts
<1>1. CoverInv /\ Settlement => CoverInv'
    BY DEF Settlement, Credit, Notify, NotifyError
<1>2. CoverInv /\ Queue => CoverInv'
    BY DEF Queue, LoseChannel, Deliver, Acknowledged
<1>3. CoverInv /\ Balance => CoverInv'
    BY DEF Balance, ReadBalance, ShowBalance, FetchFails, Refetch
<1>4. CoverInv /\ Announcements => CoverInv'
    BY DEF Announcements, Arrive, Ask, Answered, AnswerLost, Announce
<1>5. CoverInv /\ Session => CoverInv'
    BY DEF Session, SignIn, Renew, Lapse, Logout, SignOut, ExpireToken, NewSocket, NoSocket
<1>6. CoverInv /\ Handshake => CoverInv'
    BY DEF Handshake, VerifyToken, LookBlacklist, Join, HandshakeError, Disconnect,
           Reconnect, Moves
<1>7. CoverInv /\ UNCHANGED vars => CoverInv'
    BY DEF vars
<1> QED
    BY <1>1, <1>2, <1>3, <1>4, <1>5, <1>6, <1>7 DEF Next

\* A balance that a tab shows as fresh was read after everything the tab has
\* announced was posted: whatever is announced while a query is under way, and
\* however often connections are lost and sessions begin anew.
THEOREM BalanceIsNotOlder == Spec => []BalanceCoversToasts
<1>1. Init => CoverInv
    BY DEF Init, CoverInv, BalanceCoversToasts
<1>2. CoverInv => BalanceCoversToasts
    BY DEF CoverInv
<1> QED
    BY <1>1, <1>2, CoverNext, PTL DEF Spec

\* Nothing is announced to the user that has not been posted, and nothing is
\* queued or on its way that will be.
NewsIsTrue == queue \cup unacked \cup wire \cup answers \cup toasted \subseteq posted

\* No toast speaks of money that is not there, however late, often or to
\* whichever session its message is delivered.
THEOREM NewsIsPosted == Spec => []NewsIsTrue
<1>1. Init => CoverInv
    BY DEF Init, CoverInv, BalanceCoversToasts
<1>2. CoverInv => NewsIsTrue
    BY DEF CoverInv, NewsIsTrue
<1> QED
    BY <1>1, <1>2, CoverNext, PTL DEF Spec

-----------------------------------------------------------------------------
\* The settlements that a tab in the room is going to hear of, or has heard of.
Heard == queue \cup wire \cup toasted

\* While the tab stays in the room, none of them gets lost.
RoomKeepsHeard == (conn = "room" /\ conn' = "room") => Heard \subseteq Heard'

LEMMA RoomKeeps == TypeOK /\ [Next]_vars => RoomKeepsHeard
<1> SUFFICES ASSUME TypeOK, [Next]_vars, conn = "room", conn' = "room"
             PROVE  Heard \subseteq Heard'
    BY DEF RoomKeepsHeard
<1> USE DEF Heard
<1>1. CASE Settlement
    BY <1>1 DEF Settlement, Credit, Notify, NotifyError
\* What is taken off the queue is put on the wire.
<1>2. CASE Queue
    BY <1>2 DEF Queue, LoseChannel, Deliver, Acknowledged
<1>3. CASE Balance
    BY <1>3 DEF Balance, ReadBalance, ShowBalance, FetchFails, Refetch
<1>4. CASE Announcements
    BY <1>4 DEF Announcements, Arrive, Ask, Answered, AnswerLost, Announce
\* The list of toasts begins anew only for a tab without a socket.
<1>5. CASE Session
    BY <1>5 DEF Session, SignIn, Renew, Lapse, Logout, SignOut, ExpireToken, NewSocket,
                NoSocket, TypeOK
<1>6. CASE Handshake
    BY <1>6 DEF Handshake, VerifyToken, LookBlacklist, Join, HandshakeError, Disconnect,
                Reconnect, Moves
<1>7. CASE UNCHANGED vars
    BY <1>7 DEF vars
<1> QED
    BY <1>1, <1>2, <1>3, <1>4, <1>5, <1>6, <1>7 DEF Next

\* A settlement in the queue stays on its way to a tab in the room, or has
\* been announced there, until the tab leaves the room: whatever channel is
\* lost and whichever messages find nobody.  This is what SettlementShown
\* rests on besides the fairness of the worker and the connection.
THEOREM RoomLosesNothing == Spec => [][RoomKeepsHeard]_vars
<1>1. TypeOK /\ [Next]_vars => [RoomKeepsHeard]_vars
    BY RoomKeeps
<1> QED
    BY <1>1, RealtimeTypeCorrect, PTL DEF Spec
=============================================================================
