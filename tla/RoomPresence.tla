---------------------------- MODULE RoomPresence ----------------------------
(***************************************************************************)
(* How the seconds are counted that decide whether an interviewer is paid: *)
(* the room page in the interviewer's browser, its requests on their way   *)
(* to the server, and the InterviewSession row they update.                *)
(*                                                                         *)
(* BookingLifecycle leaves open whether the recorded presence reaches half *)
(* of the session; here it is computed.  The token view is one step; its   *)
(* stale read of the booking is in BookingLifecycle.                       *)
(***************************************************************************)
EXTENDS Integers

CONSTANTS
    None,
    Start, End,      \* the booking's hours
    EarlyJoin,       \* EARLY_JOIN_MINUTES
    LateJoin,        \* LATE_JOIN_MINUTES
    NoShowTimeout,   \* NO_SHOW_TIMEOUT_MINUTES
    Horizon,         \* bound: the clock stops here
    MaxLoads,        \* bound: how often the page is opened
    MaxLeaves        \* bound: how often "Leave" is pressed

ASSUME PresenceAssumption ==
    /\ None \notin Nat
    /\ Start \in Nat /\ End \in Nat
    /\ EarlyJoin \in Nat /\ LateJoin \in Nat /\ NoShowTimeout \in Nat
    /\ Horizon \in Nat /\ MaxLoads \in Nat /\ MaxLeaves \in Nat

VARIABLES
    now,
    page,            \* the interviewer's browser
    loads, leaves,   \* how often the page was opened, "Leave" pressed
    connects,        \* page loads whose token request is under way
    disconnects,     \* disconnect notices under way
    session,         \* InterviewSession.status
    candidate,       \* candidate_connected_at is set
    connected_at,    \* interviewer_connected_at
    disconnected_at, \* interviewer_disconnected_at
    total_seconds,   \* interviewer_total_seconds
    settlement,      \* what the end of the session decided
    present,         \* history: scheduled time really spent in the call
    believed,        \* history: time during which the row said "online"
    repeated         \* history: connects while online, disconnects while not

browser == <<page, loads, leaves>>
row == <<session, candidate, connected_at, disconnected_at, total_seconds, settlement>>
history == <<present, believed, repeated>>
vars == <<now, browser, connects, disconnects, row, history>>

-----------------------------------------------------------------------------
(* The page *)

Lobby == {"lobby", "lobby_finish"}     \* without and with a Finish button
Page == {"closed", "loading", "call"} \cup Lobby

\* The interview page is opened; it asks for a token at once.
Load ==
    /\ page = "closed" /\ loads < MaxLoads
    /\ page' = "loading" /\ loads' = loads + 1
    /\ connects' = connects \cup {loads + 1}
    /\ UNCHANGED <<now, leaves, disconnects, row, history>>

\* "Join" enters the call with the token of the page load; the server is
\* not told, not even after a "Leave".
Join ==
    /\ page \in Lobby
    /\ page' = "call"
    /\ UNCHANGED <<now, loads, leaves, connects, disconnects, row, history>>

\* "Leave" goes back to the lobby and sends a notice.
Leave ==
    /\ page = "call" /\ leaves < MaxLeaves
    /\ page' = "lobby_finish" /\ leaves' = leaves + 1
    /\ disconnects' = disconnects + 1
    /\ UNCHANGED <<now, loads, connects, row, history>>

\* The page is closed with n notices: none when the tab is closed or
\* reloaded, one from the unmount effect, one more from a handler.
Close(n) ==
    /\ page' = "closed"
    /\ disconnects' = disconnects + n
    /\ UNCHANGED <<now, loads, leaves, connects, row, history>>

CloseTab == page # "closed" /\ Close(0)
NavigateAway == page # "closed" /\ Close(1)
FinishConfirmed == page \in {"call", "lobby_finish"} /\ Close(2)
AutoLeave == page = "call" /\ End <= now /\ Close(2)

-----------------------------------------------------------------------------
(* The server *)

Online == connected_at # None /\ disconnected_at = None
Open == session \in {"CREATED", "LIVE"}
MayJoin ==
    /\ Start <= now + EarlyJoin
    /\ now <= End + LateJoin
    /\ session = "ABSENT" \/ Open

\* Mutant: only the first token request is recorded as a connect.
ConnectedOnce == IF connected_at = None THEN now ELSE connected_at

ConnectTime == now

\* GET token/: the page moves on when the answer is positive.  A connect
\* overwrites the previous one, whether or not it was ever closed.
TokenRequest(load) ==
    /\ connects' = connects \ {load}
    /\ \/ /\ MayJoin
          /\ session' = IF candidate THEN "LIVE" ELSE "CREATED"
          /\ connected_at' = ConnectTime
          /\ disconnected_at' = None
          /\ page' = IF page # "loading" \/ load # loads THEN page
                     ELSE IF connected_at = None THEN "lobby" ELSE "lobby_finish"
          /\ repeated' = IF Online THEN repeated \cup {"connect"} ELSE repeated
       \/ /\ ~MayJoin
          /\ UNCHANGED <<session, connected_at, disconnected_at, page, repeated>>
    /\ UNCHANGED <<now, loads, leaves, disconnects, candidate, total_seconds,
                   settlement, present, believed>>

CandidateConnects ==
    /\ MayJoin
    /\ candidate' = TRUE
    /\ session' = IF connected_at # None THEN "LIVE" ELSE "CREATED"
    /\ UNCHANGED <<now, browser, connects, disconnects, connected_at,
                   disconnected_at, total_seconds, settlement, history>>

\* Mutant: a room that has ended still counts.
CountsAlways == session # "ABSENT"

CountsDisconnects == Open

\* handle_disconnect adds the time since the last connect, also when a
\* notice for that connect was counted before.
Disconnect ==
    /\ disconnects > 0
    /\ disconnects' = disconnects - 1
    /\ \/ /\ CountsDisconnects
          /\ total_seconds' = IF connected_at = None THEN total_seconds
                              ELSE total_seconds + (now - connected_at)
          /\ disconnected_at' = now
          /\ repeated' = IF connected_at # None /\ ~Online
                         THEN repeated \cup {"disconnect"} ELSE repeated
       \/ /\ ~CountsDisconnects
          /\ UNCHANGED <<total_seconds, disconnected_at, repeated>>
    /\ UNCHANGED <<now, browser, connects, session, candidate, connected_at,
                   settlement, present, believed>>

\* Requests may fail on their way; the page logs it and goes on.
LoseRequest ==
    /\ \/ /\ \E load \in connects : connects' = connects \ {load}
          /\ UNCHANGED disconnects
       \/ disconnects > 0 /\ disconnects' = disconnects - 1 /\ UNCHANGED connects
    /\ UNCHANGED <<now, browser, row, history>>

Minimum == (End - Start) \div 2

\* Mutant: whoever is still online is not counted.
NotFlushed == total_seconds

\* Those still online are counted up to now.
Flushed == IF Online THEN total_seconds + (now - connected_at) ELSE total_seconds

\* check_session_end_by_time and settle_session_payment, for a booking whose
\* payment is pending and whose tokens are there.
EndByTime ==
    /\ session = "LIVE"
    /\ End <= now
    /\ session' = "ENDED"
    /\ total_seconds' = Flushed
    /\ settlement' = IF total_seconds' >= Minimum THEN "AWAITING_EVALUATION" ELSE "REFUND"
    /\ UNCHANGED <<now, browser, connects, disconnects, candidate, connected_at,
                   disconnected_at, history>>

NoShow ==
    /\ session = "CREATED"
    /\ Start + NoShowTimeout <= now
    /\ session' = "NO_SHOW"
    /\ settlement' = "REFUND"
    /\ UNCHANGED <<now, browser, connects, disconnects, candidate, connected_at,
                   disconnected_at, total_seconds, history>>

Tick ==
    /\ now < Horizon
    /\ now' = now + 1
    /\ present' = IF page = "call" /\ Start <= now /\ now < End
                  THEN present + 1 ELSE present
    /\ believed' = IF Online /\ Open THEN believed + 1 ELSE believed
    /\ UNCHANGED <<browser, connects, disconnects, row, repeated>>

-----------------------------------------------------------------------------
(* Specification *)

Init ==
    /\ now = 0
    /\ page = "closed" /\ loads = 0 /\ leaves = 0
    /\ connects = {} /\ disconnects = 0
    /\ session = "ABSENT" /\ candidate = FALSE
    /\ connected_at = None /\ disconnected_at = None
    /\ total_seconds = 0 /\ settlement = "PENDING"
    /\ present = 0 /\ believed = 0 /\ repeated = {}

Browser == Load \/ Join \/ Leave \/ CloseTab \/ NavigateAway
           \/ FinishConfirmed \/ AutoLeave
Server == \/ \E load \in connects : TokenRequest(load)
          \/ CandidateConnects \/ Disconnect \/ EndByTime \/ NoShow

Next == Browser \/ Server \/ LoseRequest \/ Tick

Spec == Init /\ [][Next]_vars

-----------------------------------------------------------------------------
(* Correctness *)

TypeOK ==
    /\ now \in Nat
    /\ page \in Page /\ loads \in Nat /\ leaves \in Nat
    /\ connects \subseteq Nat /\ disconnects \in Nat
    /\ session \in {"ABSENT", "CREATED", "LIVE", "ENDED", "NO_SHOW"}
    /\ candidate \in BOOLEAN
    /\ connected_at \in Nat \cup {None}
    /\ disconnected_at \in Nat \cup {None}
    /\ total_seconds \in Nat
    /\ settlement \in {"PENDING", "AWAITING_EVALUATION", "REFUND"}
    /\ present \in Nat /\ believed \in Nat
    /\ repeated \subseteq {"connect", "disconnect"}

\* The recorded seconds, with those of an open interval, are what the row
\* itself saw: too many only after a second notice for one connect, too few
\* only after a second connect without a notice.  Losing or reordering
\* requests between server and page cannot disturb this.
Counted == IF Online /\ session # "ENDED" THEN total_seconds + (now - connected_at)
           ELSE total_seconds
CountedAsSeen ==
    session # "NO_SHOW" =>
        /\ "disconnect" \notin repeated => Counted <= believed
        /\ "connect" \notin repeated => Counted >= believed

\* An interviewer who opens the page once and does not leave before the
\* session is over is refunded only when the call was too short for half of
\* the session, wherever the cleanup job meets the requests of the page.
SteadyPresenceCounts ==
    session = "ENDED" /\ settlement = "REFUND" /\ loads = 1 /\ page = "call" /\ leaves = 0
        => present < Minimum

\* What a session ended with is not changed by a notice that comes late.
CountFinal ==
    [][session = "ENDED" => total_seconds' = total_seconds]_vars

=============================================================================
