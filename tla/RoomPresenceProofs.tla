------------------------- MODULE RoomPresenceProofs -------------------------
(***************************************************************************)
(* For every session length, every number of page loads and every loss and *)
(* delay of their requests: the presence columns are well typed and count  *)
(* what the row saw, as long as connects and notices alternate.            *)
(***************************************************************************)
EXTENDS RoomPresence, TLAPS

\* What the columns say about each other: nobody connects in the future,
\* and a row that was never created has seen nobody.
RowInv ==
    /\ connected_at # None => connected_at <= now
    /\ session = "ABSENT" => connected_at = None

LEMMA InitOK == Init => TypeOK /\ RowInv /\ CountedAsSeen
<1>. SUFFICES ASSUME Init PROVE TypeOK /\ RowInv /\ CountedAsSeen
  OBVIOUS
<1>. USE DEF Init
<1>1. TypeOK
  BY DEF TypeOK, Page, Lobby
<1>2. RowInv
  BY DEF RowInv
<1>3. CountedAsSeen
  BY DEF CountedAsSeen, Counted, Online
<1>. QED  BY <1>1, <1>2, <1>3

\* Steps of the browser do not touch the row.
LEMMA BrowserType ==
    ASSUME TypeOK, Browser PROVE TypeOK'
<1>. USE PresenceAssumption DEF PresenceAssumption, TypeOK, Page, Lobby, row, history
<1>1. CASE Load
  BY <1>1 DEF Load
<1>2. CASE Join
  BY <1>2 DEF Join
<1>3. CASE Leave
  BY <1>3 DEF Leave
<1>4. ASSUME NEW n \in Nat, Close(n) PROVE TypeOK'
  BY <1>4 DEF Close
<1>5. CloseTab \/ NavigateAway \/ FinishConfirmed \/ AutoLeave
        => \E n \in Nat : Close(n)
  BY DEF CloseTab, NavigateAway, FinishConfirmed, AutoLeave
<1>. QED  BY <1>1, <1>2, <1>3, <1>4, <1>5 DEF Browser

LEMMA BrowserLeavesRow ==
    ASSUME Browser PROVE UNCHANGED <<now, row, history>>
BY DEF Browser, Load, Join, Leave, CloseTab, NavigateAway, FinishConfirmed,
       AutoLeave, Close

LEMMA ElapsedIsNat ==
    ASSUME TypeOK, RowInv, connected_at # None
    PROVE  now - connected_at \in Nat
BY PresenceAssumption DEF PresenceAssumption, TypeOK, RowInv

LEMMA TypeStep ==
    ASSUME TypeOK, RowInv, [Next]_vars PROVE TypeOK'
<1>. USE PresenceAssumption DEF PresenceAssumption, TypeOK
<1>1. CASE Browser
  BY <1>1, BrowserType
<1>2. ASSUME NEW load \in connects, TokenRequest(load) PROVE TypeOK'
  <2>1. /\ UNCHANGED <<now, loads, leaves, disconnects, candidate, total_seconds,
                        settlement, present, believed>>
        /\ connects' \subseteq Nat
    BY <1>2 DEF TokenRequest
  <2>2. page' \in Page /\ session' \in {"ABSENT", "CREATED", "LIVE", "ENDED", "NO_SHOW"}
    BY <1>2 DEF TokenRequest, Page, Lobby
  <2>3. /\ connected_at' \in Nat \cup {None} /\ disconnected_at' \in Nat \cup {None}
        /\ repeated' \subseteq {"connect", "disconnect"}
    BY <1>2 DEF TokenRequest, ConnectTime
  <2>. QED  BY <2>1, <2>2, <2>3
<1>3. CASE CandidateConnects
  BY <1>3 DEF CandidateConnects, browser, history
<1>4. CASE Disconnect
  <2>1. total_seconds' \in Nat /\ disconnects' \in Nat
    BY <1>4, ElapsedIsNat DEF Disconnect
  <2>2. disconnected_at' \in Nat \cup {None} /\ repeated' \subseteq {"connect", "disconnect"}
    BY <1>4 DEF Disconnect
  <2>. QED  BY <1>4, <2>1, <2>2 DEF Disconnect, browser
<1>5. CASE EndByTime
  <2>1. total_seconds' \in Nat
    BY <1>5, ElapsedIsNat DEF EndByTime, Flushed, Online
  <2>. HIDE DEF TypeOK
  <2>2. settlement' \in {"PENDING", "AWAITING_EVALUATION", "REFUND"}
    BY <1>5 DEF EndByTime
  <2>3. session' \in {"ABSENT", "CREATED", "LIVE", "ENDED", "NO_SHOW"}
    BY <1>5 DEF EndByTime
  <2>4. UNCHANGED <<now, page, loads, leaves, connects, disconnects, candidate,
                    connected_at, disconnected_at, present, believed, repeated>>
    BY <1>5 DEF EndByTime, browser, history
  <2>. QED  BY <2>1, <2>2, <2>3, <2>4 DEF TypeOK
<1>6. CASE NoShow
  BY <1>6 DEF NoShow, browser, history
<1>7. CASE LoseRequest
  <2>1. connects' \subseteq Nat
    BY <1>7 DEF LoseRequest
  <2>2. disconnects' \in Nat
    BY <1>7 DEF LoseRequest
  <2>. QED  BY <1>7, <2>1, <2>2 DEF LoseRequest, browser, row, history
<1>8. CASE Tick
  <2>1. now' \in Nat /\ present' \in Nat /\ believed' \in Nat
    BY <1>8 DEF Tick
  <2>. QED  BY <1>8, <2>1 DEF Tick, browser, row
<1>9. CASE UNCHANGED vars
  BY <1>9 DEF vars, browser, row, history
<1>. QED
  BY <1>1, <1>2, <1>3, <1>4, <1>5, <1>6, <1>7, <1>8, <1>9 DEF Next, Server

LEMMA RowStep ==
    ASSUME TypeOK, RowInv, [Next]_vars PROVE RowInv'
<1>. USE PresenceAssumption DEF PresenceAssumption, TypeOK, RowInv
<1>1. CASE UNCHANGED <<now, row>>
  BY <1>1 DEF row
<1>2. ASSUME NEW load \in connects, TokenRequest(load) PROVE RowInv'
  BY <1>2 DEF TokenRequest, ConnectTime
<1>3. CASE CandidateConnects
  BY <1>3 DEF CandidateConnects
<1>4. CASE Disconnect \/ EndByTime \/ NoShow
  BY <1>4 DEF Disconnect, EndByTime, NoShow
<1>5. CASE Tick
  BY <1>5 DEF Tick, row
<1>6. CASE Browser \/ LoseRequest \/ UNCHANGED vars
  BY <1>6, <1>1, BrowserLeavesRow DEF LoseRequest, vars
<1>. QED  BY <1>2, <1>3, <1>4, <1>5, <1>6 DEF Next, Server

\* A first notice and the end of the session turn the open interval into
\* recorded seconds; only a repeated connect or notice moves the count away
\* from what the row saw, the one down, the other up.
LEMMA CountedStep ==
    ASSUME TypeOK, RowInv, CountedAsSeen, [Next]_vars PROVE CountedAsSeen'
<1>. USE PresenceAssumption DEF PresenceAssumption, TypeOK, RowInv, CountedAsSeen, Counted, Online
<1>1. CASE UNCHANGED <<now, row, history>>
  BY <1>1 DEF row, history
<1>2. ASSUME NEW load \in connects, TokenRequest(load) PROVE CountedAsSeen'
  BY <1>2 DEF TokenRequest, ConnectTime, MayJoin, Open
<1>3. CASE CandidateConnects
  BY <1>3 DEF CandidateConnects, MayJoin, Open, history
<1>4. CASE Disconnect
  BY <1>4, ElapsedIsNat DEF Disconnect, CountsDisconnects, Open
<1>5. CASE EndByTime
  BY <1>5 DEF EndByTime, Flushed, history
<1>6. CASE NoShow
  BY <1>6 DEF NoShow
<1>7. CASE Tick
  BY <1>7 DEF Tick, Open, row
<1>8. CASE Browser \/ LoseRequest \/ UNCHANGED vars
  BY <1>8, <1>1, BrowserLeavesRow DEF LoseRequest, vars
<1>. QED  BY <1>2, <1>3, <1>4, <1>5, <1>6, <1>7, <1>8 DEF Next, Server

\* Every reachable row is well typed: total_seconds, a PositiveIntegerField,
\* never goes negative.
THEOREM PresenceTypeCorrect == Spec => []TypeOK
<1>1. TypeOK /\ RowInv /\ [Next]_vars => (TypeOK /\ RowInv)'
  BY TypeStep, RowStep
<1>. QED  BY InitOK, <1>1, PTL DEF Spec

\* The recorded seconds are what the row itself saw, up to repeated connects
\* and repeated notices, each of which can err in one direction only.
THEOREM CountIsAsSeen == Spec => []CountedAsSeen
<1>. DEFINE IInv == TypeOK /\ RowInv /\ CountedAsSeen
<1>1. IInv /\ [Next]_vars => IInv'
  BY TypeStep, RowStep, CountedStep
<1>. QED  BY InitOK, <1>1, PTL DEF Spec

\* Notices that come after the end of a session find it closed.
THEOREM CountIsFinal == Spec => CountFinal
<1>1. [Next]_vars => [session = "ENDED" => total_seconds' = total_seconds]_vars
  <2>. SUFFICES ASSUME Next, session = "ENDED" PROVE total_seconds' = total_seconds
    OBVIOUS
  <2>1. CASE Browser \/ LoseRequest
    BY <2>1, BrowserLeavesRow DEF LoseRequest, row
  <2>2. CASE Server
    BY <2>2 DEF Server, TokenRequest, CandidateConnects, Disconnect,
                CountsDisconnects, Open, EndByTime, NoShow
  <2>3. CASE Tick
    BY <2>3 DEF Tick, row
  <2>. QED  BY <2>1, <2>2, <2>3 DEF Next
<1>. QED  BY <1>1, PTL DEF Spec, CountFinal

-----------------------------------------------------------------------------
(* A page that is opened once and not left.                                *)

Unopened == loads = 0
Solo == loads = 1 /\ leaves = 0 /\ page # "closed"

\* The time since the one connect.
Watched == IF connected_at = None THEN 0 ELSE now - connected_at

\* Until the page is opened there is nothing, then its one token request,
\* and after the answer nothing again: the call is within the interval that
\* the row counts, and nothing closes this interval before the session ends.
SoloRequests ==
    /\ connects \subseteq 1 .. loads
    /\ Unopened => page = "closed" /\ connected_at = None
    /\ Solo => (page = "loading" <=> connected_at = None)
    /\ Solo /\ page # "loading" => connects = {}

SoloRow ==
    Unopened \/ Solo =>
        /\ disconnects = 0 /\ disconnected_at = None
        /\ session # "ENDED" => total_seconds = 0
        /\ present <= Watched
        /\ session = "ENDED" => End <= now
        /\ session = "ENDED" /\ settlement = "REFUND" => present < Minimum

SteadyInv == SoloRequests /\ SoloRow

LEMMA InitSteady == Init => SteadyInv
BY DEF Init, SteadyInv, SoloRequests, SoloRow, Unopened, Solo, Watched

LEMMA MinimumIsInt == Minimum \in Int
<1>1. \A x \in Int : x \div 2 \in Int
  OBVIOUS
<1>2. End - Start \in Int
  BY PresenceAssumption DEF PresenceAssumption
<1>. QED  BY <1>1, <1>2 DEF Minimum

\* Only the first load opens a page that counts; to leave it or to close it
\* is to stop counting it.
LEMMA BrowserSteady ==
    ASSUME TypeOK, RowInv, SteadyInv, Browser PROVE SteadyInv'
<1>. USE DEF SteadyInv, SoloRequests, SoloRow, Unopened, Solo, Watched, TypeOK
<1>0. UNCHANGED <<now, session, connected_at, disconnected_at, total_seconds, settlement, present>>
  BY BrowserLeavesRow DEF row, history
<1>1. Minimum' = Minimum
  BY DEF Minimum
<1>2. CASE Load
  <2>1. loads' = loads + 1 /\ loads' # 0 /\ page' = "loading" /\ (loads' = 1 => loads = 0)
    BY <1>2 DEF Load
  <2>2. connects' \subseteq 1 .. loads'
    BY <1>2 DEF Load
  <2>3. UNCHANGED <<leaves, disconnects>>
    BY <1>2 DEF Load
  <2>4. SoloRequests'
    BY <2>1, <2>2, <1>0
  <2>5. SoloRow'
    BY <2>1, <2>3, <1>0, <1>1
  <2>. QED  BY <2>4, <2>5
<1>3. CASE Join
  <2>1. UNCHANGED <<loads, leaves, connects, disconnects>> /\ page' = "call"
        /\ page # "loading" /\ page # "closed"
    BY <1>3 DEF Join, Lobby
  <2>. QED  BY <2>1, <1>0, <1>1
<1>4. CASE Leave
  <2>1. leaves' # 0 /\ loads' = loads /\ connects' = connects /\ loads # 0
    BY <1>4 DEF Leave
  <2>. QED  BY <2>1, <1>0
<1>5. ASSUME NEW n \in Nat, Close(n), page # "closed" PROVE SteadyInv'
  <2>1. page' = "closed" /\ loads' = loads /\ connects' = connects /\ loads # 0
    BY <1>5 DEF Close
  <2>. QED  BY <2>1, <1>0
<1>6. CloseTab \/ NavigateAway \/ FinishConfirmed \/ AutoLeave
        => page # "closed" /\ \E n \in Nat : Close(n)
  BY DEF CloseTab, NavigateAway, FinishConfirmed, AutoLeave, Lobby
<1>. QED  BY <1>2, <1>3, <1>4, <1>5, <1>6 DEF Browser

\* The row that a page has been watching is the one its session is settled by.
LEMMA EndSteady ==
    ASSUME TypeOK, RowInv, SteadyInv, EndByTime PROVE SteadyInv'
<1>. USE DEF SteadyInv, SoloRequests, SoloRow, Unopened, Solo, Watched
<1>1. /\ session = "LIVE" /\ End <= now /\ session' = "ENDED" /\ total_seconds' = Flushed
      /\ settlement' = IF Flushed >= Minimum THEN "AWAITING_EVALUATION" ELSE "REFUND"
      /\ UNCHANGED <<now, page, loads, leaves, connects, disconnects, candidate, connected_at,
                     disconnected_at, present>>
  BY DEF EndByTime, browser, history
<1>2. Minimum' = Minimum /\ Minimum \in Int
  BY MinimumIsInt DEF Minimum
<1>3. Unopened \/ Solo => present <= Flushed
  BY <1>1, ElapsedIsNat DEF Flushed, Online, TypeOK
<1>4. Flushed \in Int /\ present \in Int
  BY ElapsedIsNat DEF Flushed, Online, TypeOK
<1>. HIDE DEF Flushed
<1>5. Unopened \/ Solo => (settlement' = "REFUND" => present < Minimum)
  BY <1>1, <1>2, <1>3, <1>4
<1>. QED  BY <1>1, <1>2, <1>5

LEMMA SteadyStep ==
    ASSUME TypeOK, RowInv, SteadyInv, [Next]_vars PROVE SteadyInv'
<1>. USE DEF SteadyInv, SoloRequests, SoloRow, Unopened, Solo, Watched
<1>0. Minimum' = Minimum
  BY DEF Minimum
<1>1. CASE Browser
  BY <1>1, BrowserSteady
<1>2. ASSUME NEW load \in connects, TokenRequest(load) PROVE SteadyInv'
  <2>1. UNCHANGED <<now, loads, leaves, disconnects, total_seconds, settlement, present>>
        /\ connects' = connects \ {load}
    BY <1>2 DEF TokenRequest
  <2>2. load \in 1 .. loads /\ loads # 0
    BY <1>2 DEF TypeOK
  <2>3. CASE MayJoin
    <3>1. /\ connected_at' = now /\ disconnected_at' = None /\ session' # "ENDED" /\ session # "ENDED"
          /\ page' = IF page # "loading" \/ load # loads THEN page
                     ELSE IF connected_at = None THEN "lobby" ELSE "lobby_finish"
      BY <1>2, <2>3 DEF TokenRequest, MayJoin, Open, ConnectTime
    <3>2. Solo' => Solo /\ page = "loading" /\ load = loads /\ connects' = {}
      BY <2>1, <2>2, <3>1
    <3>3. Solo' => present = 0 /\ now - connected_at' = 0 /\ connected_at' # None /\ page' # "loading"
      BY <2>1, <3>1, <3>2, PresenceAssumption DEF PresenceAssumption, TypeOK
    <3>4. SoloRequests'
      BY <2>1, <2>2, <3>2, <3>3
    <3>5. SoloRow'
      BY <2>1, <2>2, <3>1, <3>2, <3>3
    <3>. QED  BY <3>4, <3>5
  <2>4. CASE ~MayJoin
    BY <1>0, <1>2, <2>1, <2>4 DEF TokenRequest
  <2>. QED  BY <2>3, <2>4
<1>3. CASE CandidateConnects
  BY <1>0, <1>3 DEF CandidateConnects, MayJoin, Open, browser, history
<1>4. CASE Disconnect
  <2>1. ~(Unopened \/ Solo)'
    BY <1>4 DEF Disconnect, browser
  <2>. QED  BY <1>4, <2>1 DEF Disconnect, browser
<1>5. CASE EndByTime
  BY <1>5, EndSteady
<1>6. CASE NoShow
  BY <1>0, <1>6 DEF NoShow, browser, history
<1>7. CASE LoseRequest
  <2>1. connects' \subseteq connects /\ (disconnects = 0 => disconnects' = 0)
    BY <1>7 DEF LoseRequest, TypeOK
  <2>2. UNCHANGED <<now, page, loads, leaves, session, connected_at, disconnected_at,
                    total_seconds, settlement, present>>
    BY <1>7 DEF LoseRequest, browser, row, history
  <2>. QED  BY <1>0, <2>1, <2>2
<1>8. CASE Tick
  <2>1. /\ now' = now + 1
        /\ present' = IF page = "call" /\ Start <= now /\ now < End THEN present + 1 ELSE present
        /\ UNCHANGED <<page, loads, leaves, connects, disconnects, session, connected_at,
                       disconnected_at, total_seconds, settlement>>
    BY <1>8 DEF Tick, browser, row
  <2>2. SoloRequests'
    BY <2>1
  <2>3. Solo \/ Unopened => present' <= Watched'
    BY <2>1, PresenceAssumption DEF PresenceAssumption, TypeOK
  <2>4. Solo \/ Unopened => (session = "ENDED" => present' = present /\ End <= now')
    BY <2>1, PresenceAssumption DEF PresenceAssumption, TypeOK
  <2>5. SoloRow'
    BY <1>0, <2>1, <2>3, <2>4
  <2>. QED  BY <2>2, <2>5
<1>9. CASE UNCHANGED vars
  BY <1>0, <1>9 DEF vars, browser, row, history
<1>. QED
  BY <1>1, <1>2, <1>3, <1>4, <1>5, <1>6, <1>7, <1>8, <1>9 DEF Next, Server

\* However long the session and however late its page's requests: whoever
\* opens the page once and stays in the call is refunded only when the call
\* was too short.
THEOREM SteadyPresenceIsPaid == Spec => []SteadyPresenceCounts
<1>. DEFINE IInv == TypeOK /\ RowInv /\ SteadyInv
<1>1. IInv /\ [Next]_vars => IInv'
  BY TypeStep, RowStep, SteadyStep
<1>2. IInv => SteadyPresenceCounts
  BY DEF SteadyInv, SoloRow, Solo, SteadyPresenceCounts
<1>. QED  BY InitOK, InitSteady, <1>1, <1>2, PTL DEF Spec

=============================================================================
