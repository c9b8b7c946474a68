------------------------- MODULE AuthSessionProofs -------------------------
(***************************************************************************)
(* Proofs about AuthSession, for any tabs, calls and plans: types, the     *)
(* session that is kept, and the calls that go through an expiry.          *)
(***************************************************************************)
EXTENDS AuthSession, TLAPS

Sets == [access : Nat \cup {None}, refresh : Nat \cup {None}]
Statuses == {0, 200, 401, 500}

-----------------------------------------------------------------------------
(* Steps *)

LEMMA SmallTypes ==
  /\ Leave \in Sets /\ Unsent \in Mail
  /\ \A n \in Nat : Pair(n) \in Sets /\ Pair(n) \in Cookies /\ Rotated(n) \in Sets
  /\ \A c \in Cookies : Sent(c) \in Mail
  /\ \A phase \in {"done", "failed", "queued", "waiting", "forgotten"} : At(phase) \in Mail
  BY DEF Leave, Sets, Unsent, Mail, Cookies, Pair, Rotated, Sent, At

LEMMA ClearTypes ==
  ASSUME NEW c \in Cookies, NEW set \in Sets
  PROVE  Clear(c, set) \in Sets
  BY DEF Clear, Sets

LEMMA StoredTypes ==
  ASSUME jar \in Cookies, NEW set \in Sets
  PROVE  Stored(set) \in Cookies
  BY DEF Stored, Sets, Cookies

\* What the server answers, field by field.
LEMMA AnswerFields ==
  ASSUME mail \in [Requests -> Mail], NEW q \in Requests, NEW status \in Statuses,
         NEW set \in Sets, Answer(q, status, set)
  PROVE  /\ mail' \in [Requests -> Mail]
         /\ mail'[q].phase = "served" /\ mail'[q].cookies = mail[q].cookies
         /\ mail'[q].set = Clear(mail[q].cookies, set) /\ mail'[q].status = status
         /\ \A o \in Requests \ {q} : mail'[o] = mail[o]
  <1> DEFINE c == mail[q].cookies
             answer == [phase |-> "served", cookies |-> c, status |-> status, set |-> Clear(c, set)]
  <1>1. mail[q] \in Mail /\ c \in Cookies
    BY DEF Mail
  <1>2. Clear(c, set) \in Sets
    BY <1>1, ClearTypes
  <1>3. answer \in Mail
    BY <1>1, <1>2 DEF Mail, Sets, Statuses
  <1>4. mail' = [mail EXCEPT ![q] = answer]
    <2> DEFINE once == [mail EXCEPT ![q].phase = "served"]
               twice == [once EXCEPT ![q].status = status]
    <2>1. /\ once \in [Requests -> Mail] /\ \A o \in Requests \ {q} : once[o] = mail[o]
          /\ once[q].phase = "served" /\ once[q].cookies = c
      BY <1>1 DEF Mail
    <2>2. mail' = [twice EXCEPT ![q].set = Clear(c, set)]
      BY DEF Answer
    <2> HIDE DEF once
    <2>3. /\ twice \in [Requests -> Mail] /\ \A o \in Requests \ {q} : twice[o] = mail[o]
          /\ twice[q].phase = "served" /\ twice[q].cookies = c /\ twice[q].status = status
      BY <2>1 DEF Mail, Statuses
    <2> HIDE DEF twice
    <2>4. [twice[q] EXCEPT !.set = Clear(c, set)] = answer
      BY <2>3 DEF Mail
    <2> QED BY <2>2, <2>3, <2>4
  <1> HIDE DEF c
  <1> QED BY <1>3, <1>4 DEF c

\* What a tab does to its requests: those it does not leave alone are not
\* served, and what it sends carries the cookies of the jar.
Blank(r) == r.phase # "served" /\ r.set = Leave

Resent(r) ==
    /\ Blank(r)
    /\ r.cookies.refresh = jar'.refresh \/ (r.cookies.refresh = 0 /\ r.phase # "sent")

Touched ==
    /\ mail' \in [Requests -> Mail]
    /\ \A o \in Requests : mail'[o] = mail[o] \/ Resent(mail'[o])

LEMMA BlankRecords ==
  /\ Blank(Unsent) /\ Unsent.cookies.refresh = 0 /\ Unsent.phase = "idle"
  /\ \A c \in Cookies : Blank(Sent(c)) /\ Sent(c).cookies.refresh = c.refresh
  /\ \A phase \in {"done", "failed", "queued", "waiting", "forgotten"} :
        Blank(At(phase)) /\ At(phase).cookies.refresh = 0 /\ At(phase).phase = phase
  BY DEF Blank, Unsent, Sent, At

LEMMA ResentRecords ==
  ASSUME jar' \in Cookies
  PROVE  /\ Resent(Unsent) /\ Resent(Sent(jar'))
         /\ \A phase \in {"done", "failed", "queued", "waiting", "forgotten"} : Resent(At(phase))
  BY BlankRecords DEF Resent

LEMMA KindsDiffer ==
  /\ {"me", "refresh", "login", "logout"} \subseteq Kinds /\ Calls \subseteq Kinds
  /\ \A k \in Calls : k \notin {"me", "refresh", "login", "logout"}
  /\ \A t \in Tabs, k \in Kinds : /\ <<t, k>> \in Requests
                                  /\ <<t, k>>[1] = t /\ <<t, k>>[2] = k
  /\ \A q \in Requests : q = <<q[1], q[2]>> /\ q[1] \in Tabs /\ q[2] \in Kinds
  BY AuthAssumption DEF AuthAssumption, Kinds, Requests

\* A rotation under way is left alone by whoever hears another answer.
Others(q) ==
    \A x \in Tabs : LET r == <<x, "refresh">>
                    IN  r # q /\ x \in refreshing /\ mail[r].phase = "served" => mail'[r] = mail[r]

LEMMA EndTouches ==
  ASSUME TypeOK, jar' \in Cookies, NEW q \in Requests,
         NEW phase \in {"done", "failed", "queued", "waiting", "forgotten"}, End(q, phase)
  PROVE  Touched /\ Blank(mail'[q]) /\ Others(q)
  BY SmallTypes, BlankRecords, ResentRecords, KindsDiffer DEF TypeOK, End, Touched, Others

LEMMA RefreshForTouches ==
  ASSUME TypeOK, jar' \in Cookies, NEW t \in Tabs, NEW k \in Calls, RefreshFor(<<t, k>>)
  PROVE  Touched /\ Blank(mail'[<<t, k>>]) /\ Others(<<t, k>>)
  <1> DEFINE q == <<t, k>>
             r == <<t, "refresh">>
  <1>1. q \in Requests /\ r \in Requests /\ q # r /\ q[1] = t
    BY KindsDiffer
  <1>2. CASE t \in refreshing
    BY <1>1, <1>2, EndTouches DEF RefreshFor
  <1>3. CASE t \notin refreshing
    <2>1. mail' = [mail EXCEPT ![q] = At("waiting"), ![r] = Sent(jar')]
      BY <1>1, <1>3 DEF RefreshFor
    <2> HIDE DEF q, r
    <2>2. /\ mail' \in [Requests -> Mail] /\ mail'[q] = At("waiting") /\ mail'[r] = Sent(jar')
          /\ \A o \in Requests \ {q, r} : mail'[o] = mail[o]
      BY <1>1, <2>1, SmallTypes DEF TypeOK
    <2>3. Touched /\ Blank(mail'[q])
      BY <2>2, BlankRecords, ResentRecords DEF Touched
    <2>4. \A x \in Tabs \ {t} : <<x, "refresh">> \in Requests \ {r}
      BY KindsDiffer DEF r
    <2>5. Others(q)
      BY <1>3, <2>2, <2>4 DEF Others
    <2> QED BY <2>3, <2>5 DEF q
  <1> QED BY <1>2, <1>3

\* The step of a tab that hears an answer.
Heard(t, q) ==
    /\ q \in Requests /\ q[1] = t /\ page[t] = "open" /\ mail[q].phase = "served"
    /\ jar' = Stored(mail[q].set) /\ jar' \in Cookies
    /\ Touched /\ Blank(mail'[q]) /\ Others(q)
    /\ UNCHANGED <<server, over, crossed>>
    /\ role' => UNCHANGED page /\ (role \/ q[2] = "login")

LEMMA HearTouches ==
  ASSUME TypeOK, NEW t \in Tabs, HearAny(t)
  PROVE  \E q \in Requests : Heard(t, q)
  <1>1. ASSUME NEW q \in Requests, q[1] = t, Hear(q)
        PROVE  /\ page[t] = "open" /\ mail[q].phase = "served"
               /\ jar' = Stored(mail[q].set) /\ jar' \in Cookies /\ UNCHANGED <<server, over>>
    <2>1. mail[q].set \in Sets
      BY DEF TypeOK, Mail, Sets
    <2> QED BY <1>1, <2>1, StoredTypes DEF Hear, TypeOK
  <1>2. CASE HearUser(t)
    <2> DEFINE q == <<t, "me">>
    <2>1. q \in Requests /\ q[1] = t
      BY KindsDiffer
    <2>2. Hear(q) /\ End(q, "done") /\ UNCHANGED <<role, page, crossed>>
      BY <1>2 DEF HearUser
    <2> HIDE DEF q
    <2> QED BY <1>1, <2>1, <2>2, EndTouches DEF Heard
  <1>3. CASE HearLogin(t)
    <2> DEFINE q == <<t, "login">>
    <2>1. q \in Requests /\ q[1] = t /\ q[2] = "login"
      BY KindsDiffer
    <2>2. Hear(q) /\ End(q, "done") /\ UNCHANGED <<page, crossed>>
      BY <1>3 DEF HearLogin
    <2> HIDE DEF q
    <2> QED BY <1>1, <2>1, <2>2, EndTouches DEF Heard
  <1>4. CASE HearLogout(t)
    <2> DEFINE q == <<t, "logout">>
    <2>1. q \in Requests /\ q[1] = t
      BY KindsDiffer
    <2>2. Hear(q) /\ End(q, "done") /\ ~role' /\ UNCHANGED <<page, crossed>>
      BY <1>4 DEF HearLogout
    <2> HIDE DEF q
    <2> QED BY <1>1, <2>1, <2>2, EndTouches DEF Heard
  <1>5. ASSUME NEW k \in Calls, HearCall(<<t, k>>) PROVE \E q \in Requests : Heard(t, q)
    <2> DEFINE q == <<t, k>>
    <2>1. q \in Requests /\ q[1] = t
      BY KindsDiffer
    <2>2. Hear(q) /\ UNCHANGED <<role, page, crossed>>
      BY <1>5 DEF HearCall
    <2>3. End(q, "done") \/ End(q, "failed") \/ RefreshFor(q)
      BY <1>5 DEF HearCall
    <2>4. jar' \in Cookies
      BY <1>1, <2>1, <2>2
    <2>5. Touched /\ Blank(mail'[q]) /\ Others(q)
      BY <2>1, <2>3, <2>4, EndTouches, RefreshForTouches
    <2> HIDE DEF q
    <2> QED BY <1>1, <2>1, <2>2, <2>5 DEF Heard
  <1>6. CASE HearRefreshed(t) \/ HearRefusal(t)
    <2> DEFINE q == <<t, "refresh">>
    <2>1. q \in Requests /\ q[1] = t
      BY KindsDiffer
    <2>2. Hear(q) /\ UNCHANGED crossed /\ (role' => UNCHANGED <<page, role>>)
      BY <1>6 DEF HearRefreshed, HearRefusal
    <2>3. jar' \in Cookies
      BY <1>1, <2>1, <2>2
    <2>4. /\ mail' \in [Requests -> Mail] /\ mail'[q] = Unsent
          /\ \A o \in Requests \ {q} :
                \/ mail'[o] = mail[o]
                \/ /\ mail[o].phase # "served"
                   /\ mail'[o] \in {Sent(jar'), At("forgotten"), At("failed")}
      BY <1>6, <2>1, <2>3, SmallTypes DEF HearRefreshed, HearRefusal, TypeOK, Waiting
    <2>5. Touched /\ Blank(mail'[q])
      BY <2>3, <2>4, BlankRecords, ResentRecords DEF Touched
    <2>6. Others(q)
      BY <2>4, KindsDiffer DEF Others
    <2> HIDE DEF q
    <2> QED BY <1>1, <2>1, <2>2, <2>5, <2>6 DEF Heard
  <1> QED BY <1>2, <1>3, <1>4, <1>5, <1>6 DEF HearAny

\* The step of a tab that sends a request of its user's.
LEMMA UserTouches ==
  ASSUME TypeOK, NEW t \in Tabs, User(t)
  PROVE  /\ Touched /\ UNCHANGED <<jar, role, server, user, refreshing, retried, crossed, over>>
         /\ \A x \in Tabs : mail'[<<x, "refresh">>] = mail[<<x, "refresh">>]
         /\ page' = page \/ (page[t] = "closed" /\ page' = [page EXCEPT ![t] = "open"])
  <1>1. PICK k \in Kinds \ {"refresh"} : mail' = [mail EXCEPT ![<<t, k>>] = Sent(jar)]
    BY KindsDiffer DEF User, Open, Login, Logout, Call, Request
  <1>2. /\ UNCHANGED <<jar, role, server, user, refreshing, retried, crossed, over>>
        /\ page' = page \/ (page[t] = "closed" /\ page' = [page EXCEPT ![t] = "open"])
    BY DEF User, Open, Login, Logout, Call, Request
  <1>3. Sent(jar) \in Mail /\ Resent(Sent(jar))
    BY <1>2, SmallTypes, ResentRecords DEF TypeOK
  <1> DEFINE q == <<t, k>>
  <1>4. q \in Requests /\ \A x \in Tabs : <<x, "refresh">> \in Requests /\ q # <<x, "refresh">>
    BY KindsDiffer
  <1>5. mail' = [mail EXCEPT ![q] = Sent(jar)]
    BY <1>1
  <1> HIDE DEF q
  <1>6. Touched
    BY <1>2, <1>3, <1>4, <1>5 DEF Touched, TypeOK
  <1> QED BY <1>2, <1>4, <1>5, <1>6 DEF TypeOK

-----------------------------------------------------------------------------
(* Types *)

LEMMA InitTypes == Init => TypeOK
  <1> SUFFICES ASSUME Init PROVE TypeOK
    OBVIOUS
  <1>1. jar \in Cookies /\ mail \in [Requests -> Mail]
    BY SmallTypes DEF Init
  <1>2. /\ page \in [Tabs -> {"closed", "open", "gone"}]
        /\ role \in BOOLEAN /\ crossed \in BOOLEAN /\ over \in BOOLEAN
    BY DEF Init
  <1> QED BY <1>1, <1>2 DEF Init, TypeOK

\* What one request makes of the tokens.
Served(q) ==
    LET c == mail[q].cookies
    IN  /\ q \in Requests /\ mail[q].phase = "sent"
        /\ UNCHANGED <<jar, role, tabs, expired>>
        /\ crossed' = (crossed \/ c.refresh \in dead)
        /\ \E status \in Statuses, set \in Sets :
            /\ Answer(q, status, set)
            /\ \/ /\ UNCHANGED <<tokens, dead, over>> /\ set = Leave /\ q[2] # "login"
               \/ /\ tokens' = tokens + 1 /\ set = Rotated(tokens + 1) /\ UNCHANGED over
                  /\ q[2] = "refresh" /\ c.refresh \notin dead \cup {0}
                  /\ dead' = dead \cup {c.refresh}
               \/ /\ tokens' = tokens + 1 /\ set = Pair(tokens + 1) /\ UNCHANGED <<dead, over>>
                  /\ q[2] = "login"
               \/ /\ over' = TRUE /\ UNCHANGED tokens /\ q[2] = "logout"
                  /\ dead' = dead \cup ({c.refresh} \ {0})
                  /\ set = [access |-> 0, refresh |-> 0]

LEMMA ServeServes ==
  ASSUME TypeOK, NEW q \in Requests, Serve(q)
  PROVE  Served(q)
  <1>1. /\ mail[q].phase = "sent" /\ UNCHANGED <<jar, role, tabs, expired>>
        /\ crossed' = (crossed \/ mail[q].cookies.refresh \in dead)
    BY DEF Serve, ServeCall, ServeRefresh, ServeLogin, ServeLogout, server
  <1>2. tokens + 1 \in Nat
    BY DEF TypeOK
  <1>3. /\ Leave \in Sets /\ Rotated(tokens + 1) \in Sets /\ Pair(tokens + 1) \in Sets
        /\ [access |-> 0, refresh |-> 0] \in Sets
    BY <1>2, SmallTypes DEF Sets
  <1>4. CASE ServeCall(q)
    <2>1. /\ \E status \in Statuses : Answer(q, status, Leave)
          /\ UNCHANGED <<tokens, dead, over>> /\ q[2] # "login"
      BY <1>4, KindsDiffer DEF ServeCall, Statuses, server
    <2> QED BY <1>1, <1>3, <2>1 DEF Served
  <1>5. CASE ServeRefresh(q)
    <2>1. CASE mail[q].cookies.refresh \notin dead \cup {0}
      <3>1. /\ 200 \in Statuses /\ Answer(q, 200, Rotated(tokens + 1)) /\ tokens' = tokens + 1
            /\ dead' = dead \cup {mail[q].cookies.refresh} /\ UNCHANGED over /\ q[2] = "refresh"
        BY <1>5, <2>1 DEF ServeRefresh, Valid, Statuses
      <3> QED BY <1>1, <1>3, <2>1, <3>1 DEF Served
    <2>2. CASE mail[q].cookies.refresh \in dead \cup {0}
      <3>1. /\ \E status \in Statuses : Answer(q, status, Leave)
            /\ UNCHANGED <<tokens, dead, over>> /\ q[2] # "login"
        <4>1. ~(mail[q].cookies.refresh # 0 /\ Valid(mail[q].cookies).refresh)
          BY <2>2 DEF Valid
        <4>2. /\ Answer(q, IF mail[q].cookies.refresh = 0 THEN 401 ELSE 500, Leave)
              /\ UNCHANGED <<tokens, dead, over>> /\ q[2] = "refresh"
          BY <1>5, <4>1 DEF ServeRefresh
        <4>3. (IF mail[q].cookies.refresh = 0 THEN 401 ELSE 500) \in Statuses
          BY DEF Statuses
        <4> QED BY <4>2, <4>3
      <3> QED BY <1>1, <1>3, <3>1 DEF Served
    <2> QED BY <2>1, <2>2
  <1>6. CASE ServeLogin(q)
    <2>1. /\ 200 \in Statuses /\ Answer(q, 200, Pair(tokens + 1)) /\ tokens' = tokens + 1
          /\ UNCHANGED <<dead, over>> /\ q[2] = "login"
      BY <1>6 DEF ServeLogin, Statuses
    <2> QED BY <1>1, <1>3, <2>1 DEF Served
  <1>7. CASE ServeLogout(q)
    <2>1. /\ 200 \in Statuses /\ Answer(q, 200, [access |-> 0, refresh |-> 0]) /\ UNCHANGED tokens
          /\ dead' = dead \cup ({mail[q].cookies.refresh} \ {0}) /\ over' = TRUE /\ q[2] = "logout"
      BY <1>7 DEF ServeLogout, Blacklisted, Statuses
    <2> QED BY <1>1, <1>3, <2>1 DEF Served
  <1> QED BY <1>4, <1>5, <1>6, <1>7 DEF Serve

LEMMA ServeTypes ==
  ASSUME TypeOK, NEW q \in Requests, Served(q), UNCHANGED plan
  PROVE  TypeOK'
  <1>1. mail' \in [Requests -> Mail]
    BY AnswerFields DEF Served, TypeOK
  <1>2. mail[q].cookies.refresh \in Nat
    BY DEF TypeOK, Mail, Cookies
  <1>3. tokens' \in Nat /\ dead' \subseteq Nat \ {0} /\ over' \in BOOLEAN /\ crossed' \in BOOLEAN
    <2>1. tokens' \in Nat
      BY DEF Served, TypeOK
    <2>2. dead' \subseteq Nat \ {0}
      BY <1>2 DEF Served, TypeOK
    <2>3. over' \in BOOLEAN
      BY DEF Served, TypeOK
    <2>4. crossed' \in BOOLEAN
      BY DEF Served
    <2> QED BY <2>1, <2>2, <2>3, <2>4
  <1> QED BY <1>1, <1>3 DEF Served, TypeOK, tabs, Cookies

LEMMA TabTypes ==
  ASSUME TypeOK, NEW t \in Tabs, HearAny(t) \/ User(t) \/ Lose(t), UNCHANGED plan
  PROVE  TypeOK'
  <1>1. CASE HearAny(t)
    <2>1. PICK q \in Requests : Heard(t, q)
      BY <1>1, HearTouches
    <2> DEFINE Rest == /\ user' \subseteq Tabs /\ page' \in [Tabs -> {"closed", "open", "gone"}]
                       /\ role' \in BOOLEAN /\ refreshing' \subseteq Tabs /\ retried' \subseteq Requests
    <2>2. ASSUME HearUser(t) PROVE Rest
      BY <2>2 DEF HearUser, TypeOK
    <2>3. ASSUME HearLogin(t) PROVE Rest
      BY <2>3 DEF HearLogin, TypeOK
    <2>4. ASSUME HearLogout(t) PROVE Rest
      BY <2>4 DEF HearLogout, TypeOK
    <2>5. ASSUME HearRefreshed(t) PROVE Rest
      BY <2>5 DEF HearRefreshed, NotRefreshing, TypeOK
    <2>6. ASSUME HearRefusal(t) PROVE Rest
      <3>1. page' \in [Tabs -> {"closed", "open", "gone"}]
        BY <2>6 DEF HearRefusal, TypeOK
      <3> QED BY <2>6, <3>1 DEF HearRefusal, NotRefreshing, TypeOK
    <2>7. ASSUME NEW k \in Calls, HearCall(<<t, k>>) PROVE Rest
      <3>1. <<t, k>> \in Requests /\ <<t, k>>[1] = t
        BY KindsDiffer
      <3>2. retried' \subseteq Requests /\ UNCHANGED <<role, page, user>>
        BY <2>7, <3>1 DEF HearCall, TypeOK
      <3>3. refreshing' \subseteq Tabs
        BY <2>7, <3>1 DEF HearCall, RefreshFor, TypeOK
      <3> QED BY <3>2, <3>3 DEF TypeOK
    <2>8. Rest
      BY <1>1, <2>2, <2>3, <2>4, <2>5, <2>6, <2>7 DEF HearAny
    <2> QED BY <2>1, <2>8 DEF Heard, Touched, TypeOK, server, Cookies
  <1>2. CASE User(t)
    <2>1. page' \in [Tabs -> {"closed", "open", "gone"}]
      BY <1>2, UserTouches DEF TypeOK
    <2> QED BY <1>2, <2>1, UserTouches DEF Touched, TypeOK, server, Cookies
  <1>3. CASE Lose(t)
    BY <1>3 DEF Lose, TypeOK, server, Cookies
  <1> QED BY <1>1, <1>2, <1>3

LEMMA StepTypes == TypeOK /\ [Next /\ UNCHANGED plan]_vars => TypeOK'
  <1> SUFFICES ASSUME TypeOK, [Next /\ UNCHANGED plan]_vars PROVE TypeOK'
    OBVIOUS
  <1>1. CASE Expire /\ UNCHANGED plan
    BY <1>1 DEF Expire, TypeOK, tabs, Cookies
  <1>2. CASE UNCHANGED vars
    BY <1>2 DEF vars, TypeOK, tabs, server, Cookies
  <1> QED BY <1>1, <1>2, ServeServes, ServeTypes, TabTypes DEF Next

\* Whatever crosses, what the jar and the requests hold are tokens.
THEOREM TypesCorrect == Spec => []TypeOK
  BY InitTypes, StepTypes, PTL DEF Spec

-----------------------------------------------------------------------------
(* The session *)

\* Tokens are numbered: what an answer brings is on no other way, not in the
\* jar, and not dead.
Bounded ==
    /\ jar.refresh <= tokens /\ \A n \in dead : n <= tokens
    /\ \A q \in Requests : mail[q].cookies.refresh <= tokens

New(q, n) ==
    /\ n <= tokens /\ n \notin dead /\ n # jar.refresh
    /\ \A o \in Requests : mail[o].cookies.refresh # n
    /\ \A o \in Requests \ {q} : mail[o].set.refresh # n

Fresh == \A q \in Requests : mail[q].set.refresh \notin {None, 0} => New(q, mail[q].set.refresh)

\* An answer deletes the refresh token for a reason, and one to a login
\* brings one.
Whole == ~crossed /\ ~over => \A q \in Requests : mail[q].set.refresh # 0
LoginBrings ==
    \A q \in Requests : q[2] = "login" /\ mail[q].phase = "served" => mail[q].set.refresh # None

\* A rotation is heard by the tab that asked for it.
InFlight ==
    \A t \in Tabs :
        /\ mail[<<t, "refresh">>].phase \in {"sent", "served"} => t \in refreshing
        /\ t \in refreshing => page[t] = "open" \/ crossed

Good == jar.refresh \notin dead \cup {0}
Rotation(t) == /\ page[t] = "open" /\ mail[<<t, "refresh">>].phase = "served"
               /\ mail[<<t, "refresh">>].set.refresh \notin {None, 0} \cup dead
Kept == role /\ ~crossed /\ ~over => Good \/ \E t \in Tabs : Rotation(t)

Session == Bounded /\ Fresh /\ Whole /\ LoginBrings /\ InFlight /\ Kept

LEMMA InitSession == Init => Session
  <1> SUFFICES ASSUME Init PROVE Session
    OBVIOUS
  <1>1. /\ \A q \in Requests : /\ mail[q].cookies.refresh = 0 /\ mail[q].set.refresh = None
                               /\ mail[q].phase = "idle"
        /\ jar.refresh = 1 /\ tokens = 1 /\ dead = {} /\ refreshing = {}
    BY DEF Init, Unsent, Leave, Pair
  <1>2. \A t \in Tabs : <<t, "refresh">> \in Requests
    BY KindsDiffer
  <1>3. None # 0
    BY AuthAssumption DEF AuthAssumption
  <1> QED BY <1>1, <1>2, <1>3 DEF Session, Bounded, Fresh, Whole, LoginBrings, InFlight, Kept, Good

LEMMA RecordTypes ==
  ASSUME TypeOK
  PROVE  /\ jar.refresh \in Nat /\ tokens \in Nat
         /\ \A q \in Requests : /\ mail[q].cookies \in Cookies /\ mail[q].cookies.refresh \in Nat
                                /\ mail[q].set \in Sets /\ mail[q].set.refresh \in Nat \cup {None}
  BY DEF TypeOK, Mail, Cookies, Sets

-----------------------------------------------------------------------------
(* Tabs *)

\* What a tab puts into the jar is what an answer brought.
LEMMA TabTokens ==
  ASSUME TypeOK, Bounded, Fresh, Whole, LoginBrings, Touched, UNCHANGED <<server, over>>,
         crossed => crossed',
         \/ UNCHANGED jar
         \/ \E q \in Requests : jar' = Stored(mail[q].set) /\ Blank(mail'[q])
  PROVE  Bounded' /\ Fresh' /\ Whole' /\ LoginBrings'
  <1>1. UNCHANGED <<tokens, dead>> /\ None \notin Nat /\ tokens \in Nat
    BY AuthAssumption DEF AuthAssumption, server, TypeOK
  <1>2. \A o \in Requests : \/ mail'[o] = mail[o]
                            \/ /\ mail'[o].phase # "served" /\ mail'[o].set.refresh = None
                               /\ mail'[o].cookies.refresh \in {0, jar'.refresh}
    BY DEF Touched, Resent, Blank, Leave
  <1>3. /\ jar'.refresh <= tokens
        /\ \A o \in Requests : LET n == mail'[o].set.refresh
                               IN  n \notin {None, 0} => n # jar'.refresh
    <2>1. CASE UNCHANGED jar
      BY <1>2, <2>1, RecordTypes DEF Bounded, Fresh, New
    <2>2. ASSUME NEW q \in Requests, jar' = Stored(mail[q].set), Blank(mail'[q])
          PROVE  /\ jar'.refresh <= tokens
                 /\ \A o \in Requests : LET n == mail'[o].set.refresh
                                        IN  n \notin {None, 0} => n # jar'.refresh
      <3>1. jar'.refresh = IF mail[q].set.refresh = None THEN jar.refresh ELSE mail[q].set.refresh
        BY <2>2 DEF Stored
      <3>2. mail'[q].set.refresh = None
        BY <2>2 DEF Blank, Leave
      <3>3. CASE mail[q].set.refresh \in {None, 0}
        BY <1>1, <1>2, <3>1, <3>3, RecordTypes DEF Bounded, Fresh, New
      <3>4. CASE mail[q].set.refresh \notin {None, 0}
        <4>1. New(q, mail[q].set.refresh) /\ jar'.refresh = mail[q].set.refresh
          BY <3>1, <3>4 DEF Fresh
        <4> QED BY <1>2, <3>2, <4>1 DEF New
      <3> QED BY <3>3, <3>4
    <2> QED BY <2>1, <2>2
  <1>4. Bounded'
    <2>1. \A o \in Requests : mail'[o].cookies.refresh <= tokens
      BY <1>1, <1>2, <1>3, RecordTypes DEF Bounded
    <2> QED BY <1>1, <1>3, <2>1 DEF Bounded
  <1>5. Fresh'
    <2> SUFFICES ASSUME NEW q \in Requests, mail'[q].set.refresh \notin {None, 0}
                 PROVE  New(q, mail[q].set.refresh)'
      BY DEF Fresh, Requests, Kinds
    <2> DEFINE n == mail[q].set.refresh
    <2>1. mail'[q] = mail[q] /\ n \notin {None, 0} /\ New(q, n)
      BY <1>2 DEF Fresh
    <2>2. n # jar'.refresh
      BY <1>3, <2>1
    <2>3. /\ \A o \in Requests : mail'[o].cookies.refresh # n
          /\ \A o \in Requests \ {q} : mail'[o].set.refresh # n
      BY <1>2, <2>1, <2>2 DEF New
    <2> QED BY <1>1, <2>1, <2>2, <2>3 DEF New, Requests, Kinds
  <1>6. Whole' /\ LoginBrings'
    BY <1>1, <1>2 DEF Whole, LoginBrings
  <1> QED BY <1>4, <1>5, <1>6

LEMMA HearKept ==
  ASSUME TypeOK, Session, NEW t \in Tabs, HearAny(t)
  PROVE  Kept'
  <1>1. PICK q \in Requests : Heard(t, q)
    BY HearTouches
  <1> SUFFICES ASSUME role', ~crossed, ~over
               PROVE  Good' \/ \E x \in Tabs : Rotation(x)'
    BY <1>1 DEF Kept, Heard
  <1>2. /\ UNCHANGED <<tokens, dead, page>> /\ (role \/ q[2] = "login")
        /\ jar'.refresh = IF mail[q].set.refresh = None THEN jar.refresh ELSE mail[q].set.refresh
        /\ Blank(mail'[q]) /\ mail[q].phase = "served"
    BY <1>1 DEF Heard, server, Stored
  <1>3. CASE mail[q].set.refresh # None
    <2>1. mail[q].set.refresh \notin {None, 0} /\ New(q, mail[q].set.refresh)
      BY <1>3 DEF Session, Whole, Fresh
    <2> QED BY <1>2, <1>3, <2>1 DEF New, Good
  <1>4. CASE mail[q].set.refresh = None
    <2>1. role /\ jar'.refresh = jar.refresh
      BY <1>2, <1>4 DEF Session, LoginBrings
    <2>2. CASE Good
      BY <1>2, <2>1, <2>2 DEF Good
    <2>3. ASSUME NEW x \in Tabs, Rotation(x) PROVE Rotation(x)'
      <3>1. <<x, "refresh">> \in Requests /\ <<x, "refresh">> # q
        BY <1>4, <2>3, KindsDiffer DEF Rotation
      <3>2. mail'[<<x, "refresh">>] = mail[<<x, "refresh">>]
        BY <1>1, <2>3, <3>1 DEF Heard, Others, Rotation, Session, InFlight
      <3> QED BY <1>2, <2>3, <3>2 DEF Rotation
    <2> QED BY <2>1, <2>2, <2>3 DEF Session, Kept
  <1> QED BY <1>3, <1>4

LEMMA HearInFlight ==
  ASSUME TypeOK, InFlight, NEW t \in Tabs, HearAny(t)
  PROVE  InFlight'
  <1> USE DEF InFlight
  <1>0. /\ \A x \in Tabs : <<x, "refresh">> \in Requests
        /\ \A x \in Tabs, k \in Kinds \ {"refresh"} :
              /\ <<x, k>> \in Requests /\ <<x, k>>[1] = x
              /\ \A y \in Tabs : <<y, "refresh">> # <<x, k>>
        /\ Calls \subseteq Kinds \ {"refresh"} /\ {"me", "login", "logout"} \subseteq Kinds \ {"refresh"}
    BY KindsDiffer
  <1>1. ASSUME NEW k \in Kinds \ {"refresh"}, NEW phase, End(<<t, k>>, phase),
               UNCHANGED <<refreshing, page, crossed>>
        PROVE  InFlight'
    <2>1. \A x \in Tabs : mail'[<<x, "refresh">>] = mail[<<x, "refresh">>]
      BY <1>0, <1>1 DEF End, TypeOK
    <2> QED BY <1>1, <2>1
  <1>2. CASE HearUser(t) \/ HearLogin(t) \/ HearLogout(t)
    BY <1>0, <1>1, <1>2 DEF HearUser, HearLogin, HearLogout
  <1>3. ASSUME NEW k \in Calls, HearCall(<<t, k>>) PROVE InFlight'
    <2>1. page[t] = "open" /\ UNCHANGED <<page, crossed>>
      BY <1>0, <1>3 DEF HearCall, Hear
    <2>2. CASE UNCHANGED refreshing /\ \E phase : End(<<t, k>>, phase)
      BY <1>0, <1>1, <2>1, <2>2
    <2>3. CASE /\ refreshing' = refreshing \cup {t}
               /\ mail' = [mail EXCEPT ![<<t, k>>] = At("waiting"), ![<<t, "refresh">>] = Sent(jar')]
      <3>1. \A x \in Tabs \ {t} : mail'[<<x, "refresh">>] = mail[<<x, "refresh">>]
        <4>1. \A x \in Tabs \ {t} : <<x, "refresh">> # <<t, "refresh">> /\ <<x, "refresh">> # <<t, k>>
          OBVIOUS
        <4> QED BY <1>0, <2>3, <4>1 DEF TypeOK
      <3>2. \A x \in Tabs \ {t} : /\ mail'[<<x, "refresh">>].phase \in {"sent", "served"}
                                      => x \in refreshing'
                                  /\ x \in refreshing' => page'[x] = "open" \/ crossed'
        BY <2>1, <2>3, <3>1
      <3>3. t \in refreshing' /\ page'[t] = "open"
        BY <2>1, <2>3
      <3> SUFFICES ASSUME NEW x \in Tabs
                   PROVE  /\ mail'[<<x, "refresh">>].phase \in {"sent", "served"}
                                => x \in refreshing'
                          /\ x \in refreshing' => page'[x] = "open" \/ crossed'
        OBVIOUS
      <3>4. CASE x = t
        BY <3>3, <3>4
      <3>5. CASE x # t
        BY <3>2, <3>5
      <3> QED BY <3>4, <3>5
    <2>4. \/ UNCHANGED refreshing /\ \E phase : End(<<t, k>>, phase)
          \/ /\ refreshing' = refreshing \cup {t}
             /\ mail' = [mail EXCEPT ![<<t, k>>] = At("waiting"), ![<<t, "refresh">>] = Sent(jar')]
      <3> HIDE DEF InFlight
      <3> DEFINE q == <<t, k>>
      <3>1. q[1] = t
        OBVIOUS
      <3> HIDE DEF q
      <3>2. HearCall(q)
        BY <1>3 DEF q
      <3>3. \/ UNCHANGED refreshing /\ \E phase : End(q, phase)
            \/ /\ refreshing' = refreshing \cup {t}
               /\ mail' = [mail EXCEPT ![q] = At("waiting"), ![<<t, "refresh">>] = Sent(jar')]
        BY <3>1, <3>2 DEF HearCall, RefreshFor
      <3> QED BY <3>3 DEF q
    <2> HIDE DEF InFlight
    <2> QED BY <2>2, <2>3, <2>4
  <1>4. CASE HearRefreshed(t) \/ HearRefusal(t)
    <2>1. /\ refreshing' = refreshing \ {t} /\ UNCHANGED crossed
          /\ \A x \in Tabs \ {t} : page'[x] = page[x]
      BY <1>4 DEF HearRefreshed, HearRefusal, NotRefreshing, TypeOK
    <2>2. mail'[<<t, "refresh">>] = Unsent
      BY <1>0, <1>4 DEF HearRefreshed, HearRefusal
    <2>3. \A x \in Tabs \ {t} : mail'[<<x, "refresh">>] = mail[<<x, "refresh">>]
      <3> SUFFICES ASSUME NEW x \in Tabs \ {t}
                   PROVE  mail'[<<x, "refresh">>] = mail[<<x, "refresh">>]
        OBVIOUS
      <3> DEFINE r == <<x, "refresh">>
      <3>1. /\ r \notin Waiting(t, {"queued", "waiting"})
            /\ r \notin Waiting(t, {"queued"}) /\ r \notin Waiting(t, {"waiting"})
        BY DEF Waiting
      <3>2. r # <<t, "refresh">> /\ r \in Requests
        BY <1>0
      <3> HIDE DEF r
      <3>3. mail'[r] = mail[r]
        BY <1>4, <3>1, <3>2 DEF HearRefreshed, HearRefusal
      <3> QED BY <3>3 DEF r
    <2>4. \A x \in Tabs \ {t} : /\ mail'[<<x, "refresh">>].phase \in {"sent", "served"}
                                    => x \in refreshing'
                                /\ x \in refreshing' => page'[x] = "open" \/ crossed'
      BY <2>1, <2>3
    <2>5. mail'[<<t, "refresh">>].phase = "idle" /\ t \notin refreshing'
      BY <2>1, <2>2 DEF Unsent
    <2> QED BY <2>4, <2>5
  <1> QED BY <1>2, <1>3, <1>4 DEF HearAny

LEMMA TabSession ==
  ASSUME TypeOK, Session, NEW t \in Tabs, HearAny(t) \/ User(t) \/ Lose(t)
  PROVE  Session'
  <1>1. CASE HearAny(t)
    <2>1. PICK q \in Requests : Heard(t, q)
      BY <1>1, HearTouches
    <2>2. Bounded' /\ Fresh' /\ Whole' /\ LoginBrings'
      BY <2>1, TabTokens DEF Heard, Session
    <2> QED BY <1>1, <2>2, HearInFlight, HearKept DEF Session
  <1>2. CASE User(t)
    <2>1. /\ Touched /\ UNCHANGED <<jar, role, server, refreshing, crossed, over>>
          /\ \A x \in Tabs : /\ mail'[<<x, "refresh">>] = mail[<<x, "refresh">>]
                             /\ page[x] = "open" => page'[x] = "open"
      BY <1>2, UserTouches DEF TypeOK
    <2>2. Bounded' /\ Fresh' /\ Whole' /\ LoginBrings'
      BY <2>1, TabTokens DEF Session
    <2>3. InFlight'
      BY <2>1 DEF Session, InFlight
    <2>4. Kept'
      BY <2>1 DEF Session, Kept, Good, Rotation, server
    <2> QED BY <2>2, <2>3, <2>4 DEF Session
  <1>3. CASE Lose(t)
    <2>1. /\ UNCHANGED <<jar, role, server, refreshing, mail, over>>
          /\ crossed' = (crossed \/ t \in refreshing)
          /\ \A x \in Tabs \ {t} : page'[x] = page[x]
      BY <1>3 DEF Lose, TypeOK
    <2>2. Touched
      BY <2>1 DEF Touched, TypeOK
    <2>3. Bounded' /\ Fresh' /\ Whole' /\ LoginBrings'
      BY <2>1, <2>2, TabTokens DEF Session
    <2>4. InFlight'
      BY <2>1 DEF Session, InFlight
    <2>5. Kept'
      <3>1. Rotation(t) => t \in refreshing
        BY DEF Rotation, Session, InFlight
      <3>2. \A x \in Tabs \ {t} : Rotation(x) => Rotation(x)'
        BY <2>1 DEF Rotation, server
      <3> QED BY <2>1, <3>1, <3>2 DEF Session, Kept, Good, server
    <2> QED BY <2>3, <2>4, <2>5 DEF Session
  <1> QED BY <1>1, <1>2, <1>3

-----------------------------------------------------------------------------
(* The server *)

LEMMA ServeSession ==
  ASSUME TypeOK, Session, NEW q \in Requests, Served(q)
  PROVE  Session'
  <1> DEFINE c == mail[q].cookies
             n == mail'[q].set.refresh
  <1>1. /\ mail[q].phase = "sent" /\ UNCHANGED <<jar, role, tabs, expired>>
        /\ crossed' = (crossed \/ c.refresh \in dead)
    BY DEF Served
  <1>2. /\ mail'[q].phase = "served" /\ mail'[q].cookies = c
        /\ \A o \in Requests \ {q} : mail'[o] = mail[o]
    BY AnswerFields DEF Served, TypeOK
  <1>3. /\ jar.refresh \in Nat /\ tokens \in Nat /\ c.refresh \in Nat /\ None \notin Nat
        /\ jar.refresh <= tokens /\ c.refresh <= tokens
        /\ \A o \in Requests : mail[o].cookies.refresh \in Nat
        /\ \A d \in dead : d \in Nat /\ d <= tokens
    BY RecordTypes, AuthAssumption DEF Session, Bounded, AuthAssumption, TypeOK
  <1>4. \/ n = None /\ UNCHANGED <<tokens, dead, over>> /\ q[2] # "login"
        \/ n = 0 /\ (crossed' \/ over')
           /\ tokens' \in {tokens, tokens + 1} /\ dead' \in {dead, dead \cup ({c.refresh} \ {0})}
        \/ /\ n = tokens + 1 /\ tokens' = tokens + 1 /\ UNCHANGED over
           /\ dead' = dead \cup {c.refresh} /\ q[2] = "refresh" /\ c.refresh \notin dead \cup {0}
        \/ n = tokens + 1 /\ tokens' = tokens + 1 /\ UNCHANGED <<dead, over>>
    <2>1. PICK status \in Statuses, set \in Sets :
            /\ Answer(q, status, set)
            /\ \/ /\ UNCHANGED <<tokens, dead, over>> /\ set = Leave /\ q[2] # "login"
               \/ /\ tokens' = tokens + 1 /\ set = Rotated(tokens + 1) /\ UNCHANGED over
                  /\ q[2] = "refresh" /\ c.refresh \notin dead \cup {0}
                  /\ dead' = dead \cup {c.refresh}
               \/ /\ tokens' = tokens + 1 /\ set = Pair(tokens + 1) /\ UNCHANGED <<dead, over>>
                  /\ q[2] = "login"
               \/ /\ over' = TRUE /\ UNCHANGED tokens /\ q[2] = "logout"
                  /\ dead' = dead \cup ({c.refresh} \ {0})
                  /\ set = [access |-> 0, refresh |-> 0]
      BY DEF Served
    <2>2. n = IF c.refresh # 0 /\ c.refresh \in dead THEN 0 ELSE set.refresh
      <3>1. mail'[q].set = Clear(c, set)
        BY <2>1, AnswerFields DEF TypeOK
      <3>2. Clear(c, set).refresh = IF c.refresh # 0 /\ ~Valid(c).refresh THEN 0 ELSE set.refresh
        BY DEF Clear
      <3>3. Valid(c).refresh <=> c.refresh \notin dead
        BY DEF Valid
      <3> QED BY <3>1, <3>2, <3>3
    <2>3. c.refresh \in dead => crossed'
      BY <1>1
    <2> HIDE DEF n, c
    <2> QED BY <2>1, <2>2, <2>3 DEF Leave, Rotated, Pair
  <1>5. /\ tokens' \in {tokens, tokens + 1}
        /\ dead' \in {dead, dead \cup {c.refresh}}
        /\ n \notin {None, 0} => n = tokens + 1 /\ tokens' = tokens + 1
    BY <1>3, <1>4
  <1> HIDE DEF n
  <1>6. Bounded'
    <2>1. \A o \in Requests : mail'[o].cookies.refresh <= tokens
      BY <1>2 DEF Session, Bounded
    <2>2. tokens <= tokens' /\ tokens' \in Nat
      BY <1>3, <1>5
    <2>3. \A o \in Requests : mail'[o].cookies.refresh <= tokens'
      BY <1>2, <1>3, <2>1, <2>2
    <2>4. /\ \A d \in dead' : d <= tokens'
          /\ jar'.refresh <= tokens'
      BY <1>1, <1>3, <1>5, <2>2
    <2> QED BY <2>3, <2>4 DEF Bounded, Requests, Kinds
  <1>7. Fresh'
    <2> SUFFICES ASSUME NEW r \in Requests, mail'[r].set.refresh \notin {None, 0}
                 PROVE  New(r, mail[r].set.refresh)'
      BY DEF Fresh, Requests, Kinds
    <2>1. \A o \in Requests : mail'[o].cookies = mail[o].cookies
      BY <1>2
    <2>2. CASE r # q
      <3> DEFINE k == mail[r].set.refresh
      <3>1. mail'[r] = mail[r] /\ k \notin {None, 0} /\ New(r, k) /\ k \in Nat
        BY <1>2, <2>2, RecordTypes DEF Session, Fresh
      <3>2. k <= tokens' /\ k \notin dead' /\ k # jar'.refresh /\ n # k
        BY <1>1, <1>3, <1>5, <3>1 DEF New
      <3>3. \A o \in Requests \ {r} : mail'[o].set.refresh # k
        BY <1>2, <3>1, <3>2 DEF New, n
      <3> QED BY <2>1, <3>1, <3>2, <3>3 DEF New, Requests, Kinds
    <2>3. CASE r = q
      <3>1. n = tokens + 1 /\ tokens' = tokens + 1
        BY <1>5, <2>3 DEF n
      <3>2. n \notin dead' /\ n # jar'.refresh
        BY <1>1, <1>3, <1>5, <3>1
      <3>3. \A o \in Requests : mail'[o].cookies.refresh # n
        BY <1>3, <2>1, <3>1 DEF Session, Bounded
      <3>4. ASSUME NEW o \in Requests \ {q} PROVE mail'[o].set.refresh # n
        <4>1. mail'[o] = mail[o] /\ (mail[o].set.refresh \notin {None, 0} => mail[o].set.refresh <= tokens)
          BY <1>2 DEF Session, Fresh, New
        <4> QED BY <1>3, <3>1, <4>1
      <3>5. n <= tokens'
        BY <1>3, <3>1
      <3> QED BY <2>3, <3>2, <3>3, <3>4, <3>5 DEF New, Requests, Kinds, n
    <2> QED BY <2>2, <2>3
  <1>8. Whole'
    <2> SUFFICES ASSUME ~crossed', ~over', NEW o \in Requests PROVE mail'[o].set.refresh # 0
      BY DEF Whole, Requests, Kinds
    <2>1. ~crossed /\ ~over
      <3>1. ~crossed
        BY <1>1
      <3> QED BY <1>4, <3>1
    <2>2. n # 0
      BY <1>3, <1>4
    <2> QED BY <1>2, <2>1, <2>2 DEF Session, Whole, n
  <1>9. LoginBrings'
    <2>1. q[2] = "login" => n # None
      BY <1>3, <1>4
    <2> QED BY <1>2, <2>1 DEF Session, LoginBrings, Requests, Kinds, n
  <1>10. InFlight'
    <2>1. \A x \in Tabs : mail'[<<x, "refresh">>].phase \in {"sent", "served"}
                            => mail[<<x, "refresh">>].phase \in {"sent", "served"}
      BY <1>1, <1>2, KindsDiffer
    <2> QED BY <1>1, <2>1 DEF Session, InFlight, tabs
  <1>11. Kept'
    <2> SUFFICES ASSUME role', ~crossed', ~over' PROVE Good' \/ \E x \in Tabs : Rotation(x)'
      BY DEF Kept
    <2>1. role /\ ~crossed /\ ~over /\ UNCHANGED <<jar, page, refreshing>>
      <3>1. ~crossed /\ role /\ UNCHANGED <<jar, page, refreshing>>
        BY <1>1 DEF tabs
      <3> QED BY <1>4, <3>1
    <2>2. CASE UNCHANGED dead
      <3>1. ASSUME NEW x \in Tabs, Rotation(x) PROVE Rotation(x)'
        <4>1. mail'[<<x, "refresh">>] = mail[<<x, "refresh">>]
          BY <1>1, <1>2, <3>1, KindsDiffer DEF Rotation
        <4> QED BY <2>1, <2>2, <3>1, <4>1 DEF Rotation
      <3> QED BY <2>1, <2>2, <3>1 DEF Session, Kept, Good
    <2>3. CASE n = tokens + 1 /\ q[2] = "refresh"
      <3>1. PICK x \in Tabs : q = <<x, "refresh">>
        BY <2>3, KindsDiffer
      <3>2. page[x] = "open"
        BY <1>1, <2>1, <3>1 DEF Session, InFlight
      <3>3. n \notin {None, 0} \cup dead'
        BY <1>3, <1>5, <2>3
      <3> QED BY <1>2, <2>1, <3>1, <3>2, <3>3 DEF Rotation, n
    <2> QED BY <1>4, <2>2, <2>3
  <1> QED BY <1>6, <1>7, <1>8, <1>9, <1>10, <1>11 DEF Session

LEMMA StepSession == TypeOK /\ Session /\ [Next /\ UNCHANGED plan]_vars => Session'
  <1> SUFFICES ASSUME TypeOK, Session, [Next /\ UNCHANGED plan]_vars PROVE Session'
    OBVIOUS
  <1>1. ASSUME UNCHANGED <<jar, role, tokens, dead, tabs, mail, crossed, over>> PROVE Session'
    BY <1>1 DEF Session, Bounded, Fresh, New, Whole, LoginBrings, InFlight, Kept, Good, Rotation, tabs,
                Requests, Kinds
  <1>2. CASE Expire \/ UNCHANGED vars
    BY <1>1, <1>2 DEF Expire, vars, server
  <1> QED BY <1>2, ServeServes, ServeSession, TabSession DEF Next

\* For any number of tabs and calls, in any crossing of requests, answers and
\* expiries: a browser that stays signed in loses its refresh token only to a
\* rotation that another request of the same token crossed, or that nobody
\* heard.
THEOREM SessionIsKept == Spec => []SessionKept
  <1>1. Session => SessionKept
    <2> SUFFICES ASSUME Session, role, ~crossed, ~over PROVE jar.refresh \notin dead \cup {0} \/ OnItsWay
      BY DEF SessionKept
    <2>1. ASSUME NEW t \in Tabs, Rotation(t) PROVE OnItsWay
      BY <2>1, KindsDiffer DEF Rotation, OnItsWay
    <2> QED BY <2>1 DEF Session, Kept, Good
  <1> QED BY <1>1, InitSession, TypesCorrect, StepSession, PTL DEF Spec

-----------------------------------------------------------------------------
(* Calls that go through *)

\* As long as nothing crossed and nobody signed out, every refresh carries a
\* token and is granted, and the tabs know the role.
Granted ==
    ~crossed /\ ~over =>
        /\ role /\ jar.refresh # 0
        /\ \A q \in Requests : mail[q].phase = "sent" => mail[q].cookies.refresh # 0
        /\ \A q \in Requests : q[2] = "refresh" /\ mail[q].phase = "served" => mail[q].status = 200

\* Only a sign-out is answered as one, and only an expired token refused.
Reasons ==
    /\ \A q \in Requests : q[2] = "logout" /\ mail[q].phase = "served" => over
    /\ \A q \in Requests :
          q[2] \in Calls /\ mail[q].phase = "served" /\ mail[q].status # 200
              => mail[q].cookies.access <= expired

Survival == Granted /\ Reasons

LEMMA InitSurvival == Init => Survival
  BY DEF Init, Survival, Granted, Reasons, Unsent, Pair

\* What decides whether a call or a refresh is granted.
LEMMA ServeStatus ==
  ASSUME TypeOK, NEW q \in Requests, Serve(q)
  PROVE  /\ q[2] = "refresh" /\ mail[q].cookies.refresh \notin dead \cup {0} => mail'[q].status = 200
         /\ q[2] \in Calls /\ mail'[q].status # 200 => mail[q].cookies.access <= expired
  <1> DEFINE c == mail[q].cookies
  <1>0. mail \in [Requests -> Mail] /\ c.access \in Nat /\ expired \in Nat
    BY DEF TypeOK, Mail, Cookies
  <1>1. ASSUME q[2] = "refresh", c.refresh \notin dead \cup {0} PROVE mail'[q].status = 200
    <2>1. ServeRefresh(q)
      BY <1>1, KindsDiffer DEF Serve, ServeCall, ServeLogin, ServeLogout
    <2>2. Answer(q, 200, Rotated(tokens + 1))
      BY <1>1, <2>1 DEF ServeRefresh, Valid
    <2>3. 200 \in Statuses /\ Rotated(tokens + 1) \in Sets
      <3>1. tokens + 1 \in Nat
        BY DEF TypeOK
      <3> QED BY <3>1, SmallTypes DEF Statuses
    <2> QED BY <1>0, <2>2, <2>3, AnswerFields
  <1>2. ASSUME q[2] \in Calls, c.access > expired PROVE mail'[q].status = 200
    <2>1. ServeCall(q)
      BY <1>2, KindsDiffer DEF Serve, ServeRefresh, ServeLogin, ServeLogout
    <2>2. c.access # 0 /\ Valid(c).access
      <3>1. Valid(c).access = (c.access > expired)
        BY DEF Valid
      <3>2. c.access # 0
        BY <1>0, <1>2
      <3> QED BY <1>2, <3>1, <3>2
    <2>3. Answer(q, 200, Leave)
      BY <2>1, <2>2 DEF ServeCall
    <2>4. 200 \in Statuses /\ Leave \in Sets
      BY SmallTypes DEF Statuses
    <2> QED BY <1>0, <2>3, <2>4, AnswerFields
  <1> QED BY <1>0, <1>1, <1>2

LEMMA ServeSurvival ==
  ASSUME TypeOK, Session, Survival, NEW q \in Requests, Serve(q)
  PROVE  Survival'
  <1> DEFINE c == mail[q].cookies
  <1>1. /\ mail'[q].phase = "served" /\ mail'[q].cookies = c /\ mail[q].phase = "sent"
        /\ \A o \in Requests \ {q} : mail'[o] = mail[o]
        /\ UNCHANGED <<jar, role, expired>> /\ crossed' = (crossed \/ c.refresh \in dead)
    BY ServeServes, AnswerFields DEF Served, TypeOK
  <1>2. (over => over') /\ (q[2] = "logout" => over')
    BY KindsDiffer DEF Serve, ServeCall, ServeRefresh, ServeLogin, ServeLogout
  <1>3. Reasons'
    <2>1. ASSUME NEW o \in Requests, o[2] = "logout", mail'[o].phase = "served" PROVE over'
      BY <1>1, <1>2, <2>1 DEF Survival, Reasons
    <2>2. ASSUME NEW o \in Requests, o[2] \in Calls, mail'[o].phase = "served", mail'[o].status # 200
          PROVE  mail'[o].cookies.access <= expired'
      BY <1>1, <2>2, ServeStatus DEF Survival, Reasons
    <2> QED BY <2>1, <2>2 DEF Reasons, Requests, Kinds
  <1>4. Granted'
    <2> SUFFICES ASSUME ~crossed', ~over'
                 PROVE  /\ role' /\ jar'.refresh # 0
                        /\ \A o \in Requests : mail'[o].phase = "sent" => mail'[o].cookies.refresh # 0
                        /\ \A o \in Requests :
                              o[2] = "refresh" /\ mail'[o].phase = "served" => mail'[o].status = 200
      BY DEF Granted, Requests, Kinds
    <2>1. ~crossed /\ ~over /\ c.refresh \notin dead \cup {0}
      BY <1>1, <1>2 DEF Survival, Granted
    <2>2. q[2] = "refresh" => mail'[q].status = 200
      BY <2>1, ServeStatus
    <2> QED BY <1>1, <2>1, <2>2 DEF Survival, Granted
  <1> QED BY <1>3, <1>4 DEF Survival

\* What a tab changes of its own and hears is granted as before.
LEMMA TabSurvival ==
  ASSUME TypeOK, Session, Survival, NEW t \in Tabs, HearAny(t) \/ User(t) \/ Lose(t)
  PROVE  Survival'
  <1>1. /\ Touched /\ UNCHANGED <<server, over>> /\ (crossed => crossed')
        /\ jar' = jar \/ \E q \in Requests : jar' = Stored(mail[q].set)
    <2>1. CASE HearAny(t)
      BY <2>1, HearTouches DEF Heard
    <2>2. CASE User(t)
      BY <2>2, UserTouches
    <2>3. CASE Lose(t)
      BY <2>3 DEF Lose, Touched, TypeOK
    <2> QED BY <2>1, <2>2, <2>3
  <1>2. \A o \in Requests : mail'[o] = mail[o] \/ Resent(mail'[o])
    BY <1>1 DEF Touched
  <1>3. Reasons'
    <2>1. UNCHANGED <<over, expired>>
      BY <1>1 DEF server
    <2> QED BY <1>2, <2>1 DEF Survival, Reasons, Resent, Blank, Requests, Kinds
  <1>4. role /\ ~role' => crossed \/ over
    <2>1. ASSUME HearLogout(t) PROVE over
      <3> DEFINE q == <<t, "logout">>
      <3>1. q \in Requests /\ q[2] = "logout"
        BY KindsDiffer
      <3>2. mail[q].phase = "served"
        BY <2>1 DEF HearLogout, Hear
      <3> HIDE DEF q
      <3> QED BY <3>1, <3>2 DEF Survival, Reasons
    <2>2. ASSUME HearRefusal(t) PROVE crossed \/ over
      <3> DEFINE q == <<t, "refresh">>
      <3>1. q \in Requests /\ q[2] = "refresh"
        BY KindsDiffer
      <3>2. mail[q].phase = "served" /\ mail[q].status # 200
        BY <2>2 DEF HearRefusal, Hear
      <3> HIDE DEF q
      <3> QED BY <3>1, <3>2 DEF Survival, Granted
    <2>3. CASE HearUser(t) \/ HearLogin(t) \/ HearRefreshed(t) \/ \E k \in Calls : HearCall(<<t, k>>)
      BY <2>3 DEF HearUser, HearLogin, HearRefreshed, HearCall
    <2>4. CASE User(t) \/ Lose(t)
      BY <2>4, UserTouches DEF Lose
    <2> QED BY <2>1, <2>2, <2>3, <2>4 DEF HearAny
  <1>5. Granted'
    <2> SUFFICES ASSUME ~crossed', ~over'
                 PROVE  /\ role' /\ jar'.refresh # 0
                        /\ \A o \in Requests : mail'[o].phase = "sent" => mail'[o].cookies.refresh # 0
                        /\ \A o \in Requests :
                              o[2] = "refresh" /\ mail'[o].phase = "served" => mail'[o].status = 200
      BY DEF Granted, Requests, Kinds
    <2>1. ~crossed /\ ~over
      BY <1>1
    <2>2. role' /\ jar'.refresh # 0
      <3>1. \A q \in Requests : Stored(mail[q].set).refresh # 0
        BY <2>1 DEF Stored, Survival, Granted, Session, Whole
      <3> QED BY <1>1, <1>4, <2>1, <3>1 DEF Survival, Granted, TypeOK
    <2>3. \A o \in Requests : mail'[o].phase = "sent" => mail'[o].cookies.refresh # 0
      BY <1>2, <2>1, <2>2 DEF Resent, Survival, Granted
    <2>4. \A o \in Requests : o[2] = "refresh" /\ mail'[o].phase = "served" => mail'[o].status = 200
      BY <1>2, <2>1 DEF Resent, Blank, Survival, Granted
    <2> QED BY <2>2, <2>3, <2>4
  <1> QED BY <1>3, <1>5 DEF Survival

LEMMA StepSurvival == TypeOK /\ Session /\ Survival /\ [Next /\ UNCHANGED plan]_vars => Survival'
  <1> SUFFICES ASSUME TypeOK, Session, Survival, [Next /\ UNCHANGED plan]_vars PROVE Survival'
    OBVIOUS
  <1>1. CASE Expire
    <2>1. UNCHANGED <<jar, role, mail, crossed, over>> /\ expired' >= expired
          /\ expired' \in Nat /\ expired \in Nat
      BY <1>1 DEF Expire, TypeOK
    <2>2. Granted'
      BY <2>1 DEF Survival, Granted, Requests, Kinds
    <2>3. \A q \in Requests : mail[q].cookies.access \in Nat
      BY DEF TypeOK, Mail, Cookies
    <2>4. Reasons'
      BY <2>1, <2>3 DEF Survival, Reasons, Requests, Kinds
    <2> QED BY <2>2, <2>4 DEF Survival
  <1>2. CASE UNCHANGED vars
    BY <1>2 DEF vars, server, Survival, Granted, Reasons, Requests, Kinds
  <1> QED BY <1>1, <1>2, ServeSurvival, TabSurvival DEF Next

\* The steps that end a call without an answer for its page.
Refused == {"failed", "forgotten"}

LEMMA RefusingSteps ==
  ASSUME TypeOK, Next, NEW q \in Tabs \X Calls,
         mail'[q].phase \in Refused, mail[q].phase \notin Refused
  PROVE  \/ \E r \in Requests : r[2] = "refresh" /\ mail[r].phase = "served" /\ mail[r].status # 200
         \/ mail[q].phase = "served" /\ mail[q].status # 200 /\ (q \in retried \/ ~role)
  <1>0. q \in Requests /\ q[2] \in Calls /\ mail \in [Requests -> Mail]
    BY KindsDiffer DEF TypeOK, Requests
  <1>1. \A c \in Cookies : Sent(c).phase \notin Refused
    BY DEF Sent, Refused
  <1>2. Unsent.phase \notin Refused /\ \A p \in {"done", "queued", "waiting"} : At(p).phase \notin Refused
    BY DEF Unsent, At, Refused
  <1>3. ASSUME NEW o \in Requests, NEW p \in {"done", "queued", "waiting"}, End(o, p) PROVE FALSE
    BY <1>0, <1>2, <1>3 DEF End
  <1>4. ASSUME NEW o \in Requests, Serve(o) PROVE FALSE
    <2>1. mail'[o].phase = "served" /\ \A x \in Requests \ {o} : mail'[x] = mail[x]
      BY <1>4, ServeServes, AnswerFields DEF Served, TypeOK
    <2> QED BY <1>0, <2>1 DEF Refused
  <1>5. ASSUME NEW t \in Tabs, User(t) PROVE FALSE
    <2>1. PICK k \in Kinds : mail' = [mail EXCEPT ![<<t, k>>] = Sent(jar)]
      BY <1>5, KindsDiffer DEF User, Open, Login, Logout, Call, Request
    <2> QED BY <1>0, <1>1, <2>1 DEF TypeOK
  <1>6. ASSUME NEW t \in Tabs, HearUser(t) \/ HearLogin(t) \/ HearLogout(t) PROVE FALSE
    BY <1>3, <1>6, KindsDiffer DEF HearUser, HearLogin, HearLogout
  <1>7. ASSUME NEW t \in Tabs, NEW k \in Calls, HearCall(<<t, k>>)
        PROVE  mail[q].phase = "served" /\ mail[q].status # 200 /\ (q \in retried \/ ~role)
    <2> DEFINE o == <<t, k>>
    <2>1. o \in Requests /\ <<t, "refresh">> \in Requests /\ o[1] = t
      BY KindsDiffer
    <2>2. jar' \in Cookies
      BY <1>7, HearTouches DEF HearAny, Heard
    <2>3. mail[o].status # 200 /\ mail[o].phase = "served"
      BY <1>3, <1>7, <2>1 DEF HearCall, Hear
    <2>4. ASSUME RefreshFor(o) PROVE FALSE
      <3>1. CASE t \in refreshing
        BY <1>3, <2>1, <2>4, <3>1 DEF RefreshFor
      <3>2. CASE t \notin refreshing
        <4>1. mail' = [mail EXCEPT ![o] = At("waiting"), ![<<t, "refresh">>] = Sent(jar')]
          BY <2>1, <2>4, <3>2 DEF RefreshFor
        <4> HIDE DEF o
        <4>2. mail'[q] \in {At("waiting"), Sent(jar'), mail[q]}
          BY <1>0, <2>1, <4>1
        <4>3. At("waiting").phase \notin Refused /\ Sent(jar').phase \notin Refused
          BY <1>1, <1>2, <2>2
        <4> QED BY <4>2, <4>3
      <3> QED BY <3>1, <3>2
    <2>5. (o \in retried \/ ~role) /\ End(o, "failed")
      BY <1>7, <2>3, <2>4 DEF HearCall
    <2>6. q = o
      BY <1>0, <2>1, <2>5 DEF End
    <2> QED BY <2>3, <2>5, <2>6
  <1>8. ASSUME NEW t \in Tabs, HearRefreshed(t) PROVE FALSE
    <2>1. jar' \in Cookies
      BY <1>8, HearTouches DEF HearAny, Heard
    <2>2. mail'[q] \in {Unsent, Sent(jar'), mail[q]}
      BY <1>0, <1>8 DEF HearRefreshed
    <2> QED BY <1>1, <1>2, <2>1, <2>2
  <1>9. ASSUME NEW t \in Tabs, HearRefusal(t)
        PROVE  \E r \in Requests : r[2] = "refresh" /\ mail[r].phase = "served" /\ mail[r].status # 200
    BY <1>9, KindsDiffer DEF HearRefusal, Hear
  <1>10. CASE Expire \/ \E t \in Tabs : Lose(t)
    BY <1>10 DEF Expire, Lose
  <1>11. ASSUME NEW t \in Tabs, HearAny(t)
         PROVE  \/ \E r \in Requests : r[2] = "refresh" /\ mail[r].phase = "served" /\ mail[r].status # 200
                \/ mail[q].phase = "served" /\ mail[q].status # 200 /\ (q \in retried \/ ~role)
    <2>1. CASE \E k \in Calls : HearCall(<<t, k>>)
      BY <1>7, <2>1
    <2>2. CASE HearRefusal(t)
      BY <1>9, <2>2
    <2> QED BY <1>6, <1>8, <1>11, <2>1, <2>2 DEF HearAny
  <1> QED BY <1>4, <1>5, <1>10, <1>11 DEF Next

\* For any number of tabs and calls that meet any number of expiries at once:
\* a call is lost only to a sign-out, to a crossing, or to a second expiry.
THEOREM CallsGoThrough == Spec => CallsSurvive
  <1> DEFINE Survives == \A q \in Tabs \X Calls :
                            mail'[q].phase \in {"failed", "forgotten"} =>
                                \/ mail[q].phase \in {"failed", "forgotten"}
                                \/ crossed \/ over
                                \/ q \in retried /\ mail[q].phase = "served"
                                   /\ mail[q].cookies.access <= expired
  <1>1. TypeOK /\ Survival /\ [Next /\ UNCHANGED plan]_vars => [Survives]_vars
    <2> SUFFICES ASSUME TypeOK, Survival, Next,
                        NEW q \in Tabs \X Calls, mail'[q].phase \in Refused, mail[q].phase \notin Refused,
                        ~crossed, ~over
                 PROVE  q \in retried /\ mail[q].phase = "served" /\ mail[q].cookies.access <= expired
      BY DEF Refused
    <2>1. q \in Requests /\ q[2] \in Calls
      BY KindsDiffer DEF Requests
    <2>2. /\ role
          /\ \A r \in Requests : r[2] = "refresh" /\ mail[r].phase = "served" => mail[r].status = 200
      BY DEF Survival, Granted
    <2>3. mail[q].phase = "served" /\ mail[q].status # 200 /\ q \in retried
      BY <2>2, RefusingSteps
    <2> QED BY <2>1, <2>3 DEF Survival, Reasons
  <1>2. Spec => []TypeOK /\ []Survival
    BY InitTypes, InitSession, InitSurvival, StepTypes, StepSession, StepSurvival, PTL DEF Spec
  <1> QED BY <1>1, <1>2, PTL DEF Spec, CallsSurvive

=============================================================================
