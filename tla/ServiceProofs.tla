---------------------------- MODULE ServiceProofs ----------------------------
(***************************************************************************)
(* Proofs about the dev supervisor, the login session, the feeds and the   *)
(* run console, for any number of processes, tabs, people, publishers,     *)
(* entries, runs and readers; then about all the components beside the run *)
(* system, which share no state.                                           *)
(***************************************************************************)
EXTENDS MCServices, ProjectProofs, SettingsProofs, AccountsProofs, PreparationProofs,
        WellFoundedInduction

-----------------------------------------------------------------------------
(* The dev supervisor.  Every process that was started is in the list, or  *)
(* about to be, or an interrupt came; the second loop leaves ended         *)
(* processes behind, up to the one it is broken off at.                    *)
DevInv ==
  /\ DevTypeOK
  /\ \A i \in Children :
       child[i] = "none" \/ i \in known \/ (boss = "append" /\ i = at) \/ interrupts > 0
  /\ \A i \in serving : child[i] \notin {"none", "exited"}
  /\ boss = "wait" => \A i \in known : i < at => Exited(i)
  /\ boss = "over" => \A i \in known : i < left => Exited(i)

LEMMA DevInitial == DevInit => DevInv
BY DevAssumption
DEF DevInit, DevInv, DevTypeOK, DevAssumption, BossStates, ChildStates, Children, Exited

(* What the steps of the supervisor and its processes preserve.            *)
LEMMA DevStep == DevInv /\ [DevNext]_devVars => DevInv'
<1> SUFFICES ASSUME DevInv, [DevNext]_devVars PROVE DevInv'
  OBVIOUS
<1> USE DevAssumption DEF DevAssumption, DevInv, DevTypeOK, BossStates, ChildStates, Children, Exited, Boss
<1>1. CASE \E chosen \in {"dev", "demo"} : Invoke(chosen)
  BY <1>1 DEF Invoke
<1>2. CASE Spawn
  BY <1>2 DEF Spawn
<1>3. CASE AppendChild
  BY <1>3 DEF AppendChild
<1>4. CASE Watch
  <2>1. (at % Commands) + 1 \in 1..Commands
    OBVIOUS
  <2>2. QED
    BY <1>4, <2>1 DEF Watch, LeavesChildren
<1>5. CASE WaitReady
  BY <1>5 DEF WaitReady, LeavesChildren
<1>6. CASE Drive
  BY <1>6 DEF Drive, LeavesChildren
<1>7. CASE Terminate
  <2>1. /\ child' \in [Children -> ChildStates]
        /\ \A i \in Children : /\ child'[i] = "none" <=> child[i] = "none"
                               /\ child'[i] = "exited" => child[i] = "exited"
    BY <1>7 DEF Terminate
  <2>2. QED
    BY <1>7, <2>1 DEF Terminate, NextPhase
<1>8. CASE WaitChild
  <2>1. CASE (at \notin known \/ Exited(at)) /\ NextPhase("wait") /\ UNCHANGED <<child, left>>
    <3>1. \A i \in known : i <= at => Exited(i)
      BY <1>8, <2>1 DEF WaitChild
    <3>2. QED
      BY <1>8, <2>1, <3>1 DEF WaitChild, NextPhase
  <2>2. CASE /\ at \in known /\ TimesOut /\ child' = Killed
             /\ IF child'[at] = "killed" THEN Boss("wait", at) ELSE NextPhase("wait")
             /\ UNCHANGED left
    BY <1>8, <2>2 DEF WaitChild, TimesOut, Killed
  <2>3. CASE Boss("over", 1) /\ left' = at /\ UNCHANGED child
    BY <1>8, <2>3 DEF WaitChild
  <2>4. QED
    BY <1>8, <2>1, <2>2, <2>3 DEF WaitChild
<1>9. CASE Interrupt
  <2>1. /\ interrupts' \in 0..MaxInterrupts /\ interrupts' > 0
        /\ UNCHANGED <<task, child, known, serving>>
    BY <1>9 DEF Interrupt
  <2>2. \/ boss' = "terminate" /\ at' = 1 /\ left' = left
        \/ boss' = "over" /\ at' = 1 /\ (left' = 1 \/ (boss = "wait" /\ left' = at))
    BY <1>9 DEF Interrupt
  <2>3. CASE boss' = "terminate" /\ at' = 1 /\ left' = left
    BY <2>1, <2>3
  <2>4. CASE boss' = "over" /\ at' = 1 /\ left' = 1
    BY <2>1, <2>4
  <2>5. CASE boss' = "over" /\ at' = 1 /\ boss = "wait" /\ left' = at
    BY <2>1, <2>5
  <2>6. QED
    BY <2>2, <2>3, <2>4, <2>5
<1>10. ASSUME NEW i \in Children, ChildServes(i) \/ ServerEnds(i) PROVE DevInv'
  BY <1>10 DEF ChildServes, ServerEnds, UnchangedBoss
<1>11. ASSUME NEW i \in Children, ChildExits(i) \/ ChildDies(i) PROVE DevInv'
  <2>1. /\ UNCHANGED <<task, boss, at, known, interrupts, left, serving>>
        /\ child' \in [Children -> ChildStates]
        /\ \A j \in Children : /\ child'[j] = "none" <=> child[j] = "none"
                               /\ child'[j] = "exited" => child[j] = "exited" \/ j \notin serving
                               /\ Exited(j) => Exited(j)'
    BY <1>11 DEF ChildExits, ChildDies, UnchangedBoss
  <2>2. QED
    BY <2>1
<1>12. CASE UNCHANGED devVars
  BY <1>12 DEF devVars
<1>13. QED
  BY <1>1, <1>2, <1>3, <1>4, <1>5, <1>6, <1>7, <1>8, <1>9, <1>10, <1>11, <1>12
  DEF DevNext, Supervise

(* _stop_processes leaves nothing that run_dev or demo has started running,*)
(* neither a process nor a server behind one, but in the four cases that   *)
(* NoOrphans names, for any number of processes and interrupts.            *)
THEOREM NothingLeftRunning == DevSpec => []NoOrphans
<1>1. DevInv => NoOrphans
  BY DEF DevInv, DevTypeOK, ChildStates, Children, NoOrphans, RunsOn, Exited
<1>2. QED
  BY DevInitial, DevStep, <1>1, PTL DEF DevSpec

LEMMA DevTyped == DevSpec => []DevTypeOK
<1>1. DevInv => DevTypeOK
  BY DEF DevInv
<1>2. QED
  BY DevInitial, DevStep, <1>1, PTL DEF DevSpec

-----------------------------------------------------------------------------
(* The login session.  As long as no other response has replaced the       *)
(* session since a tab left for CAS, the cookie still has the id of the    *)
(* service URL, and so has the cookie of the tab's callback.               *)
TabGood(held, rec) ==
  /\ rec.pc \in {"cas", "returning", "refused", "unvouched"} /\ ~rec.disturbed =>
       held.id = rec.service /\ rec.service # 0
  /\ rec.pc = "returning" /\ ~rec.disturbed => rec.sent.id = rec.service
  /\ rec.pc = "refused" => rec.disturbed

LoginInv == LoginTypeOK /\ \A t \in Tabs : TabGood(cookie, tab[t])

LEMMA IdleTabGood == LoginAssumption => /\ IdleTab \in TabRecord /\ NoSession \in Session
                                        /\ \A held : TabGood(held, IdleTab)
  BY DEF LoginAssumption, IdleTab, NoSession, TabRecord, Session, TabGood

LEMMA LoginInitial == LoginInit => LoginInv
<1> SUFFICES ASSUME LoginInit PROVE LoginInv
  OBVIOUS
<1>1. IdleTab \in TabRecord /\ NoSession \in Session /\ \A held : TabGood(held, IdleTab)
  BY IdleTabGood, LoginAssumption
<1>2. cookie \in Session /\ tab \in [Tabs -> TabRecord] /\ \A t \in Tabs : TabGood(cookie, tab[t])
  BY <1>1 DEF LoginInit
<1>3. ids \in 0..MaxIds /\ visits \in 0..MaxVisits
  BY LoginAssumption DEF LoginInit, LoginAssumption
<1>4. QED
  BY <1>2, <1>3 DEF LoginInv, LoginTypeOK

(* A response without a cookie.                                            *)
LEMMA AnswersKeep ==
  ASSUME LoginInv, NEW t \in Tabs, NEW rec \in TabRecord, TabGood(cookie, rec), Answers(t, rec)
  PROVE  /\ cookie' \in Session /\ tab' \in [Tabs -> TabRecord]
         /\ \A x \in Tabs : TabGood(cookie', tab'[x])
<1>1. cookie' = cookie /\ tab' = [tab EXCEPT ![t] = rec] /\ tab \in [Tabs -> TabRecord]
      /\ cookie \in Session /\ \A x \in Tabs : TabGood(cookie, tab[x])
  BY DEF Answers, LoginInv, LoginTypeOK
<1>2. \A x \in Tabs : tab'[x] = IF x = t THEN rec ELSE tab[x]
  BY <1>1
<1>3. QED
  BY <1>1, <1>2

(* A response that replaces the session disturbs the tabs with another id. *)
LEMMA CookiesKeep ==
  ASSUME LoginInv, NEW t \in Tabs, NEW held \in Session, NEW rec \in TabRecord,
         TabGood(held, rec), SetsCookie(t, held, rec)
  PROVE  /\ cookie' \in Session /\ tab' \in [Tabs -> TabRecord]
         /\ \A x \in Tabs : TabGood(cookie', tab'[x])
<1> DEFINE other(x) == [tab[x] EXCEPT !.disturbed = @ \/ held.id # tab[x].service]
<1>1. cookie' = held /\ tab' = [x \in Tabs |-> IF x = t THEN rec ELSE other(x)]
  BY DEF SetsCookie
<1>2. tab \in [Tabs -> TabRecord] /\ \A x \in Tabs : TabGood(cookie, tab[x])
  BY DEF LoginInv, LoginTypeOK
<1>3. ASSUME NEW x \in Tabs PROVE other(x) \in TabRecord /\ TabGood(held, other(x))
  <2>1. tab[x] \in TabRecord /\ TabGood(cookie, tab[x])
    BY <1>2
  <2>2. other(x) \in TabRecord
    <3>1. (tab[x].disturbed \/ held.id # tab[x].service) \in BOOLEAN
      OBVIOUS
    <3>2. QED
      BY <2>1, <3>1 DEF TabRecord
  <2>3. /\ other(x).pc = tab[x].pc /\ other(x).sent = tab[x].sent
        /\ other(x).service = tab[x].service
        /\ other(x).disturbed = (tab[x].disturbed \/ held.id # tab[x].service)
    BY <2>1 DEF TabRecord
  <2> HIDE DEF other
  <2>4. TabGood(held, other(x))
    BY <2>1, <2>3 DEF TabGood
  <2>5. QED
    BY <2>2, <2>4
<1> HIDE DEF other
<1>4. QED
  BY <1>1, <1>3

(* A request keeps the session; a callback must carry the tab's id.        *)
LEMMA SendKeeps ==
  ASSUME LoginInv, NEW t \in Tabs, NEW pc, NEW person \in People \cup {None},
         pc \in {"asking", "returning", "entering", "leaving"},
         pc = "returning" => tab[t].pc = "cas", Send(t, pc, person)
  PROVE  LoginInv'
<1> DEFINE rec == [tab[t] EXCEPT !.pc = pc, !.sent = cookie, !.person = person]
<1>1. tab \in [Tabs -> TabRecord] /\ tab[t] \in TabRecord /\ TabGood(cookie, tab[t])
      /\ cookie \in Session
  BY DEF LoginInv, LoginTypeOK
<1>2. rec \in TabRecord
  BY <1>1 DEF TabRecord
<1>3. rec.pc = pc /\ rec.sent = cookie /\ rec.service = tab[t].service
      /\ rec.disturbed = tab[t].disturbed
  BY <1>1 DEF TabRecord
<1>4. tab' = [tab EXCEPT ![t] = rec] /\ visits' = visits + 1 /\ visits < MaxVisits
      /\ UNCHANGED <<cookie, ids>>
  BY <1>1 DEF Send, TabRecord
<1> HIDE DEF rec
<1>5. TabGood(cookie, rec)
  BY <1>1, <1>3 DEF TabGood
<1>6. Answers(t, rec)
  BY <1>4 DEF Answers
<1>7. visits' \in 0..MaxVisits /\ ids' \in 0..MaxIds
  BY <1>4, LoginAssumption DEF LoginInv, LoginTypeOK, LoginAssumption
<1>8. QED
  BY <1>2, <1>5, <1>6, <1>7, AnswersKeep DEF LoginInv, LoginTypeOK

LEMMA IdGiven ==
  ASSUME LoginInv, NEW held \in Session, CanGiveId(held), GivesId(held)
  PROVE  SessionId(held) \in 1..MaxIds /\ ids' \in 0..MaxIds
<1>1. held.id \in 0..MaxIds /\ ids \in 0..MaxIds /\ MaxIds \in Nat
  BY LoginAssumption DEF Session, LoginInv, LoginTypeOK, LoginAssumption
<1>2. QED
  BY <1>1 DEF CanGiveId, GivesId, SessionId

LEMMA IdKept ==
  ASSUME LoginInv, NEW t \in Tabs, NEW rec \in TabRecord, KeepsId(t, rec),
         CanGiveId(tab[t].sent), GivesId(tab[t].sent),
         tab[t].sent.id = SessionId(tab[t].sent) => TabGood(cookie, rec),
         tab[t].sent.id # SessionId(tab[t].sent) =>
           \A held : held.id = SessionId(tab[t].sent) => TabGood(held, rec)
  PROVE  /\ cookie' \in Session /\ tab' \in [Tabs -> TabRecord] /\ ids' \in 0..MaxIds
         /\ \A x \in Tabs : TabGood(cookie', tab'[x])
<1> DEFINE sent == tab[t].sent
           held == [sent EXCEPT !.id = SessionId(sent)]
<1>1. sent \in Session
  BY DEF LoginInv, LoginTypeOK, TabRecord
<1>2. SessionId(sent) \in 1..MaxIds /\ ids' \in 0..MaxIds
  BY <1>1, IdGiven
<1>3. held \in Session /\ held.id = SessionId(sent)
  BY <1>1, <1>2, LoginAssumption DEF Session, LoginAssumption
<1>4. CASE sent.id = SessionId(sent)
  BY <1>2, <1>4, AnswersKeep DEF KeepsId
<1>5. CASE sent.id # SessionId(sent)
  <2>1. SetsCookie(t, held, rec)
    BY <1>5 DEF KeepsId
  <2>2. TabGood(held, rec)
    BY <1>3, <1>5
  <2>3. QED
    BY <1>2, <1>3, <2>1, <2>2, CookiesKeep
<1>6. QED
  BY <1>4, <1>5

(* /login without a ticket gives the tab the id the session then has.      *)
LEMMA AskedKeeps == ASSUME LoginInv, NEW t \in Tabs, Asked(t) PROVE LoginInv'
<1> DEFINE sent == tab[t].sent
           rec  == [IdleTab EXCEPT !.pc = "cas", !.service = SessionId(sent),
                      !.disturbed = sent.id = SessionId(sent) /\ cookie.id # SessionId(sent)]
<1>1. sent \in Session /\ cookie \in Session /\ visits' \in 0..MaxVisits /\ ids \in 0..MaxIds
  BY DEF LoginInv, LoginTypeOK, TabRecord, Asked
<1>2. IdleTab \in TabRecord /\ \A held : TabGood(held, IdleTab)
  BY IdleTabGood, LoginAssumption
<1>3. CASE sent.user # None
  <2>1. Answers(t, IdleTab) /\ UNCHANGED ids
    BY <1>3 DEF Asked
  <2>2. QED
    BY <1>1, <1>2, <2>1, AnswersKeep DEF LoginInv, LoginTypeOK
<1>4. CASE sent.user = None
  <2>1. CanGiveId(sent) /\ GivesId(sent) /\ KeepsId(t, rec)
    BY <1>4 DEF Asked
  <2>2. SessionId(sent) \in 1..MaxIds
    BY <1>1, <2>1, IdGiven
  <2>3. rec \in TabRecord
    <3>1. (sent.id = SessionId(sent) /\ cookie.id # SessionId(sent)) \in BOOLEAN
      OBVIOUS
    <3>2. SessionId(sent) \in 0..MaxIds
      BY <2>2, LoginAssumption DEF LoginAssumption
    <3>3. QED
      BY <1>2, <3>1, <3>2 DEF TabRecord
  <2>4. /\ rec.pc = "cas" /\ rec.service = SessionId(sent)
        /\ rec.disturbed = (sent.id = SessionId(sent) /\ cookie.id # SessionId(sent))
    BY DEF IdleTab
  <2> HIDE DEF rec
  <2>5. sent.id = SessionId(sent) => TabGood(cookie, rec)
    <3>1. ASSUME sent.id = SessionId(sent), ~rec.disturbed PROVE cookie.id = SessionId(sent)
      BY <2>4, <3>1, Zenon
    <3>2. SessionId(sent) # 0
      BY <2>2
    <3>3. QED
      BY <2>4, <3>1, <3>2, Zenon DEF TabGood
  <2>6. sent.id # SessionId(sent) =>
          \A held : held.id = SessionId(sent) => TabGood(held, rec)
    BY <2>2, <2>4 DEF TabGood
  <2>7. QED
    BY <1>1, <2>1, <2>3, <2>5, <2>6, IdKept DEF LoginInv, LoginTypeOK
<1>5. QED
  BY <1>3, <1>4

(* An undisturbed callback carries the cookie with its own id, so it is    *)
(* refused for another id only when it is disturbed.                       *)
LEMMA ReturnedKeeps == ASSUME LoginInv, NEW t \in Tabs, Returned(t) PROVE LoginInv'
<1> DEFINE sent == tab[t].sent
           rec(pc) == [tab[t] EXCEPT !.pc = pc]
           held == [id |-> SessionId(sent), user |-> tab[t].person, local |-> FALSE]
<1>1. /\ sent \in Session /\ cookie \in Session /\ visits' \in 0..MaxVisits /\ ids \in 0..MaxIds
      /\ tab[t] \in TabRecord /\ TabGood(cookie, tab[t]) /\ tab[t].pc = "returning"
  BY DEF LoginInv, LoginTypeOK, TabRecord, Returned
<1>2. IdleTab \in TabRecord /\ \A s : TabGood(s, IdleTab)
  BY IdleTabGood, LoginAssumption
<1>3. \A pc \in {"refused", "unvouched"} :
        /\ rec(pc) \in TabRecord
        /\ rec(pc).pc = pc /\ rec(pc).sent = sent /\ rec(pc).service = tab[t].service
        /\ rec(pc).disturbed = tab[t].disturbed
  BY <1>1 DEF TabRecord
<1> HIDE DEF rec
<1>4. ~tab[t].disturbed => /\ sent.id = tab[t].service /\ cookie.id = tab[t].service
                           /\ sent.id # 0 /\ SessionId(sent) = sent.id
  BY <1>1 DEF TabGood, SessionId
<1>5. CASE sent.user # None
  <2>1. Answers(t, IdleTab) /\ UNCHANGED ids
    BY <1>5 DEF Returned
  <2>2. QED
    BY <1>1, <1>2, <2>1, AnswersKeep DEF LoginInv, LoginTypeOK
<1>6. CASE sent.user = None
  <2>1. CanGiveId(sent) /\ GivesId(sent)
    BY <1>6 DEF Returned
  <2>2. SessionId(sent) \in 1..MaxIds /\ ids' \in 0..MaxIds
    BY <1>1, <2>1, IdGiven
  <2>3. CASE SessionId(sent) # tab[t].service /\ KeepsId(t, rec("refused"))
    <3>1. tab[t].disturbed
      BY <1>4, <2>3
    <3>2. \A s : TabGood(s, rec("refused"))
      BY <1>3, <3>1 DEF TabGood
    <3>3. QED
      BY <1>1, <1>3, <2>1, <2>3, <3>2, IdKept DEF LoginInv, LoginTypeOK
  <2>4. CASE SessionId(sent) = tab[t].service /\ KeepsId(t, rec("unvouched"))
    <3>1. sent.id = SessionId(sent) => TabGood(cookie, rec("unvouched"))
      BY <1>1, <1>3 DEF TabGood
    <3>2. sent.id # SessionId(sent) =>
            \A s : s.id = SessionId(sent) => TabGood(s, rec("unvouched"))
      BY <1>3, <2>2, <2>4 DEF TabGood
    <3>3. QED
      BY <1>1, <1>3, <2>1, <2>4, <3>1, <3>2, IdKept DEF LoginInv, LoginTypeOK
  <2>5. CASE SetsCookie(t, held, IdleTab)
    <3>1. held \in Session
      BY <1>1, <2>2 DEF Session, TabRecord
    <3>2. QED
      BY <1>1, <1>2, <2>2, <2>5, <3>1, CookiesKeep DEF LoginInv, LoginTypeOK
  <2>6. QED
    BY <1>6, <2>3, <2>4, <2>5 DEF Returned, rec
<1>7. QED
  BY <1>5, <1>6

LEMMA LoginStep == LoginInv /\ [LoginNext]_loginVars => LoginInv'
<1> SUFFICES ASSUME LoginInv, [LoginNext]_loginVars PROVE LoginInv'
  OBVIOUS
<1>1. CASE UNCHANGED loginVars
  BY <1>1 DEF loginVars, LoginInv, LoginTypeOK, TabGood
<1>2. ASSUME NEW t \in Tabs,
             \/ AskLogin(t) \/ Asked(t) \/ Return(t) \/ Returned(t) \/ LoseReturned(t)
             \/ EnterPassword(t) \/ Entered(t) \/ Logout(t) \/ LoggedOut(t)
      PROVE  LoginInv'
  <2>1. tab[t] \in TabRecord /\ TabGood(cookie, tab[t]) /\ visits \in 0..MaxVisits /\ ids \in 0..MaxIds
    BY DEF LoginInv, LoginTypeOK
  <2>2. IdleTab \in TabRecord /\ NoSession \in Session /\ \A s : TabGood(s, IdleTab)
    BY IdleTabGood, LoginAssumption
  <2>3. CASE AskLogin(t) \/ Return(t) \/ EnterPassword(t) \/ Logout(t)
    <3>1. CASE AskLogin(t) \/ Logout(t)
      BY <3>1, SendKeeps DEF AskLogin, Logout
    <3>2. CASE EnterPassword(t)
      BY <3>2, SendKeeps DEF EnterPassword
    <3>3. CASE Return(t)
      <4>1. PICK p \in People \cup {None} : Send(t, "returning", p)
        BY <2>1, <3>3 DEF Return, TabRecord
      <4>2. tab[t].pc = "cas"
        BY <3>3 DEF Return
      <4>3. QED
        BY <4>1, <4>2, SendKeeps
    <3>4. QED
      BY <2>3, <3>1, <3>2, <3>3
  <2>4. CASE Asked(t)
    BY <2>4, AskedKeeps
  <2>5. CASE Returned(t)
    BY <2>5, ReturnedKeeps
  <2>6. CASE LoseReturned(t)
    <3> DEFINE rec == [tab[t] EXCEPT !.pc = "cas", !.spent = TRUE]
    <3>1. rec \in TabRecord /\ rec.pc = "cas" /\ rec.service = tab[t].service
          /\ rec.disturbed = tab[t].disturbed
      BY <2>1 DEF TabRecord
    <3>2. Answers(t, rec) /\ UNCHANGED <<ids, visits>> /\ tab[t].pc = "returning"
      BY <2>6 DEF LoseReturned
    <3> HIDE DEF rec
    <3>3. TabGood(cookie, rec)
      BY <2>1, <3>1, <3>2 DEF TabGood
    <3>4. QED
      BY <2>1, <3>1, <3>2, <3>3, AnswersKeep DEF LoginInv, LoginTypeOK
  <2>7. CASE Entered(t)
    <3> DEFINE held == [id |-> 0, user |-> tab[t].person, local |-> TRUE]
    <3>1. held \in Session
      BY <2>1, LoginAssumption DEF Session, TabRecord, LoginAssumption
    <3>2. UNCHANGED <<ids, visits>> /\ (Answers(t, IdleTab) \/ SetsCookie(t, held, IdleTab))
      BY <2>7 DEF Entered
    <3>3. QED
      BY <2>1, <2>2, <3>1, <3>2, AnswersKeep, CookiesKeep DEF LoginInv, LoginTypeOK
  <2>8. CASE LoggedOut(t)
    BY <2>1, <2>2, <2>8, CookiesKeep DEF LoggedOut, LoginInv, LoginTypeOK
  <2>9. QED
    BY <1>2, <2>3, <2>4, <2>5, <2>6, <2>7, <2>8
<1>3. QED
  BY <1>1, <1>2 DEF LoginNext

(* Whoever comes back from CAS is refused for the id of the session only   *)
(* if another tab's response has replaced it, for any number of tabs.      *)
THEOREM CallbacksAreAccepted == LoginSpec => []RefusedOnlyIfDisturbed
<1>1. LoginInv => RefusedOnlyIfDisturbed
  BY DEF LoginInv, TabGood, RefusedOnlyIfDisturbed
<1>2. QED
  BY LoginInitial, LoginStep, <1>1, PTL DEF LoginSpec

LEMMA LoginTyped == LoginSpec => []LoginTypeOK
<1>1. LoginInv => LoginTypeOK
  BY DEF LoginInv
<1>2. QED
  BY LoginInitial, LoginStep, <1>1, PTL DEF LoginSpec

-----------------------------------------------------------------------------
(* The feed.  What was listed when the reader began and has not been seen  *)
(* still lies behind the pages it has read: entries are only added, and an *)
(* added entry moves the others back, never forward.                       *)
Listed == Shown(reader.unread)
Behind(n) == \A e \in reader.began \ reader.seen : Newer(Listed, e) >= n
Unmixed == ~(reader.unread /\ reader.marked)

FeedInv ==
  /\ FeedsTypeOK
  /\ \A p \in Publishers : publisher[p].pc # "idle" => publisher[p].entry \in Entries
  /\ reader.pc \in {"count", "fetch"} => reader.page # 0
  /\ reader.pc \in {"count", "fetch"} /\ Unmixed =>
       reader.began \subseteq Listed /\ Behind(Offset(reader.page))
  /\ reader.pc = "fetch" /\ Unmixed => Cardinality(Listed) <= reader.total + reader.slipped
  /\ FeedSkipsNothing

LEMMA SmallSets == \A S \in SUBSET Entries : IsFiniteSet(S) /\ Cardinality(S) \in Nat
<1>1. IsFiniteSet(Entries)
  BY FS_Interval, FeedsAssumption DEF FeedsAssumption, Entries
<1>2. QED
  BY <1>1, FS_Subset, FS_CardinalityType

LEMMA NewerGrows ==
  ASSUME NEW T \in SUBSET Entries, NEW S \in SUBSET T, NEW e
  PROVE  Newer(S, e) \in Nat /\ Newer(T, e) \in Nat /\ Newer(S, e) <= Newer(T, e)
<1>1. {x \in S : x > e} \in SUBSET {x \in T : x > e} /\ {x \in T : x > e} \in SUBSET Entries
      /\ {x \in S : x > e} \in SUBSET Entries
  OBVIOUS
<1>2. QED
  BY <1>1, SmallSets, FS_Subset DEF Newer

(* A set of entries has a newest.                                          *)
LEMMA Newest ==
  ASSUME NEW U \in SUBSET Entries, U # {}
  PROVE  \E m \in U : \A x \in U : x <= m
<1> DEFINE age == {MaxPublished - x : x \in U}
<1>1. MaxPublished \in Nat /\ U \subseteq 1..MaxPublished
  BY FeedsAssumption DEF FeedsAssumption, Entries
<1>2. age \subseteq Nat /\ age # {}
  <2>1. \A x \in U : MaxPublished - x \in Nat
    BY <1>1
  <2>2. PICK x \in U : TRUE
    OBVIOUS
  <2>3. QED
    BY <2>1, <2>2
<1>3. PICK a \in age : \A b \in age : ~(<<b, a>> \in OpToRel(<, Nat))
  <2> HIDE DEF age
  <2>1. QED
    BY <1>2, NatLessThanWellFounded, WFMin
<1>4. \A b \in age : ~(b < a)
  BY <1>2, <1>3 DEF OpToRel
<1>5. PICK m \in U : a = MaxPublished - m
  OBVIOUS
<1>6. \A x \in U : MaxPublished - x \in age
  OBVIOUS
<1>7. ASSUME NEW x \in U PROVE x <= m
  <2>1. ~(MaxPublished - x < MaxPublished - m)
    BY <1>4, <1>5, <1>6
  <2>2. x \in 1..MaxPublished /\ m \in 1..MaxPublished
    BY <1>1
  <2> QED
    BY <1>1, <2>1, <2>2
<1>8. QED
  BY <1>7

(* At most |S| - n entries of S have n newer ones.                         *)
LEMMA FewAreOlder ==
  ASSUME NEW S \in SUBSET Entries, NEW n \in Nat,
         NEW U \in SUBSET S, U # {}, \A e \in U : Newer(S, e) >= n
  PROVE  Cardinality(U) + n <= Cardinality(S)
<1>1. PICK m \in U : \A x \in U : x <= m
  BY Newest
<1> DEFINE after == {x \in S : x > m}
<1>2. after \in SUBSET Entries /\ U \in SUBSET Entries
  OBVIOUS
<1>3. U \cap after = {}
  <2>1. \A x \in U : ~(x > m)
    BY <1>1, <1>2, FeedsAssumption DEF FeedsAssumption, Entries
  <2>2. QED
    BY <2>1
<1>4. IsFiniteSet(U) /\ IsFiniteSet(after) /\ Cardinality(U) \in Nat /\ Cardinality(after) \in Nat
  BY <1>2, SmallSets
<1>5. Cardinality(U \cup after) = Cardinality(U) + Cardinality(after)
  <2> HIDE DEF after
  <2>1. Cardinality(U \cup after)
          = Cardinality(U) + Cardinality(after) - Cardinality(U \cap after)
    BY <1>4, FS_Union
  <2>2. Cardinality(U \cap after) = 0
    BY <1>3, FS_EmptySet
  <2>3. QED
    BY <1>4, <2>1, <2>2
<1>6. Cardinality(U \cup after) <= Cardinality(S)
  <2>1. U \cup after \in SUBSET S /\ IsFiniteSet(S)
    BY SmallSets
  <2>2. QED
    BY <2>1, FS_Subset
<1>7. Cardinality(after) >= n
  BY <1>1 DEF Newer
<1>8. QED
  BY <1>4, <1>5, <1>6, <1>7, SmallSets

LEMMA OffsetType == \A page \in Nat \ {0} : Offset(page) \in Nat /\ Offset(page + 1) = page * PageSize
                                       /\ page * PageSize = Offset(page) + PageSize
<1> SUFFICES ASSUME NEW page \in Nat \ {0} PROVE
      Offset(page) \in Nat /\ Offset(page + 1) = page * PageSize
      /\ page * PageSize = Offset(page) + PageSize
  OBVIOUS
<1>1. PageSize \in Nat /\ page - 1 \in Nat /\ (page + 1) - 1 = page
  BY FeedsAssumption DEF FeedsAssumption
<1>2. (page - 1) * PageSize \in Nat /\ page * PageSize = (page - 1) * PageSize + PageSize
  BY <1>1
<1>3. QED
  BY <1>1, <1>2 DEF Offset

LEMMA FeedInitial == FeedsInit => FeedInv
<1> SUFFICES ASSUME FeedsInit PROVE FeedInv
  OBVIOUS
<1>1. clock \in 0..2 /\ feed = 1..clock /\ unread = feed
  BY DEF FeedsInit
<1>2. 1..clock \subseteq Entries /\ clock \in 0..MaxPublished
  BY <1>1, FeedsAssumption DEF FeedsAssumption, Entries
<1>3. publisher \in [Publishers -> PublisherRecord] /\ \A p \in Publishers : publisher[p].pc = "idle"
  BY DEF FeedsInit, IdlePublisher, PublisherRecord
<1>4. reader \in ReaderRecord /\ reader.pc = "idle"
  BY DEF FeedsInit, IdleReader, ReaderRecord
<1>5. QED
  BY <1>1, <1>2, <1>3, <1>4 DEF FeedInv, FeedsTypeOK, FeedSkipsNothing

LEMMA ShownIsSmall == FeedInv => /\ Listed \in SUBSET Entries
                                 /\ Cardinality(Listed) \in Nat
                                 /\ IsFiniteSet(Listed)
BY SmallSets DEF FeedInv, FeedsTypeOK, Listed, Shown

(* What the reader may rely on when only publishers or marks move.         *)
LEMMA EntryCommitKeeps ==
  ASSUME FeedInv, NEW p \in Publishers, CommitEntry(p)
  PROVE  FeedInv'
<1> DEFINE e == publisher[p].entry
<1>1. CASE publisher[p].saved
  <2>1. /\ feed' = feed \cup {e} /\ unread' = unread \cup {e} /\ clock' = clock
        /\ publisher' = [publisher EXCEPT ![p] = IdlePublisher] /\ e \in Entries
        /\ reader' = IF reader.pc = "fetch" THEN [reader EXCEPT !.slipped = @ + 1] ELSE reader
    BY <1>1 DEF CommitEntry, Publishes, FeedInv
  <2>2. /\ reader' \in ReaderRecord /\ reader'.pc = reader.pc /\ reader'.unread = reader.unread
        /\ reader'.page = reader.page /\ reader'.total = reader.total
        /\ reader'.began = reader.began /\ reader'.seen = reader.seen
        /\ reader'.marked = reader.marked
        /\ reader.pc # "fetch" => reader' = reader
        /\ reader.pc = "fetch" => reader'.slipped = reader.slipped + 1
    BY <2>1 DEF FeedInv, FeedsTypeOK, ReaderRecord
  <2>3. Listed' = Listed \cup {e} /\ Listed' \in SUBSET Entries /\ Listed \in SUBSET Listed'
    BY <2>1, <2>2, ShownIsSmall DEF Listed, Shown
  <2>4. /\ publisher' \in [Publishers -> PublisherRecord]
        /\ \A q \in Publishers : publisher'[q].pc # "idle" => publisher'[q].entry \in Entries
    BY <2>1 DEF FeedInv, FeedsTypeOK, IdlePublisher, PublisherRecord
  <2>5. Cardinality(Listed') <= Cardinality(Listed) + 1 /\ Cardinality(Listed) \in Nat
        /\ Cardinality(Listed') \in Nat
    <3>1. Cardinality(Listed) \in Nat /\ Cardinality(Listed') \in Nat /\ IsFiniteSet(Listed)
      BY <2>3, ShownIsSmall, SmallSets
    <3>2. Cardinality(Listed \cup {e})
            = IF e \in Listed THEN Cardinality(Listed) ELSE Cardinality(Listed) + 1
      BY <3>1, FS_AddElement
    <3>3. QED
      BY <2>3, <3>1, <3>2
  <2>6. FeedsTypeOK'
    BY <2>1, <2>2, <2>4 DEF FeedInv, FeedsTypeOK
  <2>7. ASSUME reader.pc \in {"count", "fetch"}, Unmixed, NEW x \in reader.began \ reader.seen
        PROVE  Newer(Listed', x) >= Offset(reader.page)
    <3>1. Newer(Listed, x) >= Offset(reader.page) /\ Offset(reader.page) \in Nat
      BY <2>7, OffsetType DEF FeedInv, Behind, FeedsTypeOK, ReaderRecord
    <3>2. Newer(Listed, x) \in Nat /\ Newer(Listed, x) <= Newer(Listed', x)
          /\ Newer(Listed', x) \in Nat
      BY <2>3, NewerGrows
    <3>3. QED
      BY <3>1, <3>2
  <2>8. reader.pc = "fetch" /\ Unmixed => Cardinality(Listed') <= reader'.total + reader'.slipped
    BY <2>2, <2>5 DEF FeedInv, FeedsTypeOK, ReaderRecord
  <2>9. Unmixed' = Unmixed
    BY <2>2 DEF Unmixed
  <2>10. FeedSkipsNothing'
    BY <2>2 DEF FeedInv, FeedSkipsNothing
  <2>11. reader'.pc \in {"count", "fetch"} /\ Unmixed' =>
           reader'.began \subseteq Listed' /\ Behind(Offset(reader.page))'
    BY <2>2, <2>3, <2>7, <2>9 DEF FeedInv, Behind
  <2>12. Offset(reader'.page) = Offset(reader.page)
    BY <2>2
  <2>13. QED
    BY <2>2, <2>4, <2>6, <2>8, <2>9, <2>10, <2>11, <2>12 DEF FeedInv, Behind
<1>2. CASE ~publisher[p].saved
  <2>1. /\ publisher' = [publisher EXCEPT ![p] = IdlePublisher]
        /\ UNCHANGED <<clock, feed, unread, reader>>
    BY <1>2 DEF CommitEntry, Publishes
  <2>2. /\ publisher' \in [Publishers -> PublisherRecord]
        /\ \A q \in Publishers : publisher'[q].pc # "idle" => publisher'[q].entry \in Entries
    BY <2>1 DEF FeedInv, FeedsTypeOK, IdlePublisher, PublisherRecord
  <2>3. QED
    BY <2>1, <2>2 DEF FeedInv, FeedsTypeOK, Listed, Shown, Behind, Unmixed, FeedSkipsNothing, Newer
<1>3. QED
  BY <1>1, <1>2

LEMMA PublishKeeps ==
  ASSUME FeedInv, NEW p \in Publishers, Announce(p) \/ SaveEntry(p)
  PROVE  FeedInv'
<1>1. /\ publisher' \in [Publishers -> PublisherRecord]
      /\ \A q \in Publishers : publisher'[q].pc # "idle" => publisher'[q].entry \in Entries
      /\ clock' \in 0..MaxPublished /\ UNCHANGED <<feed, unread, reader>>
  <2>1. CASE Announce(p)
    <3>1. clock' \in Entries /\ clock' \in 0..MaxPublished
      BY <2>1, FeedsAssumption DEF Announce, FeedInv, FeedsTypeOK, Entries, FeedsAssumption
    <3>2. QED
      BY <2>1, <3>1 DEF Announce, Publishes, FeedInv, FeedsTypeOK, IdlePublisher, PublisherRecord
  <2>2. CASE SaveEntry(p)
    <3>1. PICK saved \in BOOLEAN :
            publisher' = [publisher EXCEPT ![p] = [publisher[p] EXCEPT !.pc = "commit", !.saved = saved]]
      BY <2>2 DEF SaveEntry, Publishes
    <3>2. publisher[p] \in PublisherRecord /\ publisher[p].entry \in Entries
      BY <2>2 DEF SaveEntry, FeedInv, FeedsTypeOK
    <3>3. UNCHANGED <<clock, feed, unread, reader>>
      BY <2>2 DEF SaveEntry
    <3>4. QED
      BY <3>1, <3>2, <3>3 DEF FeedInv, FeedsTypeOK, PublisherRecord
  <2>3. QED
    BY <2>1, <2>2
<1>2. QED
  BY <1>1 DEF FeedInv, FeedsTypeOK, Listed, Shown, Behind, Unmixed, FeedSkipsNothing, Newer

LEMMA MarkKeeps == FeedInv /\ Mark => FeedInv'
<1> SUFFICES ASSUME FeedInv, Mark PROVE FeedInv'
  OBVIOUS
<1>1. /\ unread' \subseteq unread /\ UNCHANGED <<clock, feed, publisher>>
  BY DEF Mark
<1>2. /\ reader' \in ReaderRecord /\ reader'.pc = reader.pc /\ reader'.unread = reader.unread
      /\ reader'.page = reader.page /\ reader'.total = reader.total
      /\ reader'.began = reader.began /\ reader'.seen = reader.seen
      /\ reader'.slipped = reader.slipped
      /\ reader'.marked = (reader.pc # "idle")
  BY DEF Mark, FeedInv, FeedsTypeOK, ReaderRecord
<1>3. CASE reader.unread /\ reader.pc # "idle"
  BY <1>1, <1>2, <1>3 DEF FeedInv, FeedsTypeOK, Unmixed, FeedSkipsNothing
<1>4. CASE reader.pc = "idle"
  BY <1>1, <1>2, <1>4 DEF FeedInv, FeedsTypeOK, FeedSkipsNothing
<1>5. CASE ~reader.unread
  <2>1. Listed' = Listed /\ Unmixed /\ Unmixed'
    BY <1>1, <1>2, <1>5 DEF Listed, Shown, Unmixed
  <2>2. FeedsTypeOK'
    BY <1>1, <1>2 DEF FeedInv, FeedsTypeOK
  <2>3. FeedSkipsNothing'
    BY <1>2, <2>1 DEF FeedInv, FeedSkipsNothing, Unmixed
  <2>4. QED
    BY <1>1, <1>2, <2>1, <2>2, <2>3 DEF FeedInv, Behind, Newer
<1>6. QED
  BY <1>3, <1>4, <1>5

LEMMA ReadingKeeps == FeedInv /\ (BeginReading \/ CountEntries) => FeedInv'
<1> SUFFICES ASSUME FeedInv, BeginReading \/ CountEntries PROVE FeedInv'
  OBVIOUS
<1>1. UNCHANGED <<clock, feed, unread, publisher>>
  BY DEF BeginReading, CountEntries, Reads
<1>2. CASE BeginReading
  <2>1. PICK only \in BOOLEAN :
          reader' = [IdleReader EXCEPT !.pc = "count", !.unread = only, !.page = 1,
                       !.began = Shown(only)]
    BY <1>2 DEF BeginReading, Reads
  <2>2. Shown(only) \in SUBSET Entries
    BY DEF Shown, FeedInv, FeedsTypeOK
  <2>3. /\ reader' \in ReaderRecord /\ reader'.pc = "count" /\ reader'.page = 1
        /\ reader'.unread = only /\ reader'.began = Shown(only)
    BY <2>1, <2>2 DEF IdleReader, ReaderRecord
  <2>4. Listed' = Shown(only) /\ \A x : Newer(Listed', x) \in Nat
    BY <1>1, <2>2, <2>3, NewerGrows DEF Listed, Shown
  <2>5. Offset(1) = 0
    BY FeedsAssumption DEF Offset, FeedsAssumption
  <2>6. QED
    BY <1>1, <2>3, <2>4, <2>5 DEF FeedInv, FeedsTypeOK, Behind, FeedSkipsNothing
<1>3. CASE CountEntries
  <2>1. /\ reader' \in ReaderRecord /\ reader'.pc = "fetch" /\ reader'.unread = reader.unread
        /\ reader'.page = reader.page /\ reader'.total = Cardinality(Listed)
        /\ reader'.began = reader.began /\ reader'.seen = reader.seen
        /\ reader'.slipped = 0 /\ reader'.marked = reader.marked /\ reader.pc = "count"
    BY <1>3, ShownIsSmall DEF CountEntries, Reads, Listed, FeedInv, FeedsTypeOK, ReaderRecord
  <2>2. Listed' = Listed /\ Unmixed' = Unmixed /\ Cardinality(Listed) \in Nat
    BY <1>1, <2>1, ShownIsSmall DEF Listed, Shown, Unmixed
  <2>3. QED
    BY <1>1, <2>1, <2>2 DEF FeedInv, FeedsTypeOK, Behind, FeedSkipsNothing, Newer
<1>4. QED
  BY <1>2, <1>3

(* The rows of a page: what is still unseen lies behind the next page.     *)
LEMMA FetchKeeps == FeedInv /\ FetchRows => FeedInv'
<1> SUFFICES ASSUME FeedInv, FetchRows PROVE FeedInv'
  OBVIOUS
<1> DEFINE more == HasMore(reader.page, reader.total)
<1>1. UNCHANGED <<clock, feed, unread, publisher>> /\ reader.pc = "fetch"
      /\ reader.page \in Nat \ {0} /\ reader.total \in Nat /\ reader.slipped \in Nat
  BY DEF FetchRows, Reads, FeedInv, FeedsTypeOK, ReaderRecord
<1>2. Rows(Listed, reader.page) \in SUBSET Entries
  BY ShownIsSmall DEF Rows
<1> DEFINE seen == reader.seen \cup Rows(Listed, reader.page)
<1>3. /\ reader' \in ReaderRecord /\ reader'.unread = reader.unread
      /\ reader'.began = reader.began /\ reader'.marked = reader.marked
      /\ reader'.seen = reader.seen \cup Rows(Listed, reader.page)
      /\ reader'.slipped = reader.slipped
      /\ more => reader'.pc = "count" /\ reader'.page = reader.page + 1
      /\ ~more => reader'.pc = "done"
  <2>1. reader' = IF more THEN [reader EXCEPT !.pc = "count", !.page = @ + 1, !.seen = seen]
                          ELSE [reader EXCEPT !.pc = "done", !.seen = seen]
    BY DEF FetchRows, Reads, Listed
  <2>2. reader \in ReaderRecord /\ seen \in SUBSET Entries
    BY <1>2 DEF FeedInv, FeedsTypeOK, ReaderRecord
  <2>3. seen = reader.seen \cup Rows(Listed, reader.page)
    OBVIOUS
  <2> HIDE DEF more, seen
  <2>4. CASE more
    <3>1. reader' = [reader EXCEPT !.pc = "count", !.page = reader.page + 1, !.seen = seen]
      BY <2>1, <2>4
    <3>2. reader.page + 1 \in Nat /\ reader \in ReaderRecord /\ seen \in SUBSET Entries
      BY <1>1, <2>2
    <3>3. reader' \in ReaderRecord
      BY ONLY <3>1, <3>2 DEF ReaderRecord
    <3>4. /\ reader'.pc = "count" /\ reader'.page = reader.page + 1 /\ reader'.seen = seen
          /\ reader'.unread = reader.unread /\ reader'.began = reader.began
          /\ reader'.marked = reader.marked /\ reader'.slipped = reader.slipped
      BY ONLY <3>1, <3>2 DEF ReaderRecord
    <3>5. QED
      BY <2>3, <2>4, <3>3, <3>4
  <2>5. CASE ~more
    BY <1>1, <2>1, <2>2, <2>3, <2>5 DEF ReaderRecord
  <2>6. QED
    BY <2>4, <2>5
<1>4. Listed' = Listed /\ Unmixed' = Unmixed /\ Listed \in SUBSET Entries
  BY <1>1, <1>3, ShownIsSmall DEF Listed, Shown, Unmixed
<1>5. FeedsTypeOK'
  BY <1>1, <1>3 DEF FeedInv, FeedsTypeOK
<1>6. ASSUME Unmixed, NEW x \in reader'.began \ reader'.seen
      PROVE  x \in Listed /\ Newer(Listed, x) >= reader.page * PageSize
  <2>1. x \in Listed /\ Newer(Listed, x) >= Offset(reader.page) /\ x \notin Rows(Listed, reader.page)
    BY <1>1, <1>3, <1>6 DEF FeedInv, Behind
  <2>2. ~(Newer(Listed, x) < Offset(reader.page) + PageSize)
    BY <2>1 DEF Rows
  <2>3. Newer(Listed, x) \in Nat /\ PageSize \in Nat /\ Offset(reader.page) \in Nat
        /\ reader.page * PageSize = Offset(reader.page) + PageSize
    BY <1>1, <1>4, NewerGrows, OffsetType, FeedsAssumption DEF FeedsAssumption
  <2>4. QED
    BY <2>1, <2>2, <2>3
<1>7. CASE more
  <2>1. Offset(reader'.page) = reader.page * PageSize /\ reader'.page # 0
    BY <1>1, <1>3, <1>7, OffsetType
  <2>2. Unmixed' => reader'.began \subseteq Listed'
    BY <1>1, <1>3, <1>4 DEF FeedInv
  <2>4. Unmixed' => \A e \in reader'.began \ reader'.seen : Newer(Listed', e) >= Offset(reader'.page)
    BY <1>4, <1>6, <2>1
  <2>5. reader'.pc = "count"
    BY <1>3, <1>7
  <2>6. QED
    BY <1>1, <1>5, <2>1, <2>2, <2>4, <2>5 DEF FeedInv, Behind, FeedSkipsNothing
<1>8. CASE ~more
  <2> DEFINE unseen == reader'.began \ reader'.seen
  <2>1. ASSUME Unmixed PROVE Cardinality(unseen) <= reader.slipped
    <3>1. unseen \in SUBSET Listed /\ reader.page * PageSize >= reader.total
          /\ reader.page * PageSize \in Nat
      BY <1>1, <1>6, <1>8, <2>1, FeedsAssumption DEF HasMore, FeedsAssumption
    <3>2. Cardinality(Listed) <= reader.total + reader.slipped
      BY <1>1, <2>1 DEF FeedInv
    <3>3. CASE unseen = {}
      BY <1>1, <3>3, FS_EmptySet
    <3>4. CASE unseen # {}
      <4>1. Cardinality(unseen) + reader.page * PageSize <= Cardinality(Listed)
        BY <1>4, <1>6, <2>1, <3>1, <3>4, FewAreOlder
      <4>2. Cardinality(unseen) \in Nat /\ Cardinality(Listed) \in Nat
        BY <1>4, <3>1, SmallSets
      <4>3. QED
        BY <1>1, <3>1, <3>2, <4>1, <4>2
    <3>5. QED
      BY <3>3, <3>4
  <2>2. FeedSkipsNothing'
    BY <1>3, <1>4, <2>1 DEF FeedSkipsNothing, Unmixed
  <2>3. QED
    BY <1>1, <1>3, <1>5, <1>8, <2>2 DEF FeedInv
<1>9. QED
  BY <1>7, <1>8

LEMMA FeedStep == FeedInv /\ [FeedsNext]_feedVars => FeedInv'
<1> SUFFICES ASSUME FeedInv, [FeedsNext]_feedVars PROVE FeedInv'
  OBVIOUS
<1>1. CASE UNCHANGED feedVars
  BY <1>1 DEF feedVars, FeedInv, FeedsTypeOK, Listed, Shown, Behind, Unmixed, FeedSkipsNothing, Newer
<1>2. QED
  BY <1>1, EntryCommitKeeps, PublishKeeps, MarkKeeps, ReadingKeeps, FetchKeeps DEF FeedsNext

(* A reader that pages to the end has seen every entry that was listed     *)
(* when it began, but for those committed after the last count.            *)
THEOREM ReadersSkipNothing == FeedsSpec => []FeedSkipsNothing
<1>1. FeedInv => FeedSkipsNothing
  BY DEF FeedInv
<1>2. QED
  BY FeedInitial, FeedStep, <1>1, PTL DEF FeedsSpec

LEMMA FeedsTyped == FeedsSpec => []FeedsTypeOK
<1>1. FeedInv => FeedsTypeOK
  BY DEF FeedInv
<1>2. QED
  BY FeedInitial, FeedStep, <1>1, PTL DEF FeedsSpec

-----------------------------------------------------------------------------
(* The run console.  The run that holds the slot has a thread that has not *)
(* yet marked the slot done; whoever reads or stops a run means one that   *)
(* was started, and a thread past its last item has seen its script end.   *)
HasPump(r) == pump[r] # "off"

SlotHasPump == SlotTaken => HasPump(active.handle)

BoxInv ==
  /\ BoxTypeOK
  /\ \A r \in Launches :
       /\ launch[r] = "started" <=> script[r] # "none"
       /\ HasPump(r) => script[r] # "none"
       /\ pump[r] \in {"close", "done"} => script[r] = "ended"
  /\ active.handle # None => script[active.handle] # "none"
  /\ \A c \in Readers : client[c].pc # "idle" =>
       client[c].run \in Launches /\ script[client[c].run] # "none"
  /\ SlotHasPump

LEMMA BoxInitial == BoxInit => BoxInv
<1> SUFFICES ASSUME BoxInit PROVE BoxInv
  OBVIOUS
<1>1. Cleared \in ActiveRecord /\ Cleared.handle = None
  BY DEF Cleared, ActiveRecord
<1>2. /\ active = Cleared
      /\ launch = [r \in Launches |-> "new"] /\ script = [r \in Launches |-> "none"]
      /\ printed = [r \in Launches |-> 0] /\ pump = [r \in Launches |-> "off"]
      /\ queue = [r \in Launches |-> <<>>]
      /\ client = [c \in Readers |-> [pc |-> "idle", run |-> None]]
  BY DEF BoxInit
<1>3. queue \in [Launches -> Seq({"line", "exit", "close"})]
  BY <1>2
<1>4. printed \in [Launches -> 0..MaxLines]
  BY <1>2, RunBoxAssumption DEF RunBoxAssumption
<1>5. client \in [Readers -> ClientRecord] /\ \A c \in Readers : client[c].pc = "idle"
  BY <1>2 DEF ClientRecord
<1>6. QED
  BY <1>1, <1>2, <1>3, <1>4, <1>5 DEF BoxInv, BoxTypeOK, HasPump, SlotHasPump, SlotTaken

(* Something more to read, of a run that exists.                           *)
LEMMA PutsKeeps ==
  ASSUME BoxTypeOK, NEW r \in Launches, NEW item \in {"line", "exit", "close"}, Puts(r, item)
  PROVE  queue' \in [Launches -> Seq({"line", "exit", "close"})]
<1>1. queue[r] \in Seq({"line", "exit", "close"})
  BY DEF BoxTypeOK
<1>2. Append(queue[r], item) \in Seq({"line", "exit", "close"})
  BY <1>1
<1>3. QED
  BY <1>2 DEF Puts, BoxTypeOK

LEMMA MarkedType == BoxTypeOK => /\ MarkedDone \in ActiveRecord /\ MarkedDone.done
                                 /\ MarkedDone.handle = active.handle
BY DEF BoxTypeOK, MarkedDone, ActiveRecord

(* Starting a run, its output and its end.                                 *)
LEMMA LaunchKeeps ==
  ASSUME BoxInv, NEW r \in Launches,
         StartRun(r) \/ Launched(r) \/ PumpLine(r) \/ ScriptEnds(r) \/ Pump(r)
  PROVE  BoxInv'
<1> USE DEF BoxInv, BoxTypeOK, HasPump, SlotHasPump, SlotTaken
<1>0. active.handle \in Launches \cup {None}
  BY DEF ActiveRecord
<1>1. CASE StartRun(r)
  <2>1. CASE launch' = [launch EXCEPT ![r] = "refused"] /\ UNCHANGED active
    BY <1>1, <2>1 DEF StartRun
  <2>2. CASE launch' = [launch EXCEPT ![r] = "starting"] /\ active' = Cleared
    <3>1. Cleared \in ActiveRecord /\ Cleared.handle = None
      BY DEF Cleared, ActiveRecord
    <3>2. QED
      BY <1>1, <2>2, <3>1 DEF StartRun
  <2>3. QED
    BY <1>1, <2>1, <2>2 DEF StartRun
<1>2. CASE Launched(r)
  <2>1. CASE launch' = [launch EXCEPT ![r] = "refused"] /\ UNCHANGED <<script, pump, active>>
    BY <1>2, <2>1 DEF Launched
  <2>2. CASE /\ launch' = [launch EXCEPT ![r] = "started"]
             /\ script' = [script EXCEPT ![r] = "running"]
             /\ pump' = [pump EXCEPT ![r] = "stream"]
             /\ active' = [handle |-> r, done |-> FALSE]
    <3>1. active' \in ActiveRecord /\ active'.handle = r /\ pump'[r] = "stream" /\ script'[r] = "running"
      BY <2>2 DEF ActiveRecord
    <3>2. script[r] = "none" /\ UNCHANGED <<printed, queue, client>>
      BY <1>2 DEF Launched
    <3>3. BoxTypeOK'
      BY <2>2, <3>1, <3>2
    <3>4. QED
      BY <2>2, <3>1, <3>2, <3>3
  <2>3. QED
    BY <1>2, <2>1, <2>2 DEF Launched
<1>3. CASE PumpLine(r)
  <2>1. queue' \in [Launches -> Seq({"line", "exit", "close"})]
    BY <1>3, PutsKeeps DEF PumpLine
  <2>2. printed' \in [Launches -> 0..MaxLines]
    BY <1>3, RunBoxAssumption DEF RunBoxAssumption, PumpLine
  <2>3. QED
    BY <1>3, <2>1, <2>2 DEF PumpLine
<1>4. CASE ScriptEnds(r)
  BY <1>4 DEF ScriptEnds
<1>5. CASE PumpExit(r)
  <2>1. queue' \in [Launches -> Seq({"line", "exit", "close"})]
    BY <1>5, PutsKeeps DEF PumpExit
  <2>2. /\ pump[r] = "stream" /\ script[r] = "ended"
        /\ \A x \in Launches : pump'[x] = IF x = r THEN "close" ELSE pump[x]
        /\ pump' \in [Launches -> {"off", "stream", "close", "done"}]
        /\ UNCHANGED <<active, launch, script, printed, client>>
    BY <1>5 DEF PumpExit
  <2>3. QED
    BY <1>0, <2>1, <2>2
<1>6. CASE PumpClose(r)
  <2>1. queue' \in [Launches -> Seq({"line", "exit", "close"})]
    BY <1>6, PutsKeeps DEF PumpClose
  <2>2. /\ pump[r] = "close"
        /\ \A x \in Launches : pump'[x] = IF x = r THEN "done" ELSE pump[x]
        /\ pump' \in [Launches -> {"off", "stream", "close", "done"}]
        /\ UNCHANGED <<active, launch, script, printed, client>>
    BY <1>6 DEF PumpClose
  <2>3. QED
    BY <1>0, <2>1, <2>2
<1>7. CASE PumpDone(r)
  <2>1. active' \in ActiveRecord /\ active'.done /\ active'.handle = active.handle
    BY <1>7, MarkedType DEF PumpDone, PumpMarks
  <2>2. QED
    BY <1>7, <2>1 DEF PumpDone
<1>8. QED
  BY <1>1, <1>2, <1>3, <1>4, <1>5, <1>6, <1>7 DEF Pump

(* A client goes on; what is left of its queue is a queue.                 *)
LEMMA ClientKeeps ==
  ASSUME BoxInv, NEW c \in Readers,
         OpenStream(c) \/ Read(c) \/ Disconnect(c) \/ StopRun(c) \/ Stopped(c)
  PROVE  BoxInv'
<1> USE DEF BoxInv, BoxTypeOK, HasPump, SlotHasPump, SlotTaken
<1>1. ASSUME NEW pc \in {"reading", "stopping", "over"}, NEW r \in Launches, script[r] # "none",
             Becomes(c, pc, r)
      PROVE  /\ client' \in [Readers -> ClientRecord]
             /\ \A x \in Readers : client'[x].pc # "idle" =>
                  client'[x].run \in Launches /\ script[client'[x].run] # "none"
  <2> DEFINE rec == [pc |-> pc, run |-> r]
  <2>1. rec \in ClientRecord /\ rec.run = r
    BY DEF ClientRecord
  <2>2. client' = [client EXCEPT ![c] = rec]
    BY <1>1 DEF Becomes
  <2> HIDE DEF rec
  <2>3. QED
    BY <1>1, <2>1, <2>2
<1>2. client[c].pc # "idle" => client[c].run \in Launches /\ script[client[c].run] # "none"
  OBVIOUS
<1>3. active.handle \in Launches \cup {None}
  BY DEF ActiveRecord
<1>4. CASE OpenStream(c) \/ StopRun(c)
  BY <1>1, <1>3, <1>4 DEF OpenStream, StopRun
<1>5. CASE ReadTimeout(c) \/ Disconnect(c)
  BY <1>1, <1>2, <1>5 DEF ReadTimeout, Disconnect
<1>6. CASE ReadItem(c)
  <2> DEFINE r == client[c].run
  <2>1. r \in Launches /\ queue[r] \in Seq({"line", "exit", "close"}) /\ queue[r] # <<>>
    BY <1>2, <1>6 DEF ReadItem
  <2>2. Tail(queue[r]) \in Seq({"line", "exit", "close"})
    BY <2>1
  <2>3. queue' \in [Launches -> Seq({"line", "exit", "close"})]
    BY <1>6, <2>2 DEF ReadItem
  <2>4. /\ client' \in [Readers -> ClientRecord]
        /\ \A x \in Readers : client'[x].pc # "idle" =>
             client'[x].run \in Launches /\ script[client'[x].run] # "none"
    BY <1>1, <1>2, <1>6 DEF ReadItem
  <2>5. active' = active \/ active' = MarkedDone
    BY <1>6 DEF ReadItem
  <2>6. /\ active' \in ActiveRecord /\ active'.handle = active.handle
        /\ active'.done \/ active' = active
    BY <2>5, MarkedType
  <2>7. UNCHANGED <<launch, script, printed, pump>>
    BY <1>6 DEF ReadItem
  <2>8. QED
    BY <2>3, <2>4, <2>6, <2>7
<1>7. CASE Stopped(c)
  <2> DEFINE r == client[c].run
  <2>1. r \in Launches /\ script[r] # "none" /\ Becomes(c, "over", r)
        /\ UNCHANGED <<launch, printed, pump, queue>>
    BY <1>2, <1>7 DEF Stopped
  <2>2. /\ client' \in [Readers -> ClientRecord]
        /\ \A x \in Readers : client'[x].pc # "idle" =>
             client'[x].run \in Launches /\ script[client'[x].run] # "none"
    BY <1>1, <2>1
  <2> HIDE DEF r
  <2>3. CASE script' = [script EXCEPT ![r] = "ended"] /\ active' = MarkedDone
    <3>1. active' \in ActiveRecord /\ active'.handle = active.handle /\ active'.done
      BY <2>3, MarkedType
    <3>2. /\ script' \in [Launches -> {"none", "running", "ended"}]
          /\ \A x \in Launches : /\ script'[x] # "none" <=> script[x] # "none"
                                 /\ script[x] = "ended" => script'[x] = "ended"
      BY <2>1, <2>3
    <3>3. QED
      BY <1>3, <2>1, <2>2, <3>1, <3>2
  <2>4. CASE UNCHANGED <<script, active>>
    BY <2>1, <2>2, <2>4
  <2>5. QED
    BY <1>7, <2>3, <2>4 DEF Stopped, r
<1>8. QED
  BY <1>4, <1>5, <1>6, <1>7 DEF Read

LEMMA BoxStep == BoxInv /\ [BoxNext]_boxVars => BoxInv'
<1>1. BoxInv /\ UNCHANGED boxVars => BoxInv'
  BY DEF boxVars, BoxInv, BoxTypeOK, HasPump, SlotHasPump, SlotTaken
<1>2. QED
  BY <1>1, LaunchKeeps, ClientKeeps DEF BoxNext

(* The one slot for runs is never taken by a run nothing will end: whoever *)
(* reads the stream or stops runs, and however starts overlap, the thread  *)
(* that marks the slot done has not finished.  (That the thread gets there *)
(* is SlotIsFreed.)                                                        *)
THEOREM TakenSlotsHaveAPump == BoxSpec => [](BoxTypeOK /\ SlotHasPump)
<1>1. BoxInv => BoxTypeOK /\ SlotHasPump
  BY DEF BoxInv
<1>2. QED
  BY <1>1, BoxInitial, BoxStep, PTL DEF BoxSpec

(* What a stream has to deliver ends with the exit code and the end: after *)
(* an exit only the end follows, and nothing follows that.  So whoever     *)
(* reads the end has left nothing behind for the others who read.          *)
StreamsEnd ==
  \A r \in Launches : \A i, j \in DOMAIN queue[r] :
    i < j /\ queue[r][i] # "line" => queue[r][i] = "exit" /\ queue[r][j] = "close"

StreamInv ==
  /\ BoxInv
  /\ StreamsEnd
  /\ \A r \in Launches :
       /\ script[r] = "none" => queue[r] = <<>>
       /\ pump[r] = "stream" => \A i \in DOMAIN queue[r] : queue[r][i] = "line"
       /\ pump[r] = "close" => \A i \in DOMAIN queue[r] : queue[r][i] # "close"

LEMMA StreamInitial == BoxInit => StreamInv
BY BoxInitial DEF StreamInv, StreamsEnd, BoxInit

(* What can be put last.                                                   *)
LEMMA PutsLast ==
  ASSUME StreamInv, NEW r \in Launches, NEW item \in {"line", "exit", "close"}, Puts(r, item),
         \/ item = "line" /\ pump[r] = "stream" /\ pump'[r] = "stream"
         \/ item = "exit" /\ pump[r] = "stream" /\ pump'[r] = "close"
         \/ item = "close" /\ pump[r] = "close" /\ pump'[r] = "done",
         \A x \in Launches \ {r} : pump'[x] = pump[x],
         script' = script, BoxInv'
  PROVE  StreamInv'
<1> DEFINE old == queue[r]
           new == Append(old, item)
<1>1. old \in Seq({"line", "exit", "close"}) /\ script[r] # "none"
  BY DEF StreamInv, BoxInv, BoxTypeOK, HasPump
<1>2. \A x \in Launches : queue'[x] = IF x = r THEN new ELSE queue[x]
  BY DEF Puts, StreamInv, BoxInv, BoxTypeOK
<1>3. /\ DOMAIN new = 1..(Len(old) + 1) /\ DOMAIN old = 1..Len(old) /\ Len(old) \in Nat
      /\ \A i \in DOMAIN old : new[i] = old[i]
      /\ new[Len(old) + 1] = item
  BY <1>1
<1> HIDE DEF new
<1>4. /\ pump[r] = "stream" => \A i \in DOMAIN old : old[i] = "line"
      /\ pump[r] = "close" => \A i \in DOMAIN old : old[i] # "close"
      /\ \A i, j \in DOMAIN old : i < j /\ old[i] # "line" => old[i] = "exit" /\ old[j] = "close"
      /\ \A i \in DOMAIN old : old[i] \in {"line", "exit", "close"}
  BY <1>1 DEF StreamInv, StreamsEnd
<1> HIDE DEF old
<1>5. \A i, j \in DOMAIN new : i < j /\ new[i] # "line" => new[i] = "exit" /\ new[j] = "close"
  <2>1. ASSUME NEW i \in DOMAIN new, NEW j \in DOMAIN new, i < j, new[i] # "line"
        PROVE  new[i] = "exit" /\ new[j] = "close"
    <3>1. i \in DOMAIN old /\ new[i] = old[i]
      BY <1>3, <2>1
    <3>2. CASE j \in DOMAIN old
      BY <1>3, <1>4, <2>1, <3>1, <3>2
    <3>3. CASE j = Len(old) + 1
      BY <1>3, <1>4, <2>1, <3>1, <3>3
    <3>4. QED
      BY <1>3, <3>2, <3>3
  <2>2. QED
    BY <2>1
<1>6. /\ pump'[r] = "stream" => \A i \in DOMAIN new : new[i] = "line"
      /\ pump'[r] = "close" => \A i \in DOMAIN new : new[i] # "close"
  BY <1>3, <1>4
<1>7. StreamsEnd'
  BY <1>2, <1>5 DEF StreamInv, StreamsEnd
<1>8. QED
  BY <1>1, <1>2, <1>6, <1>7 DEF StreamInv

LEMMA StreamStep == StreamInv /\ [BoxNext]_boxVars => StreamInv'
<1> SUFFICES ASSUME StreamInv, [BoxNext]_boxVars PROVE StreamInv'
  OBVIOUS
<1>1. BoxInv' /\ BoxInv
  BY BoxStep DEF StreamInv
<1>2. CASE UNCHANGED <<queue, pump, script>>
  BY <1>1, <1>2 DEF StreamInv, StreamsEnd
<1>3. ASSUME NEW r \in Launches, PumpLine(r) \/ PumpExit(r) \/ PumpClose(r) PROVE StreamInv'
  <2>1. CASE PumpLine(r)
    BY <1>1, <2>1, PutsLast DEF PumpLine
  <2>2. CASE PumpExit(r)
    <3>1. pump'[r] = "close" /\ \A x \in Launches \ {r} : pump'[x] = pump[x]
      BY <1>1, <2>2 DEF PumpExit, BoxInv, BoxTypeOK
    <3>2. QED
      BY <1>1, <2>2, <3>1, PutsLast DEF PumpExit
  <2>3. CASE PumpClose(r)
    <3>1. pump'[r] = "done" /\ \A x \in Launches \ {r} : pump'[x] = pump[x]
      BY <1>1, <2>3 DEF PumpClose, BoxInv, BoxTypeOK
    <3>2. QED
      BY <1>1, <2>3, <3>1, PutsLast DEF PumpClose
  <2>4. QED
    BY <1>3, <2>1, <2>2, <2>3
<1>4. ASSUME NEW r \in Launches, StartRun(r) \/ Launched(r) \/ ScriptEnds(r) \/ PumpDone(r)
      PROVE  StreamInv'
  <2>1. /\ queue' = queue
        /\ \A x \in Launches : script'[x] = "none" => script[x] = "none"
        /\ \A x \in Launches : \/ pump'[x] = pump[x] \/ pump'[x] = "off"
                               \/ pump'[x] = "stream" /\ script[x] = "none"
    <3>1. CASE StartRun(r)
      BY <1>1, <3>1 DEF StartRun, BoxInv, BoxTypeOK
    <3>2. CASE Launched(r)
      <4>1. script[r] = "none"
        BY <1>1, <3>2 DEF Launched, BoxInv
      <4>2. QED
        BY <1>1, <3>2, <4>1 DEF Launched, BoxInv, BoxTypeOK
    <3>3. CASE ScriptEnds(r)
      BY <1>1, <3>3 DEF ScriptEnds, BoxInv, BoxTypeOK
    <3>4. CASE PumpDone(r)
      BY <1>1, <3>4 DEF PumpDone, BoxInv, BoxTypeOK
    <3>5. QED
      BY <1>4, <3>1, <3>2, <3>3, <3>4
  <2>2. QED
    BY <1>1, <2>1 DEF StreamInv, StreamsEnd
<1>5. ASSUME NEW c \in Readers, ReadItem(c) PROVE StreamInv'
  <2> DEFINE r == client[c].run
             old == queue[r]
             new == Tail(old)
  <2>1. r \in Launches /\ script[r] # "none" /\ old \in Seq({"line", "exit", "close"}) /\ old # <<>>
    BY <1>1, <1>5 DEF ReadItem, BoxInv, BoxTypeOK
  <2>2. /\ \A x \in Launches : queue'[x] = IF x = r THEN new ELSE queue[x]
        /\ UNCHANGED <<script, pump>>
    BY <1>1, <1>5, <2>1 DEF ReadItem, BoxInv, BoxTypeOK
  <2>3. /\ Len(old) \in Nat /\ DOMAIN old = 1..Len(old) /\ DOMAIN new = 1..(Len(old) - 1)
        /\ \A i \in DOMAIN new : i + 1 \in DOMAIN old /\ new[i] = old[i + 1]
    BY <2>1
  <2> HIDE DEF new, old
  <2>4. /\ pump[r] = "stream" => \A i \in DOMAIN old : old[i] = "line"
        /\ pump[r] = "close" => \A i \in DOMAIN old : old[i] # "close"
        /\ \A i, j \in DOMAIN old : i < j /\ old[i] # "line" => old[i] = "exit" /\ old[j] = "close"
    BY <2>1 DEF StreamInv, StreamsEnd, old
  <2>5. /\ pump[r] = "stream" => \A i \in DOMAIN new : new[i] = "line"
        /\ pump[r] = "close" => \A i \in DOMAIN new : new[i] # "close"
    BY <2>3, <2>4
  <2>6. ASSUME NEW i \in DOMAIN new, NEW j \in DOMAIN new, i < j, new[i] # "line"
        PROVE  new[i] = "exit" /\ new[j] = "close"
    <3>1. i + 1 \in DOMAIN old /\ j + 1 \in DOMAIN old /\ i + 1 < j + 1
      BY <2>3, <2>6
    <3>2. QED
      BY <2>3, <2>4, <2>6, <3>1
  <2> HIDE DEF r
  <2>7. StreamsEnd'
    BY <2>2, <2>6 DEF StreamInv, StreamsEnd
  <2>8. QED
    BY <1>1, <2>1, <2>2, <2>5, <2>7 DEF StreamInv
<1>6. ASSUME NEW c \in Readers, OpenStream(c) \/ ReadTimeout(c) \/ Disconnect(c) \/ StopRun(c)
      PROVE  StreamInv'
  BY <1>2, <1>6 DEF OpenStream, ReadTimeout, Disconnect, StopRun
<1>7. ASSUME NEW c \in Readers, Stopped(c) PROVE StreamInv'
  <2>1. UNCHANGED <<queue, pump>> /\ \A x \in Launches : script'[x] = "none" => script[x] = "none"
    BY <1>1, <1>7 DEF Stopped, BoxInv, BoxTypeOK
  <2>2. QED
    BY <1>1, <2>1 DEF StreamInv, StreamsEnd
<1>8. QED
  BY <1>2, <1>3, <1>4, <1>5, <1>6, <1>7 DEF BoxNext, Pump, Read, boxVars

(* However many clients read a run: its stream ends once, with the end.    *)
THEOREM StreamsEndOnce == BoxSpec => []StreamsEnd
<1>1. StreamInv => StreamsEnd
  BY DEF StreamInv
<1>2. QED
  BY <1>1, StreamInitial, StreamStep, PTL DEF BoxSpec

-----------------------------------------------------------------------------
(* All of them.  A behaviour of the components side by side is one of each *)
(* component: whatever another does leaves its variables alone.  So every  *)
(* theorem about a component's specification is one about ServicesSpec.    *)
LEMMA ServicesStart ==
  ServicesInit => /\ TreeInit /\ SettingsInit /\ AccountsInit /\ PreparationInit
                  /\ FeedsInit /\ DevInit /\ BoxInit /\ LoginInit
BY DEF ServicesInit

LEMMA ServicesMove ==
  [ServicesNext]_servicesVars =>
    /\ [TreeNext]_treeVars /\ [SettingsNext]_settingsVars /\ [AccountsNext]_accountVars
    /\ [PreparationNext]_preparationVars /\ [FeedsNext]_feedVars /\ [DevNext]_devVars
    /\ [BoxNext]_boxVars /\ [LoginNext]_loginVars
BY DEF ServicesNext, servicesVars, TreeWorks, SettingsWork, AccountsWork, PreparationWorks,
       FeedsWork, DevWorks, BoxWorks, LoginWorks

(* What no other component's step can undo: each component runs in the     *)
(* composition as it runs alone.                                           *)
THEOREM ServicesAreIndependent ==
  ServicesSpec => /\ TreeSpec /\ SettingsSpec /\ AccountsSpec /\ PreparationSpec
                  /\ FeedsSpec /\ DevSpec /\ BoxSpec /\ LoginSpec
BY ServicesStart, ServicesMove, PTL
   DEF ServicesSpec, TreeSpec, SettingsSpec, AccountsSpec, PreparationSpec, FeedsSpec, DevSpec,
       BoxSpec, LoginSpec

(* Every component's variables keep their types, for any numbers of        *)
(* requests, entries, processes, runs and tabs at work.                    *)
THEOREM ServicesAreTyped == ServicesSpec => []ServicesTypeOK
<1>1. ServicesSpec => /\ []TreeTypeOK /\ []SettingsTypeOK /\ []AccountsTypeOK /\ []PreparationTypeOK
                      /\ []FeedsTypeOK /\ []DevTypeOK /\ []BoxTypeOK /\ []LoginTypeOK
  BY ServicesAreIndependent, TreeIsTyped, ProjectSettingsTyped, AccountsTyped, PreparationTyped,
     FeedsTyped, DevTyped, TakenSlotsHaveAPump, LoginTyped, PTL
<1>2. /\ TreeTypeOK /\ SettingsTypeOK /\ AccountsTypeOK /\ PreparationTypeOK
      /\ FeedsTypeOK /\ DevTypeOK /\ BoxTypeOK /\ LoginTypeOK
      => ServicesTypeOK
  BY DEF ServicesTypeOK
<1>3. QED
  BY <1>1, <1>2, PTL

=============================================================================
