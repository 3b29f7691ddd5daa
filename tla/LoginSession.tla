---------------------------- MODULE LoginSession ----------------------------
(***************************************************************************)
(* One browser and the CAS session service of the reverse proxy            *)
(* (auth_server.py).  The service keeps nothing: the session is the cookie *)
(* that a request carries and its response replaces, whole, if the handler *)
(* has changed it.  Tabs share the cookie; a request works on the cookie   *)
(* it was sent with.  (Requests come from the service's own pages, so      *)
(* origin_allowed holds.)                                                  *)
(***************************************************************************)
EXTENDS Naturals, Absent

CONSTANTS
  Tabs,       \* tabs of the browser
  People,     \* accounts that CAS or the service knows
  MaxIds,     \* bound: session ids given out
  MaxVisits   \* bound: requests

ASSUME LoginAssumption == MaxIds \in Nat /\ MaxVisits \in Nat

VARIABLES
  cookie,   \* the browser's session cookie
  ids,      \* session ids given out
  visits,   \* requests made
  tab       \* tab[t]: what tab t is doing

loginVars == <<cookie, ids, visits, tab>>

Session == [id : 0..MaxIds, user : People \cup {None}, local : BOOLEAN]   \* id 0: no id

TabRecord ==
  [pc        : {"home", "asking", "cas", "returning", "refused", "unvouched", "entering", "leaving"},
   sent      : Session,                \* the cookie its request carries
   service   : 0..MaxIds,              \* the id in the service URL it gave to CAS
   person    : People \cup {None},     \* who logs in, and whom its ticket names
   spent     : BOOLEAN,                \* CAS has validated the ticket
   disturbed : BOOLEAN]                \* history: another response replaced the id since

NoSession == [id |-> 0, user |-> None, local |-> FALSE]
IdleTab ==
  [pc |-> "home", sent |-> NoSession, service |-> 0, person |-> None,
   spent |-> FALSE, disturbed |-> FALSE]

LoginInit ==
  /\ cookie = NoSession /\ ids = 0 /\ visits = 0
  /\ tab = [t \in Tabs |-> IdleTab]

(* A response that leaves the session as it was sets no cookie.            *)
Answers(t, rec) == tab' = [tab EXCEPT ![t] = rec] /\ UNCHANGED cookie

SetsCookie(t, session, rec) ==
  /\ cookie' = session
  /\ tab' = [x \in Tabs |->
       IF x = t THEN rec
       ELSE [tab[x] EXCEPT !.disturbed = @ \/ session.id # tab[x].service]]

Send(t, pc, person) ==
  /\ visits < MaxVisits
  /\ visits' = visits + 1
  /\ tab' = [tab EXCEPT ![t].pc = pc, ![t].sent = cookie, ![t].person = person]
  /\ UNCHANGED <<cookie, ids>>

-----------------------------------------------------------------------------
(* Faulty: every visit of /login gets a new id.                            *)
AlwaysFresh(session) == ids + 1

SessionId(session) == IF session.id # 0 THEN session.id ELSE ids + 1

GivesId(session) == ids' = IF SessionId(session) > ids THEN ids + 1 ELSE ids

CanGiveId(session) == SessionId(session) <= MaxIds

AskLogin(t) == tab[t].pc \in {"home", "refused", "unvouched"} /\ Send(t, "asking", None)

(* The session is changed only if it had no id.                            *)
KeepsId(t, rec) ==
  LET sent == tab[t].sent IN
  IF sent.id = SessionId(sent) THEN Answers(t, rec)
  ELSE SetsCookie(t, [sent EXCEPT !.id = SessionId(sent)], rec)

(* /login without a ticket: home, or to CAS with the session's id.         *)
Asked(t) ==
  LET sent == tab[t].sent
      id   == SessionId(sent)
  IN /\ tab[t].pc = "asking"
     /\ IF sent.user # None THEN Answers(t, IdleTab) /\ UNCHANGED ids
        ELSE /\ CanGiveId(sent) /\ GivesId(sent)
             /\ KeepsId(t, [IdleTab EXCEPT !.pc = "cas", !.service = id,
                              !.disturbed = sent.id = id /\ cookie.id # id])
     /\ UNCHANGED visits

(* Somebody logs in at CAS, which sends the tab back with a ticket; a lost *)
(* response can be asked for again.                                        *)
Return(t) ==
  /\ tab[t].pc = "cas"
  /\ \E p \in IF tab[t].person = None THEN People ELSE {tab[t].person} : Send(t, "returning", p)

(* /login with a ticket: home if the session has a user by now, refused    *)
(* for another id, otherwise the ticket is validated, once.                *)
Returned(t) ==
  LET sent == tab[t].sent
      id   == SessionId(sent)
  IN /\ tab[t].pc = "returning"
     /\ IF sent.user # None THEN Answers(t, IdleTab) /\ UNCHANGED ids
        ELSE /\ CanGiveId(sent) /\ GivesId(sent)
             /\ \/ /\ id # tab[t].service
                   /\ KeepsId(t, [tab[t] EXCEPT !.pc = "refused"])
                \/ /\ id = tab[t].service
                   /\ KeepsId(t, [tab[t] EXCEPT !.pc = "unvouched"])
                \/ /\ id = tab[t].service /\ ~tab[t].spent
                   /\ SetsCookie(t, [id |-> id, user |-> tab[t].person, local |-> FALSE], IdleTab)
     /\ UNCHANGED visits

(* The response of a validated callback is lost; the ticket is spent.      *)
LoseReturned(t) ==
  /\ tab[t].pc = "returning"
  /\ tab[t].sent.user = None /\ tab[t].sent.id = tab[t].service
  /\ Answers(t, [tab[t] EXCEPT !.pc = "cas", !.spent = TRUE])
  /\ UNCHANGED <<ids, visits>>

-----------------------------------------------------------------------------
EnterPassword(t) == tab[t].pc = "home" /\ \E p \in People : Send(t, "entering", p)

(* password_login: the right password starts a session anew, without id.   *)
Entered(t) ==
  /\ tab[t].pc = "entering"
  /\ \/ Answers(t, IdleTab)
     \/ SetsCookie(t, [id |-> 0, user |-> tab[t].person, local |-> TRUE], IdleTab)
  /\ UNCHANGED <<ids, visits>>

Logout(t) == tab[t].pc = "home" /\ cookie.user # None /\ Send(t, "leaving", None)

LoggedOut(t) ==
  /\ tab[t].pc = "leaving"
  /\ SetsCookie(t, NoSession, IdleTab)
  /\ UNCHANGED <<ids, visits>>

LoginNext ==
  \E t \in Tabs :
    \/ AskLogin(t) \/ Asked(t) \/ Return(t) \/ Returned(t) \/ LoseReturned(t)
    \/ EnterPassword(t) \/ Entered(t) \/ Logout(t) \/ LoggedOut(t)

LoginSpec == LoginInit /\ [][LoginNext]_loginVars

LoginTypeOK ==
  /\ cookie \in Session /\ ids \in 0..MaxIds /\ visits \in 0..MaxVisits
  /\ tab \in [Tabs -> TabRecord]

-----------------------------------------------------------------------------
(* A tab that comes back from CAS is refused for its id only if the        *)
(* response to another tab has replaced the session since it left.         *)
RefusedOnlyIfDisturbed == \A t \in Tabs : tab[t].pc = "refused" => tab[t].disturbed

=============================================================================
