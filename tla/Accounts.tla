------------------------------ MODULE Accounts ------------------------------
(***************************************************************************)
(* The first requests of new users, and the seeding of the catalog:        *)
(* ensure_user, _ensure_personal_workspace, _grant_default_entitlements    *)
(* and create_collaborative of WorkspaceService, seed_catalog and          *)
(* seed_demo.                                                              *)
(*                                                                         *)
(* Every request of the API ensures its user first.  Requests are          *)
(* transactions that see what is committed and their own rows; an account  *)
(* is named by the request that created it.                                *)
(***************************************************************************)
EXTENDS FiniteSets, Absent

CONSTANTS
  Visits,      \* requests and seedings; each is one transaction
  Usernames    \* names under which users come

VARIABLES
  catalog,     \* environments and compute plans are committed
  users,       \* the committed accounts
  spaces,      \* the committed workspaces
  visit        \* visit[v]: the transaction of request v

accountVars == <<catalog, users, spaces, visit>>

UserRow  == [id : Visits, username : Usernames]
SpaceRow == [kind : {"personal", "collaborative"}, owner : Visits, by : Visits,
             entitled : BOOLEAN]          \* to the plans of the catalog

VisitRecord ==
  [pc       : {"new", "count", "insert", "find", "user", "look", "space", "grant",
               "create", "commit", "ok", "refused", "failed"},
   op       : {"read", "create", "seed", "demo", None},
   username : Usernames \cup {None},
   user     : Visits \cup {None},         \* the account it has found or made
   seeded   : BOOLEAN,                    \* it has inserted the catalog
   mine     : BOOLEAN,                    \* it has inserted its user
   made     : SUBSET SpaceRow]            \* the workspaces it has inserted

NewVisit == [pc |-> "new", op |-> None, username |-> None, user |-> None,
             seeded |-> FALSE, mine |-> FALSE, made |-> {}]

AccountsInit ==
  /\ catalog = FALSE /\ users = {} /\ spaces = {}
  /\ visit = [v \in Visits |-> NewVisit]

Visited(v, rec) == visit' = [visit EXCEPT ![v] = rec]
Comes(v, pc)    == Visited(v, [visit[v] EXCEPT !.pc = pc])
Over(v)         == visit[v].pc \in {"ok", "refused", "failed"}

-----------------------------------------------------------------------------
Arrive(v) ==
  /\ visit[v].pc = "new"
  /\ \/ \E u \in Usernames, op \in {"read", "create"} :
          Visited(v, [NewVisit EXCEPT !.pc = "find", !.op = op, !.username = u])
     \/ Visited(v, [NewVisit EXCEPT !.pc = "count", !.op = "seed"])
     \/ \E u \in Usernames :
          Visited(v, [NewVisit EXCEPT !.pc = "count", !.op = "demo", !.username = u])

AfterSeed(v) == IF visit[v].op = "demo" THEN "find" ELSE "commit"

(* seed_catalog inserts everything unless there is a compute plan ...      *)
Count(v) ==
  /\ visit[v].pc = "count"
  /\ Comes(v, IF catalog THEN AfterSeed(v) ELSE "insert")

(* ... under fixed keys: a second seeding waits for the first, and fails   *)
(* if that commits.                                                        *)
InsertCatalog(v) ==
  /\ visit[v].pc = "insert"
  /\ \A x \in Visits \ {v} : ~visit[x].seeded
  /\ IF catalog THEN Comes(v, "refused")
     ELSE Visited(v, [visit[v] EXCEPT !.pc = AfterSeed(v), !.seeded = TRUE])

-----------------------------------------------------------------------------
Account(v, name) == {u \in users : u.username = name}

Find(v) ==
  /\ visit[v].pc = "find"
  /\ \/ /\ Account(v, visit[v].username) = {}
        /\ Comes(v, "user")
     \/ \E u \in Account(v, visit[v].username) :
          Visited(v, [visit[v] EXCEPT !.pc = "look", !.user = u.id])

(* Faulty: users.username is not unique.                                   *)
NeverClashes(v) == FALSE

UsernameClashes(v) == Account(v, visit[v].username) # {}

(* Faulty: whoever loses the race goes on with the account it has made,    *)
(* which the savepoint has just rolled back.                               *)
KeepsOwn(v) == Visited(v, [visit[v] EXCEPT !.pc = "look", !.user = v])

(* The savepoint is rolled back and the winner's account is read.          *)
ReadWinner(v) ==
  \E u \in Account(v, visit[v].username) :
    Visited(v, [visit[v] EXCEPT !.pc = "look", !.user = u.id])

(* users.add in a savepoint: the unique index waits for a transaction that *)
(* has inserted the same name.                                             *)
AddUser(v) ==
  /\ visit[v].pc = "user"
  /\ \A x \in Visits \ {v} : ~(visit[x].mine /\ visit[x].username = visit[v].username)
  /\ IF UsernameClashes(v) THEN ReadWinner(v)
     ELSE Visited(v, [visit[v] EXCEPT !.pc = "look", !.user = v, !.mine = TRUE])

-----------------------------------------------------------------------------
Ensured(v) == IF visit[v].op = "create" THEN "create" ELSE "commit"

Personal(set, owner) == {w \in set : w.kind = "personal" /\ w.owner = owner}

HasWorkspace(v) == Personal(spaces, visit[v].user) # {}

LookForWorkspace(v) ==
  /\ visit[v].pc = "look"
  /\ Comes(v, IF HasWorkspace(v) THEN Ensured(v) ELSE "space")

AddWorkspace(v, kind) ==
  Visited(v, [visit[v] EXCEPT !.pc = "grant",
    !.made = @ \cup {[kind |-> kind, owner |-> visit[v].user, by |-> v, entitled |-> FALSE]}])

(* workspaces.add in a savepoint: the partial unique index waits, and the  *)
(* loser takes the winner's workspace.                                     *)
AddPersonal(v) ==
  /\ visit[v].pc = "space"
  /\ \A x \in Visits \ {v} : Personal(visit[x].made, visit[v].user) = {}
  /\ IF HasWorkspace(v) THEN Comes(v, Ensured(v)) ELSE AddWorkspace(v, "personal")

CreateCollaborative(v) == visit[v].pc = "create" /\ AddWorkspace(v, "collaborative")

(* _grant_default_entitlements, for the workspace just added: every plan   *)
(* that is committed, or that the transaction itself has seeded.           *)
Grant(v) ==
  /\ visit[v].pc = "grant"
  /\ \E w \in visit[v].made :
       /\ \A x \in visit[v].made : x.kind = "collaborative" => w = x
       /\ Visited(v, [visit[v] EXCEPT
            !.pc = IF w.kind = "personal" THEN Ensured(v) ELSE "commit",
            !.made = (@ \ {w}) \cup
              {[w EXCEPT !.entitled = catalog \/ visit[v].seeded]}])

CommitVisit(v) ==
  /\ visit[v].pc = "commit"
  /\ catalog' = (catalog \/ visit[v].seeded)
  /\ users' = IF visit[v].mine
              THEN users \cup {[id |-> v, username |-> visit[v].username]} ELSE users
  /\ spaces' = spaces \cup visit[v].made
  /\ Visited(v, [NewVisit EXCEPT !.pc = "ok", !.op = visit[v].op,
                                 !.username = visit[v].username])

(* The request is cut off, or the process ends.                            *)
FailVisit(v) ==
  /\ visit[v].pc # "new" /\ ~Over(v)
  /\ Visited(v, [NewVisit EXCEPT !.pc = "failed", !.op = visit[v].op])

AccountsNext ==
  \E v \in Visits :
    \/ /\ Arrive(v) \/ Count(v) \/ InsertCatalog(v) \/ Find(v) \/ AddUser(v)
          \/ LookForWorkspace(v) \/ AddPersonal(v) \/ CreateCollaborative(v) \/ Grant(v)
          \/ FailVisit(v)
       /\ UNCHANGED <<catalog, users, spaces>>
    \/ CommitVisit(v)

AccountsSpec == AccountsInit /\ [][AccountsNext]_accountVars

AccountsTypeOK ==
  /\ catalog \in BOOLEAN
  /\ users \subseteq UserRow
  /\ spaces \subseteq SpaceRow
  /\ visit \in [Visits -> VisitRecord]

-----------------------------------------------------------------------------
(* However many first requests of a user overlap, fail or follow another:  *)
(* one account bears the name, and it has exactly one personal workspace.  *)
OneAccountOneWorkspace ==
  /\ \A u, w \in users : u.username = w.username => u = w
  /\ \A u \in users : Cardinality(Personal(spaces, u.id)) = 1

(* A request that lost the race for its account, or was retried after a    *)
(* failure, has acted for the account that bears its user's name: that is  *)
(* committed, the workspace it created belongs to it, and no workspace     *)
(* belongs to an account that was rolled back.                             *)
RequestsUseTheirAccount ==
  /\ \A w \in spaces : \E u \in users : u.id = w.owner
  /\ \A v \in Visits : visit[v].pc = "ok" /\ visit[v].op # "seed" =>
       \E u \in users :
         /\ u.username = visit[v].username
         /\ visit[v].op = "create" =>
              \E w \in spaces : w.kind = "collaborative" /\ w.by = v /\ w.owner = u.id

=============================================================================
