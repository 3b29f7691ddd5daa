---------------------------- MODULE AccountsProofs ----------------------------
(***************************************************************************)
(* Proofs about accounts and personal workspaces, for any number of        *)
(* overlapping requests and seedings and any user names.                   *)
(***************************************************************************)
EXTENDS Accounts, FiniteSetTheorems, TLAPS

IsPersonal(w) == w.kind = "personal"

(* A transaction that knows its account.                                   *)
HasUser(rec) ==
  rec.pc \in {"look", "space", "grant", "create"} \/ (rec.pc = "commit" /\ rec.op # "seed")

(* Whoever will ask for an account says under which name.                  *)
Named(rec) ==
  rec.pc \in {"find", "user"} \/ (rec.pc \in {"count", "insert"} /\ rec.op = "demo") =>
    rec.username \in Usernames

(* What a committed request has left: RequestsUseTheirAccount of one.      *)
Served(rec, v) ==
  rec.pc = "ok" /\ rec.op # "seed" =>
    \E u \in users :
      /\ u.username = rec.username
      /\ rec.op = "create" =>
           \E w \in spaces : w.kind = "collaborative" /\ w.by = v /\ w.owner = u.id

(* The workspace a request was made to create is among those inserted.     *)
Creates(rec, v) ==
  /\ \A w \in rec.made : w.by = v
  /\ rec.op = "create" /\ rec.pc = "commit" => \E w \in rec.made : w.kind = "collaborative"

(* A transaction has inserted its account, under a name nobody has         *)
(* committed, or has found the one of its name; when it is done with it, the   *)
(* account has a personal workspace, committed or its own, never both.     *)
VisitGood(rec, v) ==
  /\ Named(rec)
  /\ Served(rec, v)
  /\ Creates(rec, v)
  /\ rec.mine => /\ HasUser(rec) /\ rec.user = v /\ rec.username \in Usernames
                 /\ \A u \in users : u.username # rec.username
  /\ HasUser(rec) /\ ~rec.mine =>
       \E u \in users : u.id = rec.user /\ u.username = rec.username
  /\ rec.pc \in {"count", "insert", "refused"} => rec.op \in {"seed", "demo"}
  /\ rec.pc \in {"find", "user", "look", "space", "grant", "create"} => rec.op # "seed"
  /\ rec.made # {} => HasUser(rec) /\ rec.pc \in {"grant", "create", "commit"}
  /\ \A w \in rec.made : /\ w.owner = rec.user
                         /\ IsPersonal(w) => Personal(spaces, rec.user) = {}
  /\ \A w, y \in rec.made : IsPersonal(w) /\ IsPersonal(y) => w = y
  /\ HasUser(rec) /\ rec.pc \notin {"look", "space"} =>
       Personal(spaces \cup rec.made, rec.user) # {}

(* The unique indexes keep what overlapping transactions insert apart.     *)
Apart(rec, other) ==
  /\ rec.mine /\ other.mine => rec.username # other.username
  /\ \A w \in rec.made, y \in other.made :
       IsPersonal(w) /\ IsPersonal(y) => w.owner # y.owner

AccountsInv ==
  /\ AccountsTypeOK
  /\ \A u \in users : visit[u.id].pc = "ok"
  /\ \A u, w \in users : u.username = w.username => u = w
  /\ \A w \in spaces : \E u \in users : u.id = w.owner
  /\ \A u \in users : \E p : Personal(spaces, u.id) = {p}
  /\ \A v \in Visits : VisitGood(visit[v], v)
  /\ \A v, x \in Visits : v # x => Apart(visit[v], visit[x])

-----------------------------------------------------------------------------
LEMMA NewVisitGood ==
  /\ NewVisit \in VisitRecord
  /\ NewVisit.pc = "new" /\ NewVisit.op = None /\ NewVisit.made = {} /\ ~NewVisit.mine
BY DEF NewVisit, VisitRecord

(* A transaction that has inserted nothing.                                *)
LEMMA BlankIsApart ==
  ASSUME NEW rec, ~rec.mine, rec.made = {}
  PROVE  \A other : Apart(rec, other) /\ Apart(other, rec)
BY DEF Apart

LEMMA BlankIsGood ==
  ASSUME NEW rec, NEW v, ~rec.mine, rec.made = {}, ~HasUser(rec), Named(rec),
         rec.pc \in {"count", "insert", "refused"} => rec.op \in {"seed", "demo"},
         rec.pc \in {"find", "user"} => rec.op # "seed",
         rec.pc # "ok", rec.pc = "commit" => rec.op = "seed"
  PROVE  VisitGood(rec, v)
BY DEF VisitGood, HasUser, Named, Served, Creates

LEMMA AccountsInitial == AccountsInit => AccountsInv
<1> SUFFICES ASSUME AccountsInit PROVE AccountsInv
  OBVIOUS
<1>1. users = {} /\ spaces = {} /\ \A v \in Visits : visit[v] = NewVisit
  BY DEF AccountsInit
<1>2. catalog \in BOOLEAN
  BY Zenon DEF AccountsInit
<1>3. visit \in [Visits -> VisitRecord]
  BY NewVisitGood DEF AccountsInit
<1>4. \A v : VisitGood(NewVisit, v)
  BY NewVisitGood, BlankIsGood DEF HasUser, Named
<1>5. \A other : Apart(NewVisit, other)
  BY NewVisitGood, BlankIsApart
<1>6. QED
  BY <1>1, <1>2, <1>3, <1>4, <1>5 DEF AccountsInv, AccountsTypeOK

(* A transaction goes on and nothing is committed.                         *)
LEMMA VisitKeeps ==
  ASSUME AccountsInv, NEW v \in Visits, NEW rec \in VisitRecord, Visited(v, rec),
         visit[v].pc # "ok", VisitGood(rec, v),
         \A x \in Visits \ {v} : Apart(rec, visit[x]),
         UNCHANGED <<catalog, users, spaces>>
  PROVE  AccountsInv'
<1>1. visit' = [visit EXCEPT ![v] = rec] /\ visit \in [Visits -> VisitRecord]
  BY DEF Visited, AccountsInv, AccountsTypeOK
<1>2. visit' \in [Visits -> VisitRecord]
      /\ \A x \in Visits : visit'[x] = IF x = v THEN rec ELSE visit[x]
  BY <1>1
<1>3. AccountsTypeOK'
  BY <1>2 DEF AccountsInv, AccountsTypeOK
<1>4. \A u \in users : visit'[u.id].pc = "ok"
  <2>1. \A u \in users : u.id \in Visits /\ visit[u.id].pc = "ok"
    BY DEF AccountsInv, AccountsTypeOK, UserRow
  <2>2. QED
    BY <1>2, <2>1
<1>5. \A x \in Visits : VisitGood(visit[x], x)'
  <2>1. \A x \in Visits : VisitGood(visit'[x], x)
    BY <1>2 DEF AccountsInv
  <2>2. QED
    BY <2>1 DEF VisitGood, Personal, Served
<1>6. \A x, y \in Visits : x # y => Apart(visit'[x], visit'[y])
  <2>1. \A x \in Visits \ {v} : Apart(visit[x], rec)
    BY DEF Apart
  <2>2. QED
    BY <1>2, <2>1 DEF AccountsInv
<1>7. \A u \in users : \E p : Personal(spaces, u.id)' = {p}
  BY DEF AccountsInv, Personal
<1>8. QED
  BY <1>3, <1>4, <1>5, <1>6, <1>7 DEF AccountsInv, Personal

(* A transaction that has inserted nothing yet goes on.                    *)
LEMMA BlankKeeps ==
  ASSUME AccountsInv, NEW v \in Visits, NEW rec \in VisitRecord, Visited(v, rec),
         visit[v].pc # "ok", VisitGood(rec, v), ~rec.mine, rec.made = {},
         UNCHANGED <<catalog, users, spaces>>
  PROVE  AccountsInv'
BY VisitKeeps, BlankIsApart

(* A transaction goes on with what it has inserted.                        *)
LEMMA SameKeeps ==
  ASSUME AccountsInv, NEW v \in Visits, NEW rec \in VisitRecord, Visited(v, rec),
         visit[v].pc # "ok", VisitGood(rec, v),
         rec.mine = visit[v].mine, rec.username = visit[v].username, rec.made = visit[v].made,
         UNCHANGED <<catalog, users, spaces>>
  PROVE  AccountsInv'
<1>1. \A x \in Visits \ {v} : Apart(visit[v], visit[x])
  BY DEF AccountsInv
<1>2. \A x \in Visits \ {v} : Apart(rec, visit[x])
  BY <1>1 DEF Apart
<1>3. QED
  BY <1>2, VisitKeeps

(* What a step that only moves on leaves as it was.                        *)
LEMMA VisitMoves ==
  ASSUME NEW rec \in VisitRecord, NEW pc
  PROVE  LET next == [rec EXCEPT !.pc = pc] IN
         /\ next.pc = pc /\ next.op = rec.op /\ next.username = rec.username
         /\ next.user = rec.user /\ next.mine = rec.mine /\ next.made = rec.made
         /\ next.seeded = rec.seeded
         /\ pc \in {"new", "count", "insert", "find", "user", "look", "space", "grant",
                    "create", "commit", "ok", "refused", "failed"} => next \in VisitRecord
BY DEF VisitRecord

-----------------------------------------------------------------------------
(* Before a transaction knows its account it has inserted neither account  *)
(* nor workspace.                                                          *)
LEMMA Early ==
  ASSUME AccountsInv, NEW v \in Visits
  PROVE  /\ visit[v] \in VisitRecord /\ VisitGood(visit[v], v)
         /\ ~HasUser(visit[v]) => ~visit[v].mine /\ visit[v].made = {}
BY DEF AccountsInv, AccountsTypeOK, VisitGood

LEMMA ArriveKeeps ==
  ASSUME AccountsInv, NEW v \in Visits, Arrive(v), UNCHANGED <<catalog, users, spaces>>
  PROVE  AccountsInv'
<1>1. visit[v].pc = "new"
  BY DEF Arrive
<1>2. ASSUME NEW rec \in VisitRecord, Visited(v, rec), rec.made = {}, ~rec.mine,
             \/ rec.pc = "find" /\ rec.op \in {"read", "create"} /\ rec.username \in Usernames
             \/ rec.pc = "count" /\ rec.op = "seed"
             \/ rec.pc = "count" /\ rec.op = "demo" /\ rec.username \in Usernames
      PROVE  AccountsInv'
  <2>1. VisitGood(rec, v)
    BY <1>2, BlankIsGood DEF HasUser, Named
  <2>2. QED
    BY <1>1, <1>2, <2>1, BlankKeeps
<1> DEFINE request(op, u) == [NewVisit EXCEPT !.pc = "find", !.op = op, !.username = u]
           seeding == [NewVisit EXCEPT !.pc = "count", !.op = "seed"]
           demo(u) == [NewVisit EXCEPT !.pc = "count", !.op = "demo", !.username = u]
<1>3. ASSUME NEW u \in Usernames, NEW op \in {"read", "create"}
      PROVE  /\ request(op, u) \in VisitRecord /\ request(op, u).pc = "find"
             /\ request(op, u).op = op /\ request(op, u).username = u
             /\ request(op, u).made = {} /\ ~request(op, u).mine
  BY NewVisitGood DEF VisitRecord
<1>4. /\ seeding \in VisitRecord /\ seeding.pc = "count" /\ seeding.op = "seed"
      /\ seeding.made = {} /\ ~seeding.mine
  BY NewVisitGood DEF VisitRecord
<1>5. ASSUME NEW u \in Usernames
      PROVE  /\ demo(u) \in VisitRecord /\ demo(u).pc = "count"
             /\ demo(u).op = "demo" /\ demo(u).username = u /\ demo(u).made = {} /\ ~demo(u).mine
  BY NewVisitGood DEF VisitRecord
<1>6. \/ \E u \in Usernames, op \in {"read", "create"} : Visited(v, request(op, u))
      \/ Visited(v, seeding)
      \/ \E u \in Usernames : Visited(v, demo(u))
  BY DEF Arrive
<1> HIDE DEF request, seeding, demo
<1>7. QED
  BY <1>2, <1>3, <1>4, <1>5, <1>6

LEMMA SeedKeeps ==
  ASSUME AccountsInv, NEW v \in Visits, Count(v) \/ InsertCatalog(v),
         UNCHANGED <<catalog, users, spaces>>
  PROVE  AccountsInv'
<1> DEFINE old == visit[v]
<1>1. old \in VisitRecord /\ old.pc \in {"count", "insert"} /\ old.op \in {"seed", "demo"}
      /\ ~old.mine /\ old.made = {} /\ (old.op = "demo" => old.username \in Usernames)
  BY Early DEF Named, Count, InsertCatalog, HasUser, VisitGood
<1>2. AfterSeed(v) \in {"find", "commit"} /\ (AfterSeed(v) = "find" <=> old.op = "demo")
  BY DEF AfterSeed
<1>3. ASSUME NEW rec \in VisitRecord, Visited(v, rec), rec.op = old.op, rec.username = old.username,
             ~rec.mine, rec.made = {}, rec.pc \in {"insert", "refused", AfterSeed(v)}
      PROVE  AccountsInv'
  <2>1. /\ ~HasUser(rec) /\ Named(rec) /\ (rec.pc \in {"find", "user"} => rec.op # "seed")
        /\ rec.pc # "ok" /\ (rec.pc = "commit" => rec.op = "seed")
    BY <1>1, <1>2, <1>3 DEF HasUser, Named
  <2>2. VisitGood(rec, v)
    BY <1>1, <1>3, <2>1, BlankIsGood
  <2>3. QED
    BY <1>1, <1>3, <2>2, BlankKeeps
<1>4. ASSUME NEW pc \in {"insert", "refused", AfterSeed(v)}, Comes(v, pc) PROVE AccountsInv'
  <2> DEFINE rec == [old EXCEPT !.pc = pc]
  <2>1. rec \in VisitRecord /\ rec.pc = pc /\ rec.op = old.op /\ rec.mine = old.mine
        /\ rec.made = old.made /\ rec.username = old.username
    BY <1>1, <1>2, VisitMoves
  <2>2. Visited(v, rec)
    BY <1>4 DEF Comes
  <2> HIDE DEF rec
  <2>3. QED
    BY <1>1, <1>3, <2>1, <2>2
<1>5. ASSUME Visited(v, [old EXCEPT !.pc = AfterSeed(v), !.seeded = TRUE]) PROVE AccountsInv'
  <2> DEFINE rec == [old EXCEPT !.pc = AfterSeed(v), !.seeded = TRUE]
  <2>1. rec \in VisitRecord /\ rec.pc = AfterSeed(v) /\ rec.op = old.op /\ rec.mine = old.mine
        /\ rec.made = old.made /\ rec.username = old.username
    BY <1>1, <1>2 DEF VisitRecord
  <2> HIDE DEF rec
  <2>2. QED
    BY <1>1, <1>3, <1>5, <2>1 DEF rec
<1>6. QED
  BY <1>4, <1>5 DEF Count, InsertCatalog

LEMMA FindKeeps ==
  ASSUME AccountsInv, NEW v \in Visits, Find(v), UNCHANGED <<catalog, users, spaces>>
  PROVE  AccountsInv'
<1> DEFINE old == visit[v]
           found(id) == [old EXCEPT !.pc = "look", !.user = id]
           user == [old EXCEPT !.pc = "user"]
<1>1. old \in VisitRecord /\ old.pc = "find" /\ old.op # "seed" /\ ~old.mine /\ old.made = {}
      /\ old.username \in Usernames
  BY Early DEF Named, Find, HasUser, VisitGood
<1>2. CASE Visited(v, user)
  <2>1. user \in VisitRecord /\ user.pc = "user" /\ user.op = old.op /\ user.mine = old.mine
        /\ user.made = old.made /\ user.username = old.username
    BY <1>1, VisitMoves
  <2> HIDE DEF old, user
  <2>2. VisitGood(user, v)
    BY <1>1, <2>1, BlankIsGood DEF HasUser, Named
  <2>3. QED
    BY <1>1, <1>2, <2>1, <2>2, BlankKeeps DEF old
<1>3. ASSUME NEW u \in users, u.username = old.username, Visited(v, found(u.id))
      PROVE  AccountsInv'
  <2>1. u.id \in Visits
    BY DEF AccountsInv, AccountsTypeOK, UserRow
  <2>2. found(u.id) \in VisitRecord /\ found(u.id).pc = "look" /\ found(u.id).op = old.op
        /\ found(u.id).mine = old.mine /\ found(u.id).made = old.made /\ found(u.id).user = u.id
        /\ found(u.id).username = old.username
    BY <1>1, <2>1 DEF VisitRecord
  <2> HIDE DEF old, found
  <2>3. VisitGood(found(u.id), v)
    BY <1>1, <1>3, <2>2 DEF VisitGood, HasUser, Named, Served, Creates
  <2>4. QED
    BY <1>1, <1>3, <2>2, <2>3, BlankKeeps DEF old
<1>4. QED
  BY <1>2, <1>3 DEF Find, Comes, Account

(* The unique index on the name lets in one of those who overlap.          *)
LEMMA AddUserKeeps ==
  ASSUME AccountsInv, NEW v \in Visits, AddUser(v), UNCHANGED <<catalog, users, spaces>>
  PROVE  AccountsInv'
<1> DEFINE old == visit[v]
           found(id) == [old EXCEPT !.pc = "look", !.user = id]
           rec == [old EXCEPT !.pc = "look", !.user = v, !.mine = TRUE]
<1>1. old \in VisitRecord /\ old.pc = "user" /\ old.op # "seed" /\ ~old.mine /\ old.made = {}
      /\ old.username \in Usernames
  BY Early DEF Named, AddUser, HasUser, VisitGood
<1>2. ASSUME NEW u \in users, u.username = old.username, Visited(v, found(u.id))
      PROVE  AccountsInv'
  <2>1. u.id \in Visits
    BY DEF AccountsInv, AccountsTypeOK, UserRow
  <2>2. found(u.id) \in VisitRecord /\ found(u.id).pc = "look" /\ found(u.id).op = old.op
        /\ found(u.id).mine = old.mine /\ found(u.id).made = old.made /\ found(u.id).user = u.id
        /\ found(u.id).username = old.username
    BY <1>1, <2>1 DEF VisitRecord
  <2> HIDE DEF old, found
  <2>3. VisitGood(found(u.id), v)
    BY <1>1, <1>2, <2>2 DEF VisitGood, HasUser, Named, Served, Creates
  <2>4. QED
    BY <1>1, <1>2, <2>2, <2>3, BlankKeeps DEF old
<1>3. CASE ~UsernameClashes(v) /\ Visited(v, rec)
  <2>1. /\ rec \in VisitRecord /\ rec.pc = "look" /\ rec.op = old.op /\ rec.mine
        /\ rec.made = old.made /\ rec.user = v /\ rec.username = old.username
    BY <1>1 DEF VisitRecord
  <2>2. /\ \A u \in users : u.username # old.username
        /\ \A x \in Visits \ {v} : ~(visit[x].mine /\ visit[x].username = old.username)
    BY <1>3 DEF AddUser, UsernameClashes, Account
  <2> HIDE DEF old, rec
  <2>3. VisitGood(rec, v)
    BY <1>1, <2>1, <2>2 DEF VisitGood, HasUser, Named, Served, Creates
  <2>4. \A x \in Visits \ {v} : Apart(rec, visit[x])
    BY <1>1, <2>1, <2>2 DEF Apart
  <2>5. QED
    BY <1>1, <1>3, <2>1, <2>3, <2>4, VisitKeeps DEF old
<1>4. \/ \E u \in users : u.username = old.username /\ Visited(v, found(u.id))
      \/ ~UsernameClashes(v) /\ Visited(v, rec)
  BY DEF AddUser, ReadWinner, Account
<1>5. QED
  BY <1>2, <1>3, <1>4

LEMMA LookKeeps ==
  ASSUME AccountsInv, NEW v \in Visits, LookForWorkspace(v), UNCHANGED <<catalog, users, spaces>>
  PROVE  AccountsInv'
<1> DEFINE old == visit[v]
           pc == IF HasWorkspace(v) THEN Ensured(v) ELSE "space"
           rec == [old EXCEPT !.pc = pc]
<1>1. old \in VisitRecord /\ VisitGood(old, v) /\ old.pc = "look" /\ old.op # "seed"
      /\ HasUser(old) /\ old.made = {}
  BY Early DEF LookForWorkspace, HasUser, VisitGood
<1>2. /\ pc \in {"create", "commit", "space"}
      /\ pc # "space" => Personal(spaces, old.user) # {}
      /\ pc = "commit" => old.op # "create"
  BY DEF Ensured, HasWorkspace
<1>3. Visited(v, rec)
  BY DEF LookForWorkspace, Comes
<1> HIDE DEF pc
<1>4. /\ rec \in VisitRecord /\ rec.pc = pc /\ rec.op = old.op /\ rec.mine = old.mine
      /\ rec.made = old.made /\ rec.user = old.user /\ rec.username = old.username
  BY <1>1, <1>2, VisitMoves
<1> HIDE DEF old, rec
<1>5. spaces \cup {} = spaces
  OBVIOUS
<1>6. VisitGood(rec, v)
  BY <1>1, <1>2, <1>4, <1>5 DEF VisitGood, HasUser, Named, Served, Creates
<1>7. QED
  BY <1>1, <1>3, <1>4, <1>6, SameKeeps DEF old

(* The partial unique index on the owner lets in one personal workspace.   *)
LEMMA AddPersonalKeeps ==
  ASSUME AccountsInv, NEW v \in Visits, AddPersonal(v), UNCHANGED <<catalog, users, spaces>>
  PROVE  AccountsInv'
<1> DEFINE old == visit[v]
           moved == [old EXCEPT !.pc = Ensured(v)]
           new == [kind |-> "personal", owner |-> old.user, by |-> v, entitled |-> FALSE]
           added == [old EXCEPT !.pc = "grant", !.made = @ \cup {new}]
<1>1. old \in VisitRecord /\ VisitGood(old, v) /\ old.pc = "space" /\ old.op # "seed"
      /\ HasUser(old) /\ old.made = {}
  BY Early DEF AddPersonal, HasUser, VisitGood
<1>2. Ensured(v) \in {"create", "commit"} /\ (Ensured(v) = "commit" => old.op # "create")
  BY DEF Ensured
<1>3. CASE HasWorkspace(v) /\ Visited(v, moved)
  <2>1. /\ moved \in VisitRecord /\ moved.pc = Ensured(v) /\ moved.op = old.op
        /\ moved.mine = old.mine /\ moved.made = old.made /\ moved.user = old.user
        /\ moved.username = old.username
    BY <1>1, <1>2, VisitMoves
  <2>2. Personal(spaces, old.user) # {} /\ spaces \cup {} = spaces
    BY <1>3 DEF HasWorkspace
  <2> HIDE DEF old, moved
  <2>3. VisitGood(moved, v)
    BY <1>1, <1>2, <2>1, <2>2 DEF VisitGood, HasUser, Named, Served, Creates
  <2>4. QED
    BY <1>1, <1>3, <2>1, <2>3, SameKeeps DEF old
<1>4. CASE ~HasWorkspace(v) /\ Visited(v, added)
  <2>1. old.user \in Visits
    <3>1. old.mine => old.user = v
      BY <1>1 DEF VisitGood
    <3>2. ~old.mine => \E u \in users : u.id = old.user
      BY <1>1 DEF VisitGood
    <3>3. QED
      BY <3>1, <3>2 DEF AccountsInv, AccountsTypeOK, UserRow
  <2>2. new \in SpaceRow
    BY <2>1 DEF SpaceRow
  <2>3. /\ added \in VisitRecord /\ added.pc = "grant" /\ added.op = old.op
        /\ added.mine = old.mine /\ added.made = {new} /\ added.user = old.user
        /\ added.username = old.username
    BY <1>1, <2>2 DEF VisitRecord
  <2>4. IsPersonal(new) /\ new.owner = old.user /\ new.kind = "personal" /\ new.by = v
    BY DEF IsPersonal
  <2>5. /\ Personal(spaces, old.user) = {}
        /\ \A x \in Visits \ {v} : Personal(visit[x].made, old.user) = {}
    BY <1>4 DEF AddPersonal, HasWorkspace
  <2> HIDE DEF old, new, added
  <2>6. new \in Personal(spaces \cup added.made, old.user)
    BY <2>3, <2>4 DEF Personal
  <2>7. VisitGood(added, v)
    BY <1>1, <2>3, <2>4, <2>5, <2>6 DEF VisitGood, HasUser, Named, Served, Creates
  <2>8. \A x \in Visits \ {v} : Apart(added, visit[x])
    <3> SUFFICES ASSUME NEW x \in Visits \ {v} PROVE Apart(added, visit[x])
      OBVIOUS
    <3>1. Apart(old, visit[x])
      BY DEF AccountsInv, old
    <3>2. \A y \in visit[x].made : IsPersonal(y) => y.owner # old.user
      BY <2>5 DEF Personal, IsPersonal
    <3>3. QED
      BY <2>3, <2>4, <3>1, <3>2 DEF Apart
  <2>9. QED
    BY <1>1, <1>4, <2>3, <2>7, <2>8, VisitKeeps DEF old
<1>5. QED
  BY <1>3, <1>4 DEF AddPersonal, Comes, AddWorkspace

LEMMA CollaborateKeeps ==
  ASSUME AccountsInv, NEW v \in Visits, CreateCollaborative(v),
         UNCHANGED <<catalog, users, spaces>>
  PROVE  AccountsInv'
<1> DEFINE old == visit[v]
           new == [kind |-> "collaborative", owner |-> old.user, by |-> v, entitled |-> FALSE]
           added == [old EXCEPT !.pc = "grant", !.made = @ \cup {new}]
<1>1. old \in VisitRecord /\ VisitGood(old, v) /\ old.pc = "create" /\ old.op # "seed"
      /\ HasUser(old) /\ Personal(spaces \cup old.made, old.user) # {}
  BY Early DEF CreateCollaborative, HasUser, VisitGood
<1>2. old.user \in Visits
  <2>1. old.mine => old.user = v
    BY <1>1 DEF VisitGood
  <2>2. ~old.mine => \E u \in users : u.id = old.user
    BY <1>1 DEF VisitGood
  <2>3. QED
    BY <2>1, <2>2 DEF AccountsInv, AccountsTypeOK, UserRow
<1>3. new \in SpaceRow
  BY <1>2 DEF SpaceRow
<1>4. Visited(v, added)
  BY DEF CreateCollaborative, AddWorkspace
<1>5. /\ added \in VisitRecord /\ added.pc = "grant" /\ added.op = old.op
      /\ added.mine = old.mine /\ added.made = old.made \cup {new} /\ added.user = old.user
      /\ added.username = old.username
  BY <1>1, <1>3 DEF VisitRecord
<1>6. ~IsPersonal(new) /\ new.owner = old.user /\ new.by = v
  BY DEF IsPersonal
<1> HIDE DEF old, new, added
<1>7. Personal(spaces \cup added.made, old.user) # {}
  BY <1>1, <1>5 DEF Personal
<1>8. VisitGood(added, v)
  BY <1>1, <1>5, <1>6, <1>7 DEF VisitGood, HasUser, Named, Served, Creates
<1>9. \A x \in Visits \ {v} : Apart(added, visit[x])
  <2> SUFFICES ASSUME NEW x \in Visits \ {v} PROVE Apart(added, visit[x])
    OBVIOUS
  <2>1. Apart(old, visit[x])
    BY DEF AccountsInv, old
  <2>2. QED
    BY <1>5, <1>6, <2>1 DEF Apart
<1>10. QED
  BY <1>1, <1>4, <1>5, <1>8, <1>9, VisitKeeps DEF old

LEMMA GrantKeeps ==
  ASSUME AccountsInv, NEW v \in Visits, Grant(v), UNCHANGED <<catalog, users, spaces>>
  PROVE  AccountsInv'
<1> DEFINE old == visit[v]
           granted(w) == [w EXCEPT !.entitled = catalog \/ old.seeded]
           after(w) == IF w.kind = "personal" THEN Ensured(v) ELSE "commit"
           rec(w) == [old EXCEPT !.pc = after(w), !.made = (@ \ {w}) \cup {granted(w)}]
<1>1. old \in VisitRecord /\ VisitGood(old, v) /\ old.pc = "grant" /\ old.op # "seed"
      /\ HasUser(old) /\ Personal(spaces \cup old.made, old.user) # {}
      /\ old.made \subseteq SpaceRow
  BY Early DEF Grant, HasUser, VisitGood, VisitRecord
<1>2. PICK w \in old.made : Visited(v, rec(w))
  BY DEF Grant
<1>3. /\ granted(w) \in SpaceRow /\ granted(w).kind = w.kind /\ granted(w).owner = w.owner
      /\ granted(w).by = w.by
  <2>1. (catalog \/ old.seeded) \in BOOLEAN
    OBVIOUS
  <2>2. w \in SpaceRow
    BY <1>1
  <2>3. QED
    BY <2>1, <2>2 DEF SpaceRow
<1> HIDE DEF granted
<1> DEFINE made == (old.made \ {w}) \cup {granted(w)}
<1>4. /\ after(w) \in {"create", "commit"}
      /\ after(w) = "commit" /\ old.op = "create" => w.kind = "collaborative"
  BY <1>1 DEF Ensured, SpaceRow
<1>5. made \in SUBSET SpaceRow
  BY <1>1, <1>3
<1> HIDE DEF after
<1>6. /\ rec(w) \in VisitRecord /\ rec(w).pc = after(w) /\ rec(w).op = old.op
      /\ rec(w).mine = old.mine /\ rec(w).made = made /\ rec(w).user = old.user
      /\ rec(w).username = old.username
  BY <1>1, <1>4, <1>5 DEF VisitRecord
<1> HIDE DEF rec
<1>7. \A y \in made : \E z \in old.made : z.kind = y.kind /\ z.owner = y.owner /\ z.by = y.by
  BY <1>3
<1>8. \A y, z \in made : IsPersonal(y) /\ IsPersonal(z) => y = z
  BY <1>1, <1>3 DEF VisitGood, IsPersonal
<1>9. Personal(spaces \cup made, old.user) # {}
  <2>1. PICK y \in spaces \cup old.made : y.kind = "personal" /\ y.owner = old.user
    BY <1>1 DEF Personal
  <2>2. \E z \in spaces \cup made : z.kind = "personal" /\ z.owner = old.user
    BY <1>3, <2>1
  <2>3. QED
    BY <2>2 DEF Personal
<1>14. w.kind = "collaborative" => \E y \in made : y.kind = "collaborative"
  BY <1>3
<1> HIDE DEF old, made
<1>15. Creates(rec(w), v)
  BY <1>1, <1>4, <1>6, <1>7, <1>14 DEF VisitGood, Creates
<1>10. \A y \in made : /\ y.owner = old.user
                       /\ IsPersonal(y) => Personal(spaces, old.user) = {}
  BY <1>1, <1>7 DEF VisitGood, IsPersonal
<1>11. VisitGood(rec(w), v)
  BY <1>1, <1>4, <1>6, <1>8, <1>9, <1>10, <1>15 DEF VisitGood, HasUser, Named, Served
<1>12. \A x \in Visits \ {v} : Apart(rec(w), visit[x])
  <2> SUFFICES ASSUME NEW x \in Visits \ {v} PROVE Apart(rec(w), visit[x])
    OBVIOUS
  <2>1. Apart(old, visit[x])
    BY DEF AccountsInv, old
  <2>2. QED
    BY <1>6, <1>7, <2>1 DEF Apart, IsPersonal
<1>13. QED
  BY <1>1, <1>2, <1>6, <1>11, <1>12, VisitKeeps DEF old

LEMMA VisitFails ==
  ASSUME AccountsInv, NEW v \in Visits, FailVisit(v), UNCHANGED <<catalog, users, spaces>>
  PROVE  AccountsInv'
<1> DEFINE rec == [NewVisit EXCEPT !.pc = "failed", !.op = visit[v].op]
<1>1. visit[v].op \in {"read", "create", "seed", "demo", None} /\ visit[v].pc # "ok" /\ Visited(v, rec)
  BY Early DEF VisitRecord, FailVisit, Over
<1>2. rec \in VisitRecord /\ rec.pc = "failed" /\ rec.made = {} /\ ~rec.mine
  BY <1>1, NewVisitGood DEF VisitRecord
<1> HIDE DEF rec
<1>3. VisitGood(rec, v)
  BY <1>2, BlankIsGood DEF HasUser, Named
<1>4. QED
  BY <1>1, <1>2, <1>3, BlankKeeps

(* The commit: the account keeps the one personal workspace it has, or     *)
(* gets the one the transaction has inserted.                              *)
LEMMA CommitKeeps ==
  ASSUME AccountsInv, NEW v \in Visits, CommitVisit(v)
  PROVE  AccountsInv'
<1> DEFINE old == visit[v]
           rec == [NewVisit EXCEPT !.pc = "ok", !.op = old.op, !.username = old.username]
           row == [id |-> v, username |-> old.username]
<1>1. old \in VisitRecord /\ VisitGood(old, v) /\ old.pc = "commit"
  BY Early DEF CommitVisit
<1>2. /\ catalog' = (catalog \/ old.seeded)
      /\ users' = (IF old.mine THEN users \cup {row} ELSE users)
      /\ spaces' = spaces \cup old.made
      /\ visit' = [visit EXCEPT ![v] = rec]
  BY DEF CommitVisit, Visited
<1>3. rec \in VisitRecord /\ rec.pc = "ok" /\ rec.made = {} /\ ~rec.mine /\ rec.op = old.op
      /\ rec.username = old.username
  <2>1. old.op \in {"read", "create", "seed", "demo", None} /\ old.username \in Usernames \cup {None}
    BY <1>1 DEF VisitRecord
  <2>2. QED
    BY <2>1, NewVisitGood DEF VisitRecord
<1> HIDE DEF rec
<1>4. visit' \in [Visits -> VisitRecord]
      /\ \A x \in Visits : visit'[x] = IF x = v THEN rec ELSE visit[x]
  BY <1>2, <1>3 DEF AccountsInv, AccountsTypeOK
<1>5. row.id = v /\ row.username = old.username
  OBVIOUS
<1>6. /\ users \subseteq users' /\ users \subseteq UserRow
      /\ \A u \in users' : u \in users \/ (old.mine /\ u = row)
      /\ old.mine => row \in users'
  BY <1>2 DEF AccountsInv, AccountsTypeOK
<1>7. \A u \in users : visit[u.id].pc = "ok" /\ u.id \in Visits /\ u.id # v
  BY <1>1, <1>6 DEF AccountsInv, UserRow
<1>8. AccountsTypeOK'
  <2>1. catalog' \in BOOLEAN
    <3>1. (catalog \/ old.seeded) \in BOOLEAN
      OBVIOUS
    <3>2. QED
      BY ONLY <1>2, <3>1
  <2>2. old.mine => old.username \in Usernames
    BY <1>1 DEF VisitGood
  <2>3. spaces' \subseteq SpaceRow
    BY <1>1, <1>2 DEF AccountsInv, AccountsTypeOK, VisitRecord
  <2>4. users' \subseteq UserRow
    BY <1>6, <2>2 DEF UserRow
  <2>5. QED
    BY <1>4, <2>1, <2>3, <2>4 DEF AccountsTypeOK
<1> HIDE DEF old, row
<1>9. \A u \in users' : visit'[u.id].pc = "ok"
  BY <1>3, <1>4, <1>5, <1>6, <1>7
<1>10. \A u, w \in users' : u.username = w.username => u = w
  <2>1. old.mine => \A u \in users : u.username # old.username
    BY <1>1 DEF VisitGood
  <2>2. QED
    BY <1>5, <1>6, <2>1 DEF AccountsInv
<1>11. old.made # {} => \E u \in users' : u.id = old.user
  BY <1>1, <1>5, <1>6 DEF VisitGood
<1>12. \A w \in old.made : w.owner = old.user
  BY <1>1 DEF VisitGood
<1>13. \A w \in spaces' : \E u \in users' : u.id = w.owner
  <2>1. \A w \in spaces : \E u \in users' : u.id = w.owner
    BY <1>6 DEF AccountsInv
  <2>2. QED
    BY <1>2, <1>11, <1>12, <2>1
<1>14. \A u \in users' : \E p : Personal(spaces', u.id) = {p}
  <2> SUFFICES ASSUME NEW u \in users' PROVE \E p : Personal(spaces', u.id) = {p}
    OBVIOUS
  <2>1. CASE u \in users
    <3>1. PICK p : Personal(spaces, u.id) = {p}
      BY <2>1 DEF AccountsInv
    <3>2. ASSUME NEW w \in old.made, w.kind = "personal", w.owner = u.id PROVE FALSE
      BY <1>1, <3>1, <3>2 DEF VisitGood, IsPersonal
    <3>3. Personal(spaces', u.id) = Personal(spaces, u.id)
      BY <1>2, <3>2 DEF Personal
    <3>4. QED
      BY <3>1, <3>3
  <2>2. CASE old.mine /\ u = row
    <3>1. u.id = v /\ old.user = v /\ HasUser(old)
      BY <1>1, <1>5, <2>2 DEF VisitGood
    <3>2. Personal(spaces, v) = {}
      BY <1>7 DEF Personal, AccountsInv
    <3>3. Personal(spaces', v) = Personal(old.made, v)
      BY <1>2, <3>2 DEF Personal
    <3>4. Personal(spaces', v) # {}
      BY <1>1, <1>2, <3>1 DEF VisitGood
    <3>5. \A w, y \in Personal(old.made, v) : w = y
      BY <1>1 DEF VisitGood, Personal, IsPersonal
    <3>6. PICK p \in Personal(spaces', v) : TRUE
      BY <3>4
    <3>7. Personal(spaces', v) = {p}
      BY <3>3, <3>5, <3>6
    <3>8. QED
      BY <3>1, <3>7
  <2>3. QED
    BY <1>6, <2>1, <2>2
<1>18. rec.op # "seed" =>
         \E u \in users' :
           /\ u.username = rec.username
           /\ rec.op = "create" =>
                \E w \in spaces' : w.kind = "collaborative" /\ w.by = v /\ w.owner = u.id
  <2> SUFFICES ASSUME rec.op # "seed"
               PROVE  \E u \in users' :
                        /\ u.username = rec.username
                        /\ rec.op = "create" =>
                             \E w \in spaces' : w.kind = "collaborative" /\ w.by = v /\ w.owner = u.id
    OBVIOUS
  <2>1. HasUser(old)
    BY <1>1, <1>3 DEF HasUser
  <2>2. PICK u \in users' : u.id = old.user /\ u.username = old.username
    BY <1>1, <1>5, <1>6, <2>1 DEF VisitGood
  <2>3. rec.op = "create" =>
          \E w \in spaces' : w.kind = "collaborative" /\ w.by = v /\ w.owner = old.user
    BY <1>1, <1>2, <1>3, <1>12 DEF VisitGood, Creates
  <2>4. QED
    BY <1>3, <2>2, <2>3
<1>15. ASSUME NEW x \in Visits PROVE VisitGood(visit[x], x)'
  <2>1. CASE x = v
    <3>1. ~HasUser(rec)
      BY <1>3 DEF HasUser
    <3>2. visit'[x] = rec
      BY <1>4, <2>1
    <3>3. QED
      BY <1>3, <1>18, <2>1, <3>1, <3>2 DEF VisitGood, HasUser, Named, Served, Creates
  <2>2. CASE x # v
    <3> DEFINE other == visit[x]
    <3>1. visit'[x] = other /\ VisitGood(other, x) /\ Apart(old, other)
      BY <1>4, <2>2 DEF AccountsInv, old
    <3>2. other.mine => \A u \in users' : u.username # other.username
      BY <1>5, <1>6, <3>1 DEF VisitGood, Apart
    <3>3. HasUser(other) /\ ~other.mine =>
            \E u \in users' : u.id = other.user /\ u.username = other.username
      BY <1>6, <3>1 DEF VisitGood
    <3>4. ASSUME NEW w \in other.made, IsPersonal(w) PROVE Personal(spaces', other.user) = {}
      <4>1. Personal(spaces, other.user) = {} /\ w.owner = other.user
        BY <3>1, <3>4 DEF VisitGood
      <4>2. \A y \in old.made : IsPersonal(y) => y.owner # other.user
        BY <3>1, <3>4, <4>1 DEF Apart
      <4>3. QED
        BY <1>2, <4>1, <4>2 DEF Personal, IsPersonal
    <3>5. HasUser(other) /\ other.pc \notin {"look", "space"} =>
            Personal(spaces' \cup other.made, other.user) # {}
      <4>1. Personal(spaces \cup other.made, other.user) \subseteq
              Personal(spaces' \cup other.made, other.user)
        BY <1>2 DEF Personal
      <4>2. QED
        BY <3>1, <4>1 DEF VisitGood
    <3>8. other.pc = "ok" /\ other.op # "seed" =>
            \E u \in users' :
              /\ u.username = other.username
              /\ other.op = "create" =>
                   \E w \in spaces' : w.kind = "collaborative" /\ w.by = x /\ w.owner = u.id
      BY <1>2, <1>6, <3>1 DEF VisitGood, Served
    <3> HIDE DEF other
    <3>6. /\ Named(other)
          /\ Creates(other, x)
          /\ other.mine => HasUser(other) /\ other.user = x /\ other.username \in Usernames
          /\ other.pc \in {"count", "insert", "refused"} => other.op \in {"seed", "demo"}
          /\ other.pc \in {"find", "user", "look", "space", "grant", "create"} => other.op # "seed"
          /\ other.made # {} => HasUser(other) /\ other.pc \in {"grant", "create", "commit"}
          /\ \A w \in other.made : w.owner = other.user
          /\ \A w, y \in other.made : IsPersonal(w) /\ IsPersonal(y) => w = y
      BY <3>1 DEF VisitGood
    <3>7. QED
      BY <3>1, <3>2, <3>3, <3>4, <3>5, <3>6, <3>8
         DEF VisitGood, HasUser, Named, IsPersonal, Personal, Served, Creates
  <2>3. QED
    BY <2>1, <2>2
<1>16. \A x, y \in Visits : x # y => Apart(visit'[x], visit'[y])
  <2>1. \A other : Apart(rec, other) /\ Apart(other, rec)
    BY <1>3, BlankIsApart
  <2>2. QED
    BY <1>4, <2>1 DEF AccountsInv
<1>17. QED
  BY <1>8, <1>9, <1>10, <1>13, <1>14, <1>15, <1>16 DEF AccountsInv

LEMMA AccountsStep == AccountsInv /\ [AccountsNext]_accountVars => AccountsInv'
<1> SUFFICES ASSUME AccountsInv, [AccountsNext]_accountVars PROVE AccountsInv'
  OBVIOUS
<1>1. CASE UNCHANGED accountVars
  <2>1. UNCHANGED <<catalog, users, spaces, visit>>
    BY <1>1 DEF accountVars
  <2>2. \A v \in Visits : VisitGood(visit[v], v)'
    BY <2>1 DEF AccountsInv, VisitGood, Personal, Served
  <2>3. \A u \in users : \E p : Personal(spaces, u.id)' = {p}
    BY <2>1 DEF AccountsInv, Personal
  <2>4. QED
    BY <2>1, <2>2, <2>3 DEF AccountsInv, AccountsTypeOK, Personal
<1>2. CASE AccountsNext
  BY <1>2, ArriveKeeps, SeedKeeps, FindKeeps, AddUserKeeps, LookKeeps, AddPersonalKeeps,
     CollaborateKeeps, GrantKeeps, VisitFails, CommitKeeps DEF AccountsNext
<1>3. QED
  BY <1>1, <1>2

(* However many first requests of whatever users overlap, fail or follow   *)
(* one another: one account per name, one personal workspace per account.  *)
THEOREM OneAccountAndWorkspace == AccountsSpec => []OneAccountOneWorkspace
<1>1. AccountsInv => OneAccountOneWorkspace
  <2> SUFFICES ASSUME AccountsInv PROVE OneAccountOneWorkspace
    OBVIOUS
  <2>1. \A u \in users : \E p : Personal(spaces, u.id) = {p}
    BY DEF AccountsInv
  <2>2. \A u \in users : Cardinality(Personal(spaces, u.id)) = 1
    BY <2>1, FS_Singleton
  <2>3. QED
    BY <2>2 DEF AccountsInv, OneAccountOneWorkspace
<1>2. QED
  BY AccountsInitial, AccountsStep, <1>1, PTL DEF AccountsSpec

(* However the first requests of a user overlap, fail and roll back, each  *)
(* that commits has acted for the committed account of its user's name.    *)
THEOREM RequestsGetTheirAccount == AccountsSpec => []RequestsUseTheirAccount
<1>1. AccountsInv => RequestsUseTheirAccount
  BY DEF AccountsInv, VisitGood, Served, RequestsUseTheirAccount
<1>2. QED
  BY AccountsInitial, AccountsStep, <1>1, PTL DEF AccountsSpec

(* The users, their workspaces and what each request has read and added    *)
(* keep their types however requests overlap and fail.                     *)
THEOREM AccountsTyped == AccountsSpec => []AccountsTypeOK
<1>1. AccountsInv => AccountsTypeOK
  BY DEF AccountsInv
<1>2. QED
  BY AccountsInitial, AccountsStep, <1>1, PTL DEF AccountsSpec

=============================================================================
