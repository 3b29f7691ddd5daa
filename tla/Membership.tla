----------------------------- MODULE Membership -----------------------------
(***************************************************************************)
(* The membership operations of WorkspaceService on one collaborative      *)
(* workspace: invite_member, respond_to_invitation, remove_member,         *)
(* change_member_role, leave and transfer_ownership.                       *)
(*                                                                         *)
(* A session is one request's database transaction, reused for the next    *)
(* request.  It reads the workspace, its actor's membership and the        *)
(* target's in separate statements and decides on what it has read.  To    *)
(* write, the repository reads the row again, sets every column to what    *)
(* the operation made of its first reading, and the ORM sends an UPDATE    *)
(* ... WHERE id of the columns that differ from the second; it waits for   *)
(* the row lock.  Nothing is locked while it reads.                        *)
(***************************************************************************)
EXTENDS Naturals, FiniteSets

CONSTANTS
  Users,      \* accounts that exist
  Sessions,   \* transactions that may be under way at the same time
  None        \* an absent value

VARIABLES
  owner,      \* the committed workspaces.owner_id
  member,     \* member[u]: the committed membership of u
  accepted,   \* history: who has accepted an invitation, or created it
  appointed,  \* history: who has been handed the ownership, or created it
  tx          \* tx[s]: the transaction of session s

rows == <<owner, member, accepted, appointed>>
vars == <<owner, member, accepted, appointed, tx>>

(* Faulty: _reject_owner_role is forgotten.                                *)
GrantableWithOwner == {"admin", "member", "viewer", "owner"}

Grantable == {"admin", "member", "viewer"}
Roles     == Grantable \cup {"owner"}
Statuses  == {"none", "invited", "active", "left", "removed"}

AbsentRow == [role |-> None, status |-> "none"]
Row == {AbsentRow} \cup [role : Roles, status : Statuses \ {"none"}]
OwnerRow  == [role |-> "owner", status |-> "active"]

ASSUME MembershipAssumption ==
  /\ None \notin Users \cup Roles \cup Statuses
  /\ \A row \in Row : row # None

Managing == {"invite", "remove", "change_role"}      \* need member.manage
Guarded  == Managing \cup {"leave", "transfer"}      \* pass the access guard
Ops      == Guarded \cup {"accept", "decline"}

TxRecord ==
  [pc        : {"idle", "guard", "target", "previous", "demote", "write",
                "handover", "commit"},
   op        : Ops \cup {None},
   target    : Users \cup {None},
   role      : Grantable \cup {None},      \* the role to grant
   seenOwner : Users \cup {None},         \* while it is still needed
   seen      : [Users -> Row \cup {None}], \* rows still to write, as read
   base      : Row \cup {None},            \* the one it waits for, read again
   new       : [Users -> Row \cup {None}], \* rows written, and locked
   handed    : BOOLEAN]                    \* owner_id written, and locked

NoRows == [u \in Users |-> None]
Idle == [pc |-> "idle", op |-> None, target |-> None, role |-> None,
         seenOwner |-> None, seen |-> NoRows, base |-> None,
         new |-> NoRows, handed |-> FALSE]

(* create_collaborative: the creator owns the workspace.                   *)
Init ==
  /\ \E u \in Users :
       /\ owner = u
       /\ member = [v \in Users |-> IF v = u THEN OwnerRow ELSE AbsentRow]
       /\ accepted = {u}
       /\ appointed = {u}
  /\ tx = [s \in Sessions |-> Idle]

Put(s, rec) == tx' = [tx EXCEPT ![s] = rec]
Quit(s)     == Put(s, Idle)
Goto(s, pc) == Put(s, [tx[s] EXCEPT !.pc = pc])

-----------------------------------------------------------------------------
(* A request arrives; a guarded one reads the workspace.  Its actor, its   *)
(* target and the role it names are chosen where they are first used.      *)
Request(s) ==
  /\ tx[s].pc = "idle"
  /\ \/ \E op \in Guarded :
          Put(s, [Idle EXCEPT !.pc = "guard", !.op = op, !.seenOwner = owner])
     \/ \E op \in Ops \ Guarded : Put(s, [Idle EXCEPT !.pc = "target", !.op = op])

(* AccessGuard with the capability the operation needs.                    *)
May(op, row) ==
  /\ row.status = "active"
  /\ op \in Managing => row.role \in {"owner", "admin"}
  /\ op = "transfer"  => row.role = "owner"

(* The guard reads the actor's membership; one who leaves is also the      *)
(* target.  A request that is refused rolls back.                          *)
Guard(s) ==
  /\ tx[s].pc = "guard"
  /\ \E actor \in Users :
       /\ May(tx[s].op, member[actor])
       /\ Put(s, [tx[s] EXCEPT !.pc = "target",
                 !.target = IF tx[s].op = "leave" THEN actor ELSE None])

(* Faulty: anyone can be removed; an invitation need not be accepted before *)
(* the ownership is handed over; the owner's role can be changed.          *)
DemandedToRemoveAny(op) ==
  CASE op = "invite"                    -> {"none", "left", "removed"}
    [] op \in {"accept", "decline"}     -> {"invited"}
    [] op = "remove"                    -> Statuses \ {"removed"}
    [] op = "leave"                     -> Statuses \ {"none"}
    [] op \in {"change_role", "transfer"} -> {"active"}
DemandedOrInvited(op) ==
  CASE op = "invite"                    -> {"none", "left", "removed"}
    [] op \in {"accept", "decline"}     -> {"invited"}
    [] op = "remove"                    -> Statuses \ {"none", "removed"}
    [] op = "leave"                     -> Statuses \ {"none"}
    [] op = "change_role"               -> {"active"}
    [] op = "transfer"                  -> {"active", "invited"}
SparesOwnerButRole(op) == op \in {"remove", "leave", "transfer"}

(* What each operation demands of its target's membership.  (Removing      *)
(* someone already removed succeeds and changes nothing, like a refusal.)  *)
Demanded(op) ==
  CASE op = "invite"                    -> {"none", "left", "removed"}
    [] op \in {"accept", "decline"}     -> {"invited"}
    [] op = "remove"                    -> Statuses \ {"none", "removed"}
    [] op = "leave"                     -> Statuses \ {"none"}
    [] op \in {"change_role", "transfer"} -> {"active"}

(* The operations refused when their target is the workspace's owner.      *)
SparesOwner(op) == op \in {"remove", "leave", "change_role", "transfer"}

Allowed(op, row, isOwner) ==
  /\ row.status \in Demanded(op)
  /\ SparesOwner(op) => ~isOwner

(* The target's membership is read.  (_reject_owner_role keeps owner out of *)
(* the roles that can be granted.)                                         *)
Target(s) ==
  /\ tx[s].pc = "target"
  /\ \E u \in Users, role \in Grantable \cup {None} :
       /\ tx[s].target \in {None, u}
       /\ (role # None) <=> (tx[s].op \in {"invite", "change_role"})
       /\ Allowed(tx[s].op, member[u], u = tx[s].seenOwner)
       /\ Put(s, IF tx[s].op = "transfer"
                 THEN [tx[s] EXCEPT !.pc = "previous", !.target = u, !.seen[u] = member[u]]
                 ELSE [tx[s] EXCEPT !.pc = "write", !.target = u, !.role = role,
                         !.seen[u] = member[u], !.seenOwner = None])

(* transfer_ownership reads the membership of the registered owner.        *)
Previous(s) ==
  LET o == tx[s].seenOwner IN
  /\ tx[s].pc = "previous"
  /\ Put(s, [tx[s] EXCEPT !.pc = "demote", !.seen[o] = member[o]])

(* Faulty: somebody who was invited before becomes a member at once.       *)
WantedAtOnce(r, u) ==
  LET row == r.seen[u] IN
  IF u # r.target THEN [row EXCEPT !.role = "admin"]
  ELSE CASE r.op = "invite" -> [role |-> r.role,
                                status |-> IF row = AbsentRow THEN "invited" ELSE "active"]
         [] r.op = "accept"               -> [row EXCEPT !.status = "active"]
         [] r.op \in {"decline", "leave"} -> [row EXCEPT !.status = "left"]
         [] r.op = "remove"               -> [row EXCEPT !.status = "removed"]
         [] r.op = "change_role"          -> [row EXCEPT !.role = r.role]
         [] r.op = "transfer"             -> [row EXCEPT !.role = "owner"]

(* The row a transaction wants: what it read, changed by its operation.    *)
(* (The registered owner always has a membership, see MembershipProofs.)   *)
Wanted(r, u) ==
  LET row == r.seen[u] IN
  IF u # r.target THEN [row EXCEPT !.role = "admin"]      \* the previous owner
  ELSE CASE r.op = "invite"               -> [role |-> r.role, status |-> "invited"]
         [] r.op = "accept"               -> [row EXCEPT !.status = "active"]
         [] r.op \in {"decline", "leave"} -> [row EXCEPT !.status = "left"]
         [] r.op = "remove"               -> [row EXCEPT !.status = "removed"]
         [] r.op = "change_role"          -> [row EXCEPT !.role = r.role]
         [] r.op = "transfer"             -> [row EXCEPT !.role = "owner"]

HoldsRow(s, u) == tx[s].new[u] # None
RowFree(s, u)  == \A t \in Sessions \ {s} : ~HoldsRow(t, u)
OwnerFree(s)   == \A t \in Sessions \ {s} : ~tx[t].handed

(* A written row: the columns the UPDATE names, over what is committed     *)
(* once the lock is held.                                                  *)
Merged(current, base, wanted) ==
  [role   |-> IF wanted.role # base.role THEN wanted.role ELSE current.role,
   status |-> IF wanted.status # base.status THEN wanted.status ELSE current.status]

(* The row as the repository reads it again, unless it is to be inserted.  *)
Base(s, u) ==
  IF tx[s].seen[u] = AbsentRow THEN AbsentRow
  ELSE IF tx[s].base # None THEN tx[s].base ELSE member[u]

(* The second reading of u's membership and its UPDATE.  The ORM skips an  *)
(* UPDATE that changes no column, a locked row is waited for, and the      *)
(* unique constraint refuses a second INSERT for one user.  (Between a     *)
(* reading and a lock that is free nothing can come that makes a           *)
(* difference: only a reading before a wait is a step of its own.)         *)
Update(s, u, next) ==
  LET wanted == Wanted(tx[s], u) IN
  \/ /\ wanted = Base(s, u)
     /\ Put(s, [tx[s] EXCEPT !.pc = next, !.seen[u] = None])
  \/ /\ wanted # Base(s, u)
     /\ tx[s].seen[u] # AbsentRow
     /\ ~RowFree(s, u)
     /\ tx[s].base = None
     /\ Put(s, [tx[s] EXCEPT !.base = member[u]])
  \/ /\ wanted # Base(s, u)
     /\ RowFree(s, u)
     /\ IF tx[s].seen[u] = AbsentRow /\ member[u] # AbsentRow
        THEN Quit(s)
        ELSE Put(s, [tx[s] EXCEPT
               !.pc = next, !.seen[u] = None, !.base = None,
               !.new[u] = Merged(member[u], Base(s, u), wanted)])

Demote(s) == tx[s].pc = "demote" /\ Update(s, tx[s].seenOwner, "write")

Write(s) ==
  /\ tx[s].pc = "write"
  /\ Update(s, tx[s].target, IF tx[s].op = "transfer" THEN "handover" ELSE "commit")

Handover(s) ==
  /\ tx[s].pc = "handover"
  /\ \/ owner = tx[s].target /\ Goto(s, "commit")
     \/ /\ owner # tx[s].target
        /\ OwnerFree(s)
        /\ Put(s, [tx[s] EXCEPT !.pc = "commit", !.handed = TRUE])

Commit(s) ==
  /\ tx[s].pc = "commit"
  /\ member' = [u \in Users |-> IF HoldsRow(s, u) THEN tx[s].new[u] ELSE member[u]]
  /\ owner' = IF tx[s].handed THEN tx[s].target ELSE owner
  /\ accepted' = IF tx[s].op = "accept" THEN accepted \cup {tx[s].target} ELSE accepted
  /\ appointed' = IF tx[s].op = "transfer" THEN appointed \cup {tx[s].target} ELSE appointed
  /\ Quit(s)

(* Any failure, being the victim of a deadlock included, rolls back.       *)
Rollback(s) == tx[s].pc # "idle" /\ Quit(s)

Step(s) ==
  \/ /\ \/ Request(s) \/ Guard(s) \/ Target(s) \/ Previous(s)
        \/ Demote(s) \/ Write(s) \/ Handover(s) \/ Rollback(s)
     /\ UNCHANGED rows
  \/ Commit(s)

Next == \E s \in Sessions : Step(s)

Spec == Init /\ [][Next]_vars

TypeOK ==
  /\ owner \in Users
  /\ member \in [Users -> Row]
  /\ accepted \subseteq Users
  /\ appointed \subseteq Users
  /\ tx \in [Sessions -> TxRecord]

-----------------------------------------------------------------------------
(* ADR-0008: owner_id and the membership with role owner always correspond *)
(* one to one.                                                             *)
OwnersAgree == \A u \in Users : (member[u].role = "owner") <=> (u = owner)

(* The workspace has one owner, by both accounts, and the owner has not    *)
(* left it nor been removed: somebody can always transfer the ownership.   *)
OneOwner == OwnersAgree /\ member[owner].status = "active"

(* Whatever overlaps, and whatever rows are written back late: nobody is   *)
(* an active member who has not accepted an invitation at some time.       *)
MembersAccepted == \A u \in Users : member[u].status = "active" => u \in accepted

(* Nobody holds the role owner who has not been handed the ownership at    *)
(* some time: role changes and invitations never make an owner.            *)
OwnersWereAppointed == \A u \in Users : member[u].role = "owner" => u \in appointed

-----------------------------------------------------------------------------
Rosters == INSTANCE Roster

(* One transaction at a time, reads, guards and column updates add up to   *)
(* the atomic operations.                                                  *)
ImplementsRoster == Rosters!Spec

=============================================================================
