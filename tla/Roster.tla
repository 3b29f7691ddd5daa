------------------------------- MODULE Roster -------------------------------
(***************************************************************************)
(* What membership of a collaborative workspace promises: every operation  *)
(* is one atomic step.  Membership implements it when its transactions do  *)
(* not overlap.                                                            *)
(***************************************************************************)
CONSTANTS Users, None

VARIABLES
  owner,   \* the workspace's owner_id
  member   \* member[u]: role and status of u's membership

Grantable == {"admin", "member", "viewer"}

OwnerRow == [role |-> "owner", status |-> "active"]

Init ==
  \E u \in Users :
    /\ owner = u
    /\ member = [v \in Users |-> IF v = u THEN OwnerRow
                                 ELSE [role |-> None, status |-> "none"]]

Becomes(u, role, status) ==
  /\ member' = [member EXCEPT ![u] = [role |-> role, status |-> status]]
  /\ UNCHANGED owner

Invite(u) ==
  /\ member[u].status \in {"none", "left", "removed"}
  /\ \E role \in Grantable : Becomes(u, role, "invited")

Answer(u) ==
  /\ member[u].status = "invited"
  /\ \E status \in {"active", "left"} : Becomes(u, member[u].role, status)

Leave(u) ==
  /\ u # owner
  /\ member[u].status = "active"
  /\ Becomes(u, member[u].role, "left")

Remove(u) ==
  /\ u # owner
  /\ member[u].status \in {"invited", "active", "left"}
  /\ Becomes(u, member[u].role, "removed")

ChangeRole(u) ==
  /\ u # owner
  /\ member[u].status = "active"
  /\ \E role \in Grantable : Becomes(u, role, "active")

Transfer(u) ==
  /\ u # owner
  /\ member[u].status = "active"
  /\ owner' = u
  /\ member' = [member EXCEPT ![owner].role = "admin", ![u].role = "owner"]

Next ==
  \E u \in Users :
    \/ Invite(u) \/ Answer(u) \/ Leave(u)
    \/ Remove(u) \/ ChangeRole(u) \/ Transfer(u)

Spec == Init /\ [][Next]_<<owner, member>>

=============================================================================
