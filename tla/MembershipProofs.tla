-------------------------- MODULE MembershipProofs --------------------------
(***************************************************************************)
(* What membership keeps however the transactions overlap, and what it     *)
(* implements when they do not.                                            *)
(***************************************************************************)
EXTENDS Membership, TLAPS

(* A row that may be committed.                                            *)
Alright(u, row) ==
  /\ row \in Row
  /\ row.status = "active" => u \in accepted
  /\ row.role = "owner" => u \in appointed

Present(u) == u \in Users /\ member[u] # AbsentRow

(* What a transaction has read, and has still to write.                    *)
ReadsOK(r) ==
  \A u \in Users : r.seen[u] # None =>
     Alright(u, r.seen[u]) /\ (r.seen[u] # AbsentRow => Present(u))

(* What it has written.                                                    *)
NewOK(r) ==
  \A u \in Users : r.new[u] # None =>
     /\ r.new[u] \in Row \ {AbsentRow}
     /\ r.new[u].status = "active" => u \in accepted \/ (r.op = "accept" /\ u = r.target)
     /\ r.new[u].role = "owner" => u \in appointed \/ (r.op = "transfer" /\ u = r.target)

Decided(r) ==
  /\ r.op \in Ops /\ r.target \in Users
  /\ r.pc # "commit" /\ r.pc # "handover" =>
       /\ r.seen[r.target] # None
       /\ r.seen[r.target].status \in Demanded(r.op)
       /\ r.op \in {"invite", "change_role"} => r.role \in Grantable
  /\ r.op = "transfer" => Present(r.target)

Handing(r) ==
  /\ r.op = "transfer"
  /\ Present(r.seenOwner)
  /\ r.pc # "target" => r.seenOwner # r.target
  /\ r.pc = "demote" => r.seen[r.seenOwner] # None /\ r.seen[r.seenOwner] # AbsentRow

TxInv(r) ==
  /\ ReadsOK(r) /\ NewOK(r)
  /\ r.pc # "idle" => r.op \in Ops
  /\ r.pc \in {"guard", "target", "previous", "demote"} => \A u \in Users : r.new[u] = None
  /\ r.pc \in {"previous", "demote", "write", "handover", "commit"} => Decided(r)
  /\ r.pc \in {"previous", "demote"} => Handing(r)
  /\ r.pc \in {"guard", "target"} => r.seenOwner = None \/ Present(r.seenOwner)
  /\ r.pc \in {"guard", "target"} /\ r.op = "transfer" => r.seenOwner # None
  /\ r.pc = "handover" => r.op = "transfer"
  /\ r.handed => r.op = "transfer" /\ r.pc = "commit"

MInv ==
  /\ TypeOK
  /\ Present(owner)
  /\ \A u \in Users : Alright(u, member[u])
  /\ \A s \in Sessions : TxInv(tx[s])

-----------------------------------------------------------------------------
(* A row is given by its two columns.                                      *)
LEMMA RowParts ==
  /\ AbsentRow \in Row /\ AbsentRow.status = "none" /\ AbsentRow.role = None
  /\ \A row \in Row : row # AbsentRow =>
       /\ row.role \in Roles /\ row.status \in Statuses \ {"none"}
       /\ row = [role |-> row.role, status |-> row.status]
  /\ \A row \in Row : row.status = "none" <=> row = AbsentRow
  /\ \A row \in Row : row = [role |-> row.role, status |-> row.status]
  /\ \A role \in Roles, status \in Statuses \ {"none"} :
       /\ [role |-> role, status |-> status] \in Row
       /\ [role |-> role, status |-> status] # AbsentRow
       /\ [role |-> role, status |-> status] # None
  /\ None \notin Users /\ None \notin Roles /\ None \notin Row
<1>1. /\ AbsentRow \in Row /\ AbsentRow.status = "none" /\ AbsentRow.role = None
      /\ None \notin Users /\ None \notin Roles /\ None \notin Row
  BY MembershipAssumption DEF Row, AbsentRow
<1>2. ASSUME NEW row \in Row
      PROVE  /\ row = [role |-> row.role, status |-> row.status]
             /\ row.status = "none" <=> row = AbsentRow
             /\ row # AbsentRow => row.role \in Roles /\ row.status \in Statuses \ {"none"}
  <2>1. CASE row = AbsentRow
    BY <2>1 DEF AbsentRow
  <2>2. CASE row \in [role : Roles, status : Statuses \ {"none"}]
    BY <2>2 DEF AbsentRow
  <2>3. QED
    BY <2>1, <2>2 DEF Row
<1>3. ASSUME NEW role \in Roles, NEW status \in Statuses \ {"none"}
      PROVE  /\ [role |-> role, status |-> status] \in Row
             /\ [role |-> role, status |-> status] # AbsentRow
             /\ [role |-> role, status |-> status] # None
  <2>1. [role |-> role, status |-> status] \in Row
    BY DEF Row
  <2>2. [role |-> role, status |-> status] # AbsentRow
    BY DEF AbsentRow
  <2>3. QED
    BY <1>1, <2>1, <2>2
<1>4. QED
  BY <1>1, <1>2, <1>3

LEMMA IdleInv == Idle \in TxRecord /\ TxInv(Idle)
<1>1. Idle \in TxRecord
  BY DEF Idle, TxRecord, NoRows
<1>2. /\ Idle.pc = "idle" /\ Idle.handed = FALSE
      /\ \A u \in Users : Idle.seen[u] = None /\ Idle.new[u] = None
  BY DEF Idle, NoRows
<1>3. QED
  BY <1>1, <1>2 DEF TxInv, ReadsOK, NewOK

(* History and rows only grow, so other transactions keep what they have.  *)
LEMMA Monotone ==
  ASSUME NEW r, TxInv(r),
         accepted \subseteq accepted', appointed \subseteq appointed',
         \A u \in Users : member'[u] = AbsentRow => member[u] = AbsentRow
  PROVE  TxInv(r)'
<1>1. \A u : Present(u) => Present(u)'
  BY DEF Present
<1>2. ReadsOK(r)' /\ NewOK(r)'
  BY <1>1 DEF TxInv, ReadsOK, NewOK, Alright
<1>3. (r.pc \in {"previous", "demote", "write", "handover", "commit"} => Decided(r)')
      /\ (r.pc \in {"previous", "demote"} => Handing(r)')
  BY <1>1 DEF TxInv, Decided, Handing
<1>4. QED
  BY <1>1, <1>2, <1>3 DEF TxInv

(* A step that touches one transaction only.                               *)
LEMMA Moves ==
  ASSUME MInv, UNCHANGED rows, NEW s \in Sessions, NEW rec \in TxRecord,
         TxInv(rec), Put(s, rec)
  PROVE  MInv'
<1>1. /\ owner' = owner /\ member' = member /\ accepted' = accepted /\ appointed' = appointed
  BY DEF rows
<1>2. tx' \in [Sessions -> TxRecord]
  BY DEF MInv, TypeOK, Put
<1>3. TypeOK' /\ Present(owner)' /\ \A u \in Users : Alright(u, member[u])'
  BY <1>1, <1>2 DEF MInv, TypeOK, Present, Alright
<1>4. ASSUME NEW t \in Sessions PROVE TxInv(tx[t])'
  <2>1. tx'[t] = IF t = s THEN rec ELSE tx[t]
    BY DEF MInv, TypeOK, Put
  <2>2. TxInv(tx'[t])
    BY <2>1 DEF MInv
  <2>3. QED
    BY <1>1, <2>2 DEF TxInv, ReadsOK, NewOK, Alright, Decided, Handing, Present
<1>5. QED
  BY <1>3, <1>4 DEF MInv

LEMMA RequestMoves ==
  ASSUME MInv, UNCHANGED rows, NEW s \in Sessions, Request(s)
  PROVE  MInv'
<1>1. PICK op \in Ops :
        \/ Put(s, [Idle EXCEPT !.pc = "guard", !.op = op, !.seenOwner = owner])
        \/ /\ op \notin Guarded
           /\ Put(s, [Idle EXCEPT !.pc = "target", !.op = op])
  BY DEF Request, Ops
<1>2. Present(owner) /\ owner \in Users
  BY DEF MInv, TypeOK
<1>3. ASSUME NEW rec \in TxRecord, Put(s, rec), rec.op = op, rec.handed = FALSE,
             \A u \in Users : rec.seen[u] = None /\ rec.new[u] = None,
             \/ rec.pc = "guard" /\ rec.seenOwner = owner
             \/ rec.pc = "target" /\ rec.seenOwner = None /\ op # "transfer"
      PROVE  MInv'
  <2>1. TxInv(rec)
    BY <1>2, <1>3, RowParts DEF TxInv, ReadsOK, NewOK
  <2>2. QED
    BY <1>3, <2>1, Moves
<1>4. CASE Put(s, [Idle EXCEPT !.pc = "guard", !.op = op, !.seenOwner = owner])
  <2> DEFINE rec == [Idle EXCEPT !.pc = "guard", !.op = op, !.seenOwner = owner]
  <2>1. /\ rec.pc = "guard" /\ rec.op = op /\ rec.seenOwner = owner /\ rec.handed = FALSE
        /\ \A u \in Users : rec.seen[u] = None /\ rec.new[u] = None
    BY DEF Idle, NoRows
  <2>2. rec \in TxRecord
    BY <1>2, IdleInv DEF TxRecord
  <2> HIDE DEF rec
  <2>3. QED
    BY <1>3, <1>4, <2>1, <2>2 DEF rec
<1>5. CASE op \notin Guarded /\ Put(s, [Idle EXCEPT !.pc = "target", !.op = op])
  <2> DEFINE rec == [Idle EXCEPT !.pc = "target", !.op = op]
  <2>1. /\ rec.pc = "target" /\ rec.op = op /\ rec.seenOwner = None /\ rec.handed = FALSE
        /\ \A u \in Users : rec.seen[u] = None /\ rec.new[u] = None
    BY DEF Idle, NoRows
  <2>2. rec \in TxRecord
    BY IdleInv DEF TxRecord
  <2>3. op # "transfer"
    BY <1>5 DEF Guarded
  <2> HIDE DEF rec
  <2>4. QED
    BY <1>3, <1>5, <2>1, <2>2, <2>3 DEF rec
<1>6. QED
  BY <1>1, <1>4, <1>5

LEMMA GuardMoves ==
  ASSUME MInv, UNCHANGED rows, NEW s \in Sessions, Guard(s)
  PROVE  MInv'
<1>1. PICK target \in Users \cup {None} :
        Put(s, [tx[s] EXCEPT !.pc = "target", !.target = target])
  BY DEF Guard
<1> DEFINE r == tx[s]
           rec == [r EXCEPT !.pc = "target", !.target = target]
<1>2. r \in TxRecord /\ TxInv(r) /\ r.pc = "guard"
  BY DEF MInv, TypeOK, Guard
<1>3. /\ rec \in TxRecord /\ Put(s, rec)
      /\ rec.pc = "target" /\ rec.op = r.op /\ rec.seenOwner = r.seenOwner
      /\ rec.handed = r.handed /\ rec.seen = r.seen /\ rec.new = r.new
      /\ rec.target = target
  BY <1>1, <1>2 DEF TxRecord
<1> HIDE DEF r, rec
<1>5. QED
  BY <1>2, <1>3, Moves DEF TxInv, ReadsOK, NewOK

LEMMA TargetMoves ==
  ASSUME MInv, UNCHANGED rows, NEW s \in Sessions, Target(s)
  PROVE  MInv'
<1> DEFINE r == tx[s]
<1>1. r \in TxRecord /\ TxInv(r) /\ r.pc = "target" /\ r.op \in Ops
  BY DEF MInv, TypeOK, Target, TxInv
<1>2. PICK u \in Users, role \in Grantable \cup {None} :
        /\ (role # None) <=> (r.op \in {"invite", "change_role"})
        /\ Allowed(r.op, member[u], u = r.seenOwner)
        /\ Put(s, IF r.op = "transfer"
                  THEN [r EXCEPT !.pc = "previous", !.target = u, !.seen[u] = member[u]]
                  ELSE [r EXCEPT !.pc = "write", !.target = u, !.role = role,
                          !.seen[u] = member[u], !.seenOwner = None])
  BY DEF Target
<1>3. /\ Alright(u, member[u]) /\ member[u] \in Row /\ member[u] # None
      /\ member[u].status \in Demanded(r.op)
      /\ r.op \in {"invite", "change_role"} => role \in Grantable
  BY <1>2, RowParts DEF MInv, TypeOK, Allowed, Alright
<1>4. r.op = "transfer" => Present(u)
  BY <1>3, RowParts DEF Demanded, Present
<1> HIDE DEF r
<1>5. CASE r.op = "transfer"
  <2> DEFINE rec == [r EXCEPT !.pc = "previous", !.target = u, !.seen[u] = member[u]]
  <2>1. rec \in TxRecord
    BY <1>1, <1>3 DEF TxRecord
  <2>2. /\ rec.pc = "previous" /\ rec.op = r.op /\ rec.target = u /\ rec.new = r.new
        /\ rec.seenOwner = r.seenOwner /\ rec.handed = r.handed
        /\ \A v \in Users : rec.seen[v] = IF v = u THEN member[u] ELSE r.seen[v]
    BY <1>1 DEF TxRecord
  <2>3. Put(s, rec)
    BY <1>2, <1>5
  <2> HIDE DEF rec
  <2>4. r.seenOwner # u /\ Present(r.seenOwner)
    BY <1>1, <1>2, <1>5 DEF Allowed, SparesOwner, TxInv
  <2>5. ReadsOK(rec)
    BY <1>1, <1>3, <2>2 DEF TxInv, ReadsOK, Present
  <2>6. TxInv(rec)
    BY <1>1, <1>3, <1>4, <1>5, <2>2, <2>4, <2>5 DEF TxInv, NewOK, Decided, Handing
  <2>7. QED
    BY <2>1, <2>3, <2>6, Moves
<1>6. CASE r.op # "transfer"
  <2> DEFINE rec == [r EXCEPT !.pc = "write", !.target = u, !.role = role,
                       !.seen[u] = member[u], !.seenOwner = None]
  <2>1. rec \in TxRecord
    BY <1>1, <1>3 DEF TxRecord
  <2>2. /\ rec.pc = "write" /\ rec.op = r.op /\ rec.target = u /\ rec.new = r.new
        /\ rec.role = role /\ rec.handed = r.handed
        /\ \A v \in Users : rec.seen[v] = IF v = u THEN member[u] ELSE r.seen[v]
    BY <1>1 DEF TxRecord
  <2>3. Put(s, rec)
    BY <1>2, <1>6
  <2> HIDE DEF rec
  <2>4. ReadsOK(rec)
    BY <1>1, <1>3, <2>2 DEF TxInv, ReadsOK, Present
  <2>5. TxInv(rec)
    BY <1>1, <1>3, <1>6, <2>2, <2>4 DEF TxInv, NewOK, Decided
  <2>6. QED
    BY <2>1, <2>3, <2>5, Moves
<1>7. QED
  BY <1>5, <1>6

LEMMA PreviousMoves ==
  ASSUME MInv, UNCHANGED rows, NEW s \in Sessions, Previous(s)
  PROVE  MInv'
<1> DEFINE r == tx[s]
           o == r.seenOwner
           rec == [r EXCEPT !.pc = "demote", !.seen[o] = member[o]]
<1>1. r \in TxRecord /\ TxInv(r) /\ r.pc = "previous" /\ Put(s, rec)
  BY DEF MInv, TypeOK, Previous
<1>2. Decided(r) /\ Handing(r) /\ o \in Users /\ o # r.target /\ Present(o)
  BY <1>1 DEF TxInv, Handing, Present
<1>3. Alright(o, member[o]) /\ member[o] \in Row /\ member[o] # None /\ member[o] # AbsentRow
  BY <1>2, RowParts DEF MInv, Alright, Present
<1>4. rec \in TxRecord
  BY <1>1, <1>2, <1>3 DEF TxRecord
<1>5. /\ rec.pc = "demote" /\ rec.op = r.op /\ rec.target = r.target /\ rec.new = r.new
      /\ rec.seenOwner = o /\ rec.handed = r.handed /\ rec.role = r.role
      /\ \A v \in Users : rec.seen[v] = IF v = o THEN member[o] ELSE r.seen[v]
  BY <1>1, <1>2 DEF TxRecord
<1> HIDE DEF r, rec
<1>6. ReadsOK(rec)
  BY <1>1, <1>2, <1>3, <1>5 DEF TxInv, ReadsOK
<1>7. TxInv(rec)
  BY <1>1, <1>2, <1>3, <1>5, <1>6 DEF TxInv, NewOK, Decided, Handing
<1>8. QED
  BY <1>1, <1>4, <1>7, Moves

-----------------------------------------------------------------------------
(* The transaction r is about to write u's row.                            *)
Writing(r, u) ==
  \/ r.pc = "demote" /\ u = r.seenOwner
  \/ r.pc = "write"  /\ u = r.target

(* What may be written to u's row by r.                                    *)
Writable(r, u, row) ==
  /\ row \in Row \ {AbsentRow}
  /\ row.status = "active" => u \in accepted \/ (r.op = "accept" /\ u = r.target)
  /\ row.role = "owner" => u \in appointed \/ (r.op = "transfer" /\ u = r.target)

LEMMA WantedIsWritable ==
  ASSUME NEW r \in TxRecord, TxInv(r), NEW u, Writing(r, u)
  PROVE  u \in Users /\ r.seen[u] # None /\ Writable(r, u, Wanted(r, u))
<1>1. /\ Decided(r) /\ r.op \in Ops /\ r.target \in Users
      /\ r.pc = "demote" => Handing(r) /\ u # r.target /\ r.seen[u] # AbsentRow
  BY DEF Writing, TxInv, Decided, Handing
<1>2. u \in Users /\ r.seen[u] # None
  BY <1>1 DEF Writing, Decided, Handing, Present
<1> DEFINE row == r.seen[u]
<1>3. Alright(u, row) /\ row \in Row
  BY <1>2 DEF TxInv, ReadsOK, Alright
<1> HIDE DEF row
<1>4. CASE r.pc = "demote"
  <2>1. /\ row.role \in Roles /\ row.status \in Statuses \ {"none"}
        /\ row = [role |-> row.role, status |-> row.status]
    BY <1>1, <1>3, <1>4, RowParts DEF row
  <2>2. Wanted(r, u) = [role |-> "admin", status |-> row.status]
    BY <1>1, <1>4, <2>1 DEF Wanted, row
  <2>3. QED
    BY <1>2, <1>3, <2>1, <2>2, RowParts DEF Writable, Alright, Roles, Grantable
<1>5. CASE r.pc = "write"
  <2>1. u = r.target /\ row.status \in Demanded(r.op)
        /\ (r.op \in {"invite", "change_role"} => r.role \in Grantable)
    BY <1>1, <1>5 DEF Writing, Decided, row
  <2>2. r.op # "invite" => row # AbsentRow
    BY <1>1, <1>3, <2>1, RowParts DEF Ops, Guarded, Managing, Demanded, Statuses
  <2>3. row # AbsentRow =>
          /\ row.role \in Roles /\ row.status \in Statuses \ {"none"}
          /\ row = [role |-> row.role, status |-> row.status]
    BY <1>3, RowParts
  <2>4. row # AbsentRow =>
          /\ r.op = "accept"   => Wanted(r, u) = [role |-> row.role, status |-> "active"]
          /\ r.op \in {"decline", "leave"} => Wanted(r, u) = [role |-> row.role, status |-> "left"]
          /\ r.op = "remove"   => Wanted(r, u) = [role |-> row.role, status |-> "removed"]
          /\ r.op = "change_role" => Wanted(r, u) = [role |-> r.role, status |-> row.status]
          /\ r.op = "transfer" => Wanted(r, u) = [role |-> "owner", status |-> row.status]
    BY <2>1, <2>3 DEF Wanted, row
  <2>5. r.op = "invite" => Wanted(r, u) = [role |-> r.role, status |-> "invited"]
    BY <2>1 DEF Wanted
  <2>6. CASE r.op = "invite"
    BY <1>2, <2>1, <2>5, <2>6, RowParts DEF Writable, Roles, Grantable, Statuses
  <2>7. CASE r.op # "invite"
    <3>1. ASSUME NEW role \in Roles, NEW status \in Statuses \ {"none"},
                 Wanted(r, u) = [role |-> role, status |-> status],
                 role = "owner" => row.role = "owner" \/ r.op = "transfer",
                 status = "active" => row.status = "active" \/ r.op = "accept"
          PROVE  Writable(r, u, Wanted(r, u))
      BY <1>2, <1>3, <2>1, <3>1, RowParts DEF Writable, Alright
    <3>2. CASE r.op \in {"accept", "decline", "leave", "remove"}
      <4>1. PICK status \in {"active", "left", "removed"} :
              /\ Wanted(r, u) = [role |-> row.role, status |-> status]
              /\ status = "active" => r.op = "accept"
        BY <2>2, <2>4, <3>2
      <4>2. status \in Statuses \ {"none"} /\ row.role \in Roles
        BY <2>2, <2>3, <2>7 DEF Statuses
      <4>3. QED
        BY <1>2, <3>1, <4>1, <4>2
    <3>3. CASE r.op = "change_role"
      BY <1>2, <2>1, <2>2, <2>3, <2>4, <3>1, <3>3 DEF Roles, Grantable
    <3>4. CASE r.op = "transfer"
      BY <1>2, <2>2, <2>3, <2>4, <3>1, <3>4 DEF Roles
    <3>5. QED
      BY <1>1, <1>2, <2>7, <3>2, <3>3, <3>4 DEF Ops, Guarded, Managing
  <2>8. QED
    BY <2>6, <2>7
<1>6. QED
  BY <1>4, <1>5 DEF Writing

(* Merged with what is committed it can still be written.                  *)
LEMMA MergedIsWritable ==
  ASSUME MInv, NEW s \in Sessions, NEW u, Writing(tx[s], u),
         ~(tx[s].seen[u] = AbsentRow /\ member[u] # AbsentRow)
  PROVE  Writable(tx[s], u, Merged(member[u], Base(s, u), Wanted(tx[s], u)))
<1> DEFINE r == tx[s]
           W == Wanted(r, u)
           M == Merged(member[u], Base(s, u), W)
<1>1. r \in TxRecord /\ TxInv(r)
  BY DEF MInv, TypeOK
<1>2. u \in Users /\ r.seen[u] # None /\ Writable(r, u, W)
  BY <1>1, WantedIsWritable
<1>3. W.role \in Roles /\ W.status \in Statuses \ {"none"}
  BY <1>2, RowParts DEF Writable
<1>4. Alright(u, member[u]) /\ member[u] \in Row
  BY <1>2 DEF MInv, Alright
<1>5. CASE r.seen[u] = AbsentRow
  <2>1. member[u] = AbsentRow /\ Base(s, u) = AbsentRow
    BY <1>5 DEF Base
  <2>2. W.role # None /\ W.status # "none"
    BY <1>3, RowParts
  <2>3. M = [role |-> W.role, status |-> W.status]
    BY <2>1, <2>2, RowParts DEF Merged
  <2>4. M = W
    BY <1>2, <2>3, RowParts DEF Writable
  <2>5. QED
    BY <1>2, <2>4
<1>6. CASE r.seen[u] # AbsentRow
  <2>1. member[u] # AbsentRow
    BY <1>1, <1>2, <1>6 DEF TxInv, ReadsOK, Present
  <2>2. member[u].role \in Roles /\ member[u].status \in Statuses \ {"none"}
    BY <1>4, <2>1, RowParts
  <2> HIDE DEF W
  <2>3. PICK role \in {W.role, member[u].role}, status \in {W.status, member[u].status} :
          M = [role |-> role, status |-> status]
    BY DEF Merged
  <2>4. M \in Row \ {AbsentRow} /\ M.role = role /\ M.status = status
    BY <1>3, <2>2, <2>3, RowParts
  <2> HIDE DEF M, r
  <2>5. Writable(r, u, M)
    BY <1>2, <1>4, <2>3, <2>4 DEF Writable, Alright
  <2>6. QED
    BY <2>5 DEF M, W, r
<1>7. QED
  BY <1>5, <1>6

LEMMA UpdateMoves ==
  ASSUME MInv, UNCHANGED rows, NEW s \in Sessions, NEW u, NEW next,
         Writing(tx[s], u), Update(s, u, next),
         \/ tx[s].pc = "demote" /\ next = "write"
         \/ tx[s].pc = "write" /\ next = "handover" /\ tx[s].op = "transfer"
         \/ tx[s].pc = "write" /\ next = "commit"
  PROVE  MInv'
<1> DEFINE r == tx[s]
           written == Merged(member[u], Base(s, u), Wanted(r, u))
<1>1. /\ r \in TxRecord /\ TxInv(r) /\ r.pc \in {"demote", "write"}
      /\ ~r.handed /\ Decided(r)
      /\ r.pc = "demote" => r.op = "transfer" /\ u # r.target
      /\ r.op = "transfer" => Present(r.target)
  BY DEF MInv, TypeOK, TxInv, Writing, Handing, Decided
<1>2. u \in Users /\ r.seen[u] # None
  BY <1>1, WantedIsWritable
<1>3. ASSUME NEW rec \in TxRecord, Put(s, rec),
             rec.pc = next, rec.op = r.op, rec.target = r.target, rec.role = r.role,
             rec.handed = r.handed,
             \A v \in Users : rec.seen[v] = IF v = u THEN None ELSE r.seen[v],
             \A v \in Users : rec.new[v] = r.new[v]
                             \/ (v = u /\ Writable(r, v, rec.new[v]))
      PROVE  MInv'
  <2>1. ReadsOK(rec)
    BY <1>1, <1>3 DEF TxInv, ReadsOK
  <2>2. NewOK(rec)
    BY <1>1, <1>3 DEF TxInv, NewOK, Writable
  <2>3. Decided(rec)
    BY <1>1, <1>2, <1>3 DEF Decided, Writing
  <2>4. TxInv(rec)
    BY <1>1, <1>3, <2>1, <2>2, <2>3 DEF TxInv
  <2>5. QED
    BY <1>3, <2>4, Moves
<1>4. next \in {"write", "handover", "commit"}
  OBVIOUS
<1>5. CASE Put(s, [r EXCEPT !.pc = next, !.seen[u] = None])
  <2> DEFINE rec == [r EXCEPT !.pc = next, !.seen[u] = None]
  <2>1. rec \in TxRecord
    BY <1>1, <1>2, <1>4 DEF TxRecord
  <2>2. /\ rec.pc = next /\ rec.op = r.op /\ rec.target = r.target /\ rec.role = r.role
        /\ rec.handed = r.handed
        /\ \A v \in Users : rec.seen[v] = IF v = u THEN None ELSE r.seen[v]
        /\ \A v \in Users : rec.new[v] = r.new[v]
    BY <1>1, <1>2 DEF TxRecord
  <2>3. Put(s, rec)
    BY <1>5
  <2> HIDE DEF rec
  <2>4. QED
    BY <1>3, <2>1, <2>2, <2>3
<1>6. CASE Put(s, [r EXCEPT !.base = member[u]])
  <2> DEFINE rec == [r EXCEPT !.base = member[u]]
  <2>1. rec \in TxRecord
    BY <1>1, <1>2 DEF TxRecord, MInv, TypeOK
  <2>2. /\ rec.pc = r.pc /\ rec.op = r.op /\ rec.target = r.target /\ rec.role = r.role
        /\ rec.handed = r.handed /\ rec.seen = r.seen /\ rec.new = r.new
        /\ rec.seenOwner = r.seenOwner
    BY <1>1 DEF TxRecord
  <2>3. Put(s, rec)
    BY <1>6
  <2> HIDE DEF rec
  <2>4. TxInv(rec)
    BY <1>1, <2>2 DEF TxInv, ReadsOK, NewOK, Decided, Handing
  <2>5. QED
    BY <2>1, <2>3, <2>4, Moves
<1>7. CASE /\ ~(r.seen[u] = AbsentRow /\ member[u] # AbsentRow)
           /\ Put(s, [r EXCEPT !.pc = next, !.seen[u] = None, !.base = None,
                         !.new[u] = written])
  <2>1. Writable(r, u, written)
    BY <1>7, MergedIsWritable
  <2> HIDE DEF written
  <2> DEFINE rec == [r EXCEPT !.pc = next, !.seen[u] = None, !.base = None,
                       !.new[u] = written]
  <2>2. rec \in TxRecord
    BY <1>1, <1>2, <1>4, <2>1 DEF TxRecord, Writable
  <2>3. /\ rec.pc = next /\ rec.op = r.op /\ rec.target = r.target /\ rec.role = r.role
        /\ rec.handed = r.handed
        /\ \A v \in Users : rec.seen[v] = IF v = u THEN None ELSE r.seen[v]
        /\ \A v \in Users : rec.new[v] = IF v = u THEN written ELSE r.new[v]
    BY <1>1, <1>2 DEF TxRecord
  <2>4. Put(s, rec)
    BY <1>7
  <2> HIDE DEF rec, r
  <2>5. QED
    BY <1>3, <2>1, <2>2, <2>3, <2>4
<1>8. CASE Quit(s)
  BY <1>8, IdleInv, Moves DEF Quit
<1>9. QED
  BY <1>5, <1>6, <1>7, <1>8 DEF Update

LEMMA HandoverMoves ==
  ASSUME MInv, UNCHANGED rows, NEW s \in Sessions, Handover(s)
  PROVE  MInv'
<1> DEFINE r == tx[s]
<1>1. r \in TxRecord /\ TxInv(r) /\ r.pc = "handover" /\ r.op = "transfer" /\ Decided(r)
  BY DEF MInv, TypeOK, TxInv, Handover
<1>2. PICK handed \in {r.handed, TRUE} : Put(s, [r EXCEPT !.pc = "commit", !.handed = handed])
  <2>1. CASE Goto(s, "commit")
    <3>1. [r EXCEPT !.pc = "commit"] = [r EXCEPT !.pc = "commit", !.handed = r.handed]
      BY <1>1 DEF TxRecord
    <3>2. QED
      BY <2>1, <3>1 DEF Goto
  <2>2. CASE Put(s, [r EXCEPT !.pc = "commit", !.handed = TRUE])
    BY <2>2
  <2>3. QED
    BY <2>1, <2>2 DEF Handover
<1> DEFINE rec == [r EXCEPT !.pc = "commit", !.handed = handed]
<1>3. /\ rec \in TxRecord /\ Put(s, rec)
      /\ rec.pc = "commit" /\ rec.op = r.op /\ rec.target = r.target
      /\ rec.seen = r.seen /\ rec.new = r.new
  BY <1>1, <1>2 DEF TxRecord
<1> HIDE DEF r, rec
<1>4. TxInv(rec)
  BY <1>1, <1>3 DEF TxInv, ReadsOK, NewOK, Decided
<1>5. QED
  BY <1>3, <1>4, Moves

LEMMA CommitMoves ==
  ASSUME MInv, NEW s \in Sessions, Commit(s)
  PROVE  MInv'
<1> DEFINE r == tx[s]
<1>1. /\ r \in TxRecord /\ TxInv(r) /\ r.pc = "commit" /\ Decided(r)
      /\ r.target \in Users /\ (r.op = "transfer" => Present(r.target))
  BY DEF MInv, TypeOK, TxInv, Commit, Decided
<1>2. /\ accepted \subseteq accepted' /\ appointed \subseteq appointed'
      /\ accepted' \subseteq Users /\ appointed' \subseteq Users
      /\ r.op = "accept" => r.target \in accepted'
      /\ r.op = "transfer" => r.target \in appointed'
  BY <1>1 DEF Commit, MInv, TypeOK
<1>3. ASSUME NEW u \in Users
      PROVE  /\ Alright(u, member[u])'
             /\ member'[u] = AbsentRow => member[u] = AbsentRow
  <2>1. member'[u] = IF r.new[u] # None THEN r.new[u] ELSE member[u]
    BY DEF Commit, HoldsRow
  <2>2. Alright(u, member[u])
    BY DEF MInv
  <2>3. r.new[u] # None => Writable(r, u, r.new[u])
    BY <1>1 DEF TxInv, NewOK, Writable
  <2>4. QED
    BY <1>2, <2>1, <2>2, <2>3 DEF Alright, Writable
<1>4. member' \in [Users -> Row]
  <2>1. member' = [u \in Users |-> IF r.new[u] # None THEN r.new[u] ELSE member[u]]
    BY DEF Commit, HoldsRow
  <2>2. \A u \in Users : r.new[u] # None => r.new[u] \in Row
    BY <1>1 DEF TxInv, NewOK
  <2>3. QED
    BY <2>1, <2>2 DEF MInv, TypeOK
<1>5. owner' \in Users /\ Present(owner)'
  <2>1. Present(owner) /\ (r.handed => Present(r.target))
    BY <1>1 DEF MInv, TxInv
  <2>2. \A u : Present(u) => Present(u)'
    BY <1>3 DEF Present
  <2>3. owner' = owner \/ (r.handed /\ owner' = r.target)
    BY DEF Commit
  <2>4. QED
    BY <2>1, <2>2, <2>3 DEF Present
<1>6. tx' = [tx EXCEPT ![s] = Idle] /\ tx' \in [Sessions -> TxRecord]
  BY IdleInv DEF Commit, Quit, Put, MInv, TypeOK
<1>7. ASSUME NEW t \in Sessions PROVE TxInv(tx[t])'
  <2>1. tx'[t] = IF t = s THEN Idle ELSE tx[t]
    BY <1>6 DEF MInv, TypeOK
  <2>2. TxInv(tx'[t])
    BY <2>1, IdleInv DEF MInv
  <2> DEFINE r2 == tx'[t]
  <2>3. \A u : Present(u) => Present(u)'
    BY <1>3 DEF Present
  <2>4. ReadsOK(tx[t])' /\ NewOK(tx[t])'
    BY <1>2, <2>2, <2>3 DEF TxInv, ReadsOK, NewOK, Alright
  <2>5. (tx'[t].pc \in {"previous", "demote", "write", "handover", "commit"} => Decided(tx[t])')
        /\ (tx'[t].pc \in {"previous", "demote"} => Handing(tx[t])')
    BY <2>2, <2>3 DEF TxInv, Decided, Handing
  <2>6. QED
    BY <2>2, <2>3, <2>4, <2>5 DEF TxInv
<1>8. QED
  BY <1>2, <1>3, <1>4, <1>5, <1>6, <1>7 DEF MInv, TypeOK

LEMMA MInvInitially == Init => MInv
<1> SUFFICES ASSUME Init PROVE MInv
  OBVIOUS
<1>1. PICK u \in Users :
        /\ owner = u /\ accepted = {u} /\ appointed = {u}
        /\ member = [v \in Users |-> IF v = u THEN OwnerRow ELSE AbsentRow]
  BY DEF Init
<1>2. OwnerRow \in Row /\ OwnerRow # AbsentRow
  BY RowParts DEF OwnerRow, Roles, Statuses
<1>3. TypeOK
  BY <1>1, <1>2, IdleInv, RowParts DEF Init, TypeOK
<1>4. \A v \in Users : Alright(v, member[v])
  BY <1>1, <1>2, RowParts DEF Alright, OwnerRow, Roles
<1>5. \A s \in Sessions : TxInv(tx[s])
  BY IdleInv DEF Init
<1>6. QED
  BY <1>1, <1>2, <1>3, <1>4, <1>5 DEF MInv, Present

LEMMA MInvStep == MInv /\ [Next]_vars => MInv'
<1> SUFFICES ASSUME MInv, [Next]_vars PROVE MInv'
  OBVIOUS
<1>1. CASE UNCHANGED vars
  BY <1>1 DEF vars, MInv, TypeOK, Present, Alright, TxInv, ReadsOK, NewOK, Decided, Handing
<1>2. ASSUME NEW s \in Sessions, Step(s) PROVE MInv'
  <2>1. CASE Commit(s)
    BY <2>1, CommitMoves
  <2>2. CASE UNCHANGED rows /\ (Request(s) \/ Guard(s) \/ Target(s) \/ Previous(s) \/ Handover(s))
    BY <2>2, RequestMoves, GuardMoves, TargetMoves, PreviousMoves, HandoverMoves
  <2>3. CASE UNCHANGED rows /\ Demote(s)
    BY <2>3, UpdateMoves DEF Demote, Writing
  <2>4. CASE UNCHANGED rows /\ Write(s)
    <3>1. tx[s].pc = "write" /\ Writing(tx[s], tx[s].target)
      BY <2>4 DEF Write, Writing
    <3>2. CASE tx[s].op = "transfer"
      BY <2>4, <3>1, <3>2, UpdateMoves DEF Write
    <3>3. CASE tx[s].op # "transfer"
      BY <2>4, <3>1, <3>3, UpdateMoves DEF Write
    <3>4. QED
      BY <3>2, <3>3
  <2>5. CASE UNCHANGED rows /\ Rollback(s)
    BY <2>5, IdleInv, Moves DEF Rollback, Quit
  <2>6. QED
    BY <1>2, <2>1, <2>2, <2>3, <2>4, <2>5 DEF Step
<1>3. QED
  BY <1>1, <1>2 DEF Next

(* The strengthening holds however many transactions overlap.              *)
THEOREM MInvAlways == Spec => []MInv
  BY MInvInitially, MInvStep, PTL DEF Spec

(* Every transaction and every row keeps its shape, however the requests   *)
(* of the membership routes overlap.                                       *)
THEOREM MembershipTyped == Spec => []TypeOK
  BY MInvAlways, PTL DEF MInv

(* However they overlap, whoever is an active member has accepted an       *)
(* invitation (or created the workspace), for any users and sessions.      *)
THEOREM OnlyAcceptedMembers == Spec => []MembersAccepted
<1>1. MInv => MembersAccepted
  BY DEF MInv, Alright, MembersAccepted
<1>2. QED
  BY <1>1, MInvAlways, PTL

(* However they overlap, the role owner is only held by those a transfer   *)
(* named (and by the creator), for any users and sessions.                 *)
THEOREM OnlyAppointedOwners == Spec => []OwnersWereAppointed
<1>1. MInv => OwnersWereAppointed
  BY DEF MInv, Alright, OwnersWereAppointed
<1>2. QED
  BY <1>1, MInvAlways, PTL

-----------------------------------------------------------------------------
(* One transaction at a time.                                              *)
SingleSession == \A s, t \in Sessions : s = t

(* The membership table as it would be if r committed now.                 *)
After(r, u) == IF r.new[u] # None THEN r.new[u] ELSE member[u]

(* What r's operation makes of the rows that are committed.                *)
Made(r, u) == Wanted([r EXCEPT !.seen = member], u)

Demoted(r, u) ==
  IF r.op = "transfer" /\ u = owner THEN [member[u] EXCEPT !.role = "admin"] ELSE member[u]

(* What the only transaction has read is what is committed.                *)
Current(r) ==
  /\ r.base = None
  /\ r.seenOwner \in {None, owner}
  /\ r.pc \in {"guard", "target"} /\ r.op \in Guarded => r.seenOwner = owner
  /\ \A u \in Users : r.seen[u] # None => r.seen[u] = member[u]
  /\ r.op = "leave" /\ r.pc \in {"target", "write", "commit"} =>
       r.target \in Users /\ member[r.target].status = "active"
  /\ r.pc \in {"previous", "demote", "write", "handover", "commit"} =>
       /\ member[r.target].status \in Demanded(r.op)
       /\ SparesOwner(r.op) => r.target # owner
       /\ r.op \in {"invite", "change_role"} => r.role \in Grantable
  /\ r.pc = "write" => \A u \in Users : After(r, u) = Demoted(r, u)
  /\ r.pc \in {"handover", "commit"} =>
       \A u \in Users : After(r, u) = IF u = r.target THEN Made(r, u) ELSE Demoted(r, u)
  /\ r.pc = "commit" => (r.handed <=> r.op = "transfer")

Serial == \A s \in Sessions : Current(tx[s])

LEMMA IdleIsCurrent == Current(Idle)
  BY DEF Current, Idle, NoRows

LEMMA SerialMoves ==
  ASSUME SingleSession, MInv, UNCHANGED rows, NEW s \in Sessions, NEW rec,
         Put(s, rec), Current(rec)
  PROVE  Serial'
<1>1. \A t \in Sessions : tx'[t] = rec
  BY DEF SingleSession, Put, MInv, TypeOK
<1>2. /\ owner' = owner /\ member' = member
  BY DEF rows
<1>3. ASSUME NEW t \in Sessions PROVE Current(tx[t])'
  <2>1. tx'[t] = rec
    BY <1>1
  <2>2. \A u : /\ After(tx[t], u)' = After(rec, u)
              /\ Demoted(tx[t], u)' = Demoted(rec, u)
              /\ Made(tx[t], u)' = Made(rec, u)
    BY <1>2, <2>1 DEF After, Demoted, Made, Wanted
  <2>3. QED
    BY <1>2, <2>1, <2>2 DEF Current
<1>4. QED
  BY <1>3 DEF Serial

LEMMA RequestIsCurrent ==
  ASSUME SingleSession, MInv, UNCHANGED rows, NEW s \in Sessions, Request(s)
  PROVE  Serial'
<1> DEFINE Fresh(rec) ==
           /\ Put(s, rec)
           /\ rec.base = None /\ rec.pc \in {"guard", "target"}
           /\ \A u \in Users : rec.seen[u] = None
           /\ rec.op = "leave" => rec.pc # "target"
           /\ \/ rec.seenOwner = owner
              \/ rec.seenOwner = None /\ rec.op \notin Guarded
<1>1. PICK rec : Fresh(rec)
  <2>1. ASSUME NEW op \in Guarded,
               Put(s, [Idle EXCEPT !.pc = "guard", !.op = op, !.seenOwner = owner])
        PROVE  \E rec : Fresh(rec)
    <3> DEFINE new == [Idle EXCEPT !.pc = "guard", !.op = op, !.seenOwner = owner]
    <3>1. /\ new.base = None /\ new.pc = "guard" /\ new.seenOwner = owner
          /\ \A u \in Users : new.seen[u] = None
      BY DEF Idle, NoRows
    <3>2. Put(s, new)
      BY <2>1
    <3> HIDE DEF new
    <3>3. QED
      BY <3>1, <3>2
  <2>2. ASSUME NEW op \in Ops \ Guarded, Put(s, [Idle EXCEPT !.pc = "target", !.op = op])
        PROVE  \E rec : Fresh(rec)
    <3> DEFINE new == [Idle EXCEPT !.pc = "target", !.op = op]
    <3>1. /\ new.base = None /\ new.pc = "target" /\ new.seenOwner = None
          /\ \A u \in Users : new.seen[u] = None
          /\ new.op = op
      BY DEF Idle, NoRows
    <3>2. Put(s, new) /\ op # "leave"
      BY <2>2 DEF Guarded
    <3> HIDE DEF new
    <3>3. QED
      BY <3>1, <3>2
  <2>3. QED
    BY <2>1, <2>2 DEF Request
<1>2. Current(rec)
  BY <1>1 DEF Current
<1>3. QED
  BY <1>1, <1>2, SerialMoves

LEMMA GuardIsCurrent ==
  ASSUME SingleSession, MInv, Serial, UNCHANGED rows, NEW s \in Sessions, Guard(s)
  PROVE  Serial'
<1> DEFINE r == tx[s]
<1>1. r \in TxRecord /\ Current(r) /\ r.pc = "guard"
  BY DEF MInv, TypeOK, Serial, Guard
<1>2. PICK target \in Users \cup {None} :
        /\ Put(s, [r EXCEPT !.pc = "target", !.target = target])
        /\ r.op = "leave" => target \in Users /\ member[target].status = "active"
  BY DEF Guard, May
<1> DEFINE rec == [r EXCEPT !.pc = "target", !.target = target]
<1>3. /\ rec.base = r.base /\ rec.pc = "target" /\ rec.seen = r.seen
      /\ rec.op = r.op /\ rec.seenOwner = r.seenOwner /\ rec.target = target
  BY <1>1 DEF TxRecord
<1> HIDE DEF rec
<1>4. Current(rec)
  BY <1>1, <1>2, <1>3 DEF Current
<1>5. QED
  BY <1>2, <1>4, SerialMoves DEF rec

LEMMA TargetIsCurrent ==
  ASSUME SingleSession, MInv, Serial, UNCHANGED rows, NEW s \in Sessions, Target(s)
  PROVE  Serial'
<1> DEFINE r == tx[s]
<1>1. r \in TxRecord /\ TxInv(r) /\ Current(r) /\ r.pc = "target"
  BY DEF MInv, TypeOK, Serial, Target
<1>2. PICK u \in Users, role \in Grantable \cup {None} :
        /\ r.target \in {None, u}
        /\ (role # None) <=> (r.op \in {"invite", "change_role"})
        /\ Allowed(r.op, member[u], u = r.seenOwner)
        /\ Put(s, IF r.op = "transfer"
                  THEN [r EXCEPT !.pc = "previous", !.target = u, !.seen[u] = member[u]]
                  ELSE [r EXCEPT !.pc = "write", !.target = u, !.role = role,
                          !.seen[u] = member[u], !.seenOwner = None])
  BY DEF Target
<1>3. PICK rec :
        /\ Put(s, rec)
        /\ rec.pc = IF r.op = "transfer" THEN "previous" ELSE "write"
        /\ rec.op = r.op /\ rec.target = u /\ rec.base = None /\ rec.new = r.new
        /\ r.op # "transfer" => rec.role = role
        /\ rec.seenOwner \in {None, r.seenOwner}
        /\ \A v \in Users : rec.seen[v] = IF v = u THEN member[u] ELSE r.seen[v]
  <2>1. CASE r.op = "transfer"
    <3> WITNESS [r EXCEPT !.pc = "previous", !.target = u, !.seen[u] = member[u]]
    <3> QED
      BY <1>1, <1>2, <2>1 DEF TxRecord, Current
  <2>2. CASE r.op # "transfer"
    <3> WITNESS [r EXCEPT !.pc = "write", !.target = u, !.role = role,
                   !.seen[u] = member[u], !.seenOwner = None]
    <3> QED
      BY <1>1, <1>2, <2>2 DEF TxRecord, Current
  <2>3. QED
    BY <2>1, <2>2
<1> HIDE DEF r
<1>4. \A v \in Users : r.new[v] = None
  BY <1>1 DEF TxInv
<1>5. /\ member[u].status \in Demanded(r.op)
      /\ SparesOwner(r.op) => u # owner
  BY <1>1, <1>2 DEF Allowed, Current, SparesOwner, Guarded, Managing
<1>6. \A v \in Users : r.op # "transfer" => After(rec, v) = Demoted(rec, v)
  BY <1>3, <1>4 DEF After, Demoted
<1>7. r.op = "leave" => r.target = u /\ member[u].status = "active"
  BY <1>1, <1>2, RowParts DEF Current
<1>8. Current(rec)
  BY <1>1, <1>2, <1>3, <1>5, <1>6, <1>7 DEF Current
<1>9. QED
  BY <1>3, <1>8, SerialMoves

LEMMA PreviousIsCurrent ==
  ASSUME SingleSession, MInv, Serial, UNCHANGED rows, NEW s \in Sessions, Previous(s)
  PROVE  Serial'
<1> DEFINE r == tx[s]
           o == r.seenOwner
           rec == [r EXCEPT !.pc = "demote", !.seen[o] = member[o]]
<1>1. r \in TxRecord /\ TxInv(r) /\ Current(r) /\ r.pc = "previous" /\ Put(s, rec)
  BY DEF MInv, TypeOK, Serial, Previous
<1>2. o \in Users /\ r.op = "transfer"
  BY <1>1 DEF TxInv, Handing, Present
<1>3. /\ rec.pc = "demote" /\ rec.op = r.op /\ rec.target = r.target /\ rec.base = r.base
      /\ rec.seenOwner = o /\ rec.role = r.role
      /\ \A v \in Users : rec.seen[v] = IF v = o THEN member[o] ELSE r.seen[v]
  BY <1>1, <1>2 DEF TxRecord
<1> HIDE DEF rec, r
<1>4. Current(rec)
  BY <1>1, <1>2, <1>3 DEF Current
<1>5. QED
  BY <1>1, <1>4, SerialMoves

(* Alone, a transaction writes exactly the row it wants.                   *)
LEMMA UpdateAlone ==
  ASSUME SingleSession, MInv, Serial, NEW s \in Sessions, NEW u,
         NEW next \in {"write", "handover", "commit"},
         Writing(tx[s], u), Update(s, u, next), After(tx[s], u) = member[u]
  PROVE  \E rec :
           /\ Put(s, rec)
           /\ rec.pc = next /\ rec.op = tx[s].op /\ rec.target = tx[s].target
           /\ rec.role = tx[s].role /\ rec.seenOwner = tx[s].seenOwner
           /\ rec.handed = tx[s].handed /\ rec.base = None
           /\ \A v \in Users : rec.seen[v] = IF v = u THEN None ELSE tx[s].seen[v]
           /\ \A v \in Users : After(rec, v) = IF v = u THEN Wanted(tx[s], u)
                                               ELSE After(tx[s], v)
<1> DEFINE r == tx[s]
           W == Wanted(r, u)
<1>1. r \in TxRecord /\ TxInv(r) /\ Current(r)
  BY DEF MInv, TypeOK, Serial
<1>2. u \in Users /\ r.seen[u] # None /\ W \in Row \ {AbsentRow}
  BY <1>1, WantedIsWritable DEF Writable
<1>3. r.base = None /\ r.seen[u] = member[u] /\ Base(s, u) = member[u] /\ RowFree(s, u)
  BY <1>1, <1>2 DEF Current, Base, RowFree, SingleSession
<1>4. Merged(member[u], Base(s, u), W) = W
  <2>1. Merged(member[u], member[u], W) = [role |-> W.role, status |-> W.status]
    BY DEF Merged
  <2>2. QED
    BY <1>2, <1>3, <2>1, RowParts
<1>5. W # None
  BY <1>2, RowParts
<1> HIDE DEF W
<1>6. \/ W = member[u] /\ Put(s, [r EXCEPT !.pc = next, !.seen[u] = None])
      \/ Put(s, [r EXCEPT !.pc = next, !.seen[u] = None, !.base = None, !.new[u] = W])
  BY <1>3, <1>4 DEF Update, W
<1>7. CASE W = member[u] /\ Put(s, [r EXCEPT !.pc = next, !.seen[u] = None])
  <2> DEFINE rec == [r EXCEPT !.pc = next, !.seen[u] = None]
  <2>1. /\ rec.pc = next /\ rec.op = r.op /\ rec.target = r.target /\ rec.role = r.role
        /\ rec.handed = r.handed /\ rec.seenOwner = r.seenOwner /\ rec.base = None
        /\ \A v \in Users : rec.seen[v] = IF v = u THEN None ELSE r.seen[v]
        /\ rec.new = r.new
    BY <1>1, <1>2, <1>3 DEF TxRecord
  <2>2. Put(s, rec)
    BY <1>7
  <2> HIDE DEF rec
  <2>3. \A v \in Users : After(rec, v) = After(r, v)
    BY <2>1 DEF After
  <2>4. QED
    BY <1>7, <2>1, <2>2, <2>3 DEF W
<1>8. CASE Put(s, [r EXCEPT !.pc = next, !.seen[u] = None, !.base = None, !.new[u] = W])
  <2> DEFINE rec == [r EXCEPT !.pc = next, !.seen[u] = None, !.base = None, !.new[u] = W]
  <2>1. /\ rec.pc = next /\ rec.op = r.op /\ rec.target = r.target /\ rec.role = r.role
        /\ rec.handed = r.handed /\ rec.seenOwner = r.seenOwner /\ rec.base = None
        /\ \A v \in Users : rec.seen[v] = IF v = u THEN None ELSE r.seen[v]
        /\ \A v \in Users : rec.new[v] = IF v = u THEN W ELSE r.new[v]
    BY <1>1, <1>2 DEF TxRecord
  <2>2. Put(s, rec)
    BY <1>8
  <2> HIDE DEF rec
  <2>3. \A v \in Users : After(rec, v) = IF v = u THEN W ELSE After(r, v)
    BY <1>5, <2>1 DEF After
  <2>4. QED
    BY <2>1, <2>2, <2>3 DEF W
<1>9. QED
  BY <1>6, <1>7, <1>8

LEMMA MadeIsWanted ==
  ASSUME NEW r \in TxRecord, TypeOK, NEW u \in Users, r.seen[u] = member[u]
  PROVE  Made(r, u) = Wanted(r, u)
<1> DEFINE rec == [r EXCEPT !.seen = member]
<1>1. rec.seen[u] = r.seen[u] /\ rec.op = r.op /\ rec.target = r.target /\ rec.role = r.role
  BY DEF TxRecord, TypeOK
<1> HIDE DEF rec
<1>2. Wanted(rec, u) = Wanted(r, u)
  BY <1>1 DEF Wanted
<1>3. QED
  BY <1>2 DEF Made, rec

LEMMA MadeDependsOn ==
  ASSUME NEW r \in TxRecord, NEW rec \in TxRecord, TypeOK, NEW u \in Users,
         rec.op = r.op, rec.target = r.target, rec.role = r.role
  PROVE  Made(rec, u) = Made(r, u)
<1> DEFINE a == [r EXCEPT !.seen = member]
           b == [rec EXCEPT !.seen = member]
<1>1. /\ a.seen = member /\ a.op = r.op /\ a.target = r.target /\ a.role = r.role
      /\ b.seen = member /\ b.op = r.op /\ b.target = r.target /\ b.role = r.role
  BY DEF TxRecord
<1> HIDE DEF a, b
<1>2. Wanted(a, u) = Wanted(b, u)
  BY <1>1 DEF Wanted
<1>3. QED
  BY <1>2 DEF Made, a, b

LEMMA DemoteIsCurrent ==
  ASSUME SingleSession, MInv, Serial, UNCHANGED rows, NEW s \in Sessions, Demote(s)
  PROVE  Serial'
<1> DEFINE r == tx[s]
           o == r.seenOwner
<1>1. r \in TxRecord /\ TxInv(r) /\ Current(r) /\ r.pc = "demote" /\ TypeOK
  BY DEF MInv, TypeOK, Serial, Demote
<1>2. o = owner /\ o \in Users /\ r.op = "transfer" /\ o # r.target /\ r.target \in Users
  BY <1>1, RowParts DEF TxInv, Handing, Present, Current, Decided
<1>3. Writing(r, o) /\ Update(s, o, "write") /\ \A u \in Users : After(r, u) = member[u]
  BY <1>1 DEF Demote, Writing, After, TxInv
<1>4. PICK rec :
        /\ Put(s, rec)
        /\ rec.pc = "write" /\ rec.op = r.op /\ rec.target = r.target
        /\ rec.role = r.role /\ rec.seenOwner = r.seenOwner /\ rec.base = None
        /\ \A v \in Users : rec.seen[v] = IF v = o THEN None ELSE r.seen[v]
        /\ \A v \in Users : After(rec, v) = IF v = o THEN Wanted(r, o) ELSE After(r, v)
  BY <1>2, <1>3, UpdateAlone
<1>5. Wanted(r, o) = [member[o] EXCEPT !.role = "admin"]
  <2>1. r.seen[o] = member[o]
    BY <1>1, <1>2 DEF TxInv, Handing, Current
  <2>2. QED
    BY <1>2, <2>1 DEF Wanted
<1> HIDE DEF r
<1>6. \A v \in Users : After(rec, v) = Demoted(rec, v)
  BY <1>2, <1>3, <1>4, <1>5 DEF Demoted
<1>7. Current(rec)
  BY <1>1, <1>2, <1>4, <1>6 DEF Current
<1>8. QED
  BY <1>4, <1>7, SerialMoves

LEMMA WriteIsCurrent ==
  ASSUME SingleSession, MInv, Serial, UNCHANGED rows, NEW s \in Sessions, Write(s)
  PROVE  Serial'
<1> DEFINE r == tx[s]
           u == r.target
           next == IF r.op = "transfer" THEN "handover" ELSE "commit"
<1>1. /\ r \in TxRecord /\ TxInv(r) /\ Current(r) /\ r.pc = "write" /\ TypeOK
      /\ Decided(r) /\ u \in Users
  BY DEF MInv, TypeOK, Serial, Write, TxInv, Decided
<1>2. Demoted(r, u) = member[u]
  BY <1>1 DEF Demoted, Current, SparesOwner
<1>3. Writing(r, u) /\ Update(s, u, next) /\ After(r, u) = member[u]
  BY <1>1, <1>2 DEF Write, Writing, Current
<1>4. PICK rec :
        /\ Put(s, rec)
        /\ rec.pc = next /\ rec.op = r.op /\ rec.target = r.target
        /\ rec.role = r.role /\ rec.seenOwner = r.seenOwner /\ rec.base = None
        /\ rec.handed = r.handed
        /\ \A v \in Users : rec.seen[v] = IF v = u THEN None ELSE r.seen[v]
        /\ \A v \in Users : After(rec, v) = IF v = u THEN Wanted(r, u) ELSE After(r, v)
  BY <1>3, UpdateAlone
<1>5. r.seen[u] = member[u] /\ Made(r, u) = Wanted(r, u)
  BY <1>1, MadeIsWanted DEF Current, Decided
<1>6. Made(rec, u) = Made(r, u)
  <2> DEFINE a == [r EXCEPT !.seen = member]
             b == [rec EXCEPT !.seen = member]
  <2>1. a.seen = member /\ a.op = r.op /\ a.target = r.target /\ a.role = r.role
    BY <1>1 DEF TxRecord
  <2>2. tx' = [tx EXCEPT ![s] = rec] /\ rec \in TxRecord
    <3>1. MInv'
      BY <1>1, UpdateMoves, <1>3
    <3>2. QED
      BY <1>4, <3>1 DEF Put, MInv, TypeOK
  <2>3. QED
    BY <1>1, <1>4, <2>2, MadeDependsOn
<1> HIDE DEF r
<1>7. \A v \in Users : Demoted(rec, v) = Demoted(r, v)
  BY <1>4 DEF Demoted
<1>8. \A v \in Users : After(rec, v) = IF v = rec.target THEN Made(rec, v) ELSE Demoted(rec, v)
  BY <1>1, <1>4, <1>5, <1>6, <1>7 DEF Current
<1>9. next = "commit" => rec.handed = FALSE /\ rec.op # "transfer"
  BY <1>1, <1>4 DEF TxInv, TxRecord
<1>10. Current(rec)
  BY <1>1, <1>4, <1>8, <1>9 DEF Current
<1>11. QED
  BY <1>4, <1>10, SerialMoves

LEMMA HandoverIsCurrent ==
  ASSUME SingleSession, MInv, Serial, UNCHANGED rows, NEW s \in Sessions, Handover(s)
  PROVE  Serial'
<1> DEFINE r == tx[s]
           rec == [r EXCEPT !.pc = "commit", !.handed = TRUE]
<1>1. /\ r \in TxRecord /\ TxInv(r) /\ Current(r) /\ r.pc = "handover" /\ TypeOK
      /\ r.op = "transfer"
  BY DEF MInv, TypeOK, Serial, Handover, TxInv
<1>2. Put(s, rec)
  BY <1>1 DEF Handover, Current, SparesOwner
<1>3. /\ rec.pc = "commit" /\ rec.op = r.op /\ rec.target = r.target
      /\ rec.role = r.role /\ rec.seenOwner = r.seenOwner /\ rec.base = r.base
      /\ rec.handed = TRUE /\ rec.seen = r.seen /\ rec.new = r.new /\ rec \in TxRecord
  BY <1>1 DEF TxRecord
<1> HIDE DEF r, rec
<1>4. \A v \in Users :
        After(rec, v) = After(r, v) /\ Made(rec, v) = Made(r, v) /\ Demoted(rec, v) = Demoted(r, v)
  BY <1>1, <1>3, MadeDependsOn DEF After, Demoted
<1>5. Current(rec)
  BY <1>1, <1>3, <1>4 DEF Current
<1>6. QED
  BY <1>2, <1>5, SerialMoves

LEMMA SerialStep ==
  ASSUME SingleSession, MInv, Serial, [Next]_vars
  PROVE  Serial'
<1>1. CASE UNCHANGED vars
  <2>1. owner' = owner /\ member' = member /\ tx' = tx
    BY <1>1 DEF vars
  <2>2. \A r, u : /\ After(r, u)' = After(r, u)
                 /\ Demoted(r, u)' = Demoted(r, u)
                 /\ Made(r, u)' = Made(r, u)
    BY <2>1 DEF After, Demoted, Made, Wanted
  <2>3. QED
    BY <2>1, <2>2 DEF Serial, Current
<1>2. ASSUME NEW s \in Sessions, Step(s) PROVE Serial'
  <2>1. CASE Commit(s)
    <3>1. \A t \in Sessions : tx'[t] = Idle
      BY <2>1 DEF SingleSession, Commit, Quit, Put, MInv, TypeOK
    <3>2. Current(Idle)'
      BY DEF Current, Idle, NoRows
    <3>3. QED
      BY <3>1, <3>2 DEF Serial, Current, Idle, NoRows
  <2>2. CASE UNCHANGED rows /\ Rollback(s)
    BY <2>2, IdleIsCurrent, SerialMoves DEF Rollback, Quit
  <2>3. CASE /\ UNCHANGED rows
             /\ \/ Request(s) \/ Guard(s) \/ Target(s) \/ Previous(s)
                \/ Demote(s) \/ Write(s) \/ Handover(s)
    BY <2>3, RequestIsCurrent, GuardIsCurrent, TargetIsCurrent, PreviousIsCurrent,
       DemoteIsCurrent, WriteIsCurrent, HandoverIsCurrent
  <2>4. QED
    BY <1>2, <2>1, <2>2, <2>3 DEF Step
<1>3. QED
  BY <1>1, <1>2 DEF Next

(* The commit of the only transaction is a step of the roster.             *)
LEMMA CommitIsRosterStep ==
  ASSUME MInv, Serial, NEW s \in Sessions, Commit(s)
  PROVE  Rosters!Next
<1> DEFINE r == tx[s]
           u == r.target
           row == member[u]
<1>1. /\ r \in TxRecord /\ TxInv(r) /\ Decided(r) /\ r.pc = "commit" /\ Current(r)
      /\ u \in Users /\ r.op \in Ops /\ owner \in Users /\ row \in Row
  BY DEF MInv, TypeOK, TxInv, Decided, Serial, Commit
<1>2. /\ row.status \in Demanded(r.op) /\ (SparesOwner(r.op) => u # owner)
      /\ r.op \in {"invite", "change_role"} => r.role \in Grantable
      /\ row = [role |-> row.role, status |-> row.status]
  BY <1>1, RowParts DEF Current
<1>3. /\ owner' = IF r.op = "transfer" THEN u ELSE owner
      /\ member' = [v \in Users |-> IF v = u THEN Made(r, u) ELSE Demoted(r, v)]
      /\ member = [v \in Users |-> member[v]]
  BY <1>1 DEF Commit, HoldsRow, Current, After, MInv, TypeOK
<1>4. Made(r, u) = LET w == [role |-> row.role, status |-> row.status] IN
         CASE r.op = "invite"               -> [role |-> r.role, status |-> "invited"]
           [] r.op = "accept"               -> [w EXCEPT !.status = "active"]
           [] r.op \in {"decline", "leave"} -> [w EXCEPT !.status = "left"]
           [] r.op = "remove"               -> [w EXCEPT !.status = "removed"]
           [] r.op = "change_role"          -> [w EXCEPT !.role = r.role]
           [] r.op = "transfer"             -> [w EXCEPT !.role = "owner"]
  <2> DEFINE rec == [r EXCEPT !.seen = member]
  <2>1. rec.seen[u] = row /\ rec.op = r.op /\ rec.target = u /\ rec.role = r.role
    BY <1>1 DEF TxRecord
  <2> HIDE DEF rec
  <2>2. QED
    BY <1>2, <2>1 DEF Made, Wanted, rec
<1>5. ASSUME NEW role, NEW status, r.op # "transfer",
             Made(r, u) = [role |-> role, status |-> status]
      PROVE  Rosters!Becomes(u, role, status)
  <2>1. owner' = owner /\ \A v \in Users :
          member'[v] = IF v = u THEN [role |-> role, status |-> status] ELSE member[v]
    BY <1>3, <1>5 DEF Demoted
  <2>2. member' = [member EXCEPT ![u] = [role |-> role, status |-> status]]
    BY <1>3, <2>1
  <2>3. QED
    BY <2>1, <2>2 DEF Rosters!Becomes
<1> HIDE DEF r, row
<1>6. CASE r.op = "invite"
  <2>1. Rosters!Becomes(u, r.role, "invited")
    BY <1>4, <1>5, <1>6
  <2>2. Rosters!Invite(u)
    BY <1>2, <1>6, <2>1 DEF Demanded, Grantable, Rosters!Invite, Rosters!Grantable, row
  <2>3. QED
    BY <1>1, <2>2 DEF Rosters!Next
<1>7. CASE r.op \in {"accept", "decline"}
  <2>1. PICK status \in {"active", "left"} : Rosters!Becomes(u, row.role, status)
    BY <1>4, <1>5, <1>7
  <2>2. Rosters!Answer(u)
    BY <1>2, <1>7, <2>1 DEF Demanded, Rosters!Answer, row
  <2>3. QED
    BY <1>1, <2>2 DEF Rosters!Next
<1>8. CASE r.op = "leave"
  <2>1. row.status = "active"
    BY <1>1, <1>8 DEF Current, row
  <2>2. Rosters!Becomes(u, row.role, "left")
    BY <1>4, <1>5, <1>8
  <2>3. Rosters!Leave(u)
    BY <1>2, <1>8, <2>1, <2>2 DEF SparesOwner, Rosters!Leave, row
  <2>4. QED
    BY <1>1, <2>3 DEF Rosters!Next
<1>9. CASE r.op = "remove"
  <2>1. Rosters!Becomes(u, row.role, "removed")
    BY <1>4, <1>5, <1>9
  <2>2. Rosters!Remove(u)
    BY <1>2, <1>9, <2>1 DEF Demanded, Statuses, SparesOwner, Rosters!Remove, row
  <2>3. QED
    BY <1>1, <2>2 DEF Rosters!Next
<1>10. CASE r.op = "change_role"
  <2>1. row.status = "active"
    BY <1>2, <1>10 DEF Demanded
  <2>2. Rosters!Becomes(u, r.role, "active")
    BY <1>4, <1>5, <1>10, <2>1
  <2>3. Rosters!ChangeRole(u)
    BY <1>2, <1>10, <2>1, <2>2
    DEF SparesOwner, Grantable, Rosters!ChangeRole, Rosters!Grantable, row
  <2>4. QED
    BY <1>1, <2>3 DEF Rosters!Next
<1>11. CASE r.op = "transfer"
  <2>1. owner' = u /\ u # owner /\ row.status = "active"
    BY <1>2, <1>3, <1>11 DEF SparesOwner, Demanded
  <2>2. Made(r, u) = [row EXCEPT !.role = "owner"]
    BY <1>2, <1>4, <1>11
  <2>3. \A v \in Users : member'[v] =
          IF v = u THEN [member[u] EXCEPT !.role = "owner"]
          ELSE IF v = owner THEN [member[owner] EXCEPT !.role = "admin"] ELSE member[v]
    BY <1>3, <1>11, <2>2 DEF Demoted, row
  <2>4. member' = [member EXCEPT ![owner].role = "admin", ![u].role = "owner"]
    BY <1>1, <1>3, <2>1, <2>3
  <2>5. Rosters!Transfer(u)
    BY <2>1, <2>4 DEF Rosters!Transfer, row
  <2>6. QED
    BY <1>1, <2>5 DEF Rosters!Next
<1>12. QED
  BY <1>1, <1>6, <1>7, <1>8, <1>9, <1>10, <1>11 DEF Ops, Guarded, Managing

(* One transaction at a time, reads, guards and column updates implement   *)
(* the atomic operations of Roster.                                        *)
THEOREM SerialImplementsRoster ==
  ASSUME SingleSession
  PROVE  Spec => ImplementsRoster
<1>1. Init => Rosters!Init /\ Serial
  BY IdleIsCurrent
  DEF Init, Rosters!Init, OwnerRow, Rosters!OwnerRow, AbsentRow, Serial
<1>2. MInv /\ Serial /\ [Next]_vars => [Rosters!Next]_<<owner, member>>
  <2> SUFFICES ASSUME MInv, Serial, [Next]_vars PROVE Rosters!Next \/ UNCHANGED <<owner, member>>
    OBVIOUS
  <2>1. CASE \E s \in Sessions : Commit(s)
    BY <2>1, CommitIsRosterStep
  <2>2. CASE ~\E s \in Sessions : Commit(s)
    BY <2>2 DEF Next, Step, vars, rows
  <2>3. QED
    BY <2>1, <2>2
<1>3. MInv /\ Serial /\ [Next]_vars => Serial'
  BY SerialStep
<1>4. QED
  BY <1>1, <1>2, <1>3, MInvAlways, PTL DEF Spec, ImplementsRoster, Rosters!Spec

(* The atomic operations keep the one owner.                               *)
LEMMA RosterKeepsOwner ==
  ASSUME TypeOK, OneOwner, Rosters!Next
  PROVE  OneOwner'
<1>1. /\ owner \in Users /\ DOMAIN member = Users
      /\ \A u \in Users : member[u] \in Row
      /\ \A u \in Users : (member[u].role = "owner") <=> (u = owner)
      /\ member[owner].status = "active"
  BY DEF TypeOK, OneOwner, OwnersAgree
<1>2. ASSUME NEW u \in Users, NEW role, NEW status,
             Rosters!Becomes(u, role, status), u # owner, role # "owner"
      PROVE  OneOwner'
  <2>1. owner' = owner /\ member' = [member EXCEPT ![u] = [role |-> role, status |-> status]]
    BY <1>2 DEF Rosters!Becomes
  <2>2. member'[u].role = role /\ \A v \in Users \ {u} : member'[v] = member[v]
    BY <1>1, <2>1
  <2>3. QED
    BY <1>1, <1>2, <2>1, <2>2 DEF OneOwner, OwnersAgree
<1>3. PICK u \in Users :
        \/ Rosters!Invite(u) \/ Rosters!Answer(u) \/ Rosters!Leave(u)
        \/ Rosters!Remove(u) \/ Rosters!ChangeRole(u) \/ Rosters!Transfer(u)
  BY DEF Rosters!Next
<1>4. CASE Rosters!Invite(u) \/ Rosters!ChangeRole(u)
  <2>1. u # owner
    BY <1>1, <1>4 DEF Rosters!Invite, Rosters!ChangeRole
  <2>2. PICK role \in Rosters!Grantable, status \in {"invited", "active"} :
          Rosters!Becomes(u, role, status)
    BY <1>4 DEF Rosters!Invite, Rosters!ChangeRole
  <2>3. QED
    BY <1>2, <2>1, <2>2 DEF Rosters!Grantable
<1>5. CASE Rosters!Answer(u) \/ Rosters!Leave(u) \/ Rosters!Remove(u)
  <2>1. u # owner /\ member[u].role # "owner"
    BY <1>1, <1>5 DEF Rosters!Answer, Rosters!Leave, Rosters!Remove
  <2>2. PICK status \in {"active", "left", "removed"} :
          Rosters!Becomes(u, member[u].role, status)
    BY <1>5 DEF Rosters!Answer, Rosters!Leave, Rosters!Remove
  <2>3. QED
    BY <1>2, <2>1, <2>2
<1>6. CASE Rosters!Transfer(u)
  <2>1. /\ u # owner /\ owner' = u /\ member[u].status = "active"
        /\ member' = [member EXCEPT ![owner].role = "admin", ![u].role = "owner"]
    BY <1>6 DEF Rosters!Transfer
  <2>2. member[u].status # "none" /\ member[owner].status # "none"
    BY <1>1, <2>1
  <2>3. /\ member[u] \in [role : Roles, status : Statuses \ {"none"}]
        /\ member[owner] \in [role : Roles, status : Statuses \ {"none"}]
    BY <1>1, <2>2 DEF Row, AbsentRow
  <2>4. /\ member'[u].role = "owner" /\ member'[u].status = "active"
        /\ member'[owner].role = "admin"
        /\ \A v \in Users \ {u, owner} : member'[v] = member[v]
    BY <1>1, <2>1, <2>3
  <2>5. QED
    BY <1>1, <2>1, <2>4 DEF OneOwner, OwnersAgree
<1>7. QED
  BY <1>3, <1>4, <1>5, <1>6

(* ADR-0008, one transaction at a time: owner_id and the membership with   *)
(* role owner correspond one to one, and the owner is an active member.    *)
THEOREM SerialOneOwner ==
  ASSUME SingleSession
  PROVE  Spec => []OneOwner
<1>1. Init => Serial /\ OneOwner
  BY MembershipAssumption, IdleIsCurrent
  DEF Init, OwnerRow, AbsentRow, Serial, OneOwner, OwnersAgree, Roles
<1>2. MInv /\ Serial /\ OneOwner /\ [Next]_vars => OneOwner'
  <2> SUFFICES ASSUME MInv, Serial, OneOwner, [Next]_vars PROVE OneOwner'
    OBVIOUS
  <2>1. CASE \E s \in Sessions : Commit(s)
    BY <2>1, CommitIsRosterStep, RosterKeepsOwner DEF MInv
  <2>2. CASE ~\E s \in Sessions : Commit(s)
    <3>1. owner' = owner /\ member' = member
      BY <2>2 DEF Next, Step, vars, rows
    <3>2. QED
      BY <3>1 DEF OneOwner, OwnersAgree
  <2>3. QED
    BY <2>1, <2>2
<1>3. MInv /\ Serial /\ [Next]_vars => Serial'
  BY SerialStep
<1>4. QED
  BY <1>1, <1>2, <1>3, MInvAlways, PTL DEF Spec

=============================================================================
