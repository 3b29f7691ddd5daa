--------------------------- MODULE ProjectProofs ----------------------------
(***************************************************************************)
(* Proofs about the working tree and the versions of a project, for any    *)
(* number of overlapping requests: how versions are numbered, that every   *)
(* row has its content, and that a restore gives the version asked for.    *)
(***************************************************************************)
EXTENDS ProjectTree, FiniteSetTheorems, TLAPS

-----------------------------------------------------------------------------
(* The versions.  A save that has inserted its version has the number      *)
(* after the latest, and it is alone; one that has only read its number    *)
(* may have been overtaken.                                                *)
EditFields == {"pc", "op", "at", "to", "content", "more", "todo", "found", "mine", "removed",
               "fd", "tree", "number", "since", "touched"}

HasInserted(rec) == rec.op = "save" /\ rec.pc \in {"touch", "commit"}

EditGood(rec) ==
  /\ DOMAIN rec = EditFields
  /\ rec.pc \in {"exists", "open", "fill", "replace", "lookup", "rows", "put"} => rec.op # "save"
  /\ rec.pc = "list" => rec.op \in {"move", "restore", "save"}
  /\ rec.pc \in {"number", "insert"} => rec.op = "save"
  /\ rec.op = "save" /\ rec.pc \in {"list", "number", "insert", "touch", "commit"} => rec.more = <<>>
  /\ rec.pc = "insert" => rec.number \in 1..(Len(versions) + 1)
  /\ HasInserted(rec) => rec.number = Len(versions) + 1

VersionsInv ==
  /\ DOMAIN edit = Writers
  /\ \E S : versions \in Seq(S)
  /\ SequencesContiguous
  /\ \A w \in Writers : EditGood(edit[w])
  /\ \A w, x \in Writers : w # x => ~(HasInserted(edit[w]) /\ HasInserted(edit[x]))

LEMMA VersionsType == VersionsInv => Len(versions) \in Nat /\ DOMAIN versions = 1..Len(versions)
BY DEF VersionsInv

LEMMA IdleEditGood == DOMAIN IdleEdit = EditFields /\ IdleEdit.pc = "idle" /\ EditGood(IdleEdit)
BY DEF IdleEdit, EditFields, EditGood, HasInserted

(* A request goes on; nothing is committed.                                *)
LEMMA EditKeeps ==
  ASSUME VersionsInv, NEW w \in Writers, NEW rec, Edits(w, rec), EditGood(rec),
         HasInserted(rec) => \A x \in Writers \ {w} : ~HasInserted(edit[x]),
         versions' = versions
  PROVE  VersionsInv'
<1>1. DOMAIN edit' = Writers /\ \A x \in Writers : edit'[x] = IF x = w THEN rec ELSE edit[x]
  BY DEF Edits, VersionsInv
<1>2. \A x \in Writers : EditGood(edit'[x])
  BY <1>1 DEF VersionsInv
<1>3. \A x \in Writers : EditGood(edit[x])'
  BY <1>2 DEF EditGood, HasInserted
<1>4. \A x, y \in Writers : x # y => ~(HasInserted(edit'[x]) /\ HasInserted(edit'[y]))
  BY <1>1 DEF VersionsInv
<1>5. SequencesContiguous'
  BY DEF VersionsInv, SequencesContiguous
<1>6. QED
  BY <1>1, <1>3, <1>4, <1>5 DEF VersionsInv

LEMMA StopKeeps ==
  ASSUME VersionsInv, NEW w \in Writers, GivesUp(w), versions' = versions
  PROVE  VersionsInv'
BY IdleEditGood, EditKeeps DEF GivesUp, HasInserted

(* A request that is no save goes on.                                      *)
LEMMA OtherKeeps ==
  ASSUME VersionsInv, NEW w \in Writers, NEW rec, Edits(w, rec), versions' = versions,
         DOMAIN rec = EditFields, rec.op # "save", rec.pc \notin {"list", "number", "insert"}
  PROVE  VersionsInv'
BY EditKeeps DEF EditGood, HasInserted

LEMMA Fields ==
  ASSUME VersionsInv, NEW w \in Writers
  PROVE  DOMAIN edit[w] = EditFields /\ EditGood(edit[w])
BY DEF VersionsInv, EditGood

-----------------------------------------------------------------------------
LEMMA VersionsInitial == TreeInit => VersionsInv
<1> SUFFICES ASSUME TreeInit PROVE VersionsInv
  OBVIOUS
<1> DEFINE first == [number |-> 1, tree |-> FirstTree]
<1>1. (versions = <<first>> /\ first.number = 1) \/ versions = <<>>
  BY DEF TreeInit
<1> HIDE DEF first
<1>2. versions \in Seq({first})
  <2>1. <<>> \in Seq({first}) /\ <<first>> \in Seq({first})
    OBVIOUS
  <2>2. QED
    BY <1>1, <2>1
<1>3. SequencesContiguous
  BY <1>1 DEF SequencesContiguous
<1>4. DOMAIN edit = Writers /\ \A w \in Writers : edit[w] = IdleEdit
  BY DEF TreeInit
<1>5. \A w \in Writers : EditGood(edit[w]) /\ ~HasInserted(edit[w])
  BY <1>4, IdleEditGood DEF HasInserted
<1>6. QED
  BY <1>2, <1>3, <1>4, <1>5 DEF VersionsInv

LEMMA NextFileFields ==
  ASSUME NEW rec, DOMAIN rec = EditFields
  PROVE  /\ DOMAIN NextFile(rec) = EditFields /\ NextFile(rec).pc = "exists"
         /\ NextFile(rec).op = rec.op
BY DEF NextFile, EditFields

LEMMA BeginKeeps ==
  ASSUME VersionsInv, NEW w \in Writers, Begin(w)
  PROVE  VersionsInv'
<1> DEFINE write(rows) == [IdleEdit EXCEPT !.op = "write", !.more = rows]
           delete(loc) == [IdleEdit EXCEPT !.pc = "lookup", !.op = "delete", !.at = loc]
           move(m) == [IdleEdit EXCEPT !.pc = "list", !.op = "move", !.at = m[1], !.to = m[2]]
           save == [IdleEdit EXCEPT !.pc = "list", !.op = "save"]
           restore(tree) == [IdleEdit EXCEPT !.pc = "list", !.op = "restore", !.tree = tree]
<1>1. versions' = versions
  BY DEF Begin
<1>2. \/ \E rows : Edits(w, NextFile(write(rows)))
      \/ \E loc : Edits(w, delete(loc))
      \/ \E m : Edits(w, move(m))
      \/ Edits(w, save)
      \/ \E tree : Edits(w, restore(tree))
  BY Zenon DEF Begin
<1>3. \A rows : /\ DOMAIN write(rows) = EditFields /\ write(rows).op = "write"
  BY IdleEditGood DEF EditFields
<1>4. \A loc : /\ DOMAIN delete(loc) = EditFields /\ delete(loc).op = "delete"
               /\ delete(loc).pc = "lookup"
  BY IdleEditGood DEF EditFields
<1>5. \A m : /\ DOMAIN move(m) = EditFields /\ move(m).op = "move" /\ move(m).pc = "list"
  BY IdleEditGood DEF EditFields
<1>6. /\ DOMAIN save = EditFields /\ save.op = "save" /\ save.pc = "list" /\ save.more = <<>>
  BY DEF EditFields, IdleEdit
<1>7. \A tree : /\ DOMAIN restore(tree) = EditFields /\ restore(tree).op = "restore"
                /\ restore(tree).pc = "list"
  BY IdleEditGood DEF EditFields
<1> HIDE DEF write, delete, move, save, restore
<1>8. \A rec : DOMAIN rec = EditFields /\ rec.op \in {"move", "restore"} /\ rec.pc = "list" =>
        EditGood(rec) /\ ~HasInserted(rec)
  BY DEF EditGood, HasInserted
<1>9. EditGood(save) /\ ~HasInserted(save)
  BY <1>6 DEF EditGood, HasInserted
<1>10. CASE \E rows : Edits(w, NextFile(write(rows)))
  BY <1>1, <1>3, <1>10, NextFileFields, OtherKeeps
<1>11. CASE \E loc : Edits(w, delete(loc))
  BY <1>1, <1>4, <1>11, OtherKeeps
<1>12. CASE (\E m : Edits(w, move(m))) \/ (\E tree : Edits(w, restore(tree)))
  BY <1>1, <1>5, <1>7, <1>8, <1>12, EditKeeps
<1>13. CASE Edits(w, save)
  BY <1>1, <1>9, <1>13, EditKeeps
<1>14. QED
  BY <1>2, <1>10, <1>11, <1>12, <1>13

(* The steps of writing, deleting, moving and restoring.                   *)
LEMMA FileStepKeeps ==
  ASSUME VersionsInv, NEW w \in Writers, versions' = versions,
         \/ Exists(w) \/ Open(w) \/ Fill(w) \/ Replace(w) \/ Lookup(w)
         \/ DeleteRow(w) \/ GetRow(w) \/ PutRow(w) \/ RowsDone(w)
  PROVE  VersionsInv'
<1> DEFINE old == edit[w]
<1>1. DOMAIN old = EditFields /\ EditGood(old)
  BY Fields
<1>2. old.pc \in {"exists", "open", "fill", "replace", "lookup", "rows", "put"}
  BY DEF Exists, Open, Fill, Replace, Lookup, DeleteRow, GetRow, PutRow, RowsDone
<1>3. old.op # "save"
  BY <1>1, <1>2 DEF EditGood
<1>4. ASSUME NEW rec, Edits(w, rec), DOMAIN rec = EditFields, rec.op = old.op,
             rec.pc \in {"open", "fill", "replace", "rows", "put", "touch"}
      PROVE  VersionsInv'
  BY <1>3, <1>4, OtherKeeps
<1>5. ASSUME GivesUp(w) PROVE VersionsInv'
  BY <1>5, StopKeeps
<1> DEFINE at(pc) == [old EXCEPT !.pc = pc]
           rows(todo) == [old EXCEPT !.pc = "rows", !.todo = todo]
           fill(f) == [old EXCEPT !.pc = "fill", !.fd = f]
           written == [old EXCEPT !.pc = "replace", !.fd = None]
           found(removed, todo) == [old EXCEPT !.pc = "rows", !.removed = removed, !.todo = todo]
           done == [old EXCEPT !.todo = Tail(@), !.pc = "rows"]
           deleted(p) == [done EXCEPT !.mine[p] = None, !.removed = TRUE]
           put(yes) == [old EXCEPT !.pc = "put", !.found = yes]
           upserted(p, c) == [done EXCEPT !.mine[p] = c]
<1>6. /\ \A pc : DOMAIN at(pc) = EditFields /\ at(pc).op = old.op /\ at(pc).pc = pc
      /\ \A todo : DOMAIN rows(todo) = EditFields /\ rows(todo).op = old.op /\ rows(todo).pc = "rows"
      /\ \A f : DOMAIN fill(f) = EditFields /\ fill(f).op = old.op /\ fill(f).pc = "fill"
      /\ DOMAIN written = EditFields /\ written.op = old.op /\ written.pc = "replace"
  BY <1>1 DEF EditFields
<1>7. /\ \A removed, todo : /\ DOMAIN found(removed, todo) = EditFields
                            /\ found(removed, todo).op = old.op /\ found(removed, todo).pc = "rows"
      /\ \A yes : DOMAIN put(yes) = EditFields /\ put(yes).op = old.op /\ put(yes).pc = "put"
      /\ DOMAIN done = EditFields /\ done.op = old.op /\ done.pc = "rows"
  BY <1>1 DEF EditFields
<1>8. /\ \A p : DOMAIN deleted(p) = EditFields /\ deleted(p).op = old.op /\ deleted(p).pc = "rows"
      /\ \A p, c : /\ DOMAIN upserted(p, c) = EditFields /\ upserted(p, c).op = old.op
                   /\ upserted(p, c).pc = "rows"
  <2> HIDE DEF done
  <2>1. QED
    BY <1>7 DEF EditFields
<1>9. \/ \E pc \in {"open", "touch"} : Edits(w, at(pc))
      \/ \E todo : Edits(w, rows(todo))
      \/ \E f : Edits(w, fill(f))
      \/ Edits(w, written)
      \/ \E removed, todo : Edits(w, found(removed, todo))
      \/ Edits(w, done)
      \/ \E p : Edits(w, deleted(p))
      \/ \E yes : Edits(w, put(yes))
      \/ \E p, c : Edits(w, upserted(p, c))
      \/ GivesUp(w)
  <2>1. CASE Exists(w)
    BY <2>1, Zenon DEF Exists, Moved
  <2>2. CASE Open(w)
    BY <2>2, Zenon DEF Open
  <2>3. CASE Fill(w) \/ Replace(w)
    BY <2>3, Zenon DEF Fill, Replace
  <2>4. CASE Lookup(w)
    BY <2>4, Zenon DEF Lookup
  <2>5. CASE DeleteRow(w)
    BY <2>5, Zenon DEF DeleteRow, Done
  <2>6. CASE GetRow(w) \/ PutRow(w)
    BY <2>6, Zenon DEF GetRow, PutRow, Done
  <2>7. CASE RowsDone(w)
    BY <2>7, Zenon DEF RowsDone, Moved
  <2>8. QED
    BY <2>1, <2>2, <2>3, <2>4, <2>5, <2>6, <2>7
<1> HIDE DEF at, rows, fill, written, found, done, deleted, put, upserted
<1>10. QED
  BY <1>4, <1>5, <1>6, <1>7, <1>8, <1>9

LEMMA ListKeeps ==
  ASSUME VersionsInv, NEW w \in Writers, versions' = versions, List(w)
  PROVE  VersionsInv'
<1> DEFINE old == edit[w]
           rows(todo) == [old EXCEPT !.pc = "rows", !.since = {}, !.todo = todo]
           save == [old EXCEPT !.pc = "number", !.tree = files]
<1>1. DOMAIN old = EditFields /\ EditGood(old) /\ old.pc = "list"
  BY Fields DEF List
<1>2. old.op \in {"move", "restore", "save"}
  BY <1>1 DEF EditGood
<1>3. /\ old.op # "save" => (\E todo : Edits(w, rows(todo))) \/ GivesUp(w)
      /\ old.op = "save" => Edits(w, save) \/ GivesUp(w)
  BY <1>2 DEF List
<1>4. /\ \A todo : DOMAIN rows(todo) = EditFields /\ rows(todo).op = old.op /\ rows(todo).pc = "rows"
      /\ DOMAIN save = EditFields /\ save.op = old.op /\ save.pc = "number" /\ save.more = old.more
  BY <1>1 DEF EditFields
<1> HIDE DEF rows, save
<1>5. CASE old.op # "save"
  BY <1>3, <1>4, <1>5, OtherKeeps, StopKeeps
<1>6. CASE old.op = "save"
  <2>1. EditGood(save) /\ ~HasInserted(save)
    BY <1>1, <1>4, <1>6 DEF EditGood, HasInserted
  <2>2. QED
    BY <1>3, <1>6, <2>1, EditKeeps, StopKeeps
<1>7. QED
  BY <1>5, <1>6

(* One more than the latest: there are as many versions as the latest has  *)
(* for its number.                                                         *)
LEMMA NextNumberFits == VersionsInv => NextNumber \in 1..(Len(versions) + 1)
<1> SUFFICES ASSUME VersionsInv PROVE NextNumber \in 1..(Len(versions) + 1)
  OBVIOUS
<1> DEFINE Highest(i) == \A j \in DOMAIN versions : versions[j].number <= versions[i].number
<1>1. /\ Len(versions) \in Nat /\ DOMAIN versions = 1..Len(versions)
      /\ \A i \in DOMAIN versions : versions[i].number = i
  BY VersionsType DEF VersionsInv, SequencesContiguous
<1>2. CASE versions = <<>>
  <2>1. Latest.number = 0
    BY <1>2 DEF Latest, NoVersion
  <2>2. QED
    BY <1>1, <2>1 DEF NextNumber
<1>3. CASE versions # <<>>
  <2>1. Len(versions) # 0
    BY <1>3 DEF VersionsInv
  <2>2. \E i \in DOMAIN versions : Highest(i)
    BY <1>1, <2>1
  <2> DEFINE top == CHOOSE i \in DOMAIN versions : Highest(i)
  <2>3. top \in DOMAIN versions
    BY <2>2
  <2>4. Latest = versions[top]
    BY <1>3 DEF Latest
  <2> HIDE DEF top
  <2>5. QED
    BY <1>1, <2>3, <2>4 DEF NextNumber
<1>4. QED
  BY <1>2, <1>3

(* Two statements: the comparison with the latest version, and its number. *)
LEMMA NumberKeeps ==
  ASSUME VersionsInv, NEW w \in Writers, versions' = versions, Compare(w) \/ Number(w)
  PROVE  VersionsInv'
<1> DEFINE old == edit[w]
           passed == [old EXCEPT !.number = 1]
           numbered == [old EXCEPT !.pc = "insert", !.number = NextNumber]
<1>1. DOMAIN old = EditFields /\ EditGood(old) /\ old.pc = "number"
  BY Fields DEF Compare, Number
<1>2. old.op = "save" /\ old.more = <<>>
  BY <1>1 DEF EditGood
<1>3. /\ DOMAIN passed = EditFields /\ passed.op = old.op /\ passed.pc = old.pc
      /\ passed.more = old.more
      /\ DOMAIN numbered = EditFields /\ numbered.op = old.op /\ numbered.pc = "insert"
      /\ numbered.more = old.more /\ numbered.number = NextNumber
  BY <1>1 DEF EditFields
<1>4. NextNumber \in 1..(Len(versions) + 1)
  BY NextNumberFits
<1>5. Edits(w, passed) \/ Edits(w, numbered) \/ GivesUp(w)
  BY DEF Compare, Number
<1> HIDE DEF passed, numbered
<1>6. EditGood(passed) /\ ~HasInserted(passed)
  BY <1>1, <1>2, <1>3 DEF EditGood, HasInserted
<1>7. EditGood(numbered) /\ ~HasInserted(numbered)
  BY <1>1, <1>2, <1>3, <1>4 DEF EditGood, HasInserted
<1>8. QED
  BY <1>5, <1>6, <1>7, EditKeeps, StopKeeps

(* The unique constraint refuses every number but the next.                *)
LEMMA InsertKeeps ==
  ASSUME VersionsInv, NEW w \in Writers, versions' = versions, Insert(w)
  PROVE  VersionsInv'
<1> DEFINE old == edit[w]
           rec == [old EXCEPT !.pc = "touch"]
<1>1. DOMAIN old = EditFields /\ EditGood(old) /\ old.pc = "insert"
  BY Fields DEF Insert
<1>2. old.op = "save" /\ old.more = <<>> /\ old.number \in 1..(Len(versions) + 1)
  BY <1>1 DEF EditGood
<1>3. /\ DOMAIN rec = EditFields /\ rec.op = old.op /\ rec.pc = "touch"
      /\ rec.more = old.more /\ rec.number = old.number
  BY <1>1 DEF EditFields
<1>4. GivesUp(w) \/ (~Taken(old.number) /\ Edits(w, rec))
  BY DEF Insert, Refused, Moved
<1>5. \A x \in Writers \ {w} : ~(HasInserted(edit[x]) /\ edit[x].number = old.number)
  BY DEF Insert, Inserted, HasInserted
<1> HIDE DEF rec
<1>6. CASE ~Taken(old.number) /\ Edits(w, rec)
  <2>1. old.number = Len(versions) + 1
    <3>1. \A i \in 1..Len(versions) : versions[i].number = i /\ i \in Numbers
      BY VersionsType DEF VersionsInv, SequencesContiguous, Numbers
    <3>2. old.number \notin 1..Len(versions)
      BY <1>6, <3>1 DEF Taken
    <3>3. QED
      BY <1>2, <3>2, VersionsType
  <2>2. EditGood(rec)
    BY <1>1, <1>2, <1>3, <2>1 DEF EditGood, HasInserted
  <2>3. \A x \in Writers \ {w} : ~HasInserted(edit[x])
    BY <1>5, <2>1 DEF VersionsInv, EditGood
  <2>4. QED
    BY <1>6, <2>2, <2>3, EditKeeps
<1>7. QED
  BY <1>4, <1>6, StopKeeps

LEMMA TouchKeeps ==
  ASSUME VersionsInv, NEW w \in Writers, versions' = versions, Touch(w)
  PROVE  VersionsInv'
<1> DEFINE old == edit[w]
           rec == [old EXCEPT !.pc = "commit", !.touched = TRUE]
<1>1. DOMAIN old = EditFields /\ EditGood(old) /\ old.pc = "touch"
  BY Fields DEF Touch
<1>2. /\ DOMAIN rec = EditFields /\ rec.op = old.op /\ rec.pc = "commit"
      /\ rec.more = old.more /\ rec.number = old.number
  BY <1>1 DEF EditFields
<1>3. Edits(w, IF rec.more = <<>> THEN rec ELSE NextFile(rec))
  BY DEF Touch
<1> HIDE DEF rec
<1>4. CASE old.op = "save"
  <2>1. rec.more = <<>> /\ EditGood(rec)
    BY <1>1, <1>2, <1>4 DEF EditGood, HasInserted
  <2>2. \A x \in Writers \ {w} : ~HasInserted(edit[x])
    BY <1>1, <1>4 DEF VersionsInv, HasInserted
  <2>3. QED
    BY <1>3, <2>1, <2>2, EditKeeps
<1>5. CASE old.op # "save"
  BY <1>2, <1>3, <1>5, NextFileFields, OtherKeeps
<1>6. QED
  BY <1>4, <1>5

LEMMA CommitEditKeeps ==
  ASSUME VersionsInv, NEW w \in Writers, CommitEdit(w)
  PROVE  VersionsInv'
<1> DEFINE old == edit[w]
           row == [number |-> old.number, tree |-> old.tree]
           seen(x) == [edit[x] EXCEPT !.since = @ \cup {p \in Paths : Locks(w, p)}]
<1>1. DOMAIN old = EditFields /\ EditGood(old) /\ old.pc = "commit"
  BY Fields DEF CommitEdit
<1>2. /\ versions' = (IF old.op = "save" THEN Append(versions, row) ELSE versions)
      /\ edit' = [x \in Writers |->
           IF x = w THEN IdleEdit
           ELSE IF edit[x].op \in {"move", "restore"} THEN seen(x) ELSE edit[x]]
  BY DEF CommitEdit
<1>3. ASSUME NEW x \in Writers
      PROVE  /\ DOMAIN seen(x) = EditFields /\ seen(x).pc = edit[x].pc /\ seen(x).op = edit[x].op
             /\ seen(x).more = edit[x].more /\ seen(x).number = edit[x].number
  BY Fields DEF EditFields
<1> HIDE DEF seen, row
<1>4. DOMAIN edit' = Writers
      /\ \A x \in Writers : IF x = w THEN edit'[x] = IdleEdit
           ELSE /\ DOMAIN edit'[x] = EditFields /\ edit'[x].pc = edit[x].pc
                /\ edit'[x].op = edit[x].op /\ edit'[x].more = edit[x].more
                /\ edit'[x].number = edit[x].number
  BY <1>2, <1>3, Fields
<1>5. /\ Len(versions) \in Nat /\ DOMAIN versions = 1..Len(versions)
      /\ \A i \in 1..Len(versions) : versions[i].number = i
  BY VersionsType DEF VersionsInv, SequencesContiguous
<1>6. \A x, y \in Writers : x # y => ~(HasInserted(edit'[x]) /\ HasInserted(edit'[y]))
  BY <1>4, IdleEditGood DEF VersionsInv, HasInserted
<1>7. CASE old.op # "save"
  <2>1. versions' = versions
    BY <1>2, <1>7
  <2>2. \A x \in Writers : EditGood(edit'[x])
    BY <1>4, IdleEditGood DEF VersionsInv, EditGood, HasInserted
  <2>3. \A x \in Writers : EditGood(edit[x])'
    BY <2>1, <2>2 DEF EditGood, HasInserted
  <2>4. SequencesContiguous'
    BY <2>1 DEF VersionsInv, SequencesContiguous
  <2>5. QED
    BY <1>4, <1>6, <2>1, <2>3, <2>4 DEF VersionsInv
<1>8. CASE old.op = "save"
  <2>1. old.number = Len(versions) + 1 /\ row.number = old.number
    BY <1>1, <1>8 DEF EditGood, HasInserted, row
  <2>2. PICK S : versions \in Seq(S)
    BY DEF VersionsInv
  <2>3. versions \in Seq(S \cup {row})
    BY <2>2
  <2>4. /\ versions' \in Seq(S \cup {row}) /\ Len(versions') = Len(versions) + 1
        /\ \A i \in 1..Len(versions) : versions'[i] = versions[i]
        /\ versions'[Len(versions) + 1] = row
        /\ DOMAIN versions' = 1..(Len(versions) + 1)
    BY <1>2, <1>8, <2>3
  <2>5. SequencesContiguous'
    BY <1>5, <2>1, <2>4 DEF SequencesContiguous
  <2>6. \A x \in Writers \ {w} : ~HasInserted(edit[x])
    BY <1>1, <1>8 DEF VersionsInv, HasInserted
  <2>7. ASSUME NEW x \in Writers PROVE EditGood(edit[x])'
    <3>1. CASE x = w
      BY <1>4, <3>1, IdleEditGood DEF EditGood, HasInserted
    <3>2. CASE x # w
      <4>1. EditGood(edit[x]) /\ ~HasInserted(edit[x])
        BY <2>6, <3>2 DEF VersionsInv
      <4>2. edit[x].number \in 1..(Len(versions) + 1) => edit[x].number \in 1..(Len(versions') + 1)
        BY <1>5, <2>4
      <4>3. QED
        BY <1>4, <3>2, <4>1, <4>2 DEF EditGood, HasInserted
    <3>3. QED
      BY <3>1, <3>2
  <2>8. QED
    BY <1>4, <1>5, <1>6, <2>4, <2>5, <2>7 DEF VersionsInv
<1>9. QED
  BY <1>7, <1>8

LEMMA VersionsStep == VersionsInv /\ [TreeNext]_treeVars => VersionsInv'
<1> SUFFICES ASSUME VersionsInv, [TreeNext]_treeVars PROVE VersionsInv'
  OBVIOUS
<1>1. CASE UNCHANGED treeVars
  BY <1>1 DEF treeVars, VersionsInv, SequencesContiguous, EditGood, HasInserted
<1>2. ASSUME NEW w \in Writers, Begin(w) \/ Proceed(w) \/ (Abandon(w) /\ UNCHANGED versions)
      PROVE  VersionsInv'
  <2>1. CASE Begin(w)
    BY <2>1, BeginKeeps
  <2>2. CASE Abandon(w) /\ UNCHANGED versions
    BY <2>2, StopKeeps DEF Abandon
  <2>3. CASE Proceed(w)
    BY <2>3, FileStepKeeps, ListKeeps, NumberKeeps, InsertKeeps, TouchKeeps, CommitEditKeeps,
       StopKeeps DEF Proceed, Unstored, BreakDeadlock
  <2>4. QED
    BY <1>2, <2>1, <2>2, <2>3
<1>3. QED
  BY <1>1, <1>2 DEF TreeNext

(* However saves overlap, retry or fail, versions are numbered 1, 2, 3,    *)
(* ... in the order of their commits.                                      *)
THEOREM VersionsAreNumbered == TreeSpec => []SequencesContiguous
<1>1. VersionsInv => SequencesContiguous
  BY DEF VersionsInv
<1>2. QED
  BY VersionsInitial, VersionsStep, <1>1, PTL DEF TreeSpec

(* The page shows no unsaved change exactly when a save would be refused   *)
(* because the tree equals the latest version, or because there is no file *)
(* when there is no version.                                               *)
THEOREM NoChangesMeansSaved ==
  ASSUME files \in Tree, Latest.tree \in Tree
  PROVE  WorkingChanges = {} <=> Latest.tree = files
<1>1. ASSUME Latest.tree = files PROVE WorkingChanges = {}
  BY <1>1 DEF WorkingChanges, Changes
<1>2. ASSUME WorkingChanges = {}, NEW p \in Paths PROVE Latest.tree[p] = files[p]
  <2>1. /\ ~(Latest.tree[p] = None /\ files[p] # None)
        /\ ~(Latest.tree[p] # None /\ files[p] = None)
        /\ ~(None \notin {Latest.tree[p], files[p]} /\ Latest.tree[p] # files[p])
    BY <1>2 DEF WorkingChanges, Changes
  <2>2. QED
    BY <2>1
<1>3. QED
  BY <1>1, <1>2 DEF Tree

-----------------------------------------------------------------------------
(* The rows a request works through.  Paths are listed in their order,     *)
(* each once.                                                              *)
LEMMA PlacesFinite ==
  ASSUME NEW S
  PROVE  /\ Places(S) \subseteq DOMAIN PathOrder /\ DOMAIN PathOrder \subseteq Nat
         /\ IsFiniteSet(Places(S)) /\ Cardinality(Places(S)) \in Nat
<1>1. DOMAIN PathOrder = 1..Len(PathOrder) /\ Len(PathOrder) \in Nat
  BY TreeAssumption DEF TreeAssumption
<1>2. IsFiniteSet(DOMAIN PathOrder)
  BY <1>1, FS_Interval
<1>3. Places(S) \in SUBSET DOMAIN PathOrder
  BY DEF Places
<1>4. QED
  BY <1>1, <1>2, <1>3, FS_Subset, FS_CardinalityType

LEMMA RankGrows ==
  ASSUME NEW S, NEW i \in Places(S)
  PROVE  /\ Rank(S, i) \in 0..(Cardinality(Places(S)) - 1)
         /\ \A j \in Places(S) : i < j => Rank(S, i) < Rank(S, j)
<1> DEFINE Below(j) == {k \in Places(S) : k < j}
<1>1. Places(S) \subseteq Nat /\ IsFiniteSet(Places(S)) /\ Cardinality(Places(S)) \in Nat
  BY PlacesFinite
<1>2. \A j : IsFiniteSet(Below(j)) /\ Cardinality(Below(j)) \in Nat
  BY <1>1, FS_Subset, FS_CardinalityType
<1>3. Cardinality(Below(i) \cup {i}) = Rank(S, i) + 1
  <2>1. i \notin Below(i) /\ IsFiniteSet(Below(i))
    BY <1>1, <1>2
  <2>2. Cardinality(Below(i) \cup {i}) = Cardinality(Below(i)) + 1
    BY <2>1, FS_AddElement
  <2>3. QED
    BY <2>2 DEF Rank
<1>4. Rank(S, i) + 1 <= Cardinality(Places(S))
  <2>1. Below(i) \cup {i} \in SUBSET Places(S)
    OBVIOUS
  <2>2. Cardinality(Below(i) \cup {i}) <= Cardinality(Places(S))
    BY <1>1, <2>1, FS_Subset
  <2>3. QED
    BY <1>3, <2>2
<1>5. ASSUME NEW j \in Places(S), i < j
      PROVE  Rank(S, i) < Rank(S, j)
  <2>1. Below(i) \cup {i} \in SUBSET Below(j)
    BY <1>1, <1>5
  <2>2. Rank(S, i) + 1 <= Rank(S, j)
    BY <1>2, <1>3, <2>1, FS_Subset DEF Rank
  <2>3. QED
    BY <1>2, <2>2 DEF Rank
<1>6. QED
  BY <1>1, <1>2, <1>4, <1>5 DEF Rank

LEMMA RankOnto ==
  ASSUME NEW S, NEW n \in 0..(Cardinality(Places(S)) - 1)
  PROVE  \E i \in Places(S) : Rank(S, i) = n
<1> DEFINE size == Cardinality(Places(S))
           rank == [i \in Places(S) |-> Rank(S, i)]
           ranks == 0..(size - 1)
<1>1. Places(S) \subseteq Nat /\ IsFiniteSet(Places(S)) /\ size \in Nat
  BY PlacesFinite
<1>2. rank \in [Places(S) -> ranks]
  BY RankGrows
<1>3. \A i, j \in Places(S) : rank[i] = rank[j] => i = j
  <2>1. SUFFICES ASSUME NEW i \in Places(S), NEW j \in Places(S), i # j PROVE Rank(S, i) # Rank(S, j)
    OBVIOUS
  <2>2. i < j \/ j < i
    BY <1>1, <2>1
  <2>3. Rank(S, i) \in Int /\ Rank(S, j) \in Int
    BY RankGrows
  <2>4. QED
    BY <2>2, <2>3, RankGrows
<1>4. rank \in Injection(Places(S), ranks)
  BY <1>2, <1>3 DEF Injection, IsInjective
<1>5. IsFiniteSet(ranks) /\ Cardinality(ranks) = size
  BY <1>1, FS_Interval
<1>6. rank \in Surjection(Places(S), ranks)
  BY <1>4, <1>5, FS_Injection
<1>7. QED
  BY <1>6 DEF Surjection

LEMMA InOrderFacts ==
  ASSUME NEW S \in SUBSET Paths
  PROVE  /\ InOrder(S) \in Seq(S)
         /\ \A m, n \in DOMAIN InOrder(S) : InOrder(S)[m] = InOrder(S)[n] => m = n
         /\ \A p \in S : \E n \in DOMAIN InOrder(S) : InOrder(S)[n] = p
<1> DEFINE size == Cardinality(Places(S))
           at(n) == CHOOSE i \in Places(S) : Rank(S, i) = n - 1
<1>1. Places(S) \subseteq DOMAIN PathOrder /\ Places(S) \subseteq Nat /\ size \in Nat
  BY PlacesFinite
<1>2. ASSUME NEW n \in 1..size
      PROVE  at(n) \in Places(S) /\ Rank(S, at(n)) = n - 1
  <2>1. n - 1 \in 0..(size - 1)
    BY <1>1
  <2>2. QED
    BY <2>1, RankOnto
<1> HIDE DEF at
<1>3. InOrder(S) = [n \in 1..size |-> PathOrder[at(n)]]
  BY DEF InOrder, at
<1>4. \A n \in 1..size : PathOrder[at(n)] \in S
  BY <1>2 DEF Places
<1>5. InOrder(S) \in Seq(S)
  BY <1>1, <1>3, <1>4
<1>6. ASSUME NEW m \in 1..size, NEW n \in 1..size, PathOrder[at(m)] = PathOrder[at(n)]
      PROVE  m = n
  <2>1. at(m) = at(n)
    BY <1>1, <1>2, <1>6, TreeAssumption DEF TreeAssumption, IsInjective
  <2>2. m - 1 = n - 1
    BY <1>2, <2>1
  <2>3. QED
    BY <1>1, <2>2
<1>7. ASSUME NEW p \in S
      PROVE  \E n \in 1..size : PathOrder[at(n)] = p
  <2>1. PICK i \in Places(S) : PathOrder[i] = p
    BY <1>7 DEF Places, Paths
  <2> DEFINE n == Rank(S, i) + 1
  <2>2. n \in 1..size /\ Rank(S, i) = n - 1
    BY <1>1, RankGrows
  <2>3. at(n) \in Places(S) /\ Rank(S, at(n)) = Rank(S, i)
    BY <1>2, <2>2
  <2> HIDE DEF n
  <2>4. ~(at(n) < i) /\ ~(i < at(n))
    BY <2>3, RankGrows
  <2>5. at(n) = i
    BY <1>1, <2>3, <2>4
  <2>6. QED
    BY <2>1, <2>2, <2>5
<1>8. QED
  BY <1>3, <1>5, <1>6, <1>7

-----------------------------------------------------------------------------
(* Contents.  Every row that is committed, written or to be written names  *)
(* a content that has a file at its address, and no file loses it.         *)
Held(b, c) == c = None \/ (c \in Contents /\ b[c] # None)

HeldTree(b, tree) == \A p \in Paths : Held(b, tree[p])

HeldRows(b, rows) ==
  /\ \E T : rows \in Seq(T)
  /\ \A i \in DOMAIN rows : Held(b, rows[i].content)

EditHeld(b, rec) ==
  /\ DOMAIN rec = EditFields
  /\ DOMAIN rec.mine = Paths
  /\ \A p \in Paths : rec.mine[p] = Kept \/ Held(b, rec.mine[p])
  /\ HeldRows(b, rec.todo)
  /\ rec.pc = "put" => rec.todo # <<>>
  /\ rec.pc = "list" => rec.op \in {"move", "restore", "save"}
  /\ rec.more \in Seq(UploadedFile)
  /\ rec.pc \in {"exists", "open", "fill", "replace"} => rec.content \in Contents \cup {None}
  /\ rec.pc # "idle" /\ (rec.op = "restore" \/ (rec.op = "save" /\ rec.pc # "list")) =>
       HeldTree(b, rec.tree)

HeldInv ==
  /\ DOMAIN edit = Writers
  /\ DOMAIN blob = Contents
  /\ HeldTree(blob, files)
  /\ \E S : versions \in Seq(S)
  /\ \A i \in DOMAIN versions : HeldTree(blob, versions[i].tree)
  /\ \A w \in Writers : EditHeld(blob, edit[w])

LEMMA DeletionsHeld ==
  ASSUME NEW b, NEW tree, NEW loc
  PROVE  HeldRows(b, Deletions(tree, loc))
<1> DEFINE S == {p \in Present(tree) : Under(loc, p)}
           gone == InOrder(S)
<1>1. gone \in Seq(S)
  <2>1. S \in SUBSET Paths
    BY DEF Present
  <2>2. QED
    BY <2>1, InOrderFacts
<1> HIDE DEF gone
<1>2. Deletions(tree, loc) = [i \in DOMAIN gone |-> DeleteOf(gone[i])]
  BY DEF Deletions, gone
<1>3. DOMAIN gone = 1..Len(gone) /\ Len(gone) \in Nat
  BY <1>1
<1>4. Deletions(tree, loc) \in Seq({DeleteOf(gone[i]) : i \in DOMAIN gone})
  BY <1>2, <1>3
<1>5. QED
  BY <1>2, <1>4 DEF HeldRows, Held, DeleteOf

LEMMA PutsHeld ==
  ASSUME NEW b, NEW tree, HeldTree(b, tree)
  PROVE  HeldRows(b, VersionRows(tree))
<1> DEFINE entries == InOrder(Present(tree))
           put(p) == [path |-> p, content |-> tree[p]]
<1>1. Present(tree) \subseteq Paths
  BY DEF Present
<1>2. entries \in Seq(Present(tree))
  BY <1>1, InOrderFacts
<1> HIDE DEF entries
<1>3. VersionRows(tree) = [i \in DOMAIN entries |-> put(entries[i])]
  BY DEF VersionRows, entries
<1>4. /\ DOMAIN entries = 1..Len(entries) /\ Len(entries) \in Nat
      /\ \A i \in DOMAIN entries : entries[i] \in Present(tree)
  BY <1>2
<1>5. VersionRows(tree) \in Seq({put(entries[i]) : i \in DOMAIN entries})
  BY <1>3, <1>4
<1>6. \A i \in DOMAIN entries : Held(b, put(entries[i]).content)
  BY <1>1, <1>4 DEF HeldTree
<1> HIDE DEF put
<1>7. QED
  BY <1>3, <1>5, <1>6 DEF HeldRows

LEMMA MoveRowsHeld ==
  ASSUME NEW b, NEW tree, HeldTree(b, tree), NEW src, NEW dst
  PROVE  HeldRows(b, MoveRows(tree, src, dst))
<1> DEFINE S == {p \in Present(tree) : Under(src, p)}
           from == InOrder(S)
           put(p) == [path |-> Renamed(p, src, dst), content |-> tree[p]]
           row(k) == IF k % 2 = 1 THEN DeleteOf(from[(k + 1) \div 2]) ELSE put(from[k \div 2])
<1>1. S \in SUBSET Paths
  BY DEF Present
<1>2. from \in Seq(S)
  BY <1>1, InOrderFacts
<1> HIDE DEF from, S
<1>3. MoveRows(tree, src, dst) = [k \in 1..(2 * Len(from)) |-> row(k)]
  BY DEF MoveRows, from, S
<1>4. Len(from) \in Nat /\ \A i \in 1..Len(from) : from[i] \in Paths
  BY <1>1, <1>2
<1>5. ASSUME NEW k \in 1..(2 * Len(from)) PROVE Held(b, row(k).content)
  <2>1. CASE k % 2 = 1
    BY <2>1 DEF DeleteOf, Held
  <2>2. CASE k % 2 # 1
    <3>1. k \div 2 \in 1..Len(from)
      BY <1>4, <2>2
    <3>2. row(k) = put(from[k \div 2])
      BY <2>2
    <3>3. QED
      BY <1>4, <3>1, <3>2 DEF HeldTree
  <2>3. QED
    BY <2>1, <2>2
<1> HIDE DEF row
<1>6. MoveRows(tree, src, dst) \in Seq({row(k) : k \in 1..(2 * Len(from))})
  BY <1>3, <1>4
<1>7. QED
  BY <1>3, <1>5, <1>6 DEF HeldRows

LEMMA JoinHeld ==
  ASSUME NEW b, NEW r, NEW s, HeldRows(b, r), HeldRows(b, s)
  PROVE  HeldRows(b, r \o s)
<1>1. PICK S, T : r \in Seq(S) /\ s \in Seq(T)
  BY DEF HeldRows
<1>2. r \in Seq(S \cup T) /\ s \in Seq(S \cup T)
  BY <1>1
<1> DEFINE both == r \o s
<1>3. /\ both \in Seq(S \cup T) /\ Len(r) \in Nat /\ Len(s) \in Nat
      /\ DOMAIN r = 1..Len(r) /\ DOMAIN s = 1..Len(s) /\ DOMAIN both = 1..(Len(r) + Len(s))
      /\ \A i \in 1..(Len(r) + Len(s)) : both[i] = IF i <= Len(r) THEN r[i] ELSE s[i - Len(r)]
  BY <1>2
<1> HIDE DEF both
<1>4. \A i \in DOMAIN both : \/ i \in DOMAIN r /\ both[i] = r[i]
                             \/ i - Len(r) \in DOMAIN s /\ both[i] = s[i - Len(r)]
  BY <1>3
<1>5. HeldRows(b, both)
  BY <1>3, <1>4 DEF HeldRows
<1>6. QED
  BY <1>5 DEF both

LEMMA TailHeld ==
  ASSUME NEW b, NEW rows, HeldRows(b, rows), rows # <<>>
  PROVE  HeldRows(b, Tail(rows)) /\ Held(b, Head(rows).content)
<1>1. PICK T : rows \in Seq(T)
  BY DEF HeldRows
<1>2. /\ Tail(rows) \in Seq(T) /\ Head(rows) = rows[1] /\ 1 \in DOMAIN rows
      /\ \A i \in DOMAIN Tail(rows) : i + 1 \in DOMAIN rows /\ Tail(rows)[i] = rows[i + 1]
  BY <1>1
<1>3. QED
  BY <1>2 DEF HeldRows

LEMMA OneHeld ==
  ASSUME NEW b, NEW p, NEW c, Held(b, c)
  PROVE  HeldRows(b, <<[path |-> p, content |-> c]>>)
<1> DEFINE row == [path |-> p, content |-> c]
<1>1. row.content = c
  OBVIOUS
<1> HIDE DEF row
<1>2. <<row>> \in Seq({row}) /\ DOMAIN <<row>> = {1} /\ <<row>>[1] = row
  OBVIOUS
<1>3. HeldRows(b, <<row>>)
  BY <1>1, <1>2 DEF HeldRows
<1>4. QED
  BY <1>3 DEF row

LEMMA GrowsHeld ==
  ASSUME NEW b, NEW d, \A c \in Contents : b[c] # None => d[c] # None
  PROVE  /\ \A tree : HeldTree(b, tree) => HeldTree(d, tree)
         /\ \A rec : EditHeld(b, rec) => EditHeld(d, rec)
<1>1. \A c : Held(b, c) => Held(d, c)
  BY DEF Held
<1>2. \A tree : HeldTree(b, tree) => HeldTree(d, tree)
  BY <1>1 DEF HeldTree
<1>3. \A rows : HeldRows(b, rows) => HeldRows(d, rows)
  BY <1>1 DEF HeldRows
<1>4. QED
  BY <1>1, <1>2, <1>3 DEF EditHeld

(* A request goes on; nothing is committed.                                *)
LEMMA HeldKeeps ==
  ASSUME HeldInv, NEW w \in Writers, NEW rec, Edits(w, rec), EditHeld(blob', rec),
         DOMAIN blob' = Contents, \A c \in Contents : blob[c] # None => blob'[c] # None,
         UNCHANGED <<files, versions>>
  PROVE  HeldInv'
<1>1. DOMAIN edit' = Writers /\ \A x \in Writers : edit'[x] = IF x = w THEN rec ELSE edit[x]
  BY DEF Edits, HeldInv
<1>2. /\ \A tree : HeldTree(blob, tree) => HeldTree(blob', tree)
      /\ \A r : EditHeld(blob, r) => EditHeld(blob', r)
  BY GrowsHeld
<1>3. \A x \in Writers : EditHeld(blob', edit'[x])
  BY <1>1, <1>2 DEF HeldInv
<1>4. HeldTree(blob', files') /\ \A i \in DOMAIN versions' : HeldTree(blob', versions'[i].tree)
  BY <1>2 DEF HeldInv
<1>5. QED
  BY <1>1, <1>3, <1>4 DEF HeldInv

LEMMA SameHeld ==
  ASSUME HeldInv, NEW w \in Writers, NEW rec, Edits(w, rec), EditHeld(blob, rec),
         UNCHANGED <<files, versions, blob>>
  PROVE  HeldInv'
BY HeldKeeps DEF HeldInv

LEMMA IdleHeld ==
  ASSUME NEW b
  PROVE  /\ DOMAIN IdleEdit = EditFields /\ IdleEdit.pc = "idle"
         /\ IdleEdit.todo = <<>> /\ IdleEdit.more = <<>> /\ IdleEdit.mine = Untouched
         /\ DOMAIN Untouched = Paths /\ \A p \in Paths : Untouched[p] = Kept
         /\ HeldRows(b, <<>>) /\ EditHeld(b, IdleEdit)
<1>1. /\ DOMAIN IdleEdit = EditFields /\ IdleEdit.pc = "idle"
      /\ IdleEdit.todo = <<>> /\ IdleEdit.more = <<>> /\ IdleEdit.mine = Untouched
  BY DEF IdleEdit, EditFields
<1>2. DOMAIN Untouched = Paths /\ \A p \in Paths : Untouched[p] = Kept
  BY DEF Untouched
<1>3. <<>> \in Seq({}) /\ DOMAIN <<>> = {}
  OBVIOUS
<1>4. HeldRows(b, <<>>)
  BY <1>3 DEF HeldRows
<1>5. <<>> \in Seq(UploadedFile)
  OBVIOUS
<1>6. QED
  BY <1>1, <1>2, <1>4, <1>5 DEF EditHeld

LEMMA StopHeld ==
  ASSUME HeldInv, NEW w \in Writers, GivesUp(w), UNCHANGED <<files, versions, blob>>
  PROVE  HeldInv'
BY IdleHeld, SameHeld DEF GivesUp

LEMMA NextFileHeld ==
  ASSUME NEW b, NEW rec, DOMAIN rec = EditFields, rec.more \in Seq(UploadedFile) \ {<<>>},
         DOMAIN rec.mine = Paths, \A p \in Paths : rec.mine[p] = Kept \/ Held(b, rec.mine[p]),
         HeldRows(b, rec.todo), rec.op \in {"restore", "save"} => HeldTree(b, rec.tree)
  PROVE  EditHeld(b, NextFile(rec))
<1> DEFINE next == NextFile(rec)
<1>1. /\ DOMAIN next = EditFields /\ next.pc = "exists" /\ next.op = rec.op
      /\ next.content = Head(rec.more).content /\ next.more = Tail(rec.more)
      /\ next.mine = rec.mine /\ next.todo = rec.todo /\ next.tree = rec.tree
  BY DEF NextFile, EditFields
<1> HIDE DEF next
<1>2. next.more \in Seq(UploadedFile) /\ Head(rec.more) \in UploadedFile
  BY <1>1
<1>3. next.content \in Contents \cup {None}
  BY <1>1, <1>2 DEF UploadedFile
<1>4. EditHeld(b, next)
  BY <1>1, <1>2, <1>3 DEF EditHeld
<1>5. QED
  BY <1>4 DEF next

LEMMA BeginHeld ==
  ASSUME HeldInv, NEW w \in Writers, Begin(w)
  PROVE  HeldInv'
<1> DEFINE write(rows) == [IdleEdit EXCEPT !.op = "write", !.more = rows]
           delete(loc) == [IdleEdit EXCEPT !.pc = "lookup", !.op = "delete", !.at = loc]
           move(m) == [IdleEdit EXCEPT !.pc = "list", !.op = "move", !.at = m[1], !.to = m[2]]
           save == [IdleEdit EXCEPT !.pc = "list", !.op = "save"]
           restore(tree) == [IdleEdit EXCEPT !.pc = "list", !.op = "restore", !.tree = tree]
           Fresh(rec) == /\ DOMAIN rec = EditFields
                         /\ rec.mine = Untouched /\ rec.todo = <<>> /\ rec.more = <<>>
                         /\ rec.pc \in {"lookup", "list"}
<1>1. UNCHANGED <<files, versions, blob>>
  BY DEF Begin, stored
<1>2. \/ \E rows \in Uploads \cup {<<file>> : file \in UploadedFile} :
            Edits(w, NextFile(write(rows)))
      \/ \E loc : Edits(w, delete(loc))
      \/ \E m : Edits(w, move(m))
      \/ Edits(w, save)
      \/ \E i \in DOMAIN versions : Edits(w, restore(versions[i].tree))
  BY Zenon DEF Begin
<1>3. \A rows : /\ DOMAIN write(rows) = EditFields /\ write(rows).op = "write"
                /\ write(rows).more = rows /\ write(rows).mine = Untouched
                /\ write(rows).todo = <<>>
  BY IdleHeld DEF EditFields
<1>4. /\ \A loc : Fresh(delete(loc)) /\ delete(loc).op = "delete"
      /\ \A loc : delete(loc).pc = "lookup"
      /\ \A m : Fresh(move(m)) /\ move(m).op = "move"
      /\ Fresh(save) /\ save.op = "save" /\ save.pc = "list"
      /\ \A tree : /\ Fresh(restore(tree)) /\ restore(tree).op = "restore"
                    /\ restore(tree).tree = tree
  BY IdleHeld DEF EditFields
<1> HIDE DEF write, delete, move, save, restore
<1>5. ASSUME NEW rec, Fresh(rec), rec.op = "restore" => HeldTree(blob, rec.tree),
             rec.op = "save" => rec.pc = "list",
             rec.pc = "list" => rec.op \in {"move", "restore", "save"}
      PROVE  EditHeld(blob, rec)
  <2>1. <<>> \in Seq(UploadedFile)
    OBVIOUS
  <2>2. HeldRows(blob, <<>>) /\ DOMAIN Untouched = Paths /\ \A p \in Paths : Untouched[p] = Kept
    BY IdleHeld
  <2>3. QED
    BY <1>5, <2>1, <2>2 DEF EditHeld
<1>6. ASSUME NEW rows \in Uploads \cup {<<file>> : file \in UploadedFile}
      PROVE  EditHeld(blob, NextFile(write(rows)))
  <2>1. rows \in Seq(UploadedFile) \ {<<>>}
    <3>1. CASE rows \in Uploads
      BY <3>1, TreeAssumption DEF TreeAssumption
    <3>2. CASE \E file \in UploadedFile : rows = <<file>>
      BY <3>2
    <3>3. QED
      BY <1>6, <3>1, <3>2
  <2>2. HeldRows(blob, <<>>) /\ DOMAIN Untouched = Paths /\ \A p \in Paths : Untouched[p] = Kept
    BY IdleHeld
  <2>3. QED
    BY <1>3, <2>1, <2>2, NextFileHeld
<1>7. CASE \E rows \in Uploads \cup {<<file>> : file \in UploadedFile} :
             Edits(w, NextFile(write(rows)))
  BY <1>1, <1>6, <1>7, SameHeld
<1>8. CASE \E rec : Edits(w, rec) /\ EditHeld(blob, rec)
  BY <1>1, <1>8, SameHeld
<1>9. ASSUME NEW i \in DOMAIN versions PROVE EditHeld(blob, restore(versions[i].tree))
  BY <1>4, <1>5 DEF HeldInv
<1>10. QED
  BY <1>2, <1>4, <1>5, <1>7, <1>8, <1>9

LEMMA OldHeld ==
  ASSUME HeldInv, NEW w \in Writers
  PROVE  EditHeld(blob, edit[w])
BY DEF HeldInv

(* The request goes on with the same rows.                                 *)
LEMMA GoesOnHeld ==
  ASSUME NEW b, NEW old, NEW rec, EditHeld(b, old), DOMAIN rec = EditFields,
         rec.mine = old.mine, rec.todo = old.todo, rec.more = old.more, rec.op = old.op,
         rec.tree = old.tree, rec.content = old.content, old.pc \notin {"idle", "list"},
         rec.pc \in {"exists", "open", "fill", "replace"} => old.pc \in {"exists", "open", "fill"},
         rec.pc = "put" => rec.todo # <<>>, rec.pc # "list"
  PROVE  EditHeld(b, rec)
BY DEF EditHeld

(* The request has new rows to work through.                               *)
LEMMA NewRowsHeld ==
  ASSUME NEW b, NEW old, NEW rec, EditHeld(b, old), DOMAIN rec = EditFields, HeldRows(b, rec.todo),
         rec.mine = old.mine, rec.more = old.more, rec.op = old.op,
         rec.tree = old.tree, rec.pc = "rows",
         old.pc \notin {"idle", "list"} \/ (old.pc = "list" /\ old.op # "save")
  PROVE  EditHeld(b, rec)
BY DEF EditHeld

LEMMA WriteHeld ==
  ASSUME HeldInv, NEW w \in Writers, Exists(w) \/ Open(w) \/ Fill(w) \/ Replace(w),
         UNCHANGED <<files, versions>>
  PROVE  HeldInv'
<1> DEFINE old == edit[w]
           c == old.content
           at(pc) == [old EXCEPT !.pc = pc]
           fill(f) == [old EXCEPT !.pc = "fill", !.fd = f]
           written == [old EXCEPT !.pc = "replace", !.fd = None]
           ready == [old EXCEPT !.pc = "rows", !.todo = WriteRow(w)]
           Same(rec) == /\ DOMAIN rec = EditFields
                        /\ rec.mine = old.mine /\ rec.more = old.more /\ rec.op = old.op
                        /\ rec.tree = old.tree /\ rec.content = old.content
<1>1. EditHeld(blob, old)
  BY OldHeld
<1>2. old.pc \in {"exists", "open", "fill", "replace"} /\ c \in Contents \cup {None}
  BY <1>1 DEF Exists, Open, Fill, Replace, EditHeld
<1>3. /\ \A pc : Same(at(pc)) /\ at(pc).pc = pc /\ at(pc).todo = old.todo
      /\ \A f : Same(fill(f)) /\ fill(f).pc = "fill" /\ fill(f).todo = old.todo
      /\ Same(written) /\ written.pc = "replace" /\ written.todo = old.todo
      /\ Same(ready) /\ ready.pc = "rows" /\ ready.todo = WriteRow(w)
  BY <1>1 DEF EditFields, EditHeld
<1> HIDE DEF at, fill, written, ready
<1>4. \A b : Held(b, c) /\ EditHeld(b, old) => EditHeld(b, ready)
  <2>1. \A b : Held(b, c) => HeldRows(b, ready.todo)
    BY <1>3, OneHeld DEF WriteRow
  <2>2. QED
    BY <1>2, <1>3, <2>1, NewRowsHeld
<1>5. CASE Exists(w)
  <2>1. (Stored(c) /\ Edits(w, ready)) \/ Edits(w, at("open"))
    BY <1>5, Zenon DEF Exists, Moved, ready, at
  <2>2. blob' = blob /\ old.pc = "exists"
    BY <1>5 DEF Exists, stored
  <2>3. EditHeld(blob, at("open"))
    BY <1>1, <1>3, <2>2, GoesOnHeld
  <2>4. Stored(c) => EditHeld(blob, ready)
    BY <1>1, <1>2, <1>4 DEF Stored, Held
  <2>5. QED
    BY <2>1, <2>2, <2>3, <2>4, SameHeld
<1>6. CASE Open(w)
  <2>1. blob' = blob /\ old.pc = "open" /\ \E f : Edits(w, fill(f))
    BY <1>6, Zenon DEF Open, fill
  <2>2. \A f : EditHeld(blob, fill(f))
    BY <1>1, <1>3, <2>1, GoesOnHeld
  <2>3. QED
    BY <2>1, <2>2, SameHeld
<1>7. CASE Fill(w)
  <2>1. blob' = blob /\ old.pc = "fill" /\ Edits(w, written)
    BY <1>7, Zenon DEF Fill, written
  <2>2. EditHeld(blob, written)
    BY <1>1, <1>3, <2>1, GoesOnHeld
  <2>3. QED
    BY <2>1, <2>2, SameHeld
<1>8. CASE Replace(w)
  <2>1. \/ GivesUp(w) /\ blob' = blob
        \/ /\ temporary[c] # None /\ blob' = [blob EXCEPT ![c] = temporary[c]]
           /\ Edits(w, ready)
    BY <1>8, Zenon DEF Replace, ready
  <2>2. CASE GivesUp(w) /\ blob' = blob
    BY <2>2, StopHeld
  <2>3. CASE /\ temporary[c] # None /\ blob' = [blob EXCEPT ![c] = temporary[c]]
             /\ Edits(w, ready)
    <3>1. DOMAIN blob' = Contents /\ \A d \in Contents : blob'[d] = IF d = c THEN temporary[c] ELSE blob[d]
      BY <2>3 DEF HeldInv
    <3>2. (\A d \in Contents : blob[d] # None => blob'[d] # None) /\ Held(blob', c)
      BY <1>2, <2>3, <3>1 DEF Held
    <3>3. EditHeld(blob', old)
      BY <1>1, <3>2, GrowsHeld
    <3>4. EditHeld(blob', ready)
      BY <1>4, <3>2, <3>3
    <3>5. QED
      BY <2>3, <3>1, <3>2, <3>4, HeldKeeps
  <2>4. QED
    BY <2>1, <2>2, <2>3
<1>9. QED
  BY <1>5, <1>6, <1>7, <1>8

LEMMA ListHeld ==
  ASSUME HeldInv, NEW w \in Writers, Lookup(w) \/ List(w), UNCHANGED <<files, versions, blob>>
  PROVE  HeldInv'
<1> DEFINE old == edit[w]
           found(removed, todo) == [old EXCEPT !.pc = "rows", !.removed = removed, !.todo = todo]
           rows(todo) == [old EXCEPT !.pc = "rows", !.since = {}, !.todo = todo]
           save == [old EXCEPT !.pc = "number", !.tree = files]
           Same(rec) == /\ DOMAIN rec = EditFields
                        /\ rec.mine = old.mine /\ rec.more = old.more /\ rec.op = old.op
<1>1. EditHeld(blob, old) /\ HeldTree(blob, files)
  BY OldHeld DEF HeldInv
<1>2. /\ \A removed, todo : LET rec == found(removed, todo)
                           IN Same(rec) /\ rec.tree = old.tree /\ rec.todo = todo /\ rec.pc = "rows"
      /\ \A todo : LET rec == rows(todo)
                   IN Same(rec) /\ rec.tree = old.tree /\ rec.todo = todo /\ rec.pc = "rows"
      /\ Same(save) /\ save.pc = "number" /\ save.tree = files /\ save.todo = old.todo
  BY <1>1 DEF EditFields, EditHeld
<1> HIDE DEF found, rows, save
<1>3. CASE Lookup(w)
  <2>1. old.pc = "lookup"
        /\ \E removed : \E todo \in {<<[path |-> old.at, content |-> None]>>, Deletions(files, old.at)} :
             Edits(w, found(removed, todo))
    BY <1>3, Zenon DEF Lookup, found
  <2>2. \A todo \in {<<[path |-> old.at, content |-> None]>>, Deletions(files, old.at)} :
          HeldRows(blob, todo)
    BY DeletionsHeld, OneHeld DEF Held
  <2>3. \A removed : \A todo : HeldRows(blob, todo) => EditHeld(blob, found(removed, todo))
    BY <1>1, <1>2, <2>1, NewRowsHeld
  <2>4. QED
    BY <2>1, <2>2, <2>3, SameHeld
<1>4. CASE List(w)
  <2>1. old.pc = "list" /\ old.op \in {"move", "restore", "save"}
    BY <1>1, <1>4 DEF List, EditHeld
  <2>2. \/ GivesUp(w)
        \/ old.op = "move" /\ Edits(w, rows(MoveRows(files, old.at, old.to)))
        \/ old.op = "restore" /\ Edits(w, rows(RestoreRows(files, old.tree)))
        \/ old.op = "save" /\ Edits(w, save)
    BY <1>4, <2>1 DEF List, rows, save
  <2>3. HeldRows(blob, MoveRows(files, old.at, old.to))
    BY <1>1, MoveRowsHeld
  <2>4. old.op = "restore" => HeldRows(blob, RestoreRows(files, old.tree))
    <3>1. old.op = "restore" => HeldTree(blob, old.tree)
      BY <1>1, <2>1 DEF EditHeld
    <3>2. QED
      BY <3>1, PutsHeld, DeletionsHeld, JoinHeld DEF RestoreRows
  <2>5. \A todo : HeldRows(blob, todo) /\ old.op # "save" => EditHeld(blob, rows(todo))
    BY <1>1, <1>2, <2>1, NewRowsHeld
  <2>6. EditHeld(blob, save)
    BY <1>1, <1>2 DEF EditHeld
  <2>7. QED
    BY <2>2, <2>3, <2>4, <2>5, <2>6, SameHeld, StopHeld
<1>5. QED
  BY <1>3, <1>4

LEMMA RowHeld ==
  ASSUME HeldInv, NEW w \in Writers, DeleteRow(w) \/ GetRow(w) \/ PutRow(w) \/ RowsDone(w),
         UNCHANGED <<files, versions, blob>>
  PROVE  HeldInv'
<1> DEFINE old == edit[w]
           done == [old EXCEPT !.todo = Tail(@), !.pc = "rows"]
           deleted(p) == [done EXCEPT !.mine[p] = None, !.removed = TRUE]
           put(yes) == [old EXCEPT !.pc = "put", !.found = yes]
           upserted(p, c) == [done EXCEPT !.mine[p] = c]
           finished == [old EXCEPT !.pc = "touch"]
           Same(rec) == /\ DOMAIN rec = EditFields
                        /\ rec.more = old.more /\ rec.op = old.op /\ rec.tree = old.tree
                        /\ rec.content = old.content
<1>1. /\ EditHeld(blob, old) /\ old.pc \in {"rows", "put"}
      /\ (old.pc = "put" => old.todo # <<>>)
  BY OldHeld DEF EditHeld, DeleteRow, GetRow, PutRow, RowsDone
<1>2. /\ Same(done) /\ done.mine = old.mine /\ done.todo = Tail(old.todo) /\ done.pc = "rows"
      /\ \A yes : LET rec == put(yes)
                  IN Same(rec) /\ rec.mine = old.mine /\ rec.todo = old.todo /\ rec.pc = "put"
      /\ Same(finished) /\ finished.mine = old.mine /\ finished.todo = old.todo
      /\ finished.pc = "touch"
  BY <1>1 DEF EditFields, EditHeld
<1> HIDE DEF done, put, finished
<1>3. /\ \A p : LET rec == deleted(p)
                IN /\ Same(rec) /\ rec.todo = done.todo /\ rec.pc = "rows"
                   /\ rec.mine = [done.mine EXCEPT ![p] = None]
      /\ \A p, c : LET rec == upserted(p, c)
                   IN /\ Same(rec) /\ rec.todo = done.todo /\ rec.pc = "rows"
                      /\ rec.mine = [done.mine EXCEPT ![p] = c]
  BY <1>2 DEF EditFields
<1> HIDE DEF deleted, upserted
<1>4. old.todo # <<>> => EditHeld(blob, done)
  BY <1>1, <1>2, TailHeld DEF EditHeld
<1>5. ASSUME old.todo # <<>>, NEW rec, NEW p, NEW c, Held(blob, c),
             Same(rec), rec.todo = done.todo, rec.pc = "rows", rec.mine = [done.mine EXCEPT ![p] = c]
      PROVE  EditHeld(blob, rec)
  <2>1. EditHeld(blob, done)
    BY <1>4, <1>5
  <2>2. DOMAIN rec.mine = Paths /\ \A q \in Paths : rec.mine[q] = Kept \/ Held(blob, rec.mine[q])
    BY <1>5, <2>1 DEF EditHeld
  <2>3. QED
    BY <1>2, <1>5, <2>1, <2>2 DEF EditHeld
<1>6. CASE DeleteRow(w)
  <2>1. old.todo # <<>> /\ (Edits(w, done) \/ \E p : Edits(w, deleted(p)))
    BY <1>6, Zenon DEF DeleteRow, Done, done, deleted
  <2>2. ASSUME NEW p PROVE EditHeld(blob, deleted(p))
    <3> DEFINE rec == deleted(p)
    <3>1. /\ Same(rec) /\ rec.todo = done.todo /\ rec.pc = "rows"
          /\ rec.mine = [done.mine EXCEPT ![p] = None]
      BY <1>3
    <3>2. Held(blob, None)
      BY DEF Held
    <3> HIDE DEF rec
    <3>3. EditHeld(blob, rec)
      BY <1>5, <2>1, <3>1, <3>2
    <3>4. QED
      BY <3>3 DEF rec
  <2>3. QED
    BY <1>4, <2>1, <2>2, SameHeld
<1>7. CASE GetRow(w)
  <2>1. old.todo # <<>> /\ \E yes : Edits(w, put(yes))
    BY <1>7, Zenon DEF GetRow, put
  <2>2. \A yes : EditHeld(blob, put(yes))
    BY <1>1, <1>2, <2>1, GoesOnHeld
  <2>3. QED
    BY <2>1, <2>2, SameHeld
<1>8. CASE PutRow(w)
  <2>1. old.todo # <<>>
    BY <1>1, <1>8 DEF PutRow
  <2>2. GivesUp(w) \/ \E p : Edits(w, upserted(p, Head(old.todo).content))
    BY <1>8, Zenon DEF PutRow, NextRow, Done, done, upserted
  <2>3. Held(blob, Head(old.todo).content)
    BY <1>1, <2>1, TailHeld DEF EditHeld
  <2>4. ASSUME NEW p PROVE EditHeld(blob, upserted(p, Head(old.todo).content))
    <3> DEFINE rec == upserted(p, Head(old.todo).content)
    <3>1. /\ Same(rec) /\ rec.todo = done.todo /\ rec.pc = "rows"
          /\ rec.mine = [done.mine EXCEPT ![p] = Head(old.todo).content]
      BY <1>3
    <3> HIDE DEF rec
    <3>2. EditHeld(blob, rec)
      BY <1>5, <2>1, <2>3, <3>1
    <3>3. QED
      BY <3>2 DEF rec
  <2>5. QED
    BY <2>2, <2>4, SameHeld, StopHeld
<1>9. CASE RowsDone(w)
  <2>1. GivesUp(w) \/ Edits(w, finished)
    BY <1>9, Zenon DEF RowsDone, Moved, finished
  <2>2. EditHeld(blob, finished)
    BY <1>1, <1>2, GoesOnHeld
  <2>3. QED
    BY <2>1, <2>2, SameHeld, StopHeld
<1>10. QED
  BY <1>6, <1>7, <1>8, <1>9

LEMMA SaveHeld ==
  ASSUME HeldInv, NEW w \in Writers, Compare(w) \/ Number(w) \/ Insert(w) \/ Touch(w),
         UNCHANGED <<files, versions, blob>>
  PROVE  HeldInv'
<1> DEFINE old == edit[w]
           passed == [old EXCEPT !.number = 1]
           numbered == [old EXCEPT !.pc = "insert", !.number = NextNumber]
           inserted == [old EXCEPT !.pc = "touch"]
           touched == [old EXCEPT !.pc = "commit", !.touched = TRUE]
           Same(rec) == /\ DOMAIN rec = EditFields
                        /\ rec.mine = old.mine /\ rec.todo = old.todo /\ rec.more = old.more
                        /\ rec.op = old.op /\ rec.tree = old.tree /\ rec.content = old.content
<1>1. EditHeld(blob, old) /\ old.pc \in {"number", "insert", "touch"}
  BY OldHeld DEF Compare, Number, Insert, Touch
<1>2. /\ Same(passed) /\ passed.pc = old.pc
      /\ Same(numbered) /\ numbered.pc = "insert"
      /\ Same(inserted) /\ inserted.pc = "touch"
      /\ Same(touched) /\ touched.pc = "commit"
  BY <1>1 DEF EditFields, EditHeld
<1> HIDE DEF passed, numbered, inserted, touched
<1>3. /\ EditHeld(blob, passed) /\ EditHeld(blob, numbered) /\ EditHeld(blob, inserted)
      /\ EditHeld(blob, touched)
  BY <1>1, <1>2, GoesOnHeld
<1>4. \/ GivesUp(w) \/ Edits(w, passed) \/ Edits(w, numbered) \/ Edits(w, inserted)
      \/ Edits(w, touched)
      \/ touched.more # <<>> /\ Edits(w, NextFile(touched))
  BY Zenon DEF Compare, Number, Insert, Touch, Refused, Moved, passed, numbered, inserted, touched
<1>5. touched.more # <<>> => EditHeld(blob, NextFile(touched))
  <2>1. touched.op \in {"restore", "save"} => HeldTree(blob, touched.tree)
    BY <1>2, <1>3 DEF EditHeld
  <2>2. QED
    BY <1>2, <1>3, <2>1, NextFileHeld DEF EditHeld
<1>6. QED
  BY <1>3, <1>4, <1>5, SameHeld, StopHeld

LEMMA CommitHeld ==
  ASSUME HeldInv, NEW w \in Writers, CommitEdit(w)
  PROVE  HeldInv'
<1> DEFINE old == edit[w]
           row == [number |-> old.number, tree |-> old.tree]
           seen(x) == [edit[x] EXCEPT !.since = @ \cup {p \in Paths : Locks(w, p)}]
<1>1. EditHeld(blob, old) /\ old.pc = "commit" /\ blob' = blob /\ row.tree = old.tree
  BY OldHeld DEF CommitEdit, stored
<1>2. /\ versions' = (IF old.op = "save" THEN Append(versions, row) ELSE versions)
      /\ files' = Result(w)
      /\ edit' = [x \in Writers |->
           IF x = w THEN IdleEdit
           ELSE IF edit[x].op \in {"move", "restore"} THEN seen(x) ELSE edit[x]]
  BY DEF CommitEdit
<1>3. ASSUME NEW x \in Writers
      PROVE  EditHeld(blob, seen(x))
  <2> DEFINE rec == seen(x)
  <2>1. EditHeld(blob, edit[x])
    BY OldHeld
  <2>2. /\ DOMAIN rec = EditFields /\ rec.pc = edit[x].pc /\ rec.op = edit[x].op
        /\ rec.mine = edit[x].mine /\ rec.todo = edit[x].todo /\ rec.more = edit[x].more
        /\ rec.content = edit[x].content /\ rec.tree = edit[x].tree
    BY <2>1 DEF EditFields, EditHeld
  <2> HIDE DEF rec
  <2>3. EditHeld(blob, rec)
    BY <2>1, <2>2 DEF EditHeld
  <2>4. QED
    BY <2>3 DEF rec
<1> HIDE DEF seen, row
<1>4. DOMAIN edit' = Writers /\ \A x \in Writers : EditHeld(blob, edit'[x])
  BY <1>2, <1>3, OldHeld, IdleHeld
<1>5. HeldTree(blob, files')
  <2>1. \A p \in Paths : files'[p] = IF old.mine[p] # Kept THEN old.mine[p] ELSE files[p]
    BY <1>2 DEF Result, Locks
  <2>2. QED
    BY <1>1, <2>1 DEF EditHeld, HeldTree, HeldInv
<1>6. (\E S : versions' \in Seq(S)) /\ \A i \in DOMAIN versions' : HeldTree(blob, versions'[i].tree)
  <2>1. CASE old.op # "save"
    BY <1>2, <2>1 DEF HeldInv
  <2>2. CASE old.op = "save"
    <3>1. HeldTree(blob, row.tree)
      BY <1>1, <2>2 DEF EditHeld
    <3>2. PICK S : versions \in Seq(S)
      BY DEF HeldInv
    <3> DEFINE T == S \cup {row}
    <3>3. versions \in Seq(T) /\ row \in T
      BY <3>2
    <3> HIDE DEF T
    <3>4. /\ versions' \in Seq(T)
          /\ \A i \in DOMAIN versions' :
               \/ i \in DOMAIN versions /\ versions'[i] = versions[i]
               \/ versions'[i] = row
      BY <1>2, <2>2, <3>3
    <3>5. QED
      BY <3>1, <3>4 DEF HeldInv
  <2>3. QED
    BY <2>1, <2>2
<1>7. QED
  BY <1>1, <1>4, <1>5, <1>6 DEF HeldInv

LEMMA HeldInitial == TreeInit => HeldInv
<1> SUFFICES ASSUME TreeInit PROVE HeldInv
  OBVIOUS
<1> DEFINE first == [number |-> 1, tree |-> FirstTree]
<1>1. FirstTree \in Tree /\ None \notin Contents
  BY TreeAssumption DEF TreeAssumption
<1>2. DOMAIN blob = Contents
      /\ \A c \in Contents : (\E p \in Paths : FirstTree[p] = c) => blob[c] = FirstFile
  BY DEF TreeInit
<1>3. FirstFile # None
  BY TreeAssumption DEF TreeAssumption, FirstFile
<1>4. HeldTree(blob, FirstTree)
  BY <1>1, <1>2, <1>3 DEF HeldTree, Held, Tree
<1>5. HeldTree(blob, NoTree)
  BY DEF HeldTree, Held, NoTree
<1>6. /\ \/ files = FirstTree /\ versions = <<first>> /\ first.tree = FirstTree
         \/ files = NoTree /\ versions = <<>>
      /\ DOMAIN edit = Writers /\ \A w \in Writers : edit[w] = IdleEdit
  BY DEF TreeInit
<1> HIDE DEF first
<1>7. versions \in Seq({first}) /\ \A i \in DOMAIN versions : HeldTree(blob, versions[i].tree)
  <2>1. CASE versions = <<first>> /\ first.tree = FirstTree
    BY <1>4, <2>1
  <2>2. CASE versions = <<>>
    BY <2>2
  <2>3. QED
    BY <1>6, <2>1, <2>2
<1>8. QED
  BY <1>2, <1>4, <1>5, <1>6, <1>7, IdleHeld DEF HeldInv

LEMMA HeldStep == HeldInv /\ [TreeNext]_treeVars => HeldInv'
<1> SUFFICES ASSUME HeldInv, [TreeNext]_treeVars PROVE HeldInv'
  OBVIOUS
<1>1. CASE UNCHANGED treeVars
  BY <1>1 DEF treeVars, stored, HeldInv
<1>2. ASSUME NEW w \in Writers,
             Begin(w) \/ Proceed(w) \/ (Abandon(w) /\ UNCHANGED <<files, versions, asked>>)
      PROVE  HeldInv'
  <2>1. CASE Begin(w)
    BY <2>1, BeginHeld
  <2>2. CASE Abandon(w) /\ UNCHANGED <<files, versions, asked>>
    BY <2>2, StopHeld DEF Abandon
  <2>3. CASE CommitEdit(w)
    BY <2>3, CommitHeld
  <2>4. CASE (Exists(w) \/ Open(w) \/ Fill(w) \/ Replace(w)) /\ UNCHANGED <<files, versions, asked>>
    BY <2>4, WriteHeld
  <2>5. CASE Unstored(w) /\ UNCHANGED <<files, versions, asked>>
    <3>1. UNCHANGED <<files, versions, blob>>
      BY <2>5 DEF Unstored, stored
    <3>2. QED
      BY <2>5, <3>1, ListHeld, RowHeld, SaveHeld, StopHeld DEF Unstored, BreakDeadlock
  <2>6. QED
    BY <1>2, <2>1, <2>2, <2>3, <2>4, <2>5 DEF Proceed
<1>3. QED
  BY <1>1, <1>2 DEF TreeNext

-----------------------------------------------------------------------------
(* Every file with a name is whole: at an address as under a temporary     *)
(* name, whoever renamed it.                                               *)
WholeAs(full, stopped, requests, f, c) ==
  \/ <<f, c>> \in full
  \/ c \in stopped
  \/ \E w \in Writers :
       requests[w].pc = "fill" /\ requests[w].content = c /\ requests[w].fd = f

WholeInv ==
  /\ DOMAIN blob = Contents /\ DOMAIN temporary = Contents
  /\ \A c \in Contents : /\ blob[c] # None => WholeAs(filled, torn, edit, blob[c], c)
                         /\ temporary[c] # None => WholeAs(filled, torn, edit, temporary[c], c)

(* A whole file stays whole while those who fill files go on doing so.     *)
LEMMA WholeStays ==
  ASSUME filled \subseteq filled', torn \subseteq torn',
         \A x \in Writers : edit[x].pc = "fill" =>
           /\ edit'[x].pc = "fill" /\ edit'[x].content = edit[x].content
           /\ edit'[x].fd = edit[x].fd
  PROVE  \A f, c : WholeAs(filled, torn, edit, f, c) => WholeAs(filled', torn', edit', f, c)
BY DEF WholeAs

(* The steps that touch no file.                                           *)
LEMMA WholeElsewhere ==
  ASSUME HeldInv, WholeInv, NEW w \in Writers, NEW rec, Edits(w, rec), edit[w].pc # "fill",
         UNCHANGED stored
  PROVE  WholeInv'
<1>1. \A x \in Writers : edit[x].pc = "fill" => edit'[x] = edit[x]
  BY DEF Edits, HeldInv
<1>2. \A f, c : WholeAs(filled, torn, edit, f, c) => WholeAs(filled', torn', edit', f, c)
  BY <1>1, WholeStays DEF stored
<1>3. QED
  BY <1>2 DEF WholeInv, stored

LEMMA WholeOpen ==
  ASSUME HeldInv, WholeInv, NEW w \in Writers, Open(w)
  PROVE  WholeInv'
<1> DEFINE c == edit[w].content
           f == IF temporary[c] = None THEN NewFile(c) ELSE temporary[c]
           rec == [edit[w] EXCEPT !.pc = "fill", !.fd = f]
<1>1. /\ edit[w].pc = "open" /\ temporary' = [temporary EXCEPT ![c] = f]
      /\ filled' = filled \ {<<f, c>>} /\ Edits(w, rec) /\ blob' = blob /\ torn' = torn
  BY DEF Open
<1>2. rec.pc = "fill" /\ rec.content = c /\ rec.fd = f
  BY OldHeld DEF EditHeld, EditFields
<1> HIDE DEF rec, f, c
<1>3. edit'[w] = rec /\ \A x \in Writers : edit[x].pc = "fill" => edit'[x] = edit[x]
  BY <1>1 DEF Edits, HeldInv
<1>4. WholeAs(filled', torn', edit', f, c)
  <2>1. edit'[w].pc = "fill" /\ edit'[w].content = c /\ edit'[w].fd = f
    BY <1>2, <1>3
  <2>2. \E x \in Writers : edit'[x].pc = "fill" /\ edit'[x].content = c /\ edit'[x].fd = f
    BY <2>1
  <2>3. QED
    BY <2>2 DEF WholeAs
<1>5. ASSUME NEW g, NEW d, WholeAs(filled, torn, edit, g, d), <<g, d>> # <<f, c>>
      PROVE  WholeAs(filled', torn', edit', g, d)
  BY <1>1, <1>3, <1>5 DEF WholeAs
<1>6. QED
  BY <1>1, <1>4, <1>5 DEF WholeInv

LEMMA WholeStep ==
  ASSUME HeldInv, WholeInv, [TreeNext]_treeVars
  PROVE  WholeInv'
<1>1. CASE UNCHANGED treeVars
  BY <1>1 DEF treeVars, stored, WholeInv, WholeAs
<1>2. ASSUME NEW w \in Writers, Begin(w)
      PROVE  WholeInv'
  <2>1. edit[w].pc = "idle" /\ UNCHANGED stored /\ \E rec : Edits(w, rec)
    BY <1>2, Zenon DEF Begin
  <2>2. QED
    BY <2>1, WholeElsewhere
<1>3. ASSUME NEW w \in Writers, Abandon(w)
      PROVE  WholeInv'
  <2>1. /\ edit'[w] = IdleEdit /\ \A x \in Writers \ {w} : edit'[x] = edit[x]
        /\ UNCHANGED <<blob, temporary, filled>>
    BY <1>3 DEF Abandon, GivesUp, Edits, HeldInv
  <2>2. torn' = IF edit[w].pc = "fill" THEN torn \cup {edit[w].content} ELSE torn
    BY <1>3 DEF Abandon
  <2>3. \A f, c : WholeAs(filled, torn, edit, f, c) => WholeAs(filled', torn', edit', f, c)
    BY <2>1, <2>2 DEF WholeAs
  <2>4. QED
    BY <2>1, <2>3 DEF WholeInv
<1>4. ASSUME NEW w \in Writers, Exists(w) \/ Unstored(w)
      PROVE  WholeInv'
  <2>1. UNCHANGED stored /\ \E rec : Edits(w, rec)
    <3>1. CASE Exists(w) \/ Lookup(w) \/ DeleteRow(w) \/ GetRow(w) \/ PutRow(w) \/ RowsDone(w)
      BY <1>4, <3>1, Zenon DEF Exists, Unstored, Lookup, DeleteRow, GetRow, PutRow, RowsDone,
         Moved, GivesUp
    <3>2. CASE List(w)
      <4>1. edit[w].pc = "list" /\ edit[w].op \in {"move", "restore", "save"}
        BY <3>2, OldHeld DEF List, EditHeld
      <4>2. \E rec : Edits(w, rec)
        BY <3>2, <4>1 DEF List, GivesUp
      <4>3. QED
        BY <1>4, <4>1, <4>2 DEF Exists, Unstored
    <3>3. CASE Compare(w) \/ Number(w) \/ Insert(w) \/ Touch(w) \/ BreakDeadlock(w)
      BY <1>4, <3>3, Zenon DEF Exists, Unstored, Compare, Number, Insert, Touch, BreakDeadlock,
         Moved, GivesUp, Refused
    <3>4. QED
      BY <1>4, <3>1, <3>2, <3>3 DEF Unstored
  <2>2. edit[w].pc # "fill"
    <3>1. BreakDeadlock(w) => \E y : WaitsForRow(w, y)
      BY DEF BreakDeadlock, Stuck
    <3>2. \A y : WaitsForRow(w, y) => edit[w].pc # "fill"
      BY DEF WaitsForRow
    <3>3. QED
      BY <1>4, <3>1, <3>2 DEF Exists, Unstored, Lookup, List, DeleteRow, GetRow, PutRow,
         RowsDone, Compare, Number, Insert, Touch
  <2>3. QED
    BY <2>1, <2>2, WholeElsewhere
<1>5. ASSUME NEW w \in Writers, Fill(w)
      PROVE  WholeInv'
  <2>1. /\ filled' = filled \cup {<<edit[w].fd, edit[w].content>>}
        /\ UNCHANGED <<blob, temporary, torn>>
        /\ \A x \in Writers \ {w} : edit'[x] = edit[x]
    BY <1>5 DEF Fill, Edits, HeldInv
  <2>2. \A f, c : WholeAs(filled, torn, edit, f, c) => WholeAs(filled', torn', edit', f, c)
    BY <2>1 DEF WholeAs
  <2>3. QED
    BY <2>1, <2>2 DEF WholeInv
<1>6. ASSUME NEW w \in Writers, Replace(w)
      PROVE  WholeInv'
  <2> DEFINE c == edit[w].content
  <2>1. /\ edit[w].pc = "replace" /\ UNCHANGED <<filled, torn>>
        /\ \A x \in Writers \ {w} : edit'[x] = edit[x]
    BY <1>6 DEF Replace, GivesUp, Edits, HeldInv
  <2>2. \/ UNCHANGED <<blob, temporary>>
        \/ /\ temporary[c] # None /\ blob' = [blob EXCEPT ![c] = temporary[c]]
           /\ temporary' = [temporary EXCEPT ![c] = None]
    BY <1>6 DEF Replace
  <2>3. \A f, d : WholeAs(filled, torn, edit, f, d) => WholeAs(filled', torn', edit', f, d)
    BY <2>1 DEF WholeAs
  <2>4. QED
    BY <2>2, <2>3 DEF WholeInv
<1>7. ASSUME NEW w \in Writers, CommitEdit(w)
      PROVE  WholeInv'
  <2> DEFINE seen(x) == [edit[x] EXCEPT !.since = @ \cup {p \in Paths : Locks(w, p)}]
  <2>1. /\ edit[w].pc = "commit" /\ UNCHANGED <<blob, temporary, filled, torn>>
        /\ edit' = [x \in Writers |->
             IF x = w THEN IdleEdit
             ELSE IF edit[x].op \in {"move", "restore"} THEN seen(x) ELSE edit[x]]
    BY <1>7 DEF CommitEdit, stored
  <2>2. \A x \in Writers : seen(x).pc = edit[x].pc /\ seen(x).content = edit[x].content
                          /\ seen(x).fd = edit[x].fd
    BY OldHeld DEF EditHeld, EditFields
  <2> HIDE DEF seen
  <2>3. \A f, c : WholeAs(filled, torn, edit, f, c) => WholeAs(filled', torn', edit', f, c)
    BY <2>1, <2>2, WholeStays
  <2>4. QED
    BY <2>1, <2>3 DEF WholeInv
<1>8. QED
  BY <1>1, <1>2, <1>3, <1>4, <1>5, <1>6, <1>7, WholeOpen DEF TreeNext, Proceed

LEMMA WholeInitial == TreeInit => WholeInv
<1> SUFFICES ASSUME TreeInit PROVE WholeInv
  OBVIOUS
<1>1. /\ blob = [c \in Contents |-> IF \E p \in Paths : FirstTree[p] = c THEN FirstFile ELSE None]
      /\ temporary = [c \in Contents |-> None]
      /\ filled = {<<FirstFile, c>> : c \in {d \in Contents : \E p \in Paths : FirstTree[p] = d}}
  BY DEF TreeInit
<1>2. \A c \in Contents : blob[c] # None => blob[c] = FirstFile /\ <<FirstFile, c>> \in filled
  BY <1>1
<1>3. QED
  BY <1>1, <1>2 DEF WholeInv, WholeAs

(* The content of every committed row, of the tree and of the versions,    *)
(* can be read; it is whole unless a request is filling its file, having   *)
(* found it under the temporary name, or was stopped while it did.         *)
THEOREM ContentsCanBeRead == TreeSpec => []RowsHaveContent
<1>1. HeldInv /\ WholeInv => RowsHaveContent
  <2> SUFFICES ASSUME HeldInv, WholeInv, NEW c \in Contents, c \in Referred
               PROVE  blob[c] # None /\ Whole(blob[c], c)
    BY DEF RowsHaveContent
  <2>1. Held(blob, c)
    BY DEF Referred, HeldInv, HeldTree
  <2>2. blob[c] # None
    BY <2>1, TreeAssumption DEF Held, TreeAssumption
  <2>3. QED
    BY <2>2 DEF WholeInv, WholeAs, Whole
<1>2. TreeInit => HeldInv /\ WholeInv
  BY HeldInitial, WholeInitial
<1>3. HeldInv /\ WholeInv /\ [TreeNext]_treeVars => HeldInv' /\ WholeInv'
  BY HeldStep, WholeStep
<1>4. QED
  BY <1>1, <1>2, <1>3, PTL DEF TreeSpec

-----------------------------------------------------------------------------
(* A restore.  The last row to come for a path gives it the version's      *)
(* content; when none is to come, the path has it: in the row the request  *)
(* has changed, or else in the committed one, unless others have committed *)
(* the path since the tree was listed.                                     *)
WillBe(rows, p, c) ==
  \E i \in DOMAIN rows :
    /\ rows[i].path = p /\ rows[i].content = c
    /\ \A j \in DOMAIN rows : i < j => rows[j].path # p

NoRow(rows, p) == \A j \in DOMAIN rows : rows[j].path # p

Restored(tree, rec, p) ==
  \/ WillBe(rec.todo, p, rec.tree[p])
  \/ /\ NoRow(rec.todo, p)
     /\ rec.tree[p] = IF rec.mine[p] = Kept THEN tree[p] ELSE rec.mine[p]

EditRestores(tree, rec) ==
  rec.pc # "idle" /\ rec.op = "restore" =>
    /\ rec.pc \in {"list", "rows", "put", "touch", "commit"}
    /\ rec.more = <<>>
    /\ rec.pc = "list" => rec.mine = Untouched
    /\ rec.pc \in {"touch", "commit"} => rec.todo = <<>>
    /\ rec.pc # "list" => \A p \in Paths : p \in rec.since \/ Restored(tree, rec, p)

RestoreInv == \A w \in Writers : EditRestores(files, edit[w])

LEMMA UnderAll == \A p \in Paths : Under(<<>>, p)
<1> SUFFICES ASSUME NEW p \in Paths PROVE Under(<<>>, p)
  OBVIOUS
<1>1. p \in Seq(Range(p))
  BY TreeAssumption DEF TreeAssumption
<1>2. Len(<<>>) = 0 /\ Len(p) \in Nat
  BY <1>1
<1>3. SubSeq(<<>>, 1, 0) = <<>> /\ SubSeq(p, 1, 0) = <<>>
  BY <1>1
<1>4. QED
  BY <1>2, <1>3 DEF Under, IsPrefix

(* Deleting everything and putting the version leaves the version.         *)
LEMMA RestoreRowsGive ==
  ASSUME NEW tree, NEW version, NEW p \in Paths
  PROVE  \/ WillBe(RestoreRows(tree, version), p, version[p])
         \/ NoRow(RestoreRows(tree, version), p) /\ version[p] = tree[p]
<1> DEFINE gone == InOrder({q \in Present(tree) : Under(<<>>, q)})
           entries == InOrder(Present(version))
           put(q) == [path |-> q, content |-> version[q]]
           deletions == Deletions(tree, <<>>)
           puts == VersionRows(version)
           rows == RestoreRows(tree, version)
<1>1. {q \in Present(tree) : Under(<<>>, q)} = Present(tree)
  BY UnderAll DEF Present
<1>2. Present(tree) \in SUBSET Paths /\ Present(version) \in SUBSET Paths
  BY DEF Present
<1>3. /\ gone \in Seq(Present(tree)) /\ entries \in Seq(Present(version))
      /\ \A m, n \in DOMAIN gone : gone[m] = gone[n] => m = n
      /\ \A m, n \in DOMAIN entries : entries[m] = entries[n] => m = n
      /\ \A q \in Present(tree) : \E n \in DOMAIN gone : gone[n] = q
      /\ \A q \in Present(version) : \E n \in DOMAIN entries : entries[n] = q
  BY <1>1, <1>2, InOrderFacts
<1> DEFINE m == Len(gone)
           n == Len(entries)
<1>4. deletions = [i \in DOMAIN gone |-> DeleteOf(gone[i])]
  BY DEF Deletions
<1>5. puts = [i \in DOMAIN entries |-> put(entries[i])]
  BY DEF VersionRows
<1>6. rows = deletions \o puts
  BY DEF RestoreRows
<1> HIDE DEF gone, entries, deletions, puts, rows
<1>7. m \in Nat /\ n \in Nat /\ DOMAIN gone = 1..m /\ DOMAIN entries = 1..n
  BY <1>3
<1> HIDE DEF m, n
<1>8. /\ deletions \in Seq({DeleteOf(q) : q \in Present(tree)}) /\ Len(deletions) = m
      /\ puts \in Seq({put(q) : q \in Present(version)}) /\ Len(puts) = n
  BY <1>3, <1>4, <1>5, <1>7
<1> DEFINE late(i) == rows[m + i]
<1>9. /\ DOMAIN rows = 1..(m + n)
      /\ \A i \in 1..m : rows[i] = DeleteOf(gone[i])
      /\ \A i \in 1..n : late(i) = put(entries[i])
  <2> DEFINE T == {DeleteOf(q) : q \in Present(tree)} \cup {put(q) : q \in Present(version)}
  <2>1. deletions \in Seq(T) /\ puts \in Seq(T)
    BY <1>8
  <2> HIDE DEF T, put
  <2>2. /\ DOMAIN rows = 1..(m + n)
        /\ \A i \in 1..(m + n) : rows[i] = IF i <= m THEN deletions[i] ELSE puts[i - m]
    BY <1>6, <1>7, <1>8, <2>1
  <2>3. \A i \in 1..n : m + i \in 1..(m + n) /\ ~(m + i <= m) /\ (m + i) - m = i
    BY <1>7
  <2>4. QED
    BY <1>4, <1>5, <1>7, <2>2, <2>3
<1>10. /\ \A i \in 1..m : rows[i].path = gone[i] /\ rows[i].content = None
       /\ \A i \in 1..n : late(i).path = entries[i] /\ late(i).content = version[entries[i]]
  <2> HIDE DEF late
  <2>1. \A q : DeleteOf(q).path = q /\ DeleteOf(q).content = None
    BY DEF DeleteOf
  <2>2. \A q : put(q).path = q /\ put(q).content = version[q]
    OBVIOUS
  <2> HIDE DEF put
  <2>3. QED
    BY <1>9, <2>1, <2>2
<1>11. ASSUME NEW j \in 1..(m + n), j \notin 1..m
       PROVE  \E i \in 1..n : j = m + i /\ rows[j] = late(i)
  <2>1. j - m \in 1..n /\ j = m + (j - m)
    BY <1>7, <1>11
  <2>2. QED
    BY <2>1
<1> HIDE DEF put, late
<1>12. CASE version[p] # None
  <2>1. PICK i \in 1..n : entries[i] = p
    BY <1>3, <1>7, <1>12 DEF Present
  <2>2. m + i \in DOMAIN rows /\ rows[m + i].path = p /\ rows[m + i].content = version[p]
    <3>1. m + i \in 1..(m + n)
      BY <1>7
    <3>2. QED
      BY <1>9, <1>10, <2>1, <3>1 DEF late
  <2>3. ASSUME NEW j \in DOMAIN rows, m + i < j PROVE rows[j].path # p
    <3>1. j \in 1..(m + n) /\ j \notin 1..m
      BY <1>7, <1>9, <2>3
    <3>2. PICK k \in 1..n : j = m + k /\ rows[j] = late(k)
      BY <1>11, <3>1
    <3>3. k # i
      BY <1>7, <2>3, <3>2
    <3>4. entries[k] # p
      BY <1>3, <1>7, <2>1, <3>3
    <3>5. QED
      BY <1>10, <3>2, <3>4
  <2>4. QED
    BY <2>2, <2>3 DEF WillBe, rows
<1>13. CASE version[p] = None
  <2>1. \A i \in 1..n : late(i).path # p
    <3>1. \A i \in 1..n : entries[i] \in Present(version)
      BY <1>3, <1>7
    <3>2. p \notin Present(version)
      BY <1>13 DEF Present
    <3>3. QED
      BY <1>10, <3>1, <3>2
  <2>2. CASE tree[p] = None
    <3>1. \A i \in 1..m : rows[i].path # p
      BY <1>3, <1>7, <1>10, <2>2 DEF Present
    <3>2. NoRow(rows, p)
      BY <1>9, <1>11, <2>1, <3>1 DEF NoRow
    <3>3. QED
      BY <1>13, <2>2, <3>2 DEF rows
  <2>3. CASE tree[p] # None
    <3>1. PICK i \in 1..m : gone[i] = p
      BY <1>3, <1>7, <2>3 DEF Present
    <3>2. i \in DOMAIN rows /\ rows[i].path = p /\ rows[i].content = None
      BY <1>7, <1>9, <1>10, <3>1
    <3>3. ASSUME NEW j \in DOMAIN rows, i < j PROVE rows[j].path # p
      <4>1. CASE j \in 1..m
        <5>1. j # i
          BY <1>7, <3>3
        <5>2. gone[j] # p
          BY <1>3, <1>7, <3>1, <4>1, <5>1
        <5>3. QED
          BY <1>10, <4>1, <5>2
      <4>2. CASE j \notin 1..m
        BY <1>9, <1>11, <2>1, <4>2
      <4>3. QED
        BY <4>1, <4>2
    <3>4. QED
      BY <1>13, <3>2, <3>3 DEF WillBe, rows
  <2>4. QED
    BY <2>2, <2>3
<1>14. QED
  BY <1>12, <1>13

LEMMA RowGone ==
  ASSUME NEW rows, \E T : rows \in Seq(T), rows # <<>>, NEW p, NEW c
  PROVE  /\ NoRow(rows, p) => NoRow(Tail(rows), p) /\ Head(rows).path # p
         /\ WillBe(rows, p, c) =>
              \/ WillBe(Tail(rows), p, c)
              \/ NoRow(Tail(rows), p) /\ Head(rows).path = p /\ Head(rows).content = c
<1>1. PICK T : rows \in Seq(T)
  OBVIOUS
<1> DEFINE n == Len(rows)
           rest == Tail(rows)
<1>2. /\ n \in Nat \ {0} /\ DOMAIN rows = 1..n /\ Head(rows) = rows[1]
      /\ DOMAIN rest = 1..(n - 1) /\ \A j \in 1..(n - 1) : rest[j] = rows[j + 1]
  BY <1>1
<1> HIDE DEF n, rest
<1>3. ASSUME NoRow(rows, p)
      PROVE  NoRow(rest, p) /\ Head(rows).path # p
  <2>1. \A j \in 1..n : rows[j].path # p
    BY <1>2, <1>3 DEF NoRow
  <2>2. 1 \in 1..n /\ \A j \in 1..(n - 1) : j + 1 \in 1..n
    BY <1>2
  <2>3. \A j \in 1..(n - 1) : rest[j].path # p
    BY <1>2, <2>1, <2>2
  <2>4. QED
    BY <1>2, <2>1, <2>2, <2>3 DEF NoRow
<1>4. ASSUME WillBe(rows, p, c)
      PROVE  \/ WillBe(rest, p, c)
             \/ NoRow(rest, p) /\ Head(rows).path = p /\ Head(rows).content = c
  <2>1. PICK i \in 1..n : /\ rows[i].path = p /\ rows[i].content = c
                         /\ \A j \in 1..n : i < j => rows[j].path # p
    BY <1>2, <1>4 DEF WillBe
  <2>2. CASE i = 1
    BY <1>2, <2>1, <2>2 DEF NoRow
  <2>3. CASE i # 1
    <3>1. i - 1 \in 1..(n - 1) /\ rest[i - 1] = rows[i]
      BY <1>2, <2>3
    <3>2. \A j \in 1..(n - 1) : i - 1 < j => rest[j].path # p
      BY <1>2, <2>1
    <3>3. QED
      BY <1>2, <2>1, <3>1, <3>2 DEF WillBe
  <2>4. QED
    BY <2>2, <2>3
<1>5. QED
  BY <1>3, <1>4 DEF rest

(* A step of one request that commits nothing.                             *)
LEMMA RestoresKeeps ==
  ASSUME HeldInv, RestoreInv, NEW w \in Writers, NEW rec, Edits(w, rec), EditRestores(files, rec),
         files' = files
  PROVE  RestoreInv'
<1>1. \A x \in Writers : edit'[x] = IF x = w THEN rec ELSE edit[x]
  BY DEF Edits, HeldInv
<1>2. \A x \in Writers : EditRestores(files', edit'[x])
  BY <1>1 DEF RestoreInv
<1>3. QED
  BY <1>2 DEF RestoreInv

LEMMA StopRestores ==
  ASSUME HeldInv, RestoreInv, NEW w \in Writers, GivesUp(w), files' = files
  PROVE  RestoreInv'
<1>1. EditRestores(files, IdleEdit)
  BY IdleHeld DEF EditRestores
<1>2. QED
  BY <1>1, RestoresKeeps DEF GivesUp

(* The steps that a restore does not take.                                 *)
LEMMA OtherRestores ==
  ASSUME HeldInv, RestoreInv, NEW w \in Writers, UNCHANGED <<files, versions, asked>>,
         \/ Exists(w) \/ Open(w) \/ Fill(w) \/ Replace(w) \/ Lookup(w)
         \/ Compare(w) \/ Number(w) \/ Insert(w)
  PROVE  RestoreInv'
<1> DEFINE old == edit[w]
           at(pc) == [old EXCEPT !.pc = pc]
           fill(f) == [old EXCEPT !.pc = "fill", !.fd = f]
           written == [old EXCEPT !.pc = "replace", !.fd = None]
           ready(todo) == [old EXCEPT !.pc = "rows", !.todo = todo]
           found(removed, todo) == [old EXCEPT !.pc = "rows", !.removed = removed, !.todo = todo]
           passed == [old EXCEPT !.number = 1]
           numbered(n) == [old EXCEPT !.pc = "insert", !.number = n]
<1>1. old.pc \in {"exists", "open", "fill", "replace", "lookup", "number", "insert"}
  BY DEF Exists, Open, Fill, Replace, Lookup, Compare, Number, Insert
<1>2. old.op # "restore"
  BY <1>1 DEF RestoreInv, EditRestores
<1>3. /\ \A pc : at(pc).op = old.op
      /\ \A f : fill(f).op = old.op
      /\ written.op = old.op
      /\ \A todo : ready(todo).op = old.op
      /\ \A removed, todo : found(removed, todo).op = old.op
      /\ passed.op = old.op
      /\ \A n : numbered(n).op = old.op
  BY OldHeld DEF EditHeld, EditFields
<1>4. \/ GivesUp(w)
      \/ \E pc : Edits(w, at(pc))
      \/ \E f : Edits(w, fill(f))
      \/ Edits(w, written)
      \/ \E todo : Edits(w, ready(todo))
      \/ \E removed, todo : Edits(w, found(removed, todo))
      \/ Edits(w, passed)
      \/ \E n : Edits(w, numbered(n))
  <2>1. CASE Exists(w) \/ Open(w)
    BY <2>1, Zenon DEF Exists, Open, Moved
  <2>2. CASE Fill(w) \/ Replace(w) \/ Lookup(w)
    BY <2>2, Zenon DEF Fill, Replace, Lookup
  <2>3. CASE Compare(w) \/ Number(w) \/ Insert(w)
    BY <2>3, Zenon DEF Compare, Number, Insert, Refused, Moved
  <2>4. QED
    BY <2>1, <2>2, <2>3
<1> HIDE DEF at, fill, written, ready, found, passed, numbered
<1>5. ASSUME NEW rec, Edits(w, rec), rec.op = old.op PROVE RestoreInv'
  <2>1. EditRestores(files, rec)
    BY <1>2, <1>5 DEF EditRestores
  <2>2. QED
    BY <1>5, <2>1, RestoresKeeps
<1>6. QED
  BY <1>3, <1>4, <1>5, StopRestores

LEMMA BeginRestores ==
  ASSUME HeldInv, RestoreInv, NEW w \in Writers, Begin(w)
  PROVE  RestoreInv'
<1> DEFINE write(rows) == [IdleEdit EXCEPT !.op = "write", !.more = rows]
           delete(loc) == [IdleEdit EXCEPT !.pc = "lookup", !.op = "delete", !.at = loc]
           move(m) == [IdleEdit EXCEPT !.pc = "list", !.op = "move", !.at = m[1], !.to = m[2]]
           save == [IdleEdit EXCEPT !.pc = "list", !.op = "save"]
           restore(tree) == [IdleEdit EXCEPT !.pc = "list", !.op = "restore", !.tree = tree]
<1>1. files' = files
  BY DEF Begin
<1>2. \/ \E rows : Edits(w, NextFile(write(rows)))
      \/ \E loc : Edits(w, delete(loc))
      \/ \E m : Edits(w, move(m))
      \/ Edits(w, save)
      \/ \E tree : Edits(w, restore(tree))
  BY Zenon DEF Begin
<1>3. /\ \A rows : NextFile(write(rows)).op = "write"
      /\ \A loc : delete(loc).op = "delete"
      /\ \A m : move(m).op = "move"
      /\ save.op = "save"
      /\ \A tree : /\ restore(tree).pc = "list" /\ restore(tree).more = <<>>
                   /\ restore(tree).mine = Untouched
  BY IdleHeld DEF NextFile, EditFields
<1> HIDE DEF write, delete, move, save, restore
<1>4. ASSUME NEW rec, Edits(w, rec),
             \/ rec.op \in {"write", "delete", "move", "save"}
             \/ rec.pc = "list" /\ rec.more = <<>> /\ rec.mine = Untouched
      PROVE  RestoreInv'
  <2>1. EditRestores(files, rec)
    BY <1>4 DEF EditRestores
  <2>2. QED
    BY <1>1, <1>4, <2>1, RestoresKeeps
<1>5. QED
  BY <1>2, <1>3, <1>4

LEMMA ListRestores ==
  ASSUME HeldInv, RestoreInv, NEW w \in Writers, List(w), files' = files
  PROVE  RestoreInv'
<1> DEFINE old == edit[w]
           rows(todo) == [old EXCEPT !.pc = "rows", !.since = {}, !.todo = todo]
           save == [old EXCEPT !.pc = "number", !.tree = files]
<1>1. /\ EditHeld(blob, old) /\ EditRestores(files, old)
      /\ old.pc = "list" /\ old.op \in {"move", "restore", "save"}
  BY OldHeld DEF List, EditHeld, RestoreInv
<1>2. \/ GivesUp(w)
      \/ old.op = "move" /\ \E todo : Edits(w, rows(todo))
      \/ old.op = "restore" /\ Edits(w, rows(RestoreRows(files, old.tree)))
      \/ old.op = "save" /\ Edits(w, save)
  BY <1>1 DEF List
<1>3. /\ \A todo : LET rec == rows(todo)
                   IN /\ rec.op = old.op /\ rec.pc = "rows" /\ rec.todo = todo
                      /\ rec.mine = old.mine /\ rec.more = old.more /\ rec.tree = old.tree
      /\ save.op = old.op
  BY <1>1 DEF EditHeld, EditFields
<1> HIDE DEF rows, save
<1>4. old.op = "move" => \A todo : EditRestores(files, rows(todo))
  BY <1>3 DEF EditRestores
<1>5. old.op = "save" => EditRestores(files, save)
  BY <1>3 DEF EditRestores
<1>6. old.op = "restore" => EditRestores(files, rows(RestoreRows(files, old.tree)))
  <2> DEFINE todo == RestoreRows(files, old.tree)
             rec == rows(todo)
  <2> SUFFICES ASSUME old.op = "restore" PROVE EditRestores(files, rec)
    OBVIOUS
  <2>1. rec.pc = "rows" /\ rec.todo = todo /\ rec.mine = Untouched /\ rec.more = <<>>
        /\ rec.tree = old.tree
    BY <1>1, <1>3 DEF EditRestores
  <2>2. ASSUME NEW p \in Paths PROVE Restored(files, rec, p)
    <3>1. WillBe(todo, p, old.tree[p]) \/ (NoRow(todo, p) /\ old.tree[p] = files[p])
      BY RestoreRowsGive
    <3>2. rec.mine[p] = Kept
      BY <2>1, IdleHeld
    <3> HIDE DEF rec, todo
    <3>3. QED
      BY <2>1, <3>1, <3>2 DEF Restored
  <2> HIDE DEF rec, todo
  <2>3. QED
    BY <2>1, <2>2 DEF EditRestores
<1>7. QED
  BY <1>2, <1>4, <1>5, <1>6, RestoresKeeps, StopRestores

LEMMA RowRestores ==
  ASSUME HeldInv, RestoreInv, NEW w \in Writers, files' = files,
         DeleteRow(w) \/ GetRow(w) \/ PutRow(w) \/ RowsDone(w)
  PROVE  RestoreInv'
<1> DEFINE old == edit[w]
           done == [old EXCEPT !.todo = Tail(@), !.pc = "rows"]
           deleted(p) == [done EXCEPT !.mine[p] = None, !.removed = TRUE]
           put(yes) == [old EXCEPT !.pc = "put", !.found = yes]
           upserted(p, c) == [done EXCEPT !.mine[p] = c]
           finished == [old EXCEPT !.pc = "touch"]
           q == Head(old.todo).path
           c == Head(old.todo).content
           Same(rec) == /\ rec.op = old.op /\ rec.tree = old.tree /\ rec.more = old.more
                        /\ rec.since = old.since
<1>1. /\ EditHeld(blob, old) /\ EditRestores(files, old) /\ old.pc \in {"rows", "put"}
      /\ (old.pc = "put" => old.todo # <<>>) /\ DOMAIN old = EditFields
  BY OldHeld DEF EditHeld, DeleteRow, GetRow, PutRow, RowsDone, RestoreInv
<1>2. /\ Same(done) /\ done.mine = old.mine /\ done.todo = Tail(old.todo) /\ done.pc = "rows"
      /\ DOMAIN done = EditFields
      /\ \A yes : LET rec == put(yes)
                  IN Same(rec) /\ rec.mine = old.mine /\ rec.todo = old.todo /\ rec.pc = "put"
      /\ Same(finished) /\ finished.mine = old.mine /\ finished.todo = old.todo
      /\ finished.pc = "touch"
  BY <1>1 DEF EditFields
<1> HIDE DEF done, put, finished
<1>3. /\ LET rec == deleted(q)
         IN /\ Same(rec) /\ rec.todo = Tail(old.todo) /\ rec.pc = "rows"
            /\ rec.mine = [old.mine EXCEPT ![q] = None]
      /\ LET rec == upserted(q, c)
         IN /\ Same(rec) /\ rec.todo = Tail(old.todo) /\ rec.pc = "rows"
            /\ rec.mine = [old.mine EXCEPT ![q] = c]
  BY <1>2 DEF EditFields
<1> HIDE DEF deleted, upserted
<1>4. /\ old.todo # <<>> => \E T : old.todo \in Seq(T)
      /\ old.todo # <<>> => Held(blob, c)
      /\ DOMAIN old.mine = Paths
  BY <1>1, TailHeld DEF EditHeld, HeldRows
<1>5. \A d : Held(blob, d) => d # Kept
  BY TreeAssumption DEF TreeAssumption, Held
<1>6. ASSUME old.todo # <<>>, NEW rec, Same(rec), rec.todo = Tail(old.todo), rec.pc = "rows",
             \/ rec.mine = old.mine /\ c = None
                /\ (q \in Paths => old.mine[q] = Kept /\ files[q] = None)
             \/ rec.mine = [old.mine EXCEPT ![q] = c]
      PROVE  EditRestores(files, rec)
  <2> SUFFICES ASSUME old.op = "restore", NEW p \in Paths, p \notin old.since
               PROVE  Restored(files, rec, p)
    BY <1>1, <1>6 DEF EditRestores
  <2>1. Restored(files, old, p)
    BY <1>1 DEF EditRestores
  <2>2. /\ NoRow(old.todo, p) => NoRow(Tail(old.todo), p) /\ q # p
        /\ WillBe(old.todo, p, old.tree[p]) =>
             \/ WillBe(Tail(old.todo), p, old.tree[p])
             \/ NoRow(Tail(old.todo), p) /\ q = p /\ c = old.tree[p]
    BY <1>4, <1>6, RowGone
  <2> HIDE DEF q, c
  <2>3. q # p => rec.mine[p] = old.mine[p]
    BY <1>4, <1>6
  <2>4. q = p => old.tree[p] # c
                 \/ old.tree[p] = IF rec.mine[p] = Kept THEN files[p] ELSE rec.mine[p]
    BY <1>4, <1>5, <1>6
  <2>5. QED
    BY <1>6, <2>1, <2>2, <2>3, <2>4 DEF Restored
<1>7. CASE DeleteRow(w)
  <2>1. /\ old.todo # <<>> /\ c = None
        /\ \/ old.mine[q] = Kept /\ files[q] = None /\ Edits(w, done)
           \/ Edits(w, deleted(q))
    BY <1>7, Zenon DEF DeleteRow, NextRow, Locks, Done, done, deleted
  <2> HIDE DEF q, c
  <2>2. old.mine[q] = Kept /\ files[q] = None => EditRestores(files, done)
    BY <1>2, <1>6, <2>1
  <2> DEFINE rec == deleted(q)
  <2>3. /\ Same(rec) /\ rec.todo = Tail(old.todo) /\ rec.pc = "rows"
        /\ rec.mine = [old.mine EXCEPT ![q] = c]
    BY <1>3, <2>1
  <2> HIDE DEF rec
  <2>4. EditRestores(files, rec)
    BY <1>6, <2>1, <2>3
  <2>5. QED
    BY <2>1, <2>2, <2>4, RestoresKeeps DEF rec
<1>8. CASE GetRow(w)
  <2>1. old.todo # <<>> /\ old.pc = "rows" /\ \E yes : Edits(w, put(yes))
    BY <1>8, Zenon DEF GetRow, put
  <2>2. ASSUME NEW rec, Same(rec), rec.mine = old.mine, rec.todo = old.todo, rec.pc = "put"
        PROVE  EditRestores(files, rec)
    BY <1>1, <2>1, <2>2 DEF EditRestores, Restored
  <2>3. \A yes : EditRestores(files, put(yes))
    BY <1>2, <2>2
  <2>4. QED
    BY <2>1, <2>3, RestoresKeeps
<1>9. CASE PutRow(w)
  <2>1. old.todo # <<>>
    BY <1>1, <1>9 DEF PutRow
  <2>2. GivesUp(w) \/ Edits(w, upserted(q, c))
    BY <1>9, Zenon DEF PutRow, NextRow, Done, done, upserted
  <2> HIDE DEF q, c
  <2> DEFINE rec == upserted(q, c)
  <2>3. /\ Same(rec) /\ rec.todo = Tail(old.todo) /\ rec.pc = "rows"
        /\ rec.mine = [old.mine EXCEPT ![q] = c]
    BY <1>3
  <2> HIDE DEF rec
  <2>4. EditRestores(files, rec)
    BY <1>6, <2>1, <2>3
  <2>5. QED
    BY <2>2, <2>4, RestoresKeeps, StopRestores DEF rec
<1>10. CASE RowsDone(w)
  <2>1. old.todo = <<>> /\ old.pc = "rows" /\ (GivesUp(w) \/ Edits(w, finished))
    BY <1>10, Zenon DEF RowsDone, Moved, finished
  <2>2. EditRestores(files, finished)
    BY <1>1, <1>2, <2>1 DEF EditRestores, Restored
  <2>3. QED
    BY <2>1, <2>2, RestoresKeeps, StopRestores
<1>11. QED
  BY <1>7, <1>8, <1>9, <1>10

LEMMA TouchRestores ==
  ASSUME HeldInv, RestoreInv, NEW w \in Writers, files' = files, Touch(w)
  PROVE  RestoreInv'
<1> DEFINE old == edit[w]
           rec == [old EXCEPT !.pc = "commit", !.touched = TRUE]
<1>1. DOMAIN old = EditFields /\ EditRestores(files, old) /\ old.pc = "touch"
  BY OldHeld DEF EditHeld, Touch, RestoreInv
<1>2. /\ rec.op = old.op /\ rec.pc = "commit" /\ rec.more = old.more /\ rec.mine = old.mine
      /\ rec.todo = old.todo /\ rec.tree = old.tree /\ rec.since = old.since
      /\ DOMAIN rec = EditFields
  BY <1>1 DEF EditFields
<1>3. Edits(w, IF rec.more = <<>> THEN rec ELSE NextFile(rec))
  BY DEF Touch
<1> HIDE DEF rec
<1>4. EditRestores(files, rec)
  BY <1>1, <1>2 DEF EditRestores, Restored
<1>5. rec.more # <<>> => EditRestores(files, NextFile(rec))
  BY <1>1, <1>2, NextFileFields DEF EditRestores
<1>6. QED
  BY <1>3, <1>4, <1>5, RestoresKeeps

LEMMA CommitRestores ==
  ASSUME HeldInv, RestoreInv, NEW w \in Writers, CommitEdit(w)
  PROVE  RestoreInv'
<1> DEFINE locked == {p \in Paths : Locks(w, p)}
           seen(x) == [edit[x] EXCEPT !.since = @ \cup locked]
<1>1. /\ files' = [p \in Paths |-> IF Locks(w, p) THEN edit[w].mine[p] ELSE files[p]]
      /\ edit' = [x \in Writers |->
           IF x = w THEN IdleEdit
           ELSE IF edit[x].op \in {"move", "restore"} THEN seen(x) ELSE edit[x]]
  BY DEF CommitEdit, Result
<1>2. \A p \in Paths : p \notin locked => files'[p] = files[p]
  BY <1>1
<1> HIDE DEF locked
<1>3. ASSUME NEW x \in Writers PROVE EditRestores(files', edit'[x])
  <2> DEFINE rec == seen(x)
  <2>1. DOMAIN edit[x] = EditFields /\ EditRestores(files, edit[x])
    BY OldHeld DEF EditHeld, RestoreInv
  <2>2. /\ rec.op = edit[x].op /\ rec.pc = edit[x].pc /\ rec.more = edit[x].more
        /\ rec.mine = edit[x].mine /\ rec.todo = edit[x].todo /\ rec.tree = edit[x].tree
        /\ rec.since = edit[x].since \cup locked
    BY <2>1 DEF EditFields
  <2>3. edit'[x] = IF x = w THEN IdleEdit
                   ELSE IF edit[x].op \in {"move", "restore"} THEN rec ELSE edit[x]
    BY <1>1
  <2> HIDE DEF rec
  <2>4. CASE x = w
    BY <2>3, <2>4, IdleHeld DEF EditRestores
  <2>5. CASE x # w /\ edit[x].op # "restore"
    BY <2>2, <2>3, <2>5 DEF EditRestores
  <2>6. CASE x # w /\ edit[x].op = "restore"
    <3>1. edit'[x] = rec
      BY <2>3, <2>6
    <3>2. ASSUME NEW p \in Paths, p \notin rec.since, Restored(files, edit[x], p)
          PROVE  Restored(files', rec, p)
      BY <1>2, <2>2, <3>2 DEF Restored
    <3>3. EditRestores(files', rec)
      BY <2>1, <2>2, <3>2 DEF EditRestores
    <3>4. QED
      BY <3>1, <3>3
  <2>7. QED
    BY <2>4, <2>5, <2>6
<1>4. QED
  BY <1>3 DEF RestoreInv

LEMMA RestoreStep ==
  ASSUME HeldInv, RestoreInv, [TreeNext]_treeVars
  PROVE  RestoreInv'
<1>1. CASE UNCHANGED treeVars
  BY <1>1 DEF treeVars, RestoreInv
<1>2. ASSUME NEW w \in Writers,
             Begin(w) \/ Proceed(w) \/ (Abandon(w) /\ UNCHANGED <<files, versions, asked>>)
      PROVE  RestoreInv'
  BY <1>2, BeginRestores, OtherRestores, ListRestores, RowRestores, TouchRestores, CommitRestores,
     StopRestores DEF Proceed, Unstored, BreakDeadlock, Abandon
<1>3. QED
  BY <1>1, <1>2 DEF TreeNext

(* When a restore commits, every path has the content of the version, or   *)
(* none if the version has none, unless another request has committed the  *)
(* path since the restore listed the tree.                                 *)
THEOREM RestoresGiveTheVersion == TreeSpec => RestoreGivesVersion
<1> DEFINE Given ==
      \A w \in Writers :
        edit[w].op = "restore" /\ CommitEdit(w) =>
          \A p \in Paths : files'[p] = edit[w].tree[p] \/ p \in edit[w].since
<1>1. RestoreInv => Given
  <2> SUFFICES ASSUME RestoreInv, NEW w \in Writers, edit[w].op = "restore", CommitEdit(w),
                      NEW p \in Paths, p \notin edit[w].since
               PROVE  files'[p] = edit[w].tree[p]
    BY DEF Given
  <2>1. edit[w].pc = "commit"
    BY DEF CommitEdit
  <2>2. Restored(files, edit[w], p) /\ edit[w].todo = <<>>
    BY <2>1 DEF RestoreInv, EditRestores
  <2>3. ~WillBe(<<>>, p, edit[w].tree[p])
    BY DEF WillBe
  <2>4. edit[w].tree[p] = IF edit[w].mine[p] = Kept THEN files[p] ELSE edit[w].mine[p]
    BY <2>2, <2>3 DEF Restored
  <2>5. QED
    BY <2>4 DEF CommitEdit, Result, Locks
<1>2. TreeInit => RestoreInv
  BY IdleHeld DEF TreeInit, RestoreInv, EditRestores
<1>3. HeldInv /\ RestoreInv /\ [TreeNext]_treeVars => HeldInv' /\ RestoreInv'
  BY HeldStep, RestoreStep
<1>4. QED
  BY <1>1, <1>2, <1>3, HeldInitial, PTL DEF TreeSpec, RestoreGivesVersion, Given

-----------------------------------------------------------------------------
(* Types.  The rows that requests work through are statements about paths. *)
LEMMA DeletionsTyped ==
  ASSUME NEW tree, NEW loc
  PROVE  Deletions(tree, loc) \in Seq(Statement)
<1> DEFINE S == {p \in Present(tree) : Under(loc, p)}
           gone == InOrder(S)
<1>1. S \in SUBSET Paths
  BY DEF Present
<1>2. gone \in Seq(S)
  BY <1>1, InOrderFacts
<1> HIDE DEF gone
<1>3. DOMAIN gone = 1..Len(gone) /\ Len(gone) \in Nat /\ \A i \in DOMAIN gone : gone[i] \in Paths
  BY <1>1, <1>2
<1>4. \A i \in DOMAIN gone : DeleteOf(gone[i]) \in Statement
  BY <1>3 DEF DeleteOf, Statement
<1>5. Deletions(tree, loc) = [i \in DOMAIN gone |-> DeleteOf(gone[i])]
  BY DEF Deletions, gone
<1>6. QED
  BY <1>3, <1>4, <1>5

LEMMA VersionRowsTyped ==
  ASSUME NEW tree \in Tree
  PROVE  VersionRows(tree) \in Seq(Statement)
<1> DEFINE entries == InOrder(Present(tree))
           put(p) == [path |-> p, content |-> tree[p]]
<1>1. Present(tree) \in SUBSET Paths
  BY DEF Present
<1>2. entries \in Seq(Present(tree))
  BY <1>1, InOrderFacts
<1> HIDE DEF entries
<1>3. DOMAIN entries = 1..Len(entries) /\ Len(entries) \in Nat
      /\ \A i \in DOMAIN entries : entries[i] \in Paths
  BY <1>1, <1>2
<1>4. \A p \in Paths : put(p) \in Statement
  BY DEF Statement, Tree
<1>5. VersionRows(tree) = [i \in DOMAIN entries |-> put(entries[i])]
  BY DEF VersionRows, entries
<1> HIDE DEF put
<1>6. QED
  BY <1>3, <1>4, <1>5

LEMMA RestoreRowsTyped ==
  ASSUME NEW tree, NEW version \in Tree
  PROVE  RestoreRows(tree, version) \in Seq(Statement)
<1>1. Deletions(tree, <<>>) \in Seq(Statement) /\ VersionRows(version) \in Seq(Statement)
  BY DeletionsTyped, VersionRowsTyped
<1>2. QED
  BY <1>1 DEF RestoreRows

LEMMA MoveRowsTyped ==
  ASSUME NEW tree \in Tree, NEW m \in Moves
  PROVE  MoveRows(tree, m[1], m[2]) \in Seq(Statement)
<1> DEFINE S == {p \in Present(tree) : Under(m[1], p)}
           from == InOrder(S)
           put(p) == [path |-> Renamed(p, m[1], m[2]), content |-> tree[p]]
           row(k) == IF k % 2 = 1 THEN DeleteOf(from[(k + 1) \div 2]) ELSE put(from[k \div 2])
<1>1. S \in SUBSET Paths /\ \A p \in S : Under(m[1], p)
  BY DEF Present
<1>2. from \in Seq(S)
  BY <1>1, InOrderFacts
<1>3. \A p \in S : put(p) \in Statement
  BY <1>1, MovesAssumption DEF Statement, Tree
<1> HIDE DEF from, S, put
<1>4. MoveRows(tree, m[1], m[2]) = [k \in 1..(2 * Len(from)) |-> row(k)]
  BY DEF MoveRows, from, S, put
<1>5. Len(from) \in Nat /\ \A i \in 1..Len(from) : from[i] \in S
  BY <1>2
<1>6. ASSUME NEW k \in 1..(2 * Len(from)) PROVE row(k) \in Statement
  <2>1. CASE k % 2 = 1
    <3>1. (k + 1) \div 2 \in 1..Len(from)
      BY <1>5, <2>1
    <3>2. row(k) = DeleteOf(from[(k + 1) \div 2])
      BY <2>1
    <3>3. QED
      BY <1>1, <1>5, <3>1, <3>2 DEF DeleteOf, Statement
  <2>2. CASE k % 2 # 1
    <3>1. k \div 2 \in 1..Len(from)
      BY <1>5, <2>2
    <3>2. row(k) = put(from[k \div 2])
      BY <2>2
    <3>3. QED
      BY <1>3, <1>5, <3>1, <3>2
  <2>3. QED
    BY <2>1, <2>2
<1> HIDE DEF row
<1>7. QED
  BY <1>4, <1>5, <1>6

(* What a request knows at each point.                                     *)
EditTyped(rec) ==
  /\ rec \in EditRecord
  /\ rec.pc \in {"exists", "open", "fill", "replace"} => rec.at \in Paths /\ rec.content \in Contents
  /\ rec.pc = "fill" <=> rec.fd # None
  /\ rec.pc = "list" /\ rec.op = "move" => \E m \in Moves : rec.at = m[1] /\ rec.to = m[2]
  /\ rec.pc = "put" => rec.todo # <<>>
  /\ rec.pc = "commit" => rec.touched
  /\ rec.pc # "idle" /\ (rec.op = "restore" \/ (rec.op = "save" /\ rec.pc # "list")) =>
       rec.tree \in Tree

TreeTyped ==
  /\ TreeTypeOK
  /\ \A w \in Writers : EditTyped(edit[w])

(* The new file's number is one that no file of this content bears, so     *)
(* what is written to it reaches no other: of the 1 + |Writers| numbers,   *)
(* the address takes one at most and every other request one.              *)
LEMMA NewFileIsFresh ==
  ASSUME TreeTyped, NEW w \in Writers, edit[w].pc = "open", NEW c \in Contents
  PROVE  /\ NewFile(c) \in Nat
         /\ NewFile(c) # blob[c]
         /\ \A x \in Writers : edit[x].content = c => edit[x].fd # NewFile(c)
<1> DEFINE numbers == 0..Cardinality(Writers)
           held    == {edit[x].fd : x \in {y \in Writers : edit[y].content = c}}
           used    == {blob[c]} \cup held
           others  == {edit[x].fd : x \in Writers \ {w}}
<1>1. IsFiniteSet(Writers) /\ Cardinality(Writers) \in Nat
  BY WritersAssumption, FS_CardinalityType
<1>2. IsFiniteSet(Writers \ {w}) /\ Cardinality(Writers \ {w}) = Cardinality(Writers) - 1
  BY <1>1, FS_RemoveElement
<1>3. IsFiniteSet(others) /\ Cardinality(others) <= Cardinality(Writers) - 1
      /\ Cardinality(others) \in Nat
  <2>1. IsFiniteSet(others) /\ Cardinality(others) <= Cardinality(Writers \ {w})
    <3> DEFINE fd == [x \in Writers \ {w} |-> edit[x].fd]
    <3>1. fd \in Surjection(Writers \ {w}, others)
      BY DEF Surjection
    <3> QED
      BY <1>2, <3>1, FS_Surjection
  <2>2. QED
    BY <1>2, <2>1, FS_CardinalityType
<1>4. IsFiniteSet(others \cup {blob[c]}) /\ Cardinality(others \cup {blob[c]}) <= Cardinality(Writers)
      /\ Cardinality(others \cup {blob[c]}) \in Nat
  <2> HIDE DEF others
  <2>1. /\ IsFiniteSet(others \cup {blob[c]})
        /\ Cardinality(others \cup {blob[c]})
             = IF blob[c] \in others THEN Cardinality(others) ELSE Cardinality(others) + 1
    BY <1>3, FS_AddElement
  <2>2. QED
    BY <1>1, <1>3, <2>1
<1>5. IsFiniteSet(numbers) /\ Cardinality(numbers) = Cardinality(Writers) + 1
  <2> HIDE DEF others
  <2>1. /\ IsFiniteSet(0..Cardinality(Writers))
        /\ Cardinality(0..Cardinality(Writers)) =
             IF 0 > Cardinality(Writers) THEN 0 ELSE Cardinality(Writers) - 0 + 1
    BY <1>1, FS_Interval
  <2>2. QED
    BY <1>1, <2>1
<1>6. \E f \in numbers : f \notin others \cup {blob[c]}
  <2> HIDE DEF numbers, others
  <2>1. ~(numbers \subseteq others \cup {blob[c]})
    <3>1. ASSUME numbers \subseteq others \cup {blob[c]}
          PROVE  Cardinality(numbers) <= Cardinality(others \cup {blob[c]})
      BY <1>4, <3>1, FS_Subset
    <3>2. QED
      BY <1>1, <1>4, <1>5, <3>1
  <2>2. QED
    BY <2>1
<1>7. edit[w].fd = None /\ None \notin Nat
  BY TreeAssumption DEF TreeTyped, EditTyped, TreeAssumption
<1>8. \A f \in numbers : f \notin others \cup {blob[c]} => f \notin used
  BY <1>1, <1>7
<1>9. \E f \in numbers : f \notin used
  BY <1>6, <1>8
<1>10. NewFile(c) = CHOOSE f \in numbers : f \notin used
  BY DEF NewFile
<1>11. NewFile(c) \in numbers /\ NewFile(c) \notin used
  <2> HIDE DEF numbers, used
  <2>1. QED
    BY <1>9, <1>10
<1>12. QED
  BY <1>1, <1>11

(* A request goes on with a typed record; the other requests are as they   *)
(* were, or see that another has committed.                                *)
EditsTyped ==
  /\ edit \in [Writers -> EditRecord]
  /\ \A w \in Writers : EditTyped(edit[w])

LEMMA TypedGoesOn ==
  ASSUME EditsTyped, NEW w \in Writers, NEW rec, Edits(w, rec), EditTyped(rec)
  PROVE  EditsTyped'
<1>1. rec \in EditRecord
  BY DEF EditTyped
<1>2. edit' \in [Writers -> EditRecord]
      /\ \A x \in Writers : edit'[x] = IF x = w THEN rec ELSE edit[x]
  BY <1>1 DEF EditsTyped, Edits
<1>3. \A x \in Writers : EditTyped(edit'[x])
  BY <1>2 DEF EditsTyped
<1>4. QED
  BY <1>2, <1>3 DEF EditsTyped, EditTyped

LEMMA IdleEditTyped == EditTyped(IdleEdit)
<1>1. Untouched \in [Paths -> Contents \cup {None, Kept}]
  BY DEF Untouched
<1>2. <<>> \in Seq(UploadedFile) /\ <<>> \in Seq(Statement)
  OBVIOUS
<1>3. QED
  BY <1>1, <1>2 DEF IdleEdit, EditTyped, EditRecord

LEMMA StopTyped ==
  ASSUME EditsTyped, NEW w \in Writers, GivesUp(w)
  PROVE  EditsTyped'
BY IdleEditTyped, TypedGoesOn DEF GivesUp

LEMMA NextRecord ==
  ASSUME NEW rec \in EditRecord, NEW at \in Locations \cup Paths \cup {m[1] : m \in Moves} \cup {None},
         NEW content \in Contents \cup {None}, NEW rest \in Seq(UploadedFile)
  PROVE  [rec EXCEPT !.pc = "exists", !.at = at, !.content = content, !.more = rest] \in EditRecord
BY DEF EditRecord

(* The next file of an upload is one of its files.                         *)
LEMMA NextFileTyped ==
  ASSUME NEW rec \in EditRecord, rec.fd = None, rec.more # <<>>,
         rec.op \in {"save", "restore"} => rec.tree \in Tree
  PROVE  EditTyped(NextFile(rec))
<1>1. rec.more \in Seq(UploadedFile)
  BY DEF EditRecord
<1> DEFINE file == Head(rec.more)
           rest == Tail(rec.more)
<1>2. file \in UploadedFile /\ rest \in Seq(UploadedFile)
  BY <1>1
<1>3. file.path \in Paths /\ file.content \in Contents
  BY <1>2 DEF UploadedFile
<1>4. NextFile(rec) = [rec EXCEPT !.pc = "exists", !.at = file.path, !.content = file.content, !.more = rest]
  BY DEF NextFile
<1> HIDE DEF file, rest
<1>5. NextFile(rec) \in EditRecord
  <2>1. [rec EXCEPT !.pc = "exists", !.at = file.path, !.content = file.content, !.more = rest]
          \in EditRecord
    BY <1>2, <1>3, NextRecord
  <2>2. QED
    BY <1>4, <2>1
<1>6. /\ NextFile(rec).pc = "exists" /\ NextFile(rec).op = rec.op /\ NextFile(rec).fd = None
      /\ NextFile(rec).tree = rec.tree
      /\ NextFile(rec).at \in Paths /\ NextFile(rec).content \in Contents
  BY <1>3, <1>4 DEF EditRecord
<1>7. QED
  BY <1>5, <1>6 DEF EditTyped

LEMMA BeginTyped ==
  ASSUME TreeTyped, NEW w \in Writers, Begin(w)
  PROVE  EditsTyped'
<1>0. EditsTyped /\ IdleEdit \in EditRecord
  BY IdleEditTyped DEF TreeTyped, TreeTypeOK, EditsTyped, EditTyped
<1>1. ASSUME NEW upload \in Uploads \cup {<<file>> : file \in UploadedFile},
             Edits(w, NextFile([IdleEdit EXCEPT !.op = "write", !.more = upload]))
      PROVE  EditsTyped'
  <2> DEFINE rec == [IdleEdit EXCEPT !.op = "write", !.more = upload]
  <2>1. upload \in Seq(UploadedFile) /\ upload # <<>>
    <3>1. \A file \in UploadedFile : <<file>> \in Seq(UploadedFile) /\ <<file>> # <<>>
      OBVIOUS
    <3>2. QED
      BY <1>1, <3>1, TreeAssumption DEF TreeAssumption
  <2>2. rec \in EditRecord
    BY <1>0, <2>1 DEF EditRecord
  <2>3. rec.fd = None /\ rec.op = "write" /\ rec.more = upload
    BY DEF IdleEdit
  <2> HIDE DEF rec
  <2>4. EditTyped(NextFile(rec))
    BY <2>1, <2>2, <2>3, NextFileTyped
  <2>5. Edits(w, NextFile(rec))
    BY <1>1 DEF rec
  <2>6. QED
    BY <1>0, <2>4, <2>5, TypedGoesOn
<1>2. ASSUME NEW loc \in Locations,
             Edits(w, [IdleEdit EXCEPT !.pc = "lookup", !.op = "delete", !.at = loc])
      PROVE  EditsTyped'
  <2> DEFINE rec == [IdleEdit EXCEPT !.pc = "lookup", !.op = "delete", !.at = loc]
  <2>1. rec \in EditRecord
    BY <1>0 DEF EditRecord
  <2>2. rec.pc = "lookup" /\ rec.op = "delete" /\ rec.fd = None
    BY DEF IdleEdit
  <2>3. EditTyped(rec)
    <3> HIDE DEF rec
    <3>1. QED
      BY <2>1, <2>2 DEF EditTyped
  <2>4. QED
    BY <1>0, <1>2, <2>3, TypedGoesOn
<1>3. ASSUME NEW m \in Moves,
             Edits(w, [IdleEdit EXCEPT !.pc = "list", !.op = "move", !.at = m[1], !.to = m[2]])
      PROVE  EditsTyped'
  <2> DEFINE rec == [IdleEdit EXCEPT !.pc = "list", !.op = "move", !.at = m[1], !.to = m[2]]
  <2>1. rec \in EditRecord
    BY <1>0 DEF EditRecord
  <2>2. rec.pc = "list" /\ rec.op = "move" /\ rec.fd = None /\ rec.at = m[1] /\ rec.to = m[2]
    BY DEF IdleEdit
  <2>3. EditTyped(rec)
    <3> HIDE DEF rec
    <3>1. QED
      BY <2>1, <2>2 DEF EditTyped
  <2>4. QED
    BY <1>0, <1>3, <2>3, TypedGoesOn
<1>4. ASSUME Edits(w, [IdleEdit EXCEPT !.pc = "list", !.op = "save"]) PROVE EditsTyped'
  <2> DEFINE rec == [IdleEdit EXCEPT !.pc = "list", !.op = "save"]
  <2>1. rec \in EditRecord
    BY <1>0 DEF EditRecord
  <2>2. rec.pc = "list" /\ rec.op = "save" /\ rec.fd = None
    BY DEF IdleEdit
  <2>3. EditTyped(rec)
    <3> HIDE DEF rec
    <3>1. QED
      BY <2>1, <2>2 DEF EditTyped
  <2>4. QED
    BY <1>0, <1>4, <2>3, TypedGoesOn
<1>5. ASSUME NEW i \in DOMAIN versions,
             Edits(w, [IdleEdit EXCEPT !.pc = "list", !.op = "restore", !.tree = versions[i].tree])
      PROVE  EditsTyped'
  <2> DEFINE rec == [IdleEdit EXCEPT !.pc = "list", !.op = "restore", !.tree = versions[i].tree]
  <2>1. versions[i].tree \in Tree
    <3> DEFINE Version == [number : Nat, tree : Tree]
    <3>1. versions \in Seq(Version)
      BY DEF TreeTyped, TreeTypeOK
    <3>2. versions[i] \in Version
      <4> HIDE DEF Version
      <4>1. QED
        BY <3>1
    <3>3. QED
      BY <3>2
  <2>2. rec \in EditRecord
    BY <1>0, <2>1 DEF EditRecord
  <2>3. rec.pc = "list" /\ rec.op = "restore" /\ rec.fd = None /\ rec.tree \in Tree
    BY <2>1 DEF IdleEdit
  <2>4. EditTyped(rec)
    <3> HIDE DEF rec
    <3>1. QED
      BY <2>2, <2>3 DEF EditTyped
  <2>5. QED
    BY <1>0, <1>5, <2>4, TypedGoesOn
<1>6. QED
  BY <1>1, <1>2, <1>3, <1>4, <1>5 DEF Begin

(* What the statements do to a request's record.                           *)
LEMMA RecordTyped ==
  ASSUME NEW rec \in EditRecord
  PROVE  /\ \A pc \in {"open", "rows", "number", "insert", "touch", "put"} :
              [rec EXCEPT !.pc = pc] \in EditRecord
         /\ \A rows \in Seq(Statement) :
              /\ [rec EXCEPT !.pc = "rows", !.todo = rows] \in EditRecord
              /\ [rec EXCEPT !.pc = "rows", !.since = {}, !.todo = rows] \in EditRecord
              /\ \A b \in BOOLEAN : [rec EXCEPT !.pc = "rows", !.removed = b, !.todo = rows] \in EditRecord
         /\ \A f \in Nat : [rec EXCEPT !.pc = "fill", !.fd = f] \in EditRecord
         /\ [rec EXCEPT !.pc = "replace", !.fd = None] \in EditRecord
         /\ \A b \in BOOLEAN : [rec EXCEPT !.pc = "put", !.found = b] \in EditRecord
         /\ \A tree \in Tree : [rec EXCEPT !.pc = "number", !.tree = tree] \in EditRecord
         /\ \A n \in Nat : /\ [rec EXCEPT !.number = n] \in EditRecord
                           /\ [rec EXCEPT !.pc = "insert", !.number = n] \in EditRecord
         /\ [rec EXCEPT !.pc = "commit", !.touched = TRUE] \in EditRecord
         /\ \A paths \in SUBSET Paths : [rec EXCEPT !.since = @ \cup paths] \in EditRecord
<1>1. \A pc \in {"open", "rows", "number", "insert", "touch", "put"} :
        [rec EXCEPT !.pc = pc] \in EditRecord
  BY DEF EditRecord
<1>2. ASSUME NEW rows \in Seq(Statement)
      PROVE  /\ [rec EXCEPT !.pc = "rows", !.todo = rows] \in EditRecord
             /\ [rec EXCEPT !.pc = "rows", !.since = {}, !.todo = rows] \in EditRecord
             /\ \A b \in BOOLEAN : [rec EXCEPT !.pc = "rows", !.removed = b, !.todo = rows] \in EditRecord
  <2>1. [rec EXCEPT !.pc = "rows", !.todo = rows] \in EditRecord
    BY DEF EditRecord
  <2>2. [rec EXCEPT !.pc = "rows", !.since = {}, !.todo = rows] \in EditRecord
    BY DEF EditRecord
  <2>3. ASSUME NEW b \in BOOLEAN
        PROVE  [rec EXCEPT !.pc = "rows", !.removed = b, !.todo = rows] \in EditRecord
    BY DEF EditRecord
  <2>4. QED
    BY <2>1, <2>2, <2>3
<1>3. \A f \in Nat : [rec EXCEPT !.pc = "fill", !.fd = f] \in EditRecord
  BY DEF EditRecord
<1>4. [rec EXCEPT !.pc = "replace", !.fd = None] \in EditRecord
  BY DEF EditRecord
<1>5. \A b \in BOOLEAN : [rec EXCEPT !.pc = "put", !.found = b] \in EditRecord
  BY DEF EditRecord
<1>6. \A tree \in Tree : [rec EXCEPT !.pc = "number", !.tree = tree] \in EditRecord
  BY DEF EditRecord
<1>7. \A n \in Nat : /\ [rec EXCEPT !.number = n] \in EditRecord
                     /\ [rec EXCEPT !.pc = "insert", !.number = n] \in EditRecord
  BY DEF EditRecord
<1>8. [rec EXCEPT !.pc = "commit", !.touched = TRUE] \in EditRecord
  BY DEF EditRecord
<1>9. \A paths \in SUBSET Paths : [rec EXCEPT !.since = @ \cup paths] \in EditRecord
  BY DEF EditRecord
<1>10. QED
  BY <1>1, <1>2, <1>3, <1>4, <1>5, <1>6, <1>7, <1>8, <1>9

(* A record with this program counter and these rows is typed when it      *)
(* keeps the tree it had.                                                  *)
LEMMA StaysTyped ==
  ASSUME NEW old, EditTyped(old), old.pc \notin {"idle", "list"}, NEW rec \in EditRecord,
         rec.pc \notin {"exists", "open", "fill", "replace", "list", "idle"},
         rec.fd = None, rec.op = old.op, rec.tree = old.tree,
         rec.pc = "put" => rec.todo # <<>>, rec.pc = "commit" => rec.touched
  PROVE  EditTyped(rec)
BY DEF EditTyped

LEMMA WriteRowTyped ==
  ASSUME NEW w, edit[w].at \in Paths, edit[w].content \in Contents
  PROVE  WriteRow(w) \in Seq(Statement)
<1>1. [path |-> edit[w].at, content |-> edit[w].content] \in Statement
  BY DEF Statement
<1>2. QED
  BY <1>1 DEF WriteRow

(* The files in storage.                                                   *)
StoredTyped ==
  /\ blob \in [Contents -> Nat \cup {None}]
  /\ temporary \in [Contents -> Nat \cup {None}]
  /\ filled \subseteq Nat \X Contents
  /\ torn \subseteq Contents

LEMMA FileTyped ==
  ASSUME TreeTyped, NEW w \in Writers, Exists(w) \/ Open(w) \/ Fill(w) \/ Replace(w)
  PROVE  EditsTyped' /\ StoredTyped'
<1> DEFINE old == edit[w]
           c == old.content
<1>1. /\ EditsTyped /\ StoredTyped /\ EditTyped(old) /\ old \in EditRecord
      /\ old.at \in Paths /\ c \in Contents
  BY DEF TreeTyped, TreeTypeOK, EditsTyped, StoredTyped, EditTyped, Exists, Open, Fill, Replace
<1>2. WriteRow(w) \in Seq(Statement)
  BY <1>1, WriteRowTyped
<1> DEFINE rows == [old EXCEPT !.pc = "rows", !.todo = WriteRow(w)]
<1>3. old.pc \in {"exists", "replace"} => EditTyped(rows)
  <2>1. rows \in EditRecord
    BY <1>1, <1>2, RecordTyped
  <2>2. rows.pc = "rows" /\ rows.fd = old.fd /\ rows.op = old.op /\ rows.tree = old.tree
    BY <1>1 DEF EditRecord
  <2>3. old.pc \in {"exists", "replace"} => old.fd = None
    BY <1>1 DEF EditTyped
  <2> HIDE DEF rows
  <2>4. QED
    BY <1>1, <2>1, <2>2, <2>3, StaysTyped
<1>4. CASE Exists(w)
  <2> DEFINE rec == [old EXCEPT !.pc = "open"]
  <2>1. rec \in EditRecord
    BY <1>1, RecordTyped
  <2>2. /\ rec.pc = "open" /\ rec.fd = old.fd /\ rec.op = old.op /\ rec.tree = old.tree
        /\ rec.at = old.at /\ rec.content = old.content
    BY <1>1 DEF EditRecord
  <2>3. EditTyped(rec)
    <3> HIDE DEF rec
    <3>1. QED
      BY <1>1, <1>4, <2>1, <2>2 DEF EditTyped, Exists
  <2>4. old.pc = "exists" /\ (Edits(w, rec) \/ Edits(w, rows)) /\ UNCHANGED stored
    BY <1>4 DEF Exists, Moved
  <2>5. EditsTyped'
    BY <1>1, <1>3, <2>3, <2>4, TypedGoesOn
  <2>6. QED
    BY <1>1, <2>4, <2>5 DEF StoredTyped, stored
<1>5. CASE Open(w)
  <2> DEFINE f == IF temporary[c] = None THEN NewFile(c) ELSE temporary[c]
             rec == [old EXCEPT !.pc = "fill", !.fd = f]
  <2>1. f \in Nat
    BY <1>1, <1>5, NewFileIsFresh DEF Open, StoredTyped
  <2>2. rec \in EditRecord
    BY <1>1, <2>1, RecordTyped
  <2>3. /\ rec.pc = "fill" /\ rec.fd = f /\ rec.op = old.op /\ rec.tree = old.tree
        /\ rec.at = old.at /\ rec.content = old.content
    BY <1>1 DEF EditRecord
  <2>4. f # None
    BY <2>1, TreeAssumption DEF TreeAssumption
  <2>5. EditTyped(rec)
    <3> HIDE DEF rec, f
    <3>1. QED
      BY <1>1, <1>5, <2>2, <2>3, <2>4 DEF EditTyped, Open
  <2>6. /\ Edits(w, rec) /\ temporary' = [temporary EXCEPT ![c] = f]
        /\ filled' = filled \ {<<f, c>>} /\ UNCHANGED <<blob, torn>>
    BY <1>5 DEF Open
  <2>7. EditsTyped'
    BY <1>1, <2>5, <2>6, TypedGoesOn
  <2> HIDE DEF f
  <2>8. QED
    BY <1>1, <2>1, <2>6, <2>7 DEF StoredTyped
<1>6. CASE Fill(w)
  <2> DEFINE rec == [old EXCEPT !.pc = "replace", !.fd = None]
  <2>1. rec \in EditRecord
    BY <1>1, RecordTyped
  <2>2. /\ rec.pc = "replace" /\ rec.fd = None /\ rec.op = old.op /\ rec.tree = old.tree
        /\ rec.at = old.at /\ rec.content = old.content
    BY <1>1 DEF EditRecord
  <2>3. EditTyped(rec)
    <3> HIDE DEF rec
    <3>1. QED
      BY <1>1, <1>6, <2>1, <2>2 DEF EditTyped, Fill
  <2>4. old.fd \in Nat
    BY <1>1, <1>6 DEF EditTyped, EditRecord, Fill
  <2>5. /\ Edits(w, rec) /\ filled' = filled \cup {<<old.fd, c>>}
        /\ UNCHANGED <<blob, temporary, torn>>
    BY <1>6 DEF Fill
  <2>6. EditsTyped'
    BY <1>1, <2>3, <2>5, TypedGoesOn
  <2>7. QED
    BY <1>1, <2>4, <2>5, <2>6 DEF StoredTyped
<1>7. CASE Replace(w)
  <2>1. CASE temporary[c] = None
    BY <1>1, <1>7, <2>1, StopTyped DEF Replace, StoredTyped
  <2>2. CASE temporary[c] # None
    <3>1. /\ old.pc = "replace" /\ Edits(w, rows) /\ blob' = [blob EXCEPT ![c] = temporary[c]]
          /\ temporary' = [temporary EXCEPT ![c] = None] /\ UNCHANGED <<filled, torn>>
      BY <1>7, <2>2 DEF Replace
    <3>2. EditsTyped'
      BY <1>1, <1>3, <3>1, TypedGoesOn
    <3> HIDE DEF rows
    <3>3. QED
      BY <1>1, <3>1, <3>2 DEF StoredTyped
  <2>3. QED
    BY <2>1, <2>2
<1>8. QED
  BY <1>4, <1>5, <1>6, <1>7

(* The rows are made from what is committed, or from the version.          *)
LEMMA LookupTyped ==
  ASSUME TreeTyped, VersionsInv, NEW w \in Writers, Lookup(w) \/ List(w)
  PROVE  EditsTyped'
<1> DEFINE old == edit[w]
<1>1. EditsTyped /\ EditTyped(old) /\ old \in EditRecord /\ old.fd = None /\ files \in Tree
  BY DEF TreeTyped, TreeTypeOK, EditsTyped, EditTyped, Lookup, List
<1>2. CASE Lookup(w)
  <2> DEFINE isFile == old.at \in Paths /\ files[old.at] # None
             rows == IF isFile THEN <<[path |-> old.at, content |-> None]>>
                     ELSE Deletions(files, old.at)
             rec == [old EXCEPT !.pc = "rows", !.removed = isFile, !.todo = rows]
  <2>1. rows \in Seq(Statement)
    <3>1. Deletions(files, old.at) \in Seq(Statement)
      BY DeletionsTyped
    <3>2. old.at \in Paths => [path |-> old.at, content |-> None] \in Statement
      BY DEF Statement
    <3>3. QED
      BY <3>1, <3>2
  <2>2. isFile \in BOOLEAN
    OBVIOUS
  <2>3. old.pc = "lookup" /\ Edits(w, rec)
    BY <1>2 DEF Lookup
  <2> HIDE DEF rows, isFile
  <2>4. rec \in EditRecord
    BY <1>1, <2>1, <2>2, RecordTyped
  <2>5. rec.pc = "rows" /\ rec.fd = old.fd /\ rec.op = old.op /\ rec.tree = old.tree
    BY <1>1 DEF EditRecord
  <2> HIDE DEF rec
  <2>6. EditTyped(rec)
    BY <1>1, <2>3, <2>4, <2>5, StaysTyped
  <2>7. QED
    BY <1>1, <2>3, <2>6, TypedGoesOn
<1>3. CASE List(w)
  <2>1. old.pc = "list"
    BY <1>3 DEF List
  <2> DEFINE listed(rows) == [old EXCEPT !.pc = "rows", !.since = {}, !.todo = rows]
  <2>2. ASSUME NEW rows \in Seq(Statement), Edits(w, listed(rows)), old.op \in {"move", "restore"}
        PROVE  EditsTyped'
    <3>1. listed(rows) \in EditRecord
      BY <1>1, RecordTyped
    <3>2. /\ listed(rows).pc = "rows" /\ listed(rows).fd = None /\ listed(rows).op = old.op
          /\ listed(rows).tree = old.tree
      BY <1>1 DEF EditRecord
    <3> HIDE DEF listed
    <3>3. EditTyped(listed(rows))
      BY <1>1, <2>1, <2>2, <3>1, <3>2 DEF EditTyped
    <3>4. QED
      BY <1>1, <2>2, <3>3, TypedGoesOn
  <2>3. CASE old.op = "move"
    <3>1. PICK m \in Moves : old.at = m[1] /\ old.to = m[2]
      BY <1>1, <2>1, <2>3 DEF EditTyped
    <3>2. MoveRows(files, old.at, old.to) \in Seq(Statement)
      BY <1>1, <3>1, MoveRowsTyped
    <3>3. GivesUp(w) \/ Edits(w, listed(MoveRows(files, old.at, old.to)))
      BY <1>3, <2>3 DEF List
    <3> HIDE DEF listed
    <3>4. QED
      BY <1>1, <2>2, <2>3, <3>2, <3>3, StopTyped
  <2>4. CASE old.op = "restore"
    <3>1. old.tree \in Tree
      BY <1>1, <2>1, <2>4 DEF EditTyped
    <3>2. RestoreRows(files, old.tree) \in Seq(Statement)
      BY <3>1, RestoreRowsTyped
    <3>3. Edits(w, listed(RestoreRows(files, old.tree)))
      BY <1>3, <2>4 DEF List
    <3> HIDE DEF listed
    <3>4. QED
      BY <2>2, <2>4, <3>2, <3>3
  <2>5. CASE old.op = "save"
    <3> DEFINE rec == [old EXCEPT !.pc = "number", !.tree = files]
    <3>1. rec \in EditRecord
      BY <1>1, RecordTyped
    <3>2. rec.pc = "number" /\ rec.fd = None /\ rec.op = "save" /\ rec.tree \in Tree
      BY <1>1, <2>5 DEF EditRecord
    <3>3. GivesUp(w) \/ Edits(w, rec)
      BY <1>3, <2>5 DEF List
    <3> HIDE DEF rec
    <3>4. EditTyped(rec)
      BY <3>1, <3>2 DEF EditTyped
    <3>5. QED
      BY <1>1, <3>3, <3>4, StopTyped, TypedGoesOn
  <2>6. old.op \in {"move", "restore", "save"}
    BY <2>1, Fields DEF EditGood
  <2>7. QED
    BY <2>3, <2>4, <2>5, <2>6
<1>4. QED
  BY <1>2, <1>3

LEMMA MineTyped ==
  ASSUME NEW rec \in EditRecord, NEW p \in Paths, NEW c \in Contents \cup {None},
         NEW rows \in Seq(Statement)
  PROVE  /\ [rec EXCEPT !.todo = rows, !.pc = "rows"] \in EditRecord
         /\ [rec EXCEPT !.todo = rows, !.pc = "rows", !.mine[p] = c] \in EditRecord
         /\ [rec EXCEPT !.todo = rows, !.pc = "rows", !.mine[p] = None, !.removed = TRUE] \in EditRecord
<1>1. rec.mine \in [Paths -> Contents \cup {None, Kept}]
  BY DEF EditRecord
<1>2. ASSUME NEW d \in Contents \cup {None}
      PROVE  [rec.mine EXCEPT ![p] = d] \in [Paths -> Contents \cup {None, Kept}]
  BY <1>1
<1>3. ASSUME NEW mine \in [Paths -> Contents \cup {None, Kept}]
      PROVE  /\ [rec EXCEPT !.todo = rows, !.pc = "rows"] \in EditRecord
             /\ [rec EXCEPT !.todo = rows, !.pc = "rows", !.mine = mine] \in EditRecord
             /\ [rec EXCEPT !.todo = rows, !.pc = "rows", !.mine = mine, !.removed = TRUE] \in EditRecord
  <2>1. [rec EXCEPT !.todo = rows, !.pc = "rows"] \in EditRecord
    BY DEF EditRecord
  <2>2. [rec EXCEPT !.todo = rows, !.pc = "rows", !.mine = mine] \in EditRecord
    BY DEF EditRecord
  <2>3. [rec EXCEPT !.todo = rows, !.pc = "rows", !.mine = mine, !.removed = TRUE] \in EditRecord
    BY DEF EditRecord
  <2>4. QED
    BY <2>1, <2>2, <2>3
<1>4. /\ [rec EXCEPT !.todo = rows, !.pc = "rows", !.mine[p] = c]
           = [rec EXCEPT !.todo = rows, !.pc = "rows", !.mine = [rec.mine EXCEPT ![p] = c]]
      /\ [rec EXCEPT !.todo = rows, !.pc = "rows", !.mine[p] = None, !.removed = TRUE]
           = [rec EXCEPT !.todo = rows, !.pc = "rows", !.mine = [rec.mine EXCEPT ![p] = None],
                !.removed = TRUE]
  BY DEF EditRecord
<1>5. QED
  BY <1>2, <1>3, <1>4

LEMMA RowTyped ==
  ASSUME TreeTyped, NEW w \in Writers, DeleteRow(w) \/ GetRow(w) \/ PutRow(w) \/ RowsDone(w)
  PROVE  EditsTyped'
<1> DEFINE old == edit[w]
           next == Head(old.todo)
           rest == Tail(old.todo)
           p == next.path
<1>1. /\ EditsTyped /\ EditTyped(old) /\ old \in EditRecord /\ old.fd = None
      /\ old.pc \in {"rows", "put"}
  BY DEF TreeTyped, TreeTypeOK, EditsTyped, EditTyped, DeleteRow, GetRow, PutRow, RowsDone
<1>2. old.todo \in Seq(Statement)
  BY <1>1 DEF EditRecord
<1>3. old.todo # <<>> => next \in Statement /\ rest \in Seq(Statement)
  BY <1>2
<1>4. old.todo # <<>> => p \in Paths /\ next.content \in Contents \cup {None}
  BY <1>3 DEF Statement
<1> HIDE DEF next, rest
<1>5. CASE DeleteRow(w)
  <2> DEFINE passed == [old EXCEPT !.todo = rest, !.pc = "rows"]
             deleted == [old EXCEPT !.todo = rest, !.pc = "rows", !.mine[p] = None, !.removed = TRUE]
  <2>1. old.todo # <<>>
    BY <1>5 DEF DeleteRow
  <2>2. passed \in EditRecord /\ deleted \in EditRecord
    BY <1>1, <1>3, <1>4, <2>1, MineTyped
  <2>3. /\ passed.pc = "rows" /\ passed.fd = None /\ passed.op = old.op /\ passed.tree = old.tree
        /\ deleted.pc = "rows" /\ deleted.fd = None /\ deleted.op = old.op /\ deleted.tree = old.tree
    BY <1>1 DEF EditRecord
  <2>4. Edits(w, passed) \/ Edits(w, deleted)
    BY <1>5 DEF DeleteRow, Done, NextRow, next, rest
  <2> HIDE DEF passed, deleted
  <2>5. EditTyped(passed) /\ EditTyped(deleted)
    BY <1>1, <2>2, <2>3, StaysTyped
  <2>6. QED
    BY <1>1, <2>4, <2>5, TypedGoesOn
<1>6. CASE GetRow(w)
  <2> DEFINE exists == IF Locks(w, p) THEN old.mine[p] # None ELSE files[p] # None
             rec == [old EXCEPT !.pc = "put", !.found = exists]
  <2>1. old.todo # <<>> /\ Edits(w, rec)
    BY <1>6 DEF GetRow, NextRow, next
  <2>2. exists \in BOOLEAN
    OBVIOUS
  <2> HIDE DEF exists
  <2>3. rec \in EditRecord
    BY <1>1, <2>2, RecordTyped
  <2>4. /\ rec.pc = "put" /\ rec.fd = None /\ rec.op = old.op /\ rec.tree = old.tree
        /\ rec.todo = old.todo
    BY <1>1 DEF EditRecord
  <2> HIDE DEF rec
  <2>5. EditTyped(rec)
    BY <1>1, <2>1, <2>3, <2>4, StaysTyped
  <2>6. QED
    BY <1>1, <2>1, <2>5, TypedGoesOn
<1>7. CASE PutRow(w)
  <2> DEFINE rec == [old EXCEPT !.todo = rest, !.pc = "rows", !.mine[p] = next.content]
  <2>1. old.todo # <<>>
    BY <1>1, <1>7 DEF EditTyped, PutRow
  <2>2. rec \in EditRecord
    BY <1>1, <1>3, <1>4, <2>1, MineTyped
  <2>3. rec.pc = "rows" /\ rec.fd = None /\ rec.op = old.op /\ rec.tree = old.tree
    BY <1>1 DEF EditRecord
  <2>4. Edits(w, rec) \/ GivesUp(w)
    BY <1>7 DEF PutRow, Done, NextRow, next, rest
  <2> HIDE DEF rec
  <2>5. EditTyped(rec)
    BY <1>1, <2>2, <2>3, StaysTyped
  <2>6. QED
    BY <1>1, <2>4, <2>5, TypedGoesOn, StopTyped
<1>8. CASE RowsDone(w)
  <2> DEFINE rec == [old EXCEPT !.pc = "touch"]
  <2>1. rec \in EditRecord
    BY <1>1, RecordTyped
  <2>2. rec.pc = "touch" /\ rec.fd = None /\ rec.op = old.op /\ rec.tree = old.tree
    BY <1>1 DEF EditRecord
  <2>3. Edits(w, rec) \/ GivesUp(w)
    BY <1>8 DEF RowsDone, Moved
  <2> HIDE DEF rec
  <2>4. EditTyped(rec)
    BY <1>1, <2>1, <2>2, StaysTyped
  <2>5. QED
    BY <1>1, <2>3, <2>4, TypedGoesOn, StopTyped
<1>9. QED
  BY <1>5, <1>6, <1>7, <1>8

LEMMA SaveTyped ==
  ASSUME TreeTyped, VersionsInv, NEW w \in Writers, Compare(w) \/ Number(w) \/ Insert(w)
  PROVE  EditsTyped'
<1> DEFINE old == edit[w]
           passed == [old EXCEPT !.number = 1]
           numbered == [old EXCEPT !.pc = "insert", !.number = NextNumber]
           inserted == [old EXCEPT !.pc = "touch"]
<1>1. /\ EditsTyped /\ EditTyped(old) /\ old \in EditRecord /\ old.fd = None
      /\ old.pc \in {"number", "insert"} /\ (Compare(w) => old.pc = "number")
  BY DEF TreeTyped, TreeTypeOK, EditsTyped, EditTyped, Compare, Number, Insert
<1>2. NextNumber \in Nat
  BY NextNumberFits, VersionsType
<1>3. passed \in EditRecord /\ numbered \in EditRecord /\ inserted \in EditRecord
  BY <1>1, <1>2, RecordTyped
<1>4. /\ passed.pc = old.pc /\ passed.fd = None /\ passed.op = old.op /\ passed.tree = old.tree
      /\ numbered.pc = "insert" /\ numbered.fd = None /\ numbered.op = old.op /\ numbered.tree = old.tree
      /\ inserted.pc = "touch" /\ inserted.fd = None /\ inserted.op = old.op /\ inserted.tree = old.tree
  BY <1>1 DEF EditRecord
<1>5. GivesUp(w) \/ Edits(w, passed) \/ Edits(w, numbered) \/ Edits(w, inserted)
  BY DEF Compare, Number, Insert, Refused, Moved
<1> HIDE DEF passed, numbered, inserted
<1>6. EditTyped(passed) /\ EditTyped(numbered) /\ EditTyped(inserted)
  BY <1>1, <1>3, <1>4, StaysTyped
<1>7. QED
  BY <1>1, <1>5, <1>6, TypedGoesOn, StopTyped

LEMMA TouchTyped ==
  ASSUME TreeTyped, NEW w \in Writers, Touch(w)
  PROVE  EditsTyped'
<1> DEFINE old == edit[w]
           rec == [old EXCEPT !.pc = "commit", !.touched = TRUE]
<1>1. /\ EditsTyped /\ EditTyped(old) /\ old \in EditRecord /\ old.fd = None /\ old.pc = "touch"
  BY DEF TreeTyped, TreeTypeOK, EditsTyped, EditTyped, Touch
<1>2. rec \in EditRecord
  BY <1>1, RecordTyped
<1>3. /\ rec.pc = "commit" /\ rec.fd = None /\ rec.op = old.op /\ rec.tree = old.tree
      /\ rec.more = old.more /\ rec.touched
  BY <1>1 DEF EditRecord
<1>4. Edits(w, IF rec.more = <<>> THEN rec ELSE NextFile(rec))
  BY DEF Touch
<1> HIDE DEF rec
<1>5. CASE rec.more = <<>>
  <2>1. EditTyped(rec)
    BY <1>1, <1>2, <1>3, StaysTyped
  <2>2. QED
    BY <1>1, <1>4, <1>5, <2>1, TypedGoesOn
<1>6. CASE rec.more # <<>>
  <2>1. rec.op \in {"save", "restore"} => rec.tree \in Tree
    BY <1>1, <1>3 DEF EditTyped
  <2>2. EditTyped(NextFile(rec))
    BY <1>2, <1>3, <1>6, <2>1, NextFileTyped
  <2>3. QED
    BY <1>1, <1>4, <1>6, <2>2, TypedGoesOn
<1>7. QED
  BY <1>5, <1>6

LEMMA CommitTyped ==
  ASSUME TreeTyped, NEW w \in Writers, CommitEdit(w)
  PROVE  EditsTyped' /\ files' \in Tree /\ versions' \in Seq([number : Nat, tree : Tree])
<1> DEFINE old == edit[w]
           Version == [number : Nat, tree : Tree]
           locked == {p \in Paths : Locks(w, p)}
           seen(x) == [edit[x] EXCEPT !.since = @ \cup locked]
<1>1. /\ files \in Tree /\ versions \in Seq(Version) /\ old \in EditRecord /\ old.pc = "commit"
      /\ \A x \in Writers : edit[x] \in EditRecord /\ EditTyped(edit[x])
  BY DEF TreeTyped, TreeTypeOK, CommitEdit
<1>2. files' \in Tree
  <2>1. old.mine \in [Paths -> Contents \cup {None, Kept}]
    BY <1>1 DEF EditRecord
  <2>2. \A p \in Paths : Locks(w, p) => old.mine[p] \in Contents \cup {None}
    BY <2>1 DEF Locks
  <2>3. \A p \in Paths : files[p] \in Contents \cup {None}
    BY <1>1 DEF Tree
  <2>4. files' = [p \in Paths |-> IF Locks(w, p) THEN old.mine[p] ELSE files[p]]
    BY DEF CommitEdit, Result
  <2>5. QED
    BY <2>2, <2>3, <2>4 DEF Tree
<1>3. versions' \in Seq(Version)
  <2>1. CASE old.op = "save"
    <3>1. old.number \in Nat /\ old.tree \in Tree
      BY <1>1, <2>1 DEF EditTyped, EditRecord
    <3> DEFINE row == [number |-> old.number, tree |-> old.tree]
    <3>2. row \in Version
      BY <3>1
    <3>3. versions' = Append(versions, row)
      BY <2>1 DEF CommitEdit
    <3> HIDE DEF row, Version
    <3>4. QED
      BY <1>1, <3>2, <3>3
  <2>2. CASE old.op # "save"
    BY <1>1, <2>2 DEF CommitEdit
  <2>3. QED
    BY <2>1, <2>2
<1>4. ASSUME NEW x \in Writers PROVE EditTyped(seen(x))
  <2>1. seen(x) \in EditRecord
    BY <1>1, RecordTyped
  <2>2. /\ seen(x).pc = edit[x].pc /\ seen(x).op = edit[x].op /\ seen(x).at = edit[x].at
        /\ seen(x).to = edit[x].to /\ seen(x).content = edit[x].content /\ seen(x).fd = edit[x].fd
        /\ seen(x).todo = edit[x].todo /\ seen(x).tree = edit[x].tree
        /\ seen(x).touched = edit[x].touched
    BY <1>1 DEF EditRecord
  <2> HIDE DEF seen
  <2>3. EditTyped(edit[x])
    BY <1>1
  <2>4. QED
    BY <2>1, <2>2, <2>3 DEF EditTyped
<1>5. edit' = [x \in Writers |->
        IF x = w THEN IdleEdit
        ELSE IF edit[x].op \in {"move", "restore"} THEN seen(x) ELSE edit[x]]
  BY DEF CommitEdit
<1> HIDE DEF seen
<1>6. \A x \in Writers : EditTyped(edit'[x])
  BY <1>1, <1>4, <1>5, IdleEditTyped
<1>7. \A x \in Writers : edit'[x] \in EditRecord
  BY <1>6 DEF EditTyped
<1>8. edit' \in [Writers -> EditRecord]
  BY <1>5, <1>7
<1>9. EditsTyped'
  BY <1>6, <1>8 DEF EditsTyped, EditTyped
<1>10. QED
  BY <1>2, <1>3, <1>9

LEMMA TreeTypesInitial == TreeInit => TreeTyped
<1> SUFFICES ASSUME TreeInit PROVE TreeTyped
  OBVIOUS
<1>1. EditsTyped
  <2>1. IdleEdit \in EditRecord
    BY IdleEditTyped DEF EditTyped
  <2>2. edit = [w \in Writers |-> IdleEdit]
    BY DEF TreeInit
  <2>3. QED
    BY <2>1, <2>2, IdleEditTyped DEF EditsTyped
<1>2. files \in Tree /\ asked \in 0..MaxRequests
  BY TreeAssumption DEF TreeInit, TreeAssumption, NoTree, Tree
<1>3. versions \in Seq([number : Nat, tree : Tree])
  <2>1. [number |-> 1, tree |-> FirstTree] \in [number : Nat, tree : Tree]
    BY TreeAssumption DEF TreeAssumption
  <2>2. CASE versions = <<[number |-> 1, tree |-> FirstTree]>>
    BY <2>1, <2>2
  <2>3. CASE versions = <<>>
    BY <2>3
  <2>4. QED
    BY <2>2, <2>3 DEF TreeInit
<1>4. StoredTyped
  BY DEF TreeInit, StoredTyped, FirstFile
<1>5. QED
  BY <1>1, <1>2, <1>3, <1>4 DEF TreeTyped, TreeTypeOK, EditsTyped, StoredTyped

LEMMA TreeTypesStep == TreeTyped /\ VersionsInv /\ [TreeNext]_treeVars => TreeTyped'
<1> SUFFICES ASSUME TreeTyped, VersionsInv, [TreeNext]_treeVars PROVE TreeTyped'
  OBVIOUS
<1>1. /\ EditsTyped /\ StoredTyped /\ files \in Tree /\ asked \in 0..MaxRequests
      /\ versions \in Seq([number : Nat, tree : Tree])
  BY DEF TreeTyped, TreeTypeOK, EditsTyped, StoredTyped
<1> DEFINE Typed == /\ EditsTyped' /\ StoredTyped' /\ files' \in Tree /\ asked' \in 0..MaxRequests
                     /\ versions' \in Seq([number : Nat, tree : Tree])
<1>2. Typed => TreeTyped'
  BY DEF TreeTyped, TreeTypeOK, EditsTyped, StoredTyped
<1>3. CASE UNCHANGED treeVars
  <2>1. EditsTyped'
    BY <1>1, <1>3 DEF EditsTyped, EditTyped, treeVars
  <2>2. QED
    BY <1>1, <1>2, <1>3, <2>1 DEF StoredTyped, treeVars, stored
<1>4. ASSUME NEW w \in Writers, Begin(w) PROVE TreeTyped'
  <2>1. EditsTyped'
    BY <1>4, BeginTyped
  <2>2. asked' \in 0..MaxRequests
    <3>1. MaxRequests \in Nat
      BY TreeAssumption DEF TreeAssumption
    <3>2. asked < MaxRequests /\ asked' = asked + 1
      BY <1>4 DEF Begin
    <3>3. QED
      BY <1>1, <3>1, <3>2
  <2>3. UNCHANGED <<files, versions, stored>>
    BY <1>4 DEF Begin
  <2>4. QED
    BY <1>1, <1>2, <2>1, <2>2, <2>3 DEF StoredTyped, stored
<1>5. ASSUME NEW w \in Writers, Abandon(w), UNCHANGED <<files, versions, asked>> PROVE TreeTyped'
  <2>1. EditsTyped'
    BY <1>1, <1>5, StopTyped DEF Abandon
  <2>2. StoredTyped'
    <3>1. edit[w].pc = "fill" => edit[w].content \in Contents
      BY DEF TreeTyped, EditTyped
    <3>2. QED
      BY <1>1, <1>5, <3>1 DEF Abandon, StoredTyped
  <2>3. QED
    BY <1>1, <1>2, <1>5, <2>1, <2>2
<1>6. ASSUME NEW w \in Writers, Exists(w) \/ Open(w) \/ Fill(w) \/ Replace(w),
             UNCHANGED <<files, versions, asked>>
      PROVE  TreeTyped'
  BY <1>1, <1>2, <1>6, FileTyped
<1>7. ASSUME NEW w \in Writers, Unstored(w), UNCHANGED <<files, versions, asked>> PROVE TreeTyped'
  <2>1. EditsTyped'
    BY <1>1, <1>7, LookupTyped, RowTyped, SaveTyped, TouchTyped, StopTyped
       DEF Unstored, BreakDeadlock
  <2>2. QED
    BY <1>1, <1>2, <1>7, <2>1 DEF Unstored, StoredTyped, stored
<1>8. ASSUME NEW w \in Writers, CommitEdit(w) PROVE TreeTyped'
  BY <1>1, <1>2, <1>8, CommitTyped DEF CommitEdit, StoredTyped, stored
<1>9. QED
  BY <1>3, <1>4, <1>5, <1>6, <1>7, <1>8 DEF TreeNext, Proceed

(* However requests overlap and wherever they are cut off, what is         *)
(* committed, stored and in progress has its type: a row or a version      *)
(* holds the digest of a content or nothing, a move or an upload puts      *)
(* files only at paths of files.                                           *)
THEOREM TreeIsTyped == TreeSpec => []TreeTypeOK
<1>1. TreeTyped => TreeTypeOK
  BY DEF TreeTyped
<1>2. QED
  BY VersionsInitial, VersionsStep, TreeTypesInitial, TreeTypesStep, <1>1, PTL DEF TreeSpec

-----------------------------------------------------------------------------
(* Locks.  A row that a request has changed, and the projects row once it  *)
(* has touched it, are its own until it ends; a save changes no row.       *)
LocksInv ==
  /\ DOMAIN edit = Writers
  /\ \A w, x \in Writers : w # x => ~(edit[w].touched /\ edit[x].touched)
  /\ \A w, x \in Writers, p \in Paths : w # x => ~(Locks(w, p) /\ Locks(x, p))
  /\ \A w \in Writers, p \in Paths : edit[w].op = "save" => ~Locks(w, p)

(* A request goes on, with no other lock than those that were free.        *)
LEMMA LocksKeep ==
  ASSUME LocksInv, NEW w \in Writers, NEW rec, Edits(w, rec),
         rec.touched => edit[w].touched \/ TouchFree(w),
         \A p \in Paths : rec.mine[p] # Kept => rec.op # "save" /\ (Locks(w, p) \/ FileFree(w, p))
  PROVE  LocksInv'
<1>1. DOMAIN edit' = Writers /\ \A x \in Writers : edit'[x] = IF x = w THEN rec ELSE edit[x]
  BY DEF LocksInv, Edits
<1>2. \A x \in Writers \ {w} : rec.touched => ~edit[x].touched
  BY DEF LocksInv, TouchFree
<1>3. \A x \in Writers \ {w}, p \in Paths : rec.mine[p] # Kept => ~Locks(x, p)
  BY DEF LocksInv, FileFree
<1>4. \A x, y \in Writers : x # y => ~(edit'[x].touched /\ edit'[y].touched)
  BY <1>1, <1>2 DEF LocksInv
<1>5. \A x, y \in Writers, p \in Paths :
        x # y => ~(edit'[x].mine[p] # Kept /\ edit'[y].mine[p] # Kept)
  BY <1>1, <1>3 DEF LocksInv, Locks
<1>6. \A x \in Writers, p \in Paths : edit'[x].op = "save" => edit'[x].mine[p] = Kept
  BY <1>1 DEF LocksInv, Locks
<1>7. QED
  BY <1>1, <1>4, <1>5, <1>6 DEF LocksInv, Locks

LEMMA SameLocks ==
  ASSUME LocksInv, NEW w \in Writers, NEW rec, Edits(w, rec),
         rec.mine = edit[w].mine, rec.touched = edit[w].touched, rec.op = edit[w].op
  PROVE  LocksInv'
BY LocksKeep DEF Locks, LocksInv

LEMMA IdleLocks == ~IdleEdit.touched /\ \A p \in Paths : IdleEdit.mine[p] = Kept
BY DEF IdleEdit, Untouched

LEMMA StopLocks ==
  ASSUME LocksInv, NEW w \in Writers, GivesUp(w)
  PROVE  LocksInv'
BY IdleLocks, LocksKeep DEF GivesUp

LEMMA NextFileLocks ==
  ASSUME NEW rec \in EditRecord
  PROVE  /\ NextFile(rec).mine = rec.mine /\ NextFile(rec).touched = rec.touched
         /\ NextFile(rec).op = rec.op
BY DEF NextFile, EditRecord

(* Statements that change no row lock no row.                              *)
LEMMA NoNewLocks ==
  ASSUME LocksInv, NEW w \in Writers, edit[w] \in EditRecord
  PROVE  /\ \A pc : Edits(w, [edit[w] EXCEPT !.pc = pc]) => LocksInv'
         /\ \A rows : Edits(w, [edit[w] EXCEPT !.pc = "rows", !.todo = rows]) => LocksInv'
         /\ \A f : Edits(w, [edit[w] EXCEPT !.pc = "fill", !.fd = f]) => LocksInv'
         /\ Edits(w, [edit[w] EXCEPT !.pc = "replace", !.fd = None]) => LocksInv'
         /\ \A rows, b : Edits(w, [edit[w] EXCEPT !.pc = "rows", !.removed = b, !.todo = rows]) => LocksInv'
         /\ \A rows : Edits(w, [edit[w] EXCEPT !.pc = "rows", !.since = {}, !.todo = rows]) => LocksInv'
         /\ \A tree : Edits(w, [edit[w] EXCEPT !.pc = "number", !.tree = tree]) => LocksInv'
         /\ \A b : Edits(w, [edit[w] EXCEPT !.pc = "put", !.found = b]) => LocksInv'
         /\ \A rows : Edits(w, [edit[w] EXCEPT !.todo = rows, !.pc = "rows"]) => LocksInv'
         /\ \A n : Edits(w, [edit[w] EXCEPT !.number = n]) => LocksInv'
         /\ \A n : Edits(w, [edit[w] EXCEPT !.pc = "insert", !.number = n]) => LocksInv'
<1>1. ASSUME NEW pc, Edits(w, [edit[w] EXCEPT !.pc = pc])
      PROVE  LocksInv'
  <2> DEFINE rec == [edit[w] EXCEPT !.pc = pc]
  <2>1. rec.mine = edit[w].mine /\ rec.touched = edit[w].touched /\ rec.op = edit[w].op
    BY DEF EditRecord
  <2> HIDE DEF rec
  <2>2. QED
    BY <1>1, <2>1, SameLocks DEF rec
<1>2. ASSUME NEW rows, Edits(w, [edit[w] EXCEPT !.pc = "rows", !.todo = rows])
      PROVE  LocksInv'
  <2> DEFINE rec == [edit[w] EXCEPT !.pc = "rows", !.todo = rows]
  <2>1. rec.mine = edit[w].mine /\ rec.touched = edit[w].touched /\ rec.op = edit[w].op
    BY DEF EditRecord
  <2> HIDE DEF rec
  <2>2. QED
    BY <1>2, <2>1, SameLocks DEF rec
<1>3. ASSUME NEW f, Edits(w, [edit[w] EXCEPT !.pc = "fill", !.fd = f])
      PROVE  LocksInv'
  <2> DEFINE rec == [edit[w] EXCEPT !.pc = "fill", !.fd = f]
  <2>1. rec.mine = edit[w].mine /\ rec.touched = edit[w].touched /\ rec.op = edit[w].op
    BY DEF EditRecord
  <2> HIDE DEF rec
  <2>2. QED
    BY <1>3, <2>1, SameLocks DEF rec
<1>4. ASSUME Edits(w, [edit[w] EXCEPT !.pc = "replace", !.fd = None])
      PROVE  LocksInv'
  <2> DEFINE rec == [edit[w] EXCEPT !.pc = "replace", !.fd = None]
  <2>1. rec.mine = edit[w].mine /\ rec.touched = edit[w].touched /\ rec.op = edit[w].op
    BY DEF EditRecord
  <2> HIDE DEF rec
  <2>2. QED
    BY <1>4, <2>1, SameLocks DEF rec
<1>5. ASSUME NEW rows, NEW b, Edits(w, [edit[w] EXCEPT !.pc = "rows", !.removed = b, !.todo = rows])
      PROVE  LocksInv'
  <2> DEFINE rec == [edit[w] EXCEPT !.pc = "rows", !.removed = b, !.todo = rows]
  <2>1. rec.mine = edit[w].mine /\ rec.touched = edit[w].touched /\ rec.op = edit[w].op
    BY DEF EditRecord
  <2> HIDE DEF rec
  <2>2. QED
    BY <1>5, <2>1, SameLocks DEF rec
<1>6. ASSUME NEW rows, Edits(w, [edit[w] EXCEPT !.pc = "rows", !.since = {}, !.todo = rows])
      PROVE  LocksInv'
  <2> DEFINE rec == [edit[w] EXCEPT !.pc = "rows", !.since = {}, !.todo = rows]
  <2>1. rec.mine = edit[w].mine /\ rec.touched = edit[w].touched /\ rec.op = edit[w].op
    BY DEF EditRecord
  <2> HIDE DEF rec
  <2>2. QED
    BY <1>6, <2>1, SameLocks DEF rec
<1>7. ASSUME NEW tree, Edits(w, [edit[w] EXCEPT !.pc = "number", !.tree = tree])
      PROVE  LocksInv'
  <2> DEFINE rec == [edit[w] EXCEPT !.pc = "number", !.tree = tree]
  <2>1. rec.mine = edit[w].mine /\ rec.touched = edit[w].touched /\ rec.op = edit[w].op
    BY DEF EditRecord
  <2> HIDE DEF rec
  <2>2. QED
    BY <1>7, <2>1, SameLocks DEF rec
<1>8. ASSUME NEW b, Edits(w, [edit[w] EXCEPT !.pc = "put", !.found = b])
      PROVE  LocksInv'
  <2> DEFINE rec == [edit[w] EXCEPT !.pc = "put", !.found = b]
  <2>1. rec.mine = edit[w].mine /\ rec.touched = edit[w].touched /\ rec.op = edit[w].op
    BY DEF EditRecord
  <2> HIDE DEF rec
  <2>2. QED
    BY <1>8, <2>1, SameLocks DEF rec
<1>9. ASSUME NEW rows, Edits(w, [edit[w] EXCEPT !.todo = rows, !.pc = "rows"])
      PROVE  LocksInv'
  <2> DEFINE rec == [edit[w] EXCEPT !.todo = rows, !.pc = "rows"]
  <2>1. rec.mine = edit[w].mine /\ rec.touched = edit[w].touched /\ rec.op = edit[w].op
    BY DEF EditRecord
  <2> HIDE DEF rec
  <2>2. QED
    BY <1>9, <2>1, SameLocks DEF rec
<1>10. ASSUME NEW n, Edits(w, [edit[w] EXCEPT !.number = n])
      PROVE  LocksInv'
  <2> DEFINE rec == [edit[w] EXCEPT !.number = n]
  <2>1. rec.mine = edit[w].mine /\ rec.touched = edit[w].touched /\ rec.op = edit[w].op
    BY DEF EditRecord
  <2> HIDE DEF rec
  <2>2. QED
    BY <1>10, <2>1, SameLocks DEF rec
<1>11. ASSUME NEW n, Edits(w, [edit[w] EXCEPT !.pc = "insert", !.number = n])
      PROVE  LocksInv'
  <2> DEFINE rec == [edit[w] EXCEPT !.pc = "insert", !.number = n]
  <2>1. rec.mine = edit[w].mine /\ rec.touched = edit[w].touched /\ rec.op = edit[w].op
    BY DEF EditRecord
  <2> HIDE DEF rec
  <2>2. QED
    BY <1>11, <2>1, SameLocks DEF rec
<1>12. QED
  BY <1>1, <1>2, <1>3, <1>4, <1>5, <1>6, <1>7, <1>8, <1>9, <1>10, <1>11

LEMMA BeginLocks ==
  ASSUME LocksInv, NEW w \in Writers, Begin(w)
  PROVE  LocksInv'
<1>1. ASSUME NEW rec, Edits(w, rec), rec.mine = IdleEdit.mine, rec.touched = IdleEdit.touched
      PROVE  LocksInv'
  BY <1>1, IdleLocks, LocksKeep
<1>2. IdleEdit \in EditRecord
  BY IdleEditTyped DEF EditTyped
<1>3. ASSUME NEW upload, Edits(w, NextFile([IdleEdit EXCEPT !.op = "write", !.more = upload]))
      PROVE  LocksInv'
  BY <1>1, <1>3 DEF NextFile, IdleEdit
<1>4. ASSUME NEW loc, Edits(w, [IdleEdit EXCEPT !.pc = "lookup", !.op = "delete", !.at = loc])
      PROVE  LocksInv'
  BY <1>1, <1>4 DEF IdleEdit
<1>5. ASSUME NEW m, Edits(w, [IdleEdit EXCEPT !.pc = "list", !.op = "move", !.at = m[1], !.to = m[2]])
      PROVE  LocksInv'
  BY <1>1, <1>5 DEF IdleEdit
<1>6. ASSUME Edits(w, [IdleEdit EXCEPT !.pc = "list", !.op = "save"]) PROVE LocksInv'
  BY <1>1, <1>6 DEF IdleEdit
<1>7. ASSUME NEW tree, Edits(w, [IdleEdit EXCEPT !.pc = "list", !.op = "restore", !.tree = tree])
      PROVE  LocksInv'
  BY <1>1, <1>7 DEF IdleEdit
<1>8. QED
  BY <1>3, <1>4, <1>5, <1>6, <1>7 DEF Begin

LEMMA ListLocks ==
  ASSUME LocksInv, TreeTyped, VersionsInv, NEW w \in Writers, edit[w] \in EditRecord, List(w)
  PROVE  LocksInv'
<1>1. edit[w].op \in {"move", "restore", "save"}
  BY Fields DEF EditGood, List
<1>2. \/ GivesUp(w)
      \/ \E rows : Edits(w, [edit[w] EXCEPT !.pc = "rows", !.since = {}, !.todo = rows])
      \/ \E tree : Edits(w, [edit[w] EXCEPT !.pc = "number", !.tree = tree])
  BY <1>1 DEF List
<1>3. QED
  BY <1>2, StopLocks, NoNewLocks

(* A row is changed only if nobody else has changed it.                    *)
LEMMA RowLocks ==
  ASSUME LocksInv, VersionsInv, NEW w \in Writers, edit[w] \in EditRecord, DeleteRow(w) \/ PutRow(w)
  PROVE  LocksInv'
<1> DEFINE p == NextRow(w).path
           rest == Tail(edit[w].todo)
<1>0. edit[w].op # "save"
  BY Fields DEF EditGood, DeleteRow, PutRow
<1>1. ASSUME NEW rec, Edits(w, rec), rec.touched = edit[w].touched, rec.op = edit[w].op,
             \A q \in Paths : q # p => rec.mine[q] = edit[w].mine[q],
             Locks(w, p) \/ FileFree(w, p)
      PROVE  LocksInv'
  BY <1>0, <1>1, LocksKeep DEF Locks
<1>2. \/ GivesUp(w)
      \/ Edits(w, [edit[w] EXCEPT !.todo = rest, !.pc = "rows"])
      \/ /\ Locks(w, p) \/ FileFree(w, p)
         /\ \/ Edits(w, [edit[w] EXCEPT !.todo = rest, !.pc = "rows", !.mine[p] = None, !.removed = TRUE])
            \/ Edits(w, [edit[w] EXCEPT !.todo = rest, !.pc = "rows", !.mine[p] = NextRow(w).content])
  BY DEF DeleteRow, PutRow, Done
<1> HIDE DEF p, rest
<1>3. ASSUME NEW c, Edits(w, [edit[w] EXCEPT !.todo = rest, !.pc = "rows", !.mine[p] = c]),
             Locks(w, p) \/ FileFree(w, p)
      PROVE  LocksInv'
  <2> DEFINE rec == [edit[w] EXCEPT !.todo = rest, !.pc = "rows", !.mine[p] = c]
  <2>1. /\ rec.touched = edit[w].touched /\ rec.op = edit[w].op
        /\ \A q \in Paths : q # p => rec.mine[q] = edit[w].mine[q]
    BY DEF EditRecord
  <2> HIDE DEF rec
  <2>2. QED
    BY <1>1, <1>3, <2>1 DEF rec
<1>4. ASSUME Edits(w, [edit[w] EXCEPT !.todo = rest, !.pc = "rows", !.mine[p] = None, !.removed = TRUE]),
             Locks(w, p) \/ FileFree(w, p)
      PROVE  LocksInv'
  <2> DEFINE rec == [edit[w] EXCEPT !.todo = rest, !.pc = "rows", !.mine[p] = None, !.removed = TRUE]
  <2>1. /\ rec.touched = edit[w].touched /\ rec.op = edit[w].op
        /\ \A q \in Paths : q # p => rec.mine[q] = edit[w].mine[q]
    BY DEF EditRecord
  <2> HIDE DEF rec
  <2>2. QED
    BY <1>1, <1>4, <2>1 DEF rec
<1>5. QED
  BY <1>2, <1>3, <1>4, StopLocks, NoNewLocks

LEMMA TouchLocks ==
  ASSUME LocksInv, NEW w \in Writers, edit[w] \in EditRecord, Touch(w)
  PROVE  LocksInv'
<1> DEFINE rec == [edit[w] EXCEPT !.pc = "commit", !.touched = TRUE]
<1>1. rec \in EditRecord
  BY RecordTyped
<1>2. rec.mine = edit[w].mine /\ rec.op = edit[w].op
  BY DEF EditRecord
<1>3. TouchFree(w) /\ Edits(w, IF rec.more = <<>> THEN rec ELSE NextFile(rec))
  BY DEF Touch
<1> HIDE DEF rec
<1>4. NextFile(rec).mine = edit[w].mine /\ NextFile(rec).op = edit[w].op
  BY <1>1, <1>2, NextFileLocks
<1>5. QED
  BY <1>2, <1>3, <1>4, LocksKeep DEF Locks, LocksInv

LEMMA LocksStep == TreeTyped /\ VersionsInv /\ LocksInv /\ [TreeNext]_treeVars => LocksInv'
<1> SUFFICES ASSUME TreeTyped, VersionsInv, LocksInv, [TreeNext]_treeVars PROVE LocksInv'
  OBVIOUS
<1>1. CASE UNCHANGED treeVars
  BY <1>1 DEF treeVars, LocksInv, Locks
<1>2. IdleEdit \in EditRecord /\ \A w \in Writers : edit[w] \in EditRecord
  BY IdleEditTyped DEF TreeTyped, EditTyped
<1>3. ASSUME NEW w \in Writers, Begin(w) PROVE LocksInv'
  BY <1>3, BeginLocks
<1>4. ASSUME NEW w \in Writers, Abandon(w) \/ BreakDeadlock(w) PROVE LocksInv'
  BY <1>4, StopLocks DEF Abandon, BreakDeadlock
<1>5. ASSUME NEW w \in Writers, Exists(w) \/ Open(w) \/ Fill(w) \/ Replace(w) PROVE LocksInv'
  BY <1>2, <1>5, StopLocks, NoNewLocks DEF Exists, Open, Fill, Replace, Moved
<1>6. ASSUME NEW w \in Writers, Lookup(w) \/ List(w) PROVE LocksInv'
  <2>1. CASE Lookup(w)
    BY <1>2, <2>1, NoNewLocks DEF Lookup
  <2>2. CASE List(w)
    BY <1>2, <2>2, ListLocks
  <2>3. QED
    BY <1>6, <2>1, <2>2
<1>7. ASSUME NEW w \in Writers,
             GetRow(w) \/ RowsDone(w) \/ Compare(w) \/ Number(w) \/ Insert(w)
      PROVE  LocksInv'
  BY <1>2, <1>7, StopLocks, NoNewLocks DEF GetRow, RowsDone, Compare, Number, Insert, Refused, Moved
<1>8. ASSUME NEW w \in Writers, DeleteRow(w) \/ PutRow(w) \/ Touch(w) PROVE LocksInv'
  BY <1>2, <1>8, RowLocks, TouchLocks
<1>9. ASSUME NEW w \in Writers, CommitEdit(w) PROVE LocksInv'
  <2>1. DOMAIN edit' = Writers
        /\ \A x \in Writers : \/ edit'[x] = IdleEdit
                              \/ /\ edit'[x].mine = edit[x].mine /\ edit'[x].touched = edit[x].touched
                                 /\ edit'[x].op = edit[x].op
    BY <1>2, <1>9 DEF CommitEdit, EditRecord
  <2>2. QED
    BY <2>1, IdleLocks DEF LocksInv, Locks
<1>10. QED
  BY <1>1, <1>3, <1>4, <1>5, <1>6, <1>7, <1>8, <1>9 DEF TreeNext, Proceed, Unstored

LEMMA LocksInitial == TreeInit => LocksInv
<1> SUFFICES ASSUME TreeInit PROVE LocksInv
  OBVIOUS
<1>1. edit = [w \in Writers |-> IdleEdit]
  BY DEF TreeInit
<1>2. QED
  BY <1>1, IdleLocks DEF LocksInv, Locks

(* While a request has a row locked, what is committed of that row stays   *)
(* as it was when it locked it: no other request's commit gets between,    *)
(* so none is overwritten unseen by the transaction that locked first.     *)
LockedRowsStay ==
  [][\A w \in Writers, p \in Paths : Locks(w, p) /\ Locks(w, p)' => files'[p] = files[p]]_treeVars

(* A request that has touched the projects row is the only one to commit   *)
(* anything of the project until it ends: commits take turns.              *)
CommitsTakeTurns ==
  [][\A w \in Writers : edit[w].touched /\ edit'[w].touched =>
       files' = files /\ versions' = versions]_treeVars

LEMMA TreeLocks == TreeSpec => [](TreeTyped /\ LocksInv)
BY VersionsInitial, VersionsStep, TreeTypesInitial, TreeTypesStep, LocksInitial, LocksStep, PTL
   DEF TreeSpec

(* What is committed of a locked row stays until its request ends.         *)
THEOREM LockedRowsAreOnesOwn == TreeSpec => LockedRowsStay
<1>1. ASSUME TreeTyped, LocksInv, [TreeNext]_treeVars,
             NEW w \in Writers, NEW p \in Paths, Locks(w, p), Locks(w, p)'
      PROVE  files'[p] = files[p]
  <2>1. CASE UNCHANGED files
    BY <2>1
  <2>2. ASSUME NEW x \in Writers, CommitEdit(x) PROVE files'[p] = files[p]
    <3>1. x # w
      BY <1>1, <2>2, IdleLocks DEF CommitEdit, Locks
    <3>2. ~Locks(x, p)
      BY <1>1, <3>1 DEF LocksInv
    <3>3. QED
      BY <2>2, <3>2 DEF CommitEdit, Result
  <2>3. QED
    BY <1>1, <2>1, <2>2 DEF TreeNext, Proceed, Begin, treeVars
<1>2. TreeTyped /\ LocksInv /\ [TreeNext]_treeVars =>
        [\A w \in Writers, p \in Paths : Locks(w, p) /\ Locks(w, p)' => files'[p] = files[p]]_treeVars
  BY <1>1
<1>3. QED
  BY <1>2, TreeLocks, PTL DEF TreeSpec, LockedRowsStay

(* Between a request's first change and its end nobody else commits.       *)
THEOREM ChangesTakeTurns == TreeSpec => CommitsTakeTurns
<1>1. ASSUME TreeTyped, LocksInv, [TreeNext]_treeVars,
             NEW w \in Writers, edit[w].touched, edit'[w].touched
      PROVE  files' = files /\ versions' = versions
  <2>1. ASSUME NEW x \in Writers, CommitEdit(x) PROVE FALSE
    <3>1. x # w
      BY <1>1, <2>1, IdleLocks DEF CommitEdit
    <3>2. edit[x].touched
      BY <1>1, <2>1 DEF TreeTyped, EditTyped, CommitEdit
    <3>3. QED
      BY <1>1, <3>1, <3>2 DEF LocksInv
  <2>2. QED
    BY <1>1, <2>1 DEF TreeNext, Proceed, Begin, treeVars
<1>2. TreeTyped /\ LocksInv /\ [TreeNext]_treeVars =>
        [\A w \in Writers : edit[w].touched /\ edit'[w].touched =>
           files' = files /\ versions' = versions]_treeVars
  BY <1>1
<1>3. QED
  BY <1>2, TreeLocks, PTL DEF TreeSpec, CommitsTakeTurns

(* A version, once saved, is never changed or removed, and saving one      *)
(* changes no file.                                                        *)
VersionsAreKept ==
  [][/\ \A i \in DOMAIN versions : i \in DOMAIN versions' /\ versions'[i] = versions[i]
     /\ versions' # versions => files' = files]_treeVars

(* Whatever saves, restores and failures: the versions there are stay.     *)
THEOREM SavesOnlyAdd == TreeSpec => VersionsAreKept
<1>1. ASSUME TreeTyped, LocksInv, NEW w \in Writers, CommitEdit(w)
      PROVE  /\ \A i \in DOMAIN versions : i \in DOMAIN versions' /\ versions'[i] = versions[i]
             /\ versions' # versions => files' = files
  <2> DEFINE Version == [number : Nat, tree : Tree]
             row == [number |-> edit[w].number, tree |-> edit[w].tree]
  <2>1. CASE edit[w].op = "save"
    <3>1. versions \in Seq(Version) /\ versions' = Append(versions, row)
      BY <1>1, <2>1 DEF TreeTyped, TreeTypeOK, CommitEdit
    <3>2. files' = files
      <4>1. files \in Tree /\ files' = [p \in Paths |-> files[p]]
        BY <1>1, <2>1 DEF LocksInv, CommitEdit, Result, TreeTyped, TreeTypeOK
      <4>2. QED
        BY <4>1 DEF Tree
    <3> HIDE DEF Version, row
    <3>3. QED
      BY <3>1, <3>2
  <2>2. CASE edit[w].op # "save"
    BY <1>1, <2>2 DEF CommitEdit
  <2>3. QED
    BY <2>1, <2>2
<1>2. ASSUME TreeTyped, LocksInv, [TreeNext]_treeVars
      PROVE  /\ \A i \in DOMAIN versions : i \in DOMAIN versions' /\ versions'[i] = versions[i]
             /\ versions' # versions => files' = files
  <2>1. CASE UNCHANGED versions
    BY <2>1
  <2>2. CASE \E w \in Writers : CommitEdit(w)
    BY <1>1, <1>2, <2>2
  <2>3. QED
    BY <1>2, <2>1, <2>2 DEF TreeNext, Proceed, Begin, treeVars
<1>3. TreeTyped /\ LocksInv /\ [TreeNext]_treeVars =>
        [/\ \A i \in DOMAIN versions : i \in DOMAIN versions' /\ versions'[i] = versions[i]
         /\ versions' # versions => files' = files]_treeVars
  BY <1>2
<1>4. QED
  BY <1>3, TreeLocks, PTL DEF TreeSpec, VersionsAreKept

-----------------------------------------------------------------------------
(* What is stored.  The file at the temporary name is never the  *)
(* one at the content's address.                                           *)
NamesApart == \A c \in Contents : temporary[c] # None => temporary[c] # blob[c]

LEMMA NamesApartStep == TreeTyped /\ NamesApart /\ [TreeNext]_treeVars => NamesApart'
<1> SUFFICES ASSUME TreeTyped, NamesApart, [TreeNext]_treeVars PROVE NamesApart'
  OBVIOUS
<1>1. CASE UNCHANGED <<blob, temporary>>
  BY <1>1 DEF NamesApart
<1>2. ASSUME NEW w \in Writers, Open(w) PROVE NamesApart'
  <2> DEFINE c == edit[w].content
             f == IF temporary[c] = None THEN NewFile(c) ELSE temporary[c]
  <2>1. c \in Contents /\ edit[w].pc = "open"
    BY <1>2 DEF TreeTyped, EditTyped, Open
  <2>2. f # blob[c]
    BY <2>1, NewFileIsFresh DEF NamesApart
  <2>3. temporary' = [temporary EXCEPT ![c] = f] /\ UNCHANGED blob
    BY <1>2 DEF Open
  <2> HIDE DEF f
  <2>4. QED
    BY <2>1, <2>2, <2>3 DEF NamesApart, TreeTyped, TreeTypeOK
<1>3. ASSUME NEW w \in Writers, Replace(w) PROVE NamesApart'
  BY <1>3 DEF Replace, NamesApart, TreeTyped, TreeTypeOK, EditTyped
<1>4. QED
  BY <1>1, <1>2, <1>3 DEF TreeNext, Proceed, Begin, CommitEdit, Abandon, Unstored, Exists, Fill,
     stored, treeVars

(* A file that is complete at its content's address is never truncated,    *)
(* however many writers of the content share the temporary name: the       *)
(* address can only be given to another file.  (A writer that opened the   *)
(* file before may still write the same content to it.)                    *)
StoredIsNotTruncated ==
  [][\A c \in Contents :
       <<blob[c], c>> \in filled /\ blob'[c] = blob[c] => <<blob[c], c>> \in filled']_treeVars

(* write_blob never empties a file that is complete at its address.        *)
THEOREM StoredFilesAreNotTruncated == TreeSpec => StoredIsNotTruncated
<1>1. ASSUME TreeTyped, NamesApart, [TreeNext]_treeVars,
             NEW c \in Contents, <<blob[c], c>> \in filled
      PROVE  <<blob[c], c>> \in filled'
  <2>1. CASE filled \subseteq filled'
    BY <1>1, <2>1
  <2>2. ASSUME NEW w \in Writers, Open(w) PROVE <<blob[c], c>> \in filled'
    <3> DEFINE d == edit[w].content
               f == IF temporary[d] = None THEN NewFile(d) ELSE temporary[d]
    <3>1. d \in Contents /\ edit[w].pc = "open"
      BY <1>1, <2>2 DEF TreeTyped, EditTyped, Open
    <3>2. f # blob[d]
      BY <1>1, <3>1, NewFileIsFresh DEF NamesApart
    <3>3. filled' = filled \ {<<f, d>>}
      BY <2>2 DEF Open
    <3> HIDE DEF f, d
    <3>4. QED
      BY <1>1, <3>2, <3>3
  <2>3. QED
    BY <1>1, <2>1, <2>2 DEF TreeNext, Proceed, Begin, CommitEdit, Abandon, Unstored, Exists, Fill,
       Replace, stored, treeVars
<1>2. TreeTyped /\ NamesApart /\ [TreeNext]_treeVars =>
        [\A c \in Contents :
           <<blob[c], c>> \in filled /\ blob'[c] = blob[c] => <<blob[c], c>> \in filled']_treeVars
  BY <1>1
<1>3. TreeInit => NamesApart
  BY DEF TreeInit, NamesApart
<1>4. TreeSpec => [](TreeTyped /\ NamesApart)
  BY VersionsInitial, VersionsStep, TreeTypesInitial, TreeTypesStep, NamesApartStep, <1>3, PTL
     DEF TreeSpec
<1>5. QED
  BY <1>2, <1>4, PTL DEF TreeSpec, StoredIsNotTruncated

=============================================================================
