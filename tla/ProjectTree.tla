---------------------------- MODULE ProjectTree ----------------------------
(***************************************************************************)
(* The working tree and the versions of one project: write_file (several   *)
(* times for an upload), delete_path, move_path, save_version,             *)
(* restore_version and working_changes of ProjectService, over the         *)
(* content-addressed files of LocalStorage.                                *)
(*                                                                         *)
(* A writer is a request's transaction, reused for the next request.  Its  *)
(* statements see what is committed when they start, and its own rows.  A  *)
(* row it has changed is locked until it ends; files in storage are        *)
(* changed at once and never rolled back.                                  *)
(***************************************************************************)
EXTENDS Naturals, SequencesExt, Absent

CONSTANTS
  Writers,      \* requests that may be under way at the same time
  PathOrder,    \* the paths of files, sorted; a path is a tuple of segments
  Locations,    \* files and directories that requests delete
  Moves,        \* pairs <<source, destination>> that requests move
  Contents,     \* contents of files, by their digest
  Uploads,      \* uploads of several files, sequences of UploadedFile
  FirstTree,    \* the tree a forked project starts with
  MaxRequests   \* bound: requests made

Paths == {PathOrder[i] : i \in DOMAIN PathOrder}
Tree  == [Paths -> Contents \cup {None}]

Statement    == [path : Paths, content : Contents \cup {None}]   \* None deletes
UploadedFile == [path : Paths, content : Contents]

Kept == "kept"                      \* a row the transaction has not changed

ASSUME TreeAssumption ==
  /\ PathOrder \in Seq(Paths) /\ IsInjective(PathOrder)
  /\ \A p \in Paths : p \in Seq(Range(p))
  /\ None \notin Contents \cup Nat /\ Kept \notin Contents \cup {None}
  /\ FirstTree \in Tree /\ Uploads \subseteq Seq(UploadedFile) \ {<<>>} /\ MaxRequests \in Nat

ASSUME WritersAssumption == IsFiniteSet(Writers)

VARIABLES
  files,       \* the committed rows of project_files
  versions,    \* the committed versions, in the order of their commits
  blob,        \* blob[c]: the file at c's address, by a number as its inode's
  temporary,   \* temporary[c]: the file at c's temporary name
  filled,      \* the files <<number, content>> that are complete
  torn,        \* history: contents somebody stopped writing half-way
  asked,       \* the number of requests made
  edit         \* edit[w]: the transaction of writer w

stored   == <<blob, temporary, filled, torn>>
treeVars == <<files, versions, stored, asked, edit>>

Untouched == [p \in Paths |-> Kept]
EditRecord ==
  [pc      : {"idle", "exists", "open", "fill", "replace", "lookup", "list", "rows",
              "put", "number", "insert", "touch", "commit"},
   op      : {"write", "delete", "move", "save", "restore", None},
   at      : Locations \cup Paths \cup {m[1] : m \in Moves} \cup {None},
   to      : {m[2] : m \in Moves} \cup {None},
   content : Contents \cup {None},
   more    : Seq(UploadedFile),                  \* files of the upload to come
   todo    : Seq(Statement),
   found   : BOOLEAN,                            \* the row to put exists
   mine    : [Paths -> Contents \cup {None, Kept}],  \* rows changed, and locked
   removed : BOOLEAN,                            \* some DELETE removed a row
   fd      : Nat \cup {None},                    \* the file it has open
   tree    : Tree \cup {None},                   \* to save, or to restore
   number  : Nat,
   since   : SUBSET Paths,    \* history: committed by others since it listed
   touched : BOOLEAN]                            \* the projects row is locked

IdleEdit ==
  [pc |-> "idle", op |-> None, at |-> None, to |-> None, content |-> None,
   more |-> <<>>, todo |-> <<>>, found |-> FALSE, mine |-> Untouched, removed |-> FALSE, fd |-> None,
   tree |-> None, number |-> 0, since |-> {}, touched |-> FALSE]

FirstFile == 0                      \* the file of each of the first contents
NoTree    == [p \in Paths |-> None]

(* A fork starts with version 1, saved from the tree it copies; a project  *)
(* that is created has no file and no version.  The storage, which all     *)
(* projects share, has the contents of the tree that is forked.            *)
TreeInit ==
  /\ \/ files = FirstTree /\ versions = <<[number |-> 1, tree |-> FirstTree]>>
     \/ files = NoTree /\ versions = <<>>
  /\ blob = [c \in Contents |-> IF \E p \in Paths : FirstTree[p] = c THEN FirstFile ELSE None]
  /\ temporary = [c \in Contents |-> None]
  /\ filled = {<<FirstFile, c>> : c \in {d \in Contents : \E p \in Paths : FirstTree[p] = d}}
  /\ torn = {}
  /\ asked = 0
  /\ edit = [w \in Writers |-> IdleEdit]

Edits(w, rec)  == edit' = [edit EXCEPT ![w] = rec]
Moved(w, pc)   == Edits(w, [edit[w] EXCEPT !.pc = pc])
GivesUp(w)     == Edits(w, IdleEdit)

(* write_file begins with the content of the next file.                    *)
NextFile(rec) ==
  [rec EXCEPT !.pc = "exists", !.at = Head(rec.more).path, !.content = Head(rec.more).content,
     !.more = Tail(rec.more)]

-----------------------------------------------------------------------------
(* A request arrives; the version to restore is immutable.                 *)
Begin(w) ==
  /\ edit[w].pc = "idle"
  /\ asked < MaxRequests
  /\ asked' = asked + 1
  /\ \/ \E upload \in Uploads \cup {<<file>> : file \in UploadedFile} :
          Edits(w, NextFile([IdleEdit EXCEPT !.op = "write", !.more = upload]))
     \/ \E loc \in Locations :
          Edits(w, [IdleEdit EXCEPT !.pc = "lookup", !.op = "delete", !.at = loc])
     \/ \E m \in Moves :
          Edits(w, [IdleEdit EXCEPT !.pc = "list", !.op = "move", !.at = m[1], !.to = m[2]])
     \/ Edits(w, [IdleEdit EXCEPT !.pc = "list", !.op = "save"])
     \/ \E i \in DOMAIN versions :
          Edits(w, [IdleEdit EXCEPT !.pc = "list", !.op = "restore", !.tree = versions[i].tree])
  /\ UNCHANGED <<files, versions, stored>>

-----------------------------------------------------------------------------
(* Faulty: a temporary file counts as the content.                         *)
StoredOrUnderWay(c) == blob[c] # None \/ temporary[c] # None

(* write_blob does nothing when the content's address exists.              *)
Stored(c) == blob[c] # None

WriteRow(w) == <<[path |-> edit[w].at, content |-> edit[w].content]>>

Exists(w) ==
  /\ edit[w].pc = "exists"
  /\ IF Stored(edit[w].content)
     THEN Edits(w, [edit[w] EXCEPT !.pc = "rows", !.todo = WriteRow(w)])
     ELSE Moved(w, "open")
  /\ UNCHANGED stored

(* A new file has a number that no file of this content bears: the one at  *)
(* its address, or one that has lost its name and is still open.           *)
NewFile(c) ==
  LET used == {blob[c]} \cup {edit[x].fd : x \in {y \in Writers : edit[y].content = c}}
  IN CHOOSE f \in 0..Cardinality(Writers) : f \notin used

(* write_bytes opens the temporary name, which all writers of a content    *)
(* share: it creates a file or truncates the one that is there.            *)
Open(w) ==
  LET c == edit[w].content
      f == IF temporary[c] = None THEN NewFile(c) ELSE temporary[c]
  IN /\ edit[w].pc = "open"
     /\ temporary' = [temporary EXCEPT ![c] = f]
     /\ filled' = filled \ {<<f, c>>}
     /\ Edits(w, [edit[w] EXCEPT !.pc = "fill", !.fd = f])
     /\ UNCHANGED <<blob, torn>>

(* It fills the file it opened, whatever that file is called by now.       *)
Fill(w) ==
  /\ edit[w].pc = "fill"
  /\ filled' = filled \cup {<<edit[w].fd, edit[w].content>>}
  /\ Edits(w, [edit[w] EXCEPT !.pc = "replace", !.fd = None])
  /\ UNCHANGED <<blob, temporary, torn>>

(* The temporary name becomes the address; if another writer has renamed   *)
(* it already, the request fails.                                          *)
Replace(w) ==
  LET c == edit[w].content IN
  /\ edit[w].pc = "replace"
  /\ IF temporary[c] = None
     THEN GivesUp(w) /\ UNCHANGED <<blob, temporary>>
     ELSE /\ blob' = [blob EXCEPT ![c] = temporary[c]]
          /\ temporary' = [temporary EXCEPT ![c] = None]
          /\ Edits(w, [edit[w] EXCEPT !.pc = "rows", !.todo = WriteRow(w)])
  /\ UNCHANGED <<filled, torn>>

-----------------------------------------------------------------------------
Under(loc, p) == IsPrefix(loc, p)

Renamed(p, src, dst) == dst \o SubSeq(p, Len(src) + 1, Len(p))

(* A file can be moved wherever a request moves it.                        *)
ASSUME MovesAssumption ==
  \A m \in Moves, p \in Paths : Under(m[1], p) => Renamed(p, m[1], m[2]) \in Paths

(* Some of the paths, in their order; a path's rank is the number of those *)
(* before it.                                                              *)
Places(S)  == {i \in DOMAIN PathOrder : PathOrder[i] \in S}
Rank(S, i) == Cardinality({j \in Places(S) : j < i})

InOrder(S) ==
  [n \in 1..Cardinality(Places(S)) |->
    PathOrder[CHOOSE i \in Places(S) : Rank(S, i) = n - 1]]

Present(tree) == {p \in Paths : tree[p] # None}

DeleteOf(p)    == [path |-> p, content |-> None]
Deletions(tree, loc) ==
  LET gone == InOrder({p \in Present(tree) : Under(loc, p)})
  IN [i \in DOMAIN gone |-> DeleteOf(gone[i])]

(* Faulty: the last segment of the source is kept in the new path.         *)
MoveKeeping(tree, src, dst) ==
  LET from == InOrder({p \in Present(tree) : Under(src, p)})
      put(p) == [path |-> dst \o SubSeq(p, Len(src), Len(p)), content |-> tree[p]]
  IN Deletions(tree, src) \o [i \in DOMAIN from |-> put(from[i])]

(* move_path: every file under the source, in order, is deleted and put    *)
(* under the destination with the content that was listed.                 *)
MoveRows(tree, src, dst) ==
  LET from == InOrder({p \in Present(tree) : Under(src, p)})
      put(p) == [path |-> Renamed(p, src, dst), content |-> tree[p]]
  IN [k \in 1..(2 * Len(from)) |->
       IF k % 2 = 1 THEN DeleteOf(from[(k + 1) \div 2]) ELSE put(from[k \div 2])]

VersionRows(version) ==
  LET entries == InOrder(Present(version))
  IN [i \in DOMAIN entries |-> [path |-> entries[i], content |-> version[entries[i]]]]

(* Faulty: what the version does not hold is left in the tree.             *)
RestoreOver(tree, version) == VersionRows(version)

(* restore_version: everything listed is deleted, then the version is put. *)
RestoreRows(tree, version) == Deletions(tree, <<>>) \o VersionRows(version)

(* delete_path: a file by its path; otherwise one bulk DELETE of what its  *)
(* statement finds under the directory, row by row.                        *)
Lookup(w) ==
  LET loc    == edit[w].at
      isFile == loc \in Paths /\ files[loc] # None
  IN /\ edit[w].pc = "lookup"
     /\ Edits(w, [edit[w] EXCEPT
          !.pc = "rows", !.removed = isFile,
          !.todo = IF isFile THEN <<[path |-> loc, content |-> None]>> ELSE Deletions(files, loc)])

(* list_for_project: one statement, so one committed state.                *)
List(w) ==
  LET tree == files IN
  /\ edit[w].pc = "list"
  /\ CASE edit[w].op = "move" ->
            IF Deletions(tree, edit[w].at) = <<>> THEN GivesUp(w)
            ELSE Edits(w, [edit[w] EXCEPT !.pc = "rows", !.since = {},
                             !.todo = MoveRows(tree, edit[w].at, edit[w].to)])
       [] edit[w].op = "restore" ->
            Edits(w, [edit[w] EXCEPT !.pc = "rows", !.since = {},
                        !.todo = RestoreRows(tree, edit[w].tree)])
       [] edit[w].op = "save" ->
            IF \A p \in Paths : tree[p] = None THEN GivesUp(w)
            ELSE Edits(w, [edit[w] EXCEPT !.pc = "number", !.tree = tree])

-----------------------------------------------------------------------------
Locks(w, p)  == edit[w].mine[p] # Kept
FileFree(w, p) == \A x \in Writers \ {w} : ~Locks(x, p)

NextRow(w) == Head(edit[w].todo)
Done(w)  == [edit[w] EXCEPT !.todo = Tail(@), !.pc = "rows"]

(* DELETE ... WHERE path: a row that is committed is locked, another       *)
(* transaction's is waited for; no row is no error.                        *)
DeleteRow(w) ==
  LET p == NextRow(w).path IN
  /\ edit[w].pc = "rows" /\ edit[w].todo # <<>> /\ NextRow(w).content = None
  /\ \/ /\ ~Locks(w, p) /\ files[p] = None
        /\ Edits(w, Done(w))
     \/ /\ Locks(w, p) \/ (files[p] # None /\ FileFree(w, p))
        /\ Edits(w, [Done(w) EXCEPT !.mine[p] = None, !.removed = TRUE])

(* upsert reads the row first ...                                          *)
GetRow(w) ==
  LET p == NextRow(w).path IN
  /\ edit[w].pc = "rows" /\ edit[w].todo # <<>> /\ NextRow(w).content # None
  /\ Edits(w, [edit[w] EXCEPT !.pc = "put",
       !.found = IF Locks(w, p) THEN edit[w].mine[p] # None ELSE files[p] # None])

(* ... and updates it or inserts one.  Both wait for another transaction's *)
(* change of it; then a row to update may be gone, or one to insert be     *)
(* there: the request fails.                                               *)
PutRow(w) ==
  LET p == NextRow(w).path IN
  /\ edit[w].pc = "put"
  /\ FileFree(w, p)
  /\ IF Locks(w, p) \/ edit[w].found = (files[p] # None)
     THEN Edits(w, [Done(w) EXCEPT !.mine[p] = NextRow(w).content])
     ELSE GivesUp(w)

RowsDone(w) ==
  /\ edit[w].pc = "rows" /\ edit[w].todo = <<>>
  /\ IF edit[w].op = "delete" /\ ~edit[w].removed THEN GivesUp(w) ELSE Moved(w, "touch")

-----------------------------------------------------------------------------
Numbers == {versions[i].number : i \in DOMAIN versions}

(* What stands for the latest version of a project that has none: the      *)
(* baseline is empty, and the highest number 0.                            *)
NoVersion == [number |-> 0, tree |-> NoTree]

(* The version with the highest number.                                    *)
Latest ==
  IF versions = <<>> THEN NoVersion
  ELSE versions[CHOOSE i \in DOMAIN versions :
                  \A j \in DOMAIN versions : versions[j].number <= versions[i].number]

(* next_sequence: MAX(sequence), or 0, + 1.                                *)
NextNumber == Latest.number + 1

(* _diff of two trees.                                                     *)
Changes(left, right) ==
  {<<p, "added">> : p \in {q \in Paths : left[q] = None /\ right[q] # None}}
    \cup {<<p, "removed">> : p \in {q \in Paths : left[q] # None /\ right[q] = None}}
    \cup {<<p, "modified">> : p \in {q \in Paths : None \notin {left[q], right[q]} /\ left[q] # right[q]}}

(* What the page lists as not saved.                                       *)
WorkingChanges == Changes(Latest.tree, files)

(* save_version refuses what equals the latest version, if there is one,   *)
(* then numbers its own, with a statement each.                            *)
Compare(w) ==
  /\ edit[w].pc = "number" /\ edit[w].number = 0
  /\ IF versions # <<>> /\ Latest.tree = edit[w].tree THEN GivesUp(w)
     ELSE Edits(w, [edit[w] EXCEPT !.number = 1])

Number(w) ==
  /\ edit[w].pc = "number" /\ edit[w].number # 0
  /\ Edits(w, [edit[w] EXCEPT !.pc = "insert", !.number = NextNumber])

(* Faulty: there is no unique constraint on project and sequence.          *)
NeverTaken(number) == FALSE

Taken(number) == number \in Numbers

Inserted(w) == edit[w].op = "save" /\ edit[w].pc \in {"touch", "commit"}

(* Faulty: a save that conflicts tries the same number again.              *)
TriesAgain(w) == Moved(w, "insert")

Refused(w) == GivesUp(w)

(* The unique constraint on project and sequence makes the second wait for *)
(* the first, and refuses it when the first commits.                       *)
Insert(w) ==
  /\ edit[w].pc = "insert"
  /\ \A x \in Writers \ {w} : ~(Inserted(x) /\ edit[x].number = edit[w].number)
  /\ IF Taken(edit[w].number) THEN Refused(w) ELSE Moved(w, "touch")

(* _touch updates the projects row with every change; an upload goes on    *)
(* with its next file, and keeps its locks.                                *)
TouchFree(w) == \A x \in Writers \ {w} : ~edit[x].touched

Touch(w) ==
  /\ edit[w].pc = "touch"
  /\ TouchFree(w)
  /\ LET rec == [edit[w] EXCEPT !.pc = "commit", !.touched = TRUE]
     IN Edits(w, IF rec.more = <<>> THEN rec ELSE NextFile(rec))

Result(w) == [p \in Paths |-> IF Locks(w, p) THEN edit[w].mine[p] ELSE files[p]]

CommitEdit(w) ==
  /\ edit[w].pc = "commit"
  /\ files' = Result(w)
  /\ versions' = IF edit[w].op = "save"
                 THEN Append(versions, [number |-> edit[w].number, tree |-> edit[w].tree])
                 ELSE versions
  /\ edit' = [x \in Writers |->
       IF x = w THEN IdleEdit
       ELSE IF edit[x].op \in {"move", "restore"}
       THEN [edit[x] EXCEPT !.since = @ \cup {p \in Paths : Locks(w, p)}]
       ELSE edit[x]]
  /\ UNCHANGED <<stored, asked>>

(* Any failure, a crash included: the rows are rolled back, and a file     *)
(* that was being filled stays as it is.                                   *)
Abandon(w) ==
  /\ edit[w].pc # "idle"
  /\ GivesUp(w)
  /\ torn' = IF edit[w].pc = "fill" THEN torn \cup {edit[w].content} ELSE torn
  /\ UNCHANGED <<blob, temporary, filled>>

(* The database breaks a cycle of waiting transactions by failing one.     *)
WaitsForRow(w, x) ==
  /\ w # x
  /\ \/ edit[w].pc = "rows" /\ edit[w].todo # <<>> /\ NextRow(w).content = None
        /\ ~Locks(w, NextRow(w).path) /\ files[NextRow(w).path] # None
        /\ Locks(x, NextRow(w).path)
     \/ edit[w].pc = "put" /\ Locks(x, NextRow(w).path)
     \/ edit[w].pc = "insert" /\ Inserted(x) /\ edit[x].number = edit[w].number
     \/ edit[w].pc = "touch" /\ edit[x].touched

Stuck(w) ==
  \E C \in SUBSET Writers :
    /\ w \in C
    /\ \A x \in C : (\E y \in C : WaitsForRow(x, y)) /\ (\E y \in C : WaitsForRow(y, x))

BreakDeadlock(w) == Stuck(w) /\ GivesUp(w)

Unstored(w) ==
  /\ Lookup(w) \/ List(w) \/ DeleteRow(w) \/ GetRow(w) \/ PutRow(w) \/ RowsDone(w)
     \/ Compare(w) \/ Number(w) \/ Insert(w) \/ Touch(w) \/ BreakDeadlock(w)
  /\ UNCHANGED stored

(* What a request does by itself.                                          *)
Proceed(w) ==
  \/ /\ Exists(w) \/ Open(w) \/ Fill(w) \/ Replace(w) \/ Unstored(w)
     /\ UNCHANGED <<files, versions, asked>>
  \/ CommitEdit(w)

TreeNext ==
  \E w \in Writers :
    \/ Begin(w) \/ Proceed(w)
    \/ Abandon(w) /\ UNCHANGED <<files, versions, asked>>

TreeSpec == TreeInit /\ [][TreeNext]_treeVars

(* The event loop and the database run every statement to its end.         *)
TreeFairness == \A w \in Writers : WF_treeVars(Proceed(w))

TreeTypeOK ==
  /\ files \in Tree
  /\ versions \in Seq([number : Nat, tree : Tree])
  /\ blob \in [Contents -> Nat \cup {None}]
  /\ temporary \in [Contents -> Nat \cup {None}]
  /\ filled \subseteq Nat \X Contents
  /\ torn \subseteq Contents /\ asked \in 0..MaxRequests
  /\ edit \in [Writers -> EditRecord]

-----------------------------------------------------------------------------
(* Versions are numbered 1, 2, 3, ... in the order of their commits,       *)
(* without gaps or repetition, however saves overlap, the first ones of a  *)
(* project without a version included (a version's label is its number).   *)
SequencesContiguous == \A i \in DOMAIN versions : versions[i].number = i

Referred ==
  {files[p] : p \in Paths}
    \cup {versions[i].tree[p] : i \in DOMAIN versions, p \in Paths}

(* File f of content c is complete, unless a request is filling it or was  *)
(* stopped while it did.                                                   *)
Whole(f, c) ==
  \/ <<f, c>> \in filled
  \/ c \in torn
  \/ \E w \in Writers : edit[w].pc = "fill" /\ edit[w].content = c /\ edit[w].fd = f

(* The content of every committed row can be read, and is complete unless  *)
(* a request is filling the file, or was stopped while it did.             *)
RowsHaveContent ==
  \A c \in Contents \cap Referred : blob[c] # None /\ Whole(blob[c], c)

(* restore_version leaves the version and nothing else, but for the paths  *)
(* that others have committed while it was under way.                      *)
RestoreGivesVersion ==
  [][\A w \in Writers :
       edit[w].op = "restore" /\ CommitEdit(w) =>
         \A p \in Paths : files'[p] = edit[w].tree[p] \/ p \in edit[w].since]_treeVars

(* Every request ends, even those that lock rows in opposite orders.       *)
TreeRequestsEnd == \A w \in Writers : edit[w].pc # "idle" ~> edit[w].pc = "idle"

=============================================================================
