--------------------------- MODULE ProjectSettings ---------------------------
(***************************************************************************)
(* The row of one project, its run configurations and the other projects   *)
(* of its workspace: create, update, set_status, fork and _touch of        *)
(* ProjectService, create and delete of RunConfigurationService.           *)
(*                                                                         *)
(* A session is one request's transaction.  What it read of the project    *)
(* when it passed the guard is written back in whole: the repository reads *)
(* the row again and the ORM updates the columns that differ, under the    *)
(* row lock.                                                               *)
(***************************************************************************)
EXTENDS Naturals, Sequences, Absent

CONSTANTS
  Names,        \* names of projects
  Configs,      \* identifiers of run configurations
  Editors,      \* transactions that may be under way at the same time
  MaxEdits      \* bound: requests made

VARIABLES
  project,    \* the committed row of the project
  configs,    \* its committed run configurations
  spent,      \* the identifiers that have been generated
  siblings,   \* the other projects of the workspace, in order of commit
  forked,     \* the project is itself a fork
  crossed,    \* history: the operations that have overlapped another
  edits,      \* the number of requests made
  session     \* session[s]: the transaction of session s

settingsVars == <<project, configs, spent, siblings, forked, crossed, edits, session>>

ProjectRow == [name : Names, status : {"active", "archived"}, default : Configs \cup {None}]
SiblingRow == [name : Names, configs : SUBSET Configs]

ASSUME SettingsAssumption ==
  MaxEdits \in Nat /\ Configs # {} /\ None \notin Configs /\ None \notin ProjectRow \cup SiblingRow

SettingsOps ==
  {"update", "create_config", "delete_config", "create", "fork"}
Making == {"create", "fork"}         \* insert another project
StatusChoice == {"active", "archived", None}

SessionRecord ==
  [pc     : {"idle", "check", "update", "insert", "copy", "end"},
   op     : SettingsOps \cup {None},
   name   : Names \cup {None},                  \* the name to give
   config : Configs \cup {None},                \* the configuration in question
   status : StatusChoice,                       \* the status to set
   seen   : ProjectRow \cup {None},             \* the project, as read and changed
   base   : ProjectRow \cup {None},             \* as read again, before a wait
   new    : ProjectRow \cup {None},             \* as written, and locked
   made   : SiblingRow \cup {None}]             \* the project inserted

IdleSession ==
  [pc |-> "idle", op |-> None, name |-> None, config |-> None, status |-> None,
   seen |-> None, base |-> None, new |-> None, made |-> None]

FreshConfig(used) == CHOOSE c \in Configs : c \notin used

(* A project starts empty, or as a fork: with copies of the source's       *)
(* configurations and without a default one.                               *)
SettingsInit ==
  /\ \E n \in Names : project = [name |-> n, status |-> "active", default |-> None]
  /\ forked \in BOOLEAN
  /\ configs = IF forked THEN {FreshConfig({})} ELSE {}
  /\ spent = configs
  /\ siblings = <<>> /\ crossed = {} /\ edits = 0
  /\ session = [s \in Editors |-> IdleSession]

Sets(s, rec)   == session' = [session EXCEPT ![s] = rec]
Steps(s, pc)   == Sets(s, [session[s] EXCEPT !.pc = pc])
Fails(s)       == Sets(s, IdleSession)

-----------------------------------------------------------------------------
(* The guard reads the project.                                            *)
Opened(op) == [IdleSession EXCEPT !.op = op, !.seen = project]

UnderWay(s) == {session[x].op : x \in {y \in Editors \ {s} : session[y].pc # "idle"}}

(* Bound: an update names one thing.  (One that names nothing is _touch.)  *)
AtMostOne(n, c, st) == None \in {n, c} /\ None \in {n, st} /\ None \in {c, st}

BeginEdit(s) ==
  /\ session[s].pc = "idle"
  /\ edits < MaxEdits
  /\ edits' = edits + 1
  /\ \E op \in SettingsOps :
       /\ crossed' = IF UnderWay(s) = {} THEN crossed ELSE crossed \cup UnderWay(s) \cup {op}
       /\ \/ /\ op = "update"
             /\ \E n \in Names \cup {None}, c \in spent \cup {None}, st \in StatusChoice :
                  /\ AtMostOne(n, c, st)
                  /\ Sets(s, [Opened(op) EXCEPT !.pc = "check", !.name = n, !.config = c, !.status = st])
          \/ /\ op \in Making
             /\ \E n \in Names : Sets(s, [Opened(op) EXCEPT !.pc = "check", !.name = n])
          \/ /\ op = "delete_config"           \* the configuration is read first
             /\ \E c \in configs : Sets(s, [Opened(op) EXCEPT !.pc = "check", !.config = c])
          \/ /\ op = "create_config"
             /\ Configs \ spent # {}
             /\ Sets(s, [Opened(op) EXCEPT !.pc = "check", !.config = FreshConfig(spent)])
  /\ spent' = (spent \cup {session'[s].config}) \ {None}
  /\ UNCHANGED <<project, configs, siblings, forked>>

NamesTaken == {project.name} \cup {siblings[i].name : i \in DOMAIN siblings}

(* Faulty: the default configuration is deleted without a replacement.     *)
DefaultKept(row, c) == {row.default}

(* The possible defaults once configuration c is gone: one of the others.  *)
DefaultWithout(row, c) ==
  IF row.default # c THEN {row.default}
  ELSE IF configs \subseteq {c} THEN {None} ELSE configs \ {c}

(* What the operation looks up before it writes.  A first configuration    *)
(* becomes the default; deleting one reads the project again.              *)
Check(s) ==
  LET rec == session[s] IN
  /\ rec.pc = "check"
  /\ \/ /\ rec.op = "update"
        /\ IF \/ rec.name \notin {None, rec.seen.name} /\ rec.name \in NamesTaken
              \/ rec.config \notin configs \cup {None}
           THEN Fails(s)
           ELSE Sets(s, [rec EXCEPT !.pc = "update",
                  !.seen.name = IF rec.name = None THEN @ ELSE rec.name,
                  !.seen.default = IF rec.config = None THEN @ ELSE rec.config])
     \/ /\ rec.op \in Making
        /\ IF rec.name \in NamesTaken THEN Fails(s) ELSE Steps(s, "insert")
     \/ /\ rec.op = "create_config"
        /\ IF rec.seen.default # None THEN Steps(s, "end")
           ELSE Sets(s, [rec EXCEPT !.pc = "update", !.seen.default = rec.config])
     \/ /\ rec.op = "delete_config"
        /\ \E d \in DefaultWithout(project, rec.config) :
             Sets(s, [rec EXCEPT !.seen = [project EXCEPT !.default = d],
                        !.pc = IF d = project.default THEN "end" ELSE "update"])

-----------------------------------------------------------------------------
ProjectFree(s) == \A x \in Editors \ {s} : session[x].new = None

(* Names that other transactions have written and not committed.           *)
NamesPending(s) ==
  UNION {{session[x].made.name : x \in {y \in Editors \ {s} : session[y].made # None}},
         {session[x].new.name : x \in {y \in Editors \ {s} : session[y].new # None}}}

(* Faulty: there is no unique constraint on workspace and name.            *)
NameNeverRefused(name) == FALSE

NameRefused(name) == name \in NamesTaken

MergedRow(current, base, wanted) ==
  [f \in DOMAIN current |-> IF wanted[f] # base[f] THEN wanted[f] ELSE current[f]]

(* set_status follows the update in its transaction, on the row it wrote.  *)
WithStatus(row, status) == [row EXCEPT !.status = IF status = None THEN @ ELSE status]

(* projects.update: without a wait the second reading is the current row.  *)
UpdateProject(s) ==
  LET rec  == session[s]
      base == IF rec.base = None THEN project ELSE rec.base
      row  == MergedRow(project, base, rec.seen)
  IN /\ rec.pc = "update"
     /\ \/ /\ rec.seen = base /\ rec.op # "update"      \* an update writes updated_at
           /\ Steps(s, "end")
        \/ /\ rec.seen # base \/ rec.op = "update"
           /\ ~ProjectFree(s) /\ rec.base = None
           /\ Sets(s, [rec EXCEPT !.base = project])
        \/ /\ rec.seen # base \/ rec.op = "update"
           /\ ProjectFree(s)
           /\ row.name # project.name => row.name \notin NamesPending(s)
           /\ IF row.name # project.name /\ NameRefused(row.name) THEN Fails(s)
              ELSE Sets(s, [rec EXCEPT !.pc = "end", !.base = None, !.new = WithStatus(row, rec.status)])

(* projects.add, for a new project or a fork: the unique constraint waits  *)
(* for a transaction that has written the name.                            *)
InsertProject(s) ==
  LET rec == session[s] IN
  /\ rec.pc = "insert"
  /\ rec.name \notin NamesPending(s)
  /\ IF NameRefused(rec.name) THEN Fails(s)
     ELSE Sets(s, [rec EXCEPT !.pc = IF rec.op = "fork" THEN "copy" ELSE "end",
                     !.made = [name |-> rec.name, configs |-> {}]])

(* A fork copies the configurations the source has now.                    *)
CopyConfigs(s) ==
  /\ session[s].pc = "copy"
  /\ Sets(s, [session[s] EXCEPT !.pc = "end", !.made.configs = configs])

(* The last statements and the commit.  A configuration is deleted by its  *)
(* identifier: one that is gone already is no error.                       *)
EndEdit(s) ==
  LET rec == session[s] IN
  /\ rec.pc = "end"
  /\ project' = IF rec.new = None THEN project ELSE rec.new
  /\ configs' = CASE rec.op = "create_config" -> configs \cup {rec.config}
                  [] rec.op = "delete_config" -> configs \ {rec.config}
                  [] OTHER                    -> configs
  /\ siblings' = IF rec.made = None THEN siblings ELSE Append(siblings, rec.made)
  /\ Fails(s)
  /\ UNCHANGED <<spent, forked, crossed, edits>>

(* Any failure, being the victim of a deadlock included, rolls back.       *)
RollbackEdit(s) == session[s].pc # "idle" /\ Fails(s)

SettingsNext ==
  \E s \in Editors :
    \/ BeginEdit(s) \/ EndEdit(s)
    \/ /\ Check(s) \/ UpdateProject(s) \/ InsertProject(s) \/ CopyConfigs(s)
          \/ RollbackEdit(s)
       /\ UNCHANGED <<project, configs, spent, siblings, forked, crossed, edits>>

SettingsSpec == SettingsInit /\ [][SettingsNext]_settingsVars

SettingsTypeOK ==
  /\ project \in ProjectRow
  /\ configs \subseteq spent /\ spent \subseteq Configs
  /\ siblings \in Seq(SiblingRow)
  /\ forked \in BOOLEAN /\ crossed \subseteq SettingsOps /\ edits \in 0..MaxEdits
  /\ session \in [Editors -> SessionRecord]

-----------------------------------------------------------------------------
(* Two projects of a workspace never share a name, although every request  *)
(* asks for it and inserts later.                                          *)
NamesUnique ==
  /\ \A i, j \in DOMAIN siblings : siblings[i].name = siblings[j].name => i = j
  /\ \A i \in DOMAIN siblings : siblings[i].name # project.name

(* The default is one of the project's configurations, unless a deletion   *)
(* has overlapped another request; and a project that is no fork lacks one *)
(* only when it has no configurations, unless any two have overlapped.     *)
DefaultFollowsConfigurations ==
  /\ "delete_config" \notin crossed => project.default \in configs \cup {None}
  /\ crossed = {} /\ ~forked => (project.default = None <=> configs = {})

=============================================================================
