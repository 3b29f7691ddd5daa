--------------------------- MODULE SettingsProofs ---------------------------
(***************************************************************************)
(* Proofs about the row of a project, its run configurations and the other *)
(* projects of its workspace, for any number of overlapping requests.      *)
(***************************************************************************)
EXTENDS ProjectSettings, TLAPS

-----------------------------------------------------------------------------
(* The names of projects.  What a transaction has inserted or written, the *)
(* unique constraint has compared with every committed name and with every *)
(* name another transaction has inserted or written.                       *)
SessionFields == {"pc", "op", "name", "config", "status", "seen", "base", "new", "made"}
RowFields == {"name", "status", "default"}

SessionGood(rec) ==
  /\ DOMAIN rec = SessionFields
  /\ rec.pc \in {"idle", "check", "update", "insert", "copy"} => rec.new = None
  /\ rec.pc \in {"idle", "check", "update", "insert"} => rec.made = None
  /\ rec.pc = "copy" => rec.made # None
  /\ rec.new = None \/ rec.made = None
  /\ rec.pc \in {"check", "insert"} /\ rec.op \in Making => rec.name \in Names
  /\ rec.pc = "insert" => rec.op \in Making
  /\ rec.new # None => /\ DOMAIN rec.new = RowFields
                       /\ rec.new.name = project.name \/ rec.new.name \notin NamesTaken
  /\ rec.made # None => /\ DOMAIN rec.made = {"name", "configs"}
                        /\ rec.made.name \notin NamesTaken

Compatible(a, b) ==
  /\ a.new = None \/ b.new = None
  /\ a.made # None /\ b.made # None => a.made.name # b.made.name
  /\ a.new # None /\ b.made # None => a.new.name # b.made.name
  /\ a.made # None /\ b.new # None => a.made.name # b.new.name

NamesInv ==
  /\ DOMAIN session = Editors
  /\ DOMAIN project = RowFields
  /\ \E S : siblings \in Seq(S)
  /\ NamesUnique
  /\ \A s \in Editors : SessionGood(session[s])
  /\ \A s, t \in Editors : s # t => Compatible(session[s], session[t])

LEMMA IdleSessionGood ==
  /\ DOMAIN IdleSession = SessionFields /\ IdleSession.pc = "idle"
  /\ IdleSession.new = None /\ IdleSession.made = None
  /\ SessionGood(IdleSession) /\ \A b : Compatible(IdleSession, b) /\ Compatible(b, IdleSession)
BY DEF IdleSession, SessionFields, SessionGood, Compatible

LEMMA NamesInitial == SettingsInit => NamesInv
<1> SUFFICES ASSUME SettingsInit PROVE NamesInv
  OBVIOUS
<1>1. DOMAIN project = RowFields
  BY DEF SettingsInit, RowFields
<1>2. siblings = <<>> /\ siblings \in Seq({})
  BY DEF SettingsInit
<1>3. NamesUnique
  BY <1>2 DEF NamesUnique
<1>4. DOMAIN session = Editors /\ \A s \in Editors : session[s] = IdleSession
  BY DEF SettingsInit
<1>5. QED
  BY <1>1, <1>2, <1>3, <1>4, IdleSessionGood DEF NamesInv

(* A transaction goes on; nothing is committed.                            *)
LEMMA SessionKeeps ==
  ASSUME NamesInv, NEW s \in Editors, NEW rec, Sets(s, rec), SessionGood(rec),
         \A x \in Editors \ {s} : Compatible(rec, session[x]),
         UNCHANGED <<project, siblings>>
  PROVE  NamesInv'
<1>1. DOMAIN session' = Editors /\ \A x \in Editors : session'[x] = IF x = s THEN rec ELSE session[x]
  BY DEF Sets, NamesInv
<1>2. NamesTaken' = NamesTaken
  BY DEF NamesTaken
<1>3. \A x \in Editors : SessionGood(session'[x])
  BY <1>1 DEF NamesInv
<1>4. \A x \in Editors : SessionGood(session[x])'
  BY <1>2, <1>3 DEF SessionGood
<1>5. \A x, y \in Editors : x # y => Compatible(session'[x], session'[y])
  <2>1. \A x \in Editors \ {s} : Compatible(session[x], rec)
    BY DEF Compatible
  <2>2. QED
    BY <1>1, <2>1 DEF NamesInv
<1>6. NamesUnique'
  BY DEF NamesInv, NamesUnique
<1>7. QED
  BY <1>1, <1>4, <1>5, <1>6 DEF NamesInv

LEMMA FailKeeps ==
  ASSUME NamesInv, NEW s \in Editors, Fails(s), UNCHANGED <<project, siblings>>
  PROVE  NamesInv'
BY IdleSessionGood, SessionKeeps DEF Fails

(* A transaction that has written no name.                                 *)
LEMMA PlainKeeps ==
  ASSUME NamesInv, NEW s \in Editors, NEW rec, Sets(s, rec), UNCHANGED <<project, siblings>>,
         DOMAIN rec = SessionFields, rec.new = None, rec.made = None,
         rec.pc \in {"check", "update", "end"} \/ (rec.pc = "insert" /\ rec.op \in Making),
         rec.pc \in {"check", "insert"} /\ rec.op \in Making => rec.name \in Names
  PROVE  NamesInv'
<1>1. SessionGood(rec) /\ \A x \in Editors \ {s} : Compatible(rec, session[x])
  BY DEF SessionGood, Compatible
<1>2. QED
  BY <1>1, SessionKeeps

LEMMA BeginEditKeeps ==
  ASSUME NamesInv, NEW s \in Editors, BeginEdit(s)
  PROVE  NamesInv'
<1> DEFINE update(op, n, c, st) ==
             [Opened(op) EXCEPT !.pc = "check", !.name = n, !.config = c, !.status = st]
           making(op, n) == [Opened(op) EXCEPT !.pc = "check", !.name = n]
           config(op, c) == [Opened(op) EXCEPT !.pc = "check", !.config = c]
<1>1. UNCHANGED <<project, siblings>>
  BY DEF BeginEdit
<1>2. \A op : /\ DOMAIN Opened(op) = SessionFields /\ Opened(op).op = op
              /\ Opened(op).new = None /\ Opened(op).made = None
  BY IdleSessionGood DEF Opened, SessionFields
<1>3. /\ \A op, n, c, st : /\ DOMAIN update(op, n, c, st) = SessionFields
                           /\ update(op, n, c, st).pc = "check" /\ update(op, n, c, st).op = op
                           /\ update(op, n, c, st).new = None /\ update(op, n, c, st).made = None
      /\ \A op, n : /\ DOMAIN making(op, n) = SessionFields
                    /\ making(op, n).pc = "check" /\ making(op, n).op = op /\ making(op, n).name = n
                    /\ making(op, n).new = None /\ making(op, n).made = None
      /\ \A op, c : /\ DOMAIN config(op, c) = SessionFields
                    /\ config(op, c).pc = "check" /\ config(op, c).op = op
                    /\ config(op, c).new = None /\ config(op, c).made = None
  BY <1>2 DEF SessionFields
<1>4. \/ \E n, c, st : Sets(s, update("update", n, c, st))
      \/ \E op \in Making, n \in Names : Sets(s, making(op, n))
      \/ \E op \in {"delete_config", "create_config"} : \E c : Sets(s, config(op, c))
  BY Zenon DEF BeginEdit
<1> HIDE DEF update, making, config
<1>5. CASE \E n, c, st : Sets(s, update("update", n, c, st))
  BY <1>1, <1>3, <1>5, PlainKeeps DEF Making
<1>6. CASE \E op \in Making, n \in Names : Sets(s, making(op, n))
  BY <1>1, <1>3, <1>6, PlainKeeps
<1>7. CASE \E op \in {"delete_config", "create_config"} : \E c : Sets(s, config(op, c))
  BY <1>1, <1>3, <1>7, PlainKeeps DEF Making
<1>8. QED
  BY <1>4, <1>5, <1>6, <1>7

LEMMA CheckKeeps ==
  ASSUME NamesInv, NEW s \in Editors, Check(s), UNCHANGED <<project, siblings>>
  PROVE  NamesInv'
<1> DEFINE rec == session[s]
           renamed(n, d) == [rec EXCEPT !.pc = "update", !.seen.name = n, !.seen.default = d]
           first == [rec EXCEPT !.pc = "update", !.seen.default = rec.config]
           goes(pc) == [rec EXCEPT !.pc = pc]
           reread(d) == [rec EXCEPT !.seen = [project EXCEPT !.default = d],
                           !.pc = IF d = project.default THEN "end" ELSE "update"]
           Plain(r) == /\ DOMAIN r = SessionFields /\ r.new = None /\ r.made = None
                       /\ r.op = rec.op /\ r.name = rec.name
<1>1. /\ DOMAIN rec = SessionFields /\ rec.new = None /\ rec.made = None
      /\ rec.pc = "check" /\ (rec.op \in Making => rec.name \in Names)
  BY DEF Check, NamesInv, SessionGood
<1>2. /\ \A n, d : Plain(renamed(n, d)) /\ renamed(n, d).pc = "update"
      /\ Plain(first) /\ first.pc = "update"
      /\ \A pc : Plain(goes(pc)) /\ goes(pc).pc = pc
      /\ \A d : Plain(reread(d)) /\ reread(d).pc \in {"end", "update"}
  BY <1>1 DEF SessionFields
<1>3. \/ Fails(s)
      \/ \E n, d : Sets(s, renamed(n, d))
      \/ Sets(s, first)
      \/ Sets(s, goes("end"))
      \/ rec.op \in Making /\ Sets(s, goes("insert"))
      \/ \E d : Sets(s, reread(d))
  BY Zenon DEF Check, Steps
<1> HIDE DEF renamed, first, goes, reread
<1>4. \A r : Sets(s, r) /\ Plain(r) /\ r.pc \in {"update", "end"} => NamesInv'
  BY PlainKeeps
<1>5. rec.op \in Making /\ Sets(s, goes("insert")) => NamesInv'
  BY <1>1, <1>2, PlainKeeps
<1>6. QED
  BY <1>2, <1>3, <1>4, <1>5, FailKeeps

(* The update waits for the row, and its name for those who are taking it. *)
LEMMA UpdateKeeps ==
  ASSUME NamesInv, NEW s \in Editors, UpdateProject(s), UNCHANGED <<project, siblings>>
  PROVE  NamesInv'
<1> DEFINE rec == session[s]
           base == IF rec.base = None THEN project ELSE rec.base
           row == MergedRow(project, base, rec.seen)
           next == WithStatus(row, rec.status)
           goes == [rec EXCEPT !.pc = "end"]
           waits == [rec EXCEPT !.base = project]
           writes == [rec EXCEPT !.pc = "end", !.base = None, !.new = next]
<1>1. /\ DOMAIN rec = SessionFields /\ rec.new = None /\ rec.made = None /\ rec.pc = "update"
  BY DEF UpdateProject, NamesInv, SessionGood
<1>2. /\ DOMAIN goes = SessionFields /\ goes.new = None /\ goes.made = None /\ goes.pc = "end"
      /\ DOMAIN waits = SessionFields /\ waits.new = None /\ waits.made = None /\ waits.pc = "update"
      /\ DOMAIN writes = SessionFields /\ writes.new = next /\ writes.made = None /\ writes.pc = "end"
  BY <1>1 DEF SessionFields
<1>3. DOMAIN next = RowFields /\ next.name = row.name
  <2>1. DOMAIN row = RowFields
    BY DEF MergedRow, NamesInv
  <2> HIDE DEF row
  <2>2. QED
    BY <2>1 DEF WithStatus, RowFields
<1>4. \/ Sets(s, goes) \/ Sets(s, waits) \/ Fails(s)
      \/ /\ ProjectFree(s)
         /\ row.name # project.name => row.name \notin NamesPending(s)
         /\ row.name # project.name => ~NameRefused(row.name)
         /\ Sets(s, writes)
  BY Zenon DEF UpdateProject, Steps
<1> HIDE DEF goes, waits, writes, next, row, base
<1>5. CASE Sets(s, goes) \/ Sets(s, waits) \/ Fails(s)
  BY <1>2, <1>5, PlainKeeps, FailKeeps
<1>6. CASE /\ ProjectFree(s)
           /\ row.name # project.name => row.name \notin NamesPending(s)
           /\ row.name # project.name => ~NameRefused(row.name)
           /\ Sets(s, writes)
  <2>1. SessionGood(writes)
    BY <1>2, <1>3, <1>6 DEF SessionGood, NameRefused
  <2>2. ASSUME NEW x \in Editors \ {s}
        PROVE  Compatible(writes, session[x])
    <3>1. session[x].new = None
      BY <1>6 DEF ProjectFree
    <3>2. session[x].made # None => session[x].made.name \notin NamesTaken
      BY DEF NamesInv, SessionGood
    <3>3. project.name \in NamesTaken
      BY DEF NamesTaken
    <3>4. session[x].made # None => session[x].made.name \in NamesPending(s)
      BY DEF NamesPending
    <3>5. session[x].made # None => session[x].made.name # row.name
      BY <1>6, <3>2, <3>3, <3>4
    <3>6. QED
      BY <1>2, <1>3, <3>1, <3>5 DEF Compatible
  <2>3. QED
    BY <1>6, <2>1, <2>2, SessionKeeps
<1>7. QED
  BY <1>4, <1>5, <1>6

LEMMA InsertProjectKeeps ==
  ASSUME NamesInv, NEW s \in Editors, InsertProject(s), UNCHANGED <<project, siblings>>
  PROVE  NamesInv'
<1> DEFINE rec == session[s]
           inserted == [name |-> rec.name, configs |-> {}]
           inserts == [rec EXCEPT !.pc = IF rec.op = "fork" THEN "copy" ELSE "end", !.made = inserted]
<1>1. /\ DOMAIN rec = SessionFields /\ rec.new = None /\ rec.made = None /\ rec.name \in Names
  BY DEF InsertProject, NamesInv, SessionGood
<1>2. inserted # None /\ DOMAIN inserted = {"name", "configs"} /\ inserted.name = rec.name
  BY <1>1, SettingsAssumption DEF SettingsAssumption, SiblingRow
<1>3. /\ DOMAIN inserts = SessionFields /\ inserts.new = None /\ inserts.made = inserted
      /\ inserts.pc \in {"copy", "end"}
  BY <1>1 DEF SessionFields
<1>4. \/ Fails(s)
      \/ rec.name \notin NamesPending(s) /\ ~NameRefused(rec.name) /\ Sets(s, inserts)
  BY Zenon DEF InsertProject
<1> HIDE DEF inserts, inserted
<1>5. CASE rec.name \notin NamesPending(s) /\ ~NameRefused(rec.name) /\ Sets(s, inserts)
  <2>1. SessionGood(inserts)
    BY <1>2, <1>3, <1>5 DEF SessionGood, NameRefused
  <2>2. ASSUME NEW x \in Editors \ {s}
        PROVE  Compatible(inserts, session[x])
    <3>1. /\ session[x].made # None => session[x].made.name \in NamesPending(s)
          /\ session[x].new # None => session[x].new.name \in NamesPending(s)
      BY DEF NamesPending
    <3>2. QED
      BY <1>2, <1>3, <1>5, <3>1 DEF Compatible
  <2>3. QED
    BY <1>5, <2>1, <2>2, SessionKeeps
<1>6. QED
  BY <1>4, <1>5, FailKeeps

LEMMA CopyKeeps ==
  ASSUME NamesInv, NEW s \in Editors, CopyConfigs(s), UNCHANGED <<project, siblings>>
  PROVE  NamesInv'
<1> DEFINE rec == session[s]
           copied == [rec.made EXCEPT !.configs = configs]
           copies == [rec EXCEPT !.pc = "end", !.made.configs = configs]
<1>1. /\ DOMAIN rec = SessionFields /\ rec.new = None /\ rec.made # None
      /\ DOMAIN rec.made = {"name", "configs"} /\ rec.made.name \notin NamesTaken
  BY DEF CopyConfigs, NamesInv, SessionGood
<1>2. DOMAIN copied = {"name", "configs"} /\ copied.name = rec.made.name
  BY <1>1
<1>3. /\ DOMAIN copies = SessionFields /\ copies.new = None /\ copies.made = copied
      /\ copies.pc = "end"
  BY <1>1 DEF SessionFields
<1>4. Sets(s, copies)
  BY DEF CopyConfigs
<1> HIDE DEF copies, copied
<1>5. SessionGood(copies)
  BY <1>1, <1>2, <1>3 DEF SessionGood
<1>6. ASSUME NEW x \in Editors \ {s}
      PROVE  Compatible(copies, session[x])
  <2>1. Compatible(rec, session[x])
    BY DEF NamesInv
  <2>2. QED
    BY <1>1, <1>2, <1>3, <2>1 DEF Compatible
<1>7. QED
  BY <1>4, <1>5, <1>6, SessionKeeps

(* The commit: what the transaction wrote is what nobody else may take.    *)
LEMMA EndKeeps ==
  ASSUME NamesInv, NEW s \in Editors, EndEdit(s)
  PROVE  NamesInv'
<1> DEFINE rec == session[s]
<1>1. SessionGood(rec) /\ \A x \in Editors \ {s} : SessionGood(session[x]) /\ Compatible(rec, session[x])
  BY DEF NamesInv
<1>2. DOMAIN session' = Editors /\ \A x \in Editors : session'[x] = IF x = s THEN IdleSession ELSE session[x]
  BY DEF EndEdit, Fails, Sets, NamesInv
<1>3. /\ project' = IF rec.new = None THEN project ELSE rec.new
      /\ siblings' = IF rec.made = None THEN siblings ELSE Append(siblings, rec.made)
  BY DEF EndEdit
<1>4. \A x, y \in Editors : x # y => Compatible(session'[x], session'[y])
  BY <1>2, IdleSessionGood DEF NamesInv
<1>5. /\ \E S : siblings' \in Seq(S)
      /\ \A i \in DOMAIN siblings' :
           \/ i \in DOMAIN siblings /\ siblings'[i] = siblings[i]
           \/ rec.made # None /\ siblings'[i] = rec.made /\ i = Len(siblings) + 1
      /\ DOMAIN siblings \subseteq DOMAIN siblings'
      /\ \A i \in DOMAIN siblings : siblings'[i] = siblings[i]
      /\ rec.made # None => \E i \in DOMAIN siblings' : siblings'[i] = rec.made
  <2>1. PICK S : siblings \in Seq(S)
    BY DEF NamesInv
  <2>2. CASE rec.made = None
    BY <1>3, <2>1, <2>2
  <2>3. CASE rec.made # None
    <3> DEFINE T == S \cup {rec.made}
    <3>1. siblings \in Seq(T) /\ rec.made \in T
      BY <2>1
    <3> HIDE DEF T
    <3>2. siblings' = Append(siblings, rec.made) /\ siblings' \in Seq(T)
      BY <1>3, <2>3, <3>1
    <3>3. QED
      BY <2>3, <3>1, <3>2
  <2>4. QED
    BY <2>2, <2>3
<1>6. /\ DOMAIN project' = RowFields
      /\ project'.name = IF rec.new = None THEN project.name ELSE rec.new.name
  BY <1>1, <1>3 DEF SessionGood, NamesInv
<1>7. /\ \A n \in NamesTaken' : \/ n \in NamesTaken
                                \/ rec.new # None /\ n = rec.new.name
                                \/ rec.made # None /\ n = rec.made.name
      /\ project'.name \in NamesTaken'
  BY <1>5, <1>6 DEF NamesTaken
<1>8. NamesUnique'
  <2>1. \A i \in DOMAIN siblings : siblings[i].name \in NamesTaken
    BY DEF NamesTaken
  <2>2. project.name \in NamesTaken
    BY DEF NamesTaken
  <2>3. \A i, j \in DOMAIN siblings' : siblings'[i].name = siblings'[j].name => i = j
    BY <1>1, <1>5, <2>1 DEF SessionGood, NamesInv, NamesUnique
  <2>4. \A i \in DOMAIN siblings' : siblings'[i].name # project'.name
    BY <1>1, <1>5, <1>6, <2>1, <2>2 DEF SessionGood, NamesInv, NamesUnique
  <2>5. QED
    BY <2>3, <2>4 DEF NamesUnique
<1>9. ASSUME NEW x \in Editors
      PROVE  SessionGood(session[x])'
  <2> DEFINE other == session'[x]
  <2>1. CASE x = s
    <3>1. session'[x] = IdleSession
      BY <1>2, <2>1
    <3>2. QED
      BY <3>1, IdleSessionGood DEF SessionGood
  <2>2. CASE x # s
    <3>1. other = session[x] /\ SessionGood(session[x]) /\ Compatible(rec, session[x])
      BY <1>1, <1>2, <2>2
    <3>2. other.new # None => other.new.name = project'.name \/ other.new.name \notin NamesTaken'
      BY <1>6, <1>7, <3>1 DEF SessionGood, Compatible
    <3>3. other.made # None => other.made.name \notin NamesTaken'
      BY <1>7, <3>1 DEF SessionGood, Compatible
    <3>4. QED
      BY <3>1, <3>2, <3>3 DEF SessionGood
  <2>3. QED
    BY <2>1, <2>2
<1>10. QED
  BY <1>2, <1>4, <1>5, <1>6, <1>8, <1>9 DEF NamesInv

LEMMA NamesStep == NamesInv /\ [SettingsNext]_settingsVars => NamesInv'
<1> SUFFICES ASSUME NamesInv, [SettingsNext]_settingsVars PROVE NamesInv'
  OBVIOUS
<1>1. CASE UNCHANGED settingsVars
  BY <1>1 DEF settingsVars, NamesInv, NamesUnique, NamesTaken, SessionGood
<1>2. CASE SettingsNext
  <2>1. PICK s \in Editors :
          \/ BeginEdit(s) \/ EndEdit(s)
          \/ /\ Check(s) \/ UpdateProject(s) \/ InsertProject(s) \/ CopyConfigs(s) \/ RollbackEdit(s)
             /\ UNCHANGED <<project, siblings>>
    BY <1>2, Zenon DEF SettingsNext
  <2>2. RollbackEdit(s) => Fails(s)
    BY DEF RollbackEdit
  <2>3. QED
    BY <2>1, <2>2, BeginEditKeeps, EndKeeps, CheckKeeps, UpdateKeeps, InsertProjectKeeps,
       CopyKeeps, FailKeeps
<1>3. QED
  BY <1>1, <1>2

(* Whatever requests overlap, two projects of a workspace never share a    *)
(* name: each request asks for the name and inserts or renames later, and  *)
(* the unique constraint of (workspace, name) refuses the second.          *)
THEOREM ProjectNamesAreUnique == SettingsSpec => []NamesUnique
<1>1. NamesInv => NamesUnique
  BY DEF NamesInv
<1>2. QED
  BY <1>1, NamesInitial, NamesStep, PTL DEF SettingsSpec

-----------------------------------------------------------------------------
(* The types.  A request that is under way holds the project as a row, and *)
(* a configuration that has been generated.                                *)
Typed(rec, used) ==
  /\ rec \in SessionRecord
  /\ rec.pc # "idle" =>
       /\ rec.op \in SettingsOps /\ rec.seen \in ProjectRow
       /\ rec.config \in used \cup {None}
       /\ rec.op = "create_config" => rec.config # None

TypesInv == SettingsTypeOK /\ \A s \in Editors : Typed(session[s], spent)

LEMMA IdleTyped == \A used : Typed(IdleSession, used)
BY DEF Typed, IdleSession, SessionRecord, StatusChoice

LEMMA TypesInitial == SettingsInit => TypesInv
<1> SUFFICES ASSUME SettingsInit PROVE TypesInv
  OBVIOUS
<1>1. /\ \A s \in Editors : session[s] = IdleSession
      /\ session \in [Editors -> SessionRecord]
  BY IdleTyped DEF SettingsInit, Typed
<1>2. FreshConfig({}) \in Configs
  BY SettingsAssumption DEF SettingsAssumption, FreshConfig
<1>3. project \in ProjectRow
  BY DEF SettingsInit, ProjectRow
<1>4. QED
  BY <1>1, <1>2, <1>3, IdleTyped, SettingsAssumption
     DEF TypesInv, SettingsTypeOK, SettingsInit, SettingsAssumption

LEMMA TypesKeep ==
  ASSUME TypesInv, NEW s \in Editors, NEW rec, Sets(s, rec), Typed(rec, spent),
         UNCHANGED <<project, configs, spent, siblings, forked, crossed, edits>>
  PROVE  TypesInv'
<1>1. /\ \A x \in Editors : session'[x] = IF x = s THEN rec ELSE session[x]
      /\ session' \in [Editors -> SessionRecord]
  BY DEF Sets, TypesInv, SettingsTypeOK, Typed
<1>2. SettingsTypeOK'
  BY <1>1 DEF TypesInv, SettingsTypeOK
<1>3. QED
  BY <1>1, <1>2 DEF TypesInv

(* One field of a request at a time.                                       *)
LEMMA FieldTyped ==
  ASSUME NEW o \in SessionRecord
  PROVE  /\ LET r == [o EXCEPT !.pc = "check"]
            IN r \in SessionRecord /\ r.op = o.op /\ r.seen = o.seen
         /\ \A n \in Names \cup {None} :
              LET r == [o EXCEPT !.name = n]
              IN r \in SessionRecord /\ r.op = o.op /\ r.seen = o.seen
         /\ \A c \in Configs \cup {None} :
              LET r == [o EXCEPT !.config = c]
              IN r \in SessionRecord /\ r.op = o.op /\ r.seen = o.seen /\ r.config = c
         /\ \A st \in StatusChoice :
              LET r == [o EXCEPT !.status = st]
              IN r \in SessionRecord /\ r.op = o.op /\ r.seen = o.seen
<1>1. LET r == [o EXCEPT !.pc = "check"]
      IN r \in SessionRecord /\ r.op = o.op /\ r.seen = o.seen
  BY DEF SessionRecord
<1>2. ASSUME NEW n \in Names \cup {None}
      PROVE  LET r == [o EXCEPT !.name = n]
             IN r \in SessionRecord /\ r.op = o.op /\ r.seen = o.seen
  BY DEF SessionRecord
<1>3. ASSUME NEW c \in Configs \cup {None}
      PROVE  LET r == [o EXCEPT !.config = c]
             IN r \in SessionRecord /\ r.op = o.op /\ r.seen = o.seen /\ r.config = c
  BY DEF SessionRecord
<1>4. ASSUME NEW st \in StatusChoice
      PROVE  LET r == [o EXCEPT !.status = st]
             IN r \in SessionRecord /\ r.op = o.op /\ r.seen = o.seen
  BY DEF SessionRecord
<1>5. QED
  BY <1>1, <1>2, <1>3, <1>4

Made(o, n)           == [o EXCEPT !.pc = "check", !.name = n]
Configured(o, c)     == [o EXCEPT !.pc = "check", !.config = c]
Updated(o, n, c, st) == [o EXCEPT !.pc = "check", !.name = n, !.config = c, !.status = st]

LEMMA MakingTyped ==
  ASSUME NEW o \in SessionRecord, NEW n \in Names \cup {None}
  PROVE  LET r == Made(o, n)
         IN r \in SessionRecord /\ r.op = o.op /\ r.seen = o.seen
<1> DEFINE checks == [o EXCEPT !.pc = "check"]
           named == [checks EXCEPT !.name = n]
<1>1. checks \in SessionRecord /\ checks.op = o.op /\ checks.seen = o.seen
  BY FieldTyped
<1> HIDE DEF checks
<1>2. named \in SessionRecord /\ named.op = o.op /\ named.seen = o.seen
  BY <1>1, FieldTyped
<1> HIDE DEF named
<1>3. QED
  BY <1>2, Zenon DEF checks, named, Made

LEMMA ConfigTyped ==
  ASSUME NEW o \in SessionRecord, NEW c \in Configs \cup {None}
  PROVE  LET r == Configured(o, c)
         IN r \in SessionRecord /\ r.op = o.op /\ r.seen = o.seen /\ r.config = c
<1> DEFINE checks == [o EXCEPT !.pc = "check"]
           configured == [checks EXCEPT !.config = c]
<1>1. checks \in SessionRecord /\ checks.op = o.op /\ checks.seen = o.seen
  BY FieldTyped
<1> HIDE DEF checks
<1>2. /\ configured \in SessionRecord /\ configured.op = o.op /\ configured.seen = o.seen
      /\ configured.config = c
  BY <1>1, FieldTyped
<1> HIDE DEF configured
<1>3. QED
  BY <1>2, Zenon DEF checks, configured, Configured

LEMMA UpdateTyped ==
  ASSUME NEW o \in SessionRecord, NEW n \in Names \cup {None}, NEW c \in Configs \cup {None},
         NEW st \in StatusChoice
  PROVE  LET r == Updated(o, n, c, st)
         IN r \in SessionRecord /\ r.op = o.op /\ r.seen = o.seen
<1> DEFINE named == Made(o, n)
           both == [named EXCEPT !.config = c]
           all == [both EXCEPT !.status = st]
<1>1. named \in SessionRecord /\ named.op = o.op /\ named.seen = o.seen
  BY MakingTyped
<1> HIDE DEF named
<1>2. both \in SessionRecord /\ both.op = o.op /\ both.seen = o.seen
  BY <1>1, FieldTyped
<1> HIDE DEF both
<1>3. all \in SessionRecord /\ all.op = o.op /\ all.seen = o.seen
  BY <1>2, FieldTyped
<1> HIDE DEF all
<1>4. QED
  BY <1>3, Zenon DEF named, both, all, Made, Updated

LEMMA BeginTypes ==
  ASSUME TypesInv, NEW s \in Editors, BeginEdit(s)
  PROVE  TypesInv'
<1> DEFINE update(op, n, c, st) == Updated(Opened(op), n, c, st)
           making(op, n) == Made(Opened(op), n)
           config(op, c) == Configured(Opened(op), c)
           Good(rec) == /\ rec \in SessionRecord /\ rec.op \in SettingsOps
                        /\ rec.seen \in ProjectRow
                        /\ rec.op = "create_config" => rec.config # None
<1>1. /\ UNCHANGED <<project, configs, siblings, forked>>
      /\ edits < MaxEdits /\ edits' = edits + 1
      /\ spent' = (spent \cup {session'[s].config}) \ {None}
  BY DEF BeginEdit
<1>2. /\ project \in ProjectRow /\ configs \subseteq spent /\ spent \subseteq Configs
      /\ siblings \in Seq(SiblingRow) /\ forked \in BOOLEAN /\ crossed \subseteq SettingsOps
      /\ edits \in 0..MaxEdits /\ session \in [Editors -> SessionRecord]
      /\ None \notin Configs /\ MaxEdits \in Nat
  BY SettingsAssumption DEF TypesInv, SettingsTypeOK, SettingsAssumption
<1>3. \A op \in SettingsOps : /\ Opened(op) \in SessionRecord
                              /\ Opened(op).op = op /\ Opened(op).seen = project
  BY <1>2 DEF Opened, IdleSession, SessionRecord, StatusChoice
<1>4. /\ \A n \in Names \cup {None}, c \in Configs \cup {None}, st \in StatusChoice :
           Good(update("update", n, c, st))
      /\ \A op \in Making, n \in Names : Good(making(op, n))
      /\ \A op \in {"delete_config", "create_config"}, c \in Configs : Good(config(op, c))
  <2>1. Making \subseteq SettingsOps \ {"create_config"} /\ "update" \in SettingsOps
    BY DEF Making, SettingsOps
  <2>2. ASSUME NEW n \in Names \cup {None}, NEW c \in Configs \cup {None}, NEW st \in StatusChoice
        PROVE  Good(update("update", n, c, st))
    <3> DEFINE o == Opened("update")
               rec == Updated(o, n, c, st)
    <3>1. o \in SessionRecord /\ o.op = "update" /\ o.seen = project
      BY <1>3, <2>1
    <3> HIDE DEF o
    <3>2. rec \in SessionRecord /\ rec.op = o.op /\ rec.seen = o.seen
      BY <3>1, UpdateTyped
    <3> HIDE DEF rec
    <3>3. Good(rec)
      BY <1>2, <2>1, <3>1, <3>2
    <3>4. QED
      BY <3>3 DEF rec, o
  <2>3. ASSUME NEW op \in Making, NEW n \in Names
        PROVE  Good(making(op, n))
    <3> DEFINE o == Opened(op)
               rec == Made(o, n)
    <3>1. /\ None \in Configs \cup {None} /\ None \in StatusChoice /\ n \in Names \cup {None}
          /\ op \in SettingsOps \ {"create_config"}
      BY <2>1 DEF StatusChoice
    <3>2. o \in SessionRecord /\ o.op = op /\ o.seen = project
      BY <1>3, <3>1
    <3> HIDE DEF o
    <3>3. rec \in SessionRecord /\ rec.op = op /\ rec.seen = project
      BY <3>1, <3>2, MakingTyped
    <3> HIDE DEF rec
    <3>4. Good(rec)
      BY <1>2, <3>1, <3>3
    <3>5. QED
      BY <3>4 DEF rec, o
  <2>4. ASSUME NEW op \in {"delete_config", "create_config"}, NEW c \in Configs
        PROVE  Good(config(op, c))
    <3> DEFINE o == Opened(op)
               rec == Configured(o, c)
    <3>1. /\ None \in Names \cup {None} /\ None \in StatusChoice /\ c \in Configs \cup {None}
          /\ op \in SettingsOps
      BY DEF StatusChoice, SettingsOps
    <3>2. o \in SessionRecord /\ o.op = op /\ o.seen = project
      BY <1>3, <3>1
    <3> HIDE DEF o
    <3>3. rec \in SessionRecord /\ rec.op = op /\ rec.seen = project /\ rec.config = c
      BY <3>1, <3>2, ConfigTyped
    <3> HIDE DEF rec
    <3>4. Good(rec)
      BY <1>2, <3>1, <3>3
    <3>5. QED
      BY <3>4 DEF rec, o
  <2>5. QED
    BY <2>2, <2>3, <2>4
<1> HIDE DEF update, making, config, Good
<1>5. Configs \ spent # {} => FreshConfig(spent) \in Configs
  BY DEF FreshConfig
<1>6. \E op \in SettingsOps :
        /\ crossed' = IF UnderWay(s) = {} THEN crossed ELSE crossed \cup UnderWay(s) \cup {op}
        /\ \/ /\ op = "update"
              /\ \E n \in Names \cup {None}, c \in spent \cup {None}, st \in StatusChoice :
                   Sets(s, update("update", n, c, st))
           \/ op \in Making /\ \E n \in Names : Sets(s, making(op, n))
           \/ op = "delete_config" /\ \E c \in configs : Sets(s, config(op, c))
           \/ /\ op = "create_config" /\ Configs \ spent # {}
              /\ Sets(s, config(op, FreshConfig(spent)))
  BY Zenon DEF BeginEdit, update, making, config, Updated, Made, Configured
<1>7. PICK op \in SettingsOps :
        /\ crossed' = IF UnderWay(s) = {} THEN crossed ELSE crossed \cup UnderWay(s) \cup {op}
        /\ \/ /\ op = "update"
              /\ \E n \in Names \cup {None}, c \in spent \cup {None}, st \in StatusChoice :
                   Sets(s, update("update", n, c, st))
           \/ op \in Making /\ \E n \in Names : Sets(s, making(op, n))
           \/ op = "delete_config" /\ \E c \in configs : Sets(s, config(op, c))
           \/ /\ op = "create_config" /\ Configs \ spent # {}
              /\ Sets(s, config(op, FreshConfig(spent)))
  BY <1>6
<1>8. \E rec : Sets(s, rec) /\ Good(rec)
  <2>1. CASE \E n \in Names \cup {None}, c \in spent \cup {None}, st \in StatusChoice :
               Sets(s, update("update", n, c, st))
    <3>1. PICK n \in Names \cup {None}, c \in spent \cup {None}, st \in StatusChoice :
            Sets(s, update("update", n, c, st))
      BY <2>1
    <3>2. Good(update("update", n, c, st))
      BY <1>2, <1>4
    <3>3. QED
      BY <3>1, <3>2
  <2>2. CASE op \in Making /\ \E n \in Names : Sets(s, making(op, n))
    BY <1>4, <2>2
  <2>3. CASE op = "delete_config" /\ \E c \in configs : Sets(s, config(op, c))
    <3>1. PICK c \in configs : Sets(s, config(op, c))
      BY <2>3
    <3>2. Good(config(op, c))
      BY <1>2, <1>4, <2>3
    <3>3. QED
      BY <3>1, <3>2
  <2>4. CASE /\ op = "create_config" /\ Configs \ spent # {}
             /\ Sets(s, config(op, FreshConfig(spent)))
    BY <1>4, <1>5, <2>4
  <2>5. QED
    BY <1>7, <2>1, <2>2, <2>3, <2>4
<1>9. PICK rec : Sets(s, rec) /\ Good(rec)
  BY <1>8
<1>10. /\ \A x \in Editors : session'[x] = IF x = s THEN rec ELSE session[x]
       /\ session' \in [Editors -> SessionRecord]
  BY <1>2, <1>9 DEF Sets, Good
<1>11. crossed' \subseteq SettingsOps
  <2>1. UnderWay(s) \subseteq SettingsOps
    BY DEF UnderWay, TypesInv, Typed
  <2>2. QED
    BY <1>2, <1>7, <2>1
<1>12. spent \subseteq spent' /\ spent' \subseteq Configs /\ rec.config \in spent' \cup {None}
  <2>1. rec.config \in Configs \cup {None}
    BY <1>9 DEF Good, SessionRecord
  <2>2. QED
    BY <1>1, <1>2, <1>10, <2>1
<1>13. edits' \in 0..MaxEdits
  BY <1>1, <1>2
<1>14. SettingsTypeOK'
  BY <1>1, <1>2, <1>10, <1>11, <1>12, <1>13 DEF SettingsTypeOK
<1>15. \A x \in Editors : Typed(session'[x], spent')
  BY <1>9, <1>10, <1>12 DEF TypesInv, Typed, Good
<1>16. QED
  BY <1>14, <1>15 DEF TypesInv

LEMMA CheckTypes ==
  ASSUME TypesInv, NEW s \in Editors, Check(s),
         UNCHANGED <<project, configs, spent, siblings, forked, crossed, edits>>
  PROVE  TypesInv'
<1> DEFINE rec == session[s]
           name == IF rec.name = None THEN rec.seen.name ELSE rec.name
           default == IF rec.config = None THEN rec.seen.default ELSE rec.config
           renamed == [rec EXCEPT !.pc = "update", !.seen.name = name, !.seen.default = default]
           first == [rec EXCEPT !.pc = "update", !.seen.default = rec.config]
           goes(pc) == [rec EXCEPT !.pc = pc]
           reread(d) == [rec EXCEPT !.seen = [project EXCEPT !.default = d],
                           !.pc = IF d = project.default THEN "end" ELSE "update"]
<1>1. /\ rec \in SessionRecord /\ rec.seen \in ProjectRow /\ project \in ProjectRow
      /\ rec.op \in SettingsOps /\ rec.config \in spent \cup {None}
      /\ rec.op = "create_config" => rec.config # None
      /\ configs \subseteq spent /\ spent \subseteq Configs
  BY DEF Check, TypesInv, Typed, SettingsTypeOK
<1>2. rec.name \in Names \cup {None} /\ rec.config \in Configs \cup {None}
  BY <1>1 DEF SessionRecord
<1>3. Typed(renamed, spent)
  <2>1. [rec.seen EXCEPT !.name = name, !.default = default] \in ProjectRow
    BY <1>1, <1>2 DEF ProjectRow
  <2>2. renamed = [rec EXCEPT !.pc = "update", !.seen = [rec.seen EXCEPT !.name = name, !.default = default]]
    BY <1>1 DEF SessionRecord
  <2> HIDE DEF name, default, renamed
  <2>3. QED
    BY <1>1, <2>1, <2>2 DEF Typed, SessionRecord
<1>4. Typed(first, spent)
  <2>1. [rec.seen EXCEPT !.default = rec.config] \in ProjectRow
    BY <1>1, <1>2 DEF ProjectRow
  <2>2. first = [rec EXCEPT !.pc = "update", !.seen = [rec.seen EXCEPT !.default = rec.config]]
    BY <1>1 DEF SessionRecord
  <2> HIDE DEF first
  <2>3. QED
    BY <1>1, <2>1, <2>2 DEF Typed, SessionRecord
<1>5. \A pc \in {"insert", "end"} : Typed(goes(pc), spent)
  BY <1>1 DEF Typed, SessionRecord
<1>6. \A d \in DefaultWithout(project, rec.config) : Typed(reread(d), spent)
  <2> SUFFICES ASSUME NEW d \in DefaultWithout(project, rec.config)
               PROVE  Typed(reread(d), spent)
    OBVIOUS
  <2>1. d \in Configs \cup {None}
    BY <1>1 DEF DefaultWithout, ProjectRow
  <2>2. [project EXCEPT !.default = d] \in ProjectRow
    BY <1>1, <2>1 DEF ProjectRow
  <2>3. QED
    BY <1>1, <2>2 DEF Typed, SessionRecord
<1>7. \/ Fails(s) \/ Sets(s, renamed) \/ Sets(s, first)
      \/ \E pc \in {"insert", "end"} : Sets(s, goes(pc))
      \/ \E d \in DefaultWithout(project, rec.config) : Sets(s, reread(d))
  BY Zenon DEF Check, Steps
<1> HIDE DEF renamed, first, goes, reread
<1>8. QED
  BY <1>3, <1>4, <1>5, <1>6, <1>7, TypesKeep, IdleTyped DEF Fails

LEMMA WrittenTyped ==
  ASSUME TypesInv, NEW s \in Editors, session[s].pc = "update", NEW base \in ProjectRow
  PROVE  WithStatus(MergedRow(project, base, session[s].seen), session[s].status) \in ProjectRow
<1> DEFINE row == MergedRow(project, base, session[s].seen)
<1>1. /\ project \in ProjectRow /\ session[s].seen \in ProjectRow
      /\ session[s].status \in StatusChoice
  BY DEF TypesInv, SettingsTypeOK, Typed, SessionRecord
<1>2. row \in ProjectRow
  <2>1. /\ row = [f \in {"name", "status", "default"} |->
                    IF session[s].seen[f] # base[f] THEN session[s].seen[f] ELSE project[f]]
    BY <1>1 DEF MergedRow, ProjectRow
  <2> HIDE DEF row
  <2>2. QED
    BY <1>1, <2>1 DEF ProjectRow
<1> HIDE DEF row
<1>3. WithStatus(row, session[s].status) \in ProjectRow
  BY <1>1, <1>2 DEF WithStatus, ProjectRow, StatusChoice
<1>4. QED
  BY <1>3 DEF row

LEMMA UpdateTypes ==
  ASSUME TypesInv, NEW s \in Editors, UpdateProject(s),
         UNCHANGED <<project, configs, spent, siblings, forked, crossed, edits>>
  PROVE  TypesInv'
<1> DEFINE rec == session[s]
           base == IF rec.base = None THEN project ELSE rec.base
           next == WithStatus(MergedRow(project, base, rec.seen), rec.status)
           goes == [rec EXCEPT !.pc = "end"]
           waits == [rec EXCEPT !.base = project]
           writes == [rec EXCEPT !.pc = "end", !.base = None, !.new = next]
<1>1. /\ rec \in SessionRecord /\ rec.seen \in ProjectRow /\ project \in ProjectRow
      /\ rec.op \in SettingsOps /\ rec.config \in spent \cup {None}
      /\ rec.op = "create_config" => rec.config # None
      /\ rec.pc = "update"
  BY DEF UpdateProject, TypesInv, Typed, SettingsTypeOK
<1>2. next \in ProjectRow
  BY <1>1, WrittenTyped DEF SessionRecord
<1> HIDE DEF next
<1>3. Typed(goes, spent) /\ Typed(waits, spent)
  BY <1>1 DEF Typed, SessionRecord
<1>4. Typed(writes, spent)
  BY <1>1, <1>2 DEF Typed, SessionRecord
<1>5. Fails(s) \/ Sets(s, goes) \/ Sets(s, waits) \/ Sets(s, writes)
  BY Zenon DEF UpdateProject, Steps, next
<1> HIDE DEF goes, waits, writes
<1>6. QED
  BY <1>3, <1>4, <1>5, TypesKeep, IdleTyped DEF Fails

LEMMA InsertTypes ==
  ASSUME TypesInv, NamesInv, NEW s \in Editors, InsertProject(s),
         UNCHANGED <<project, configs, spent, siblings, forked, crossed, edits>>
  PROVE  TypesInv'
<1> DEFINE rec == session[s]
           inserted == [rec EXCEPT !.pc = IF rec.op = "fork" THEN "copy" ELSE "end",
                          !.made = [name |-> rec.name, configs |-> {}]]
<1>1. /\ rec \in SessionRecord /\ rec.seen \in ProjectRow
      /\ rec.op \in SettingsOps /\ rec.config \in spent \cup {None}
      /\ rec.op = "create_config" => rec.config # None
      /\ rec.pc = "insert"
  BY DEF InsertProject, TypesInv, Typed, SettingsTypeOK
<1>2. rec.name \in Names
  BY <1>1 DEF NamesInv, SessionGood
<1>3. [name |-> rec.name, configs |-> {}] \in SiblingRow
  BY <1>2 DEF SiblingRow
<1>4. Typed(inserted, spent)
  BY <1>1, <1>3 DEF Typed, SessionRecord
<1>5. Fails(s) \/ Sets(s, inserted)
  BY Zenon DEF InsertProject
<1> HIDE DEF inserted
<1>6. QED
  BY <1>4, <1>5, TypesKeep, IdleTyped DEF Fails

LEMMA CopyTypes ==
  ASSUME TypesInv, NamesInv, NEW s \in Editors, CopyConfigs(s),
         UNCHANGED <<project, configs, spent, siblings, forked, crossed, edits>>
  PROVE  TypesInv'
<1> DEFINE rec == session[s]
           copied == [rec EXCEPT !.pc = "end", !.made.configs = configs]
<1>1. /\ rec \in SessionRecord /\ rec.seen \in ProjectRow
      /\ rec.op \in SettingsOps /\ rec.config \in spent \cup {None}
      /\ rec.op = "create_config" => rec.config # None
      /\ rec.pc = "copy" /\ configs \subseteq Configs
  BY DEF CopyConfigs, TypesInv, Typed, SettingsTypeOK
<1>2. rec.made \in SiblingRow
  BY <1>1 DEF NamesInv, SessionGood, SessionRecord
<1>3. [rec.made EXCEPT !.configs = configs] \in SiblingRow
  BY <1>1, <1>2 DEF SiblingRow
<1>4. copied = [rec EXCEPT !.pc = "end", !.made = [rec.made EXCEPT !.configs = configs]]
  BY <1>1 DEF SessionRecord
<1>5. Sets(s, copied)
  BY DEF CopyConfigs
<1> HIDE DEF copied
<1>6. Typed(copied, spent)
  BY <1>1, <1>3, <1>4 DEF Typed, SessionRecord
<1>7. QED
  BY <1>5, <1>6, TypesKeep

LEMMA EndTypes ==
  ASSUME TypesInv, NEW s \in Editors, EndEdit(s)
  PROVE  TypesInv'
<1> DEFINE rec == session[s]
<1>1. /\ rec \in SessionRecord /\ rec.config \in spent \cup {None}
      /\ rec.op = "create_config" => rec.config # None
  BY DEF EndEdit, TypesInv, Typed, SettingsTypeOK
<1>2. /\ project \in ProjectRow /\ configs \subseteq spent /\ siblings \in Seq(SiblingRow)
      /\ \A x \in Editors : Typed(session[x], spent)
  BY DEF TypesInv, SettingsTypeOK
<1>3. project' \in ProjectRow
  BY <1>1, <1>2 DEF EndEdit, SessionRecord
<1>4. configs' \subseteq spent
  BY <1>1, <1>2 DEF EndEdit
<1>5. siblings' \in Seq(SiblingRow)
  BY <1>1, <1>2 DEF EndEdit, SessionRecord
<1>6. UNCHANGED <<spent, forked, crossed, edits>> /\ Sets(s, IdleSession)
  BY DEF EndEdit, Fails
<1>7. /\ \A x \in Editors : session'[x] = IF x = s THEN IdleSession ELSE session[x]
      /\ session' \in [Editors -> SessionRecord]
  BY <1>6, IdleTyped DEF Sets, TypesInv, SettingsTypeOK, Typed
<1>8. SettingsTypeOK'
  BY <1>3, <1>4, <1>5, <1>6, <1>7 DEF TypesInv, SettingsTypeOK
<1>9. QED
  BY <1>2, <1>6, <1>7, <1>8, IdleTyped DEF TypesInv

LEMMA TypesStep == TypesInv /\ NamesInv /\ [SettingsNext]_settingsVars => TypesInv'
<1> SUFFICES ASSUME TypesInv, NamesInv, [SettingsNext]_settingsVars PROVE TypesInv'
  OBVIOUS
<1>1. CASE UNCHANGED settingsVars
  BY <1>1 DEF settingsVars, TypesInv, SettingsTypeOK
<1>2. CASE SettingsNext
  <2>1. PICK s \in Editors :
          \/ BeginEdit(s) \/ EndEdit(s)
          \/ /\ Check(s) \/ UpdateProject(s) \/ InsertProject(s) \/ CopyConfigs(s) \/ RollbackEdit(s)
             /\ UNCHANGED <<project, configs, spent, siblings, forked, crossed, edits>>
    BY <1>2, Zenon DEF SettingsNext
  <2>2. RollbackEdit(s) => Sets(s, IdleSession)
    BY DEF RollbackEdit, Fails
  <2>3. QED
    BY <2>1, <2>2, BeginTypes, EndTypes, CheckTypes, UpdateTypes, InsertTypes, CopyTypes,
       TypesKeep, IdleTyped
<1>3. QED
  BY <1>1, <1>2

(* Every state of a project's row, its configurations, its siblings and    *)
(* the transactions under way has its type: in particular a configuration  *)
(* of the project has an identifier that was generated for it.             *)
THEOREM ProjectSettingsTyped == SettingsSpec => []SettingsTypeOK
<1>1. TypesInv => SettingsTypeOK
  BY DEF TypesInv
<1>2. QED
  BY <1>1, TypesInitial, TypesStep, NamesInitial, NamesStep, PTL DEF SettingsSpec

-----------------------------------------------------------------------------
(* The default configuration.  While no deletion has overlapped another    *)
(* request, a request sets a default that exists: one of the project's     *)
(* configurations, or the one it creates.  While no two requests have      *)
(* overlapped at all, it knows which configurations there are.             *)
Running(rec) == rec.pc # "idle"

KnownTo(rec, confs) ==
  confs \cup {None} \cup (IF rec.op = "create_config" THEN {rec.config} ELSE {})

Remaining(rec, confs) == confs \ {rec.config}

KnownDefault(rec, default, confs) ==
  /\ rec.op # "delete_config" =>
       /\ rec.seen.default \in KnownTo(rec, confs)
       /\ rec.new # None => rec.new.default \in KnownTo(rec, confs)
  /\ rec.op = "delete_config" =>
       /\ rec.base = None
       /\ rec.pc = "update" => rec.seen.default \in Remaining(rec, confs) \cup {None}
       /\ rec.pc = "end" /\ rec.new = None => default \in Remaining(rec, confs) \cup {None}
       /\ rec.new # None => rec.new.default \in Remaining(rec, confs) \cup {None}

(* None is the default exactly when there is no configuration.             *)
Fits(default, confs) == default = None <=> confs = {}

SureDefault(rec, default, confs) ==
  /\ rec.base = None
  /\ rec.op \in Making => rec.new = None
  /\ rec.op = "update" =>
       /\ rec.pc = "check" => rec.seen.default = default
       /\ rec.pc = "update" => rec.seen.default \in confs \cup {default}
       /\ rec.new # None => rec.new.default \in confs \cup {default}
  /\ rec.op = "create_config" =>
       /\ rec.pc = "check" => rec.seen.default = default
       /\ rec.pc = "update" => rec.seen.default = rec.config /\ default = None
       /\ rec.pc = "end" /\ rec.new = None => default # None
       /\ rec.new # None => rec.new.default = rec.config
  /\ rec.op = "delete_config" =>
       /\ rec.config \in confs
       /\ rec.pc = "update" => /\ rec.seen.default # default
                               /\ Fits(rec.seen.default, Remaining(rec, confs))
       /\ rec.pc = "end" /\ rec.new = None => Fits(default, Remaining(rec, confs))
       /\ rec.new # None => Fits(rec.new.default, Remaining(rec, confs))

Request(rec) ==
  Running(rec) =>
    /\ rec.op \in SettingsOps /\ DOMAIN rec.seen = RowFields
    /\ rec.op = "create_config" => rec.config # None
    /\ rec.pc = "copy" => rec.op \in Making
    /\ rec.pc = "update" => rec.op \notin Making

DefaultInv ==
  /\ NamesInv
  /\ \A s \in Editors : Request(session[s])
  /\ \A s, t \in Editors :
       s # t /\ Running(session[s]) /\ Running(session[t]) => session[s].op \in crossed
  /\ ~forked => None \notin configs
  /\ "delete_config" \notin crossed =>
       /\ project.default \in configs \cup {None}
       /\ \A s \in Editors :
            Running(session[s]) => KnownDefault(session[s], project.default, configs)
  /\ crossed = {} /\ ~forked =>
       /\ Fits(project.default, configs)
       /\ \A s \in Editors :
            Running(session[s]) => SureDefault(session[s], project.default, configs)

LEMMA DefaultInitial == SettingsInit => DefaultInv
<1> SUFFICES ASSUME SettingsInit PROVE DefaultInv
  OBVIOUS
<1>1. \A s \in Editors : session[s] = IdleSession
  BY DEF SettingsInit
<1>2. \A s \in Editors : ~Running(session[s])
  BY <1>1, IdleSessionGood DEF Running
<1>3. project.default = None
  BY DEF SettingsInit
<1>4. ~forked => configs = {}
  BY DEF SettingsInit
<1>5. QED
  BY <1>2, <1>3, <1>4, NamesInitial DEF DefaultInv, Request, Fits

LEMMA DefaultRequest ==
  ASSUME DefaultInv, NEW s \in Editors, Running(session[s])
  PROVE  /\ DOMAIN session[s] = SessionFields /\ SessionGood(session[s])
         /\ session[s].op \in SettingsOps /\ DOMAIN session[s].seen = RowFields
         /\ session[s].op = "create_config" => session[s].config # None
         /\ session[s].pc = "copy" => session[s].op \in Making
         /\ session[s].pc = "update" => session[s].op \notin Making
         /\ "delete_config" \notin crossed => KnownDefault(session[s], project.default, configs)
         /\ crossed = {} /\ ~forked => SureDefault(session[s], project.default, configs)
         /\ DOMAIN project = RowFields
BY DEF DefaultInv, NamesInv, SessionGood, Request

(* A request goes on; nothing is committed.                                *)
LEMMA DefaultKeeps ==
  ASSUME DefaultInv, NamesInv', NEW s \in Editors, NEW rec, Sets(s, rec),
         UNCHANGED <<project, configs, forked, crossed>>,
         Running(session[s]), rec.op = session[s].op, Request(rec),
         "delete_config" \notin crossed => KnownDefault(rec, project.default, configs),
         crossed = {} /\ ~forked => SureDefault(rec, project.default, configs)
  PROVE  DefaultInv'
<1>1. \A x \in Editors : session'[x] = IF x = s THEN rec ELSE session[x]
  BY DEF Sets, DefaultInv, NamesInv
<1>2. \A x \in Editors : Request(session'[x])
  BY <1>1 DEF DefaultInv
<1>3. ASSUME NEW x \in Editors, NEW y \in Editors, x # y, Running(session'[x]), Running(session'[y])
      PROVE  session'[x].op \in crossed
  BY <1>1, <1>3 DEF DefaultInv
<1>4. "delete_config" \notin crossed =>
        \A x \in Editors :
          Running(session'[x]) => KnownDefault(session'[x], project.default, configs)
  BY <1>1 DEF DefaultInv
<1>5. crossed = {} /\ ~forked =>
        \A x \in Editors :
          Running(session'[x]) => SureDefault(session'[x], project.default, configs)
  BY <1>1 DEF DefaultInv
<1>6. QED
  BY <1>2, <1>3, <1>4, <1>5 DEF DefaultInv

LEMMA DefaultStops ==
  ASSUME DefaultInv, NamesInv', NEW s \in Editors, Fails(s),
         UNCHANGED <<project, configs, forked, crossed>>
  PROVE  DefaultInv'
<1>1. \A x \in Editors : session'[x] = IF x = s THEN IdleSession ELSE session[x]
  BY DEF Fails, Sets, DefaultInv, NamesInv
<1>2. ~Running(IdleSession)
  BY IdleSessionGood DEF Running
<1>3. /\ \A x \in Editors : Request(session'[x])
      /\ \A x, y \in Editors :
           x # y /\ Running(session'[x]) /\ Running(session'[y]) => session'[x].op \in crossed
  BY <1>1, <1>2 DEF DefaultInv, Request
<1>4. /\ "delete_config" \notin crossed =>
           \A x \in Editors :
             Running(session'[x]) => KnownDefault(session'[x], project.default, configs)
      /\ crossed = {} /\ ~forked =>
           \A x \in Editors :
             Running(session'[x]) => SureDefault(session'[x], project.default, configs)
  BY <1>1, <1>2 DEF DefaultInv
<1>5. QED
  BY <1>3, <1>4 DEF DefaultInv

LEMMA BeginDefault ==
  ASSUME DefaultInv, NamesInv', NEW s \in Editors, BeginEdit(s)
  PROVE  DefaultInv'
<1> DEFINE update(op, n, c, st) ==
             [Opened(op) EXCEPT !.pc = "check", !.name = n, !.config = c, !.status = st]
           making(op, n) == [Opened(op) EXCEPT !.pc = "check", !.name = n]
           config(op, c) == [Opened(op) EXCEPT !.pc = "check", !.config = c]
           Fresh(rec) == /\ rec.pc = "check" /\ rec.seen = project
                         /\ rec.base = None /\ rec.new = None
<1>1. UNCHANGED <<project, configs, forked>> /\ ~Running(session[s])
  BY DEF BeginEdit, Running
<1>2. \A op : /\ DOMAIN Opened(op) = SessionFields /\ Opened(op).op = op
              /\ Opened(op).seen = project /\ Opened(op).base = None /\ Opened(op).new = None
  BY IdleSessionGood DEF Opened, SessionFields, IdleSession
<1>3. /\ \A op, n, c, st : Fresh(update(op, n, c, st)) /\ update(op, n, c, st).op = op
      /\ \A op, n : Fresh(making(op, n)) /\ making(op, n).op = op
      /\ \A op, c : Fresh(config(op, c)) /\ config(op, c).op = op /\ config(op, c).config = c
  BY <1>2 DEF SessionFields
<1> HIDE DEF update, making, config
<1>4. Configs \ spent # {} => FreshConfig(spent) # None
  BY SettingsAssumption DEF SettingsAssumption, FreshConfig
<1>5. \E rec :
        /\ Sets(s, rec) /\ Fresh(rec) /\ rec.op \in SettingsOps
        /\ rec.op = "create_config" => rec.config # None
        /\ rec.op = "delete_config" => rec.config \in configs
        /\ crossed' = IF UnderWay(s) = {} THEN crossed ELSE crossed \cup UnderWay(s) \cup {rec.op}
  <2>1. PICK op \in SettingsOps :
          /\ crossed' = IF UnderWay(s) = {} THEN crossed ELSE crossed \cup UnderWay(s) \cup {op}
          /\ \/ op = "update" /\ \E n, c, st : Sets(s, update(op, n, c, st))
             \/ op \in Making /\ \E n : Sets(s, making(op, n))
             \/ op = "delete_config" /\ \E c \in configs : Sets(s, config(op, c))
             \/ /\ op = "create_config" /\ Configs \ spent # {}
                /\ Sets(s, config(op, FreshConfig(spent)))
    BY Zenon DEF BeginEdit, update, making, config
  <2> HIDE DEF Fresh
  <2>2. ASSUME NEW rec, Sets(s, rec), Fresh(rec), rec.op = op,
               op = "create_config" => rec.config # None,
               op = "delete_config" => rec.config \in configs
        PROVE  \E r :
          /\ Sets(s, r) /\ Fresh(r) /\ r.op \in SettingsOps
          /\ r.op = "create_config" => r.config # None
          /\ r.op = "delete_config" => r.config \in configs
          /\ crossed' = IF UnderWay(s) = {} THEN crossed ELSE crossed \cup UnderWay(s) \cup {r.op}
    <3> WITNESS rec
    <3> QED
      BY <2>1, <2>2
  <2>3. CASE op = "update" /\ \E n, c, st : Sets(s, update(op, n, c, st))
    <3>1. PICK n, c, st : Sets(s, update(op, n, c, st))
      BY <2>3
    <3>2. QED
      BY <1>3, <2>2, <2>3, <3>1
  <2>4. CASE op \in Making /\ \E n : Sets(s, making(op, n))
    <3>1. PICK n : Sets(s, making(op, n))
      BY <2>4
    <3>2. QED
      BY <1>3, <2>2, <2>4, <3>1 DEF Making
  <2>5. CASE op = "delete_config" /\ \E c \in configs : Sets(s, config(op, c))
    <3>1. PICK c \in configs : Sets(s, config(op, c))
      BY <2>5
    <3>2. QED
      BY <1>3, <2>2, <2>5, <3>1
  <2>6. CASE /\ op = "create_config" /\ Configs \ spent # {}
             /\ Sets(s, config(op, FreshConfig(spent)))
    BY <1>3, <1>4, <2>2, <2>6
  <2>7. QED
    BY <2>1, <2>3, <2>4, <2>5, <2>6
<1>6. PICK rec :
        /\ Sets(s, rec) /\ Fresh(rec) /\ rec.op \in SettingsOps
        /\ rec.op = "create_config" => rec.config # None
        /\ rec.op = "delete_config" => rec.config \in configs
        /\ crossed' = IF UnderWay(s) = {} THEN crossed ELSE crossed \cup UnderWay(s) \cup {rec.op}
  BY <1>5
<1>7. \A x \in Editors : session'[x] = IF x = s THEN rec ELSE session[x]
  BY <1>6 DEF Sets, DefaultInv, NamesInv
<1>8. /\ crossed \subseteq crossed'
      /\ \A x \in Editors \ {s} :
           Running(session[x]) => session[x].op \in crossed' /\ rec.op \in crossed'
  BY <1>6 DEF UnderWay, Running
<1>9. DOMAIN project = RowFields
  BY DEF DefaultInv, NamesInv
<1>10. \A x \in Editors : Request(session'[x])
  BY <1>6, <1>7, <1>9 DEF DefaultInv, Request
<1>11. \A x, y \in Editors :
         x # y /\ Running(session'[x]) /\ Running(session'[y]) => session'[x].op \in crossed'
  BY <1>7, <1>8 DEF DefaultInv
<1>12. "delete_config" \notin crossed' =>
         \A x \in Editors :
           Running(session'[x]) => KnownDefault(session'[x], project.default, configs)
  <2>1. "delete_config" \notin crossed => KnownDefault(rec, project.default, configs)
    BY <1>6 DEF KnownDefault, KnownTo, DefaultInv
  <2>2. QED
    BY <1>7, <1>8, <2>1 DEF DefaultInv
<1>13. crossed' = {} /\ ~forked =>
         \A x \in Editors :
           Running(session'[x]) => SureDefault(session'[x], project.default, configs)
  <2>1. SureDefault(rec, project.default, configs)
    BY <1>6 DEF SureDefault
  <2>2. QED
    BY <1>7, <1>8, <2>1 DEF DefaultInv
<1>14. QED
  BY <1>1, <1>8, <1>10, <1>11, <1>12, <1>13 DEF DefaultInv

LEMMA CheckDefault ==
  ASSUME DefaultInv, NamesInv', NEW s \in Editors, Check(s),
         UNCHANGED <<project, configs, forked, crossed>>
  PROVE  DefaultInv'
<1> DEFINE rec == session[s]
           renamed(n, d) == [rec EXCEPT !.pc = "update", !.seen.name = n, !.seen.default = d]
           first == [rec EXCEPT !.pc = "update", !.seen.default = rec.config]
           goes(pc) == [rec EXCEPT !.pc = pc]
           reread(d) == [rec EXCEPT !.seen = [project EXCEPT !.default = d],
                           !.pc = IF d = project.default THEN "end" ELSE "update"]
           Same(r) == /\ r.op = rec.op /\ r.config = rec.config /\ r.new = None
                      /\ r.base = rec.base /\ DOMAIN r.seen = RowFields
<1>1. Running(rec) /\ rec.pc = "check"
  BY DEF Check, Running
<1>2. /\ DOMAIN rec = SessionFields /\ rec.new = None
      /\ rec.op \in SettingsOps /\ DOMAIN rec.seen = RowFields
      /\ rec.op = "create_config" => rec.config # None
      /\ DOMAIN project = RowFields
      /\ "delete_config" \notin crossed => KnownDefault(rec, project.default, configs)
      /\ crossed = {} /\ ~forked => SureDefault(rec, project.default, configs)
  BY <1>1, DefaultRequest DEF SessionGood
<1>3. /\ \A n, d : Same(renamed(n, d)) /\ renamed(n, d).pc = "update" /\ renamed(n, d).seen.default = d
      /\ Same(first) /\ first.pc = "update" /\ first.seen.default = rec.config
      /\ \A pc : Same(goes(pc)) /\ goes(pc).pc = pc /\ goes(pc).seen = rec.seen
      /\ \A d : /\ Same(reread(d)) /\ reread(d).seen.default = d
                /\ reread(d).pc = IF d = project.default THEN "end" ELSE "update"
  BY <1>2 DEF SessionFields, RowFields
<1>4. \/ Fails(s)
      \/ /\ rec.op = "update" /\ rec.config \in configs \cup {None}
         /\ \E n : Sets(s, renamed(n, IF rec.config = None THEN rec.seen.default ELSE rec.config))
      \/ rec.op \in Making /\ Sets(s, goes("insert"))
      \/ rec.op = "create_config" /\ rec.seen.default # None /\ Sets(s, goes("end"))
      \/ rec.op = "create_config" /\ rec.seen.default = None /\ Sets(s, first)
      \/ /\ rec.op = "delete_config"
         /\ \E d \in DefaultWithout(project, rec.config) : Sets(s, reread(d))
  BY Zenon DEF Check, Steps
<1> HIDE DEF renamed, first, goes, reread
<1>5. ASSUME NEW r, Sets(s, r), Same(r), r.pc \in {"update", "insert", "end"},
             r.pc = "update" => rec.op \notin Making,
             "delete_config" \notin crossed => KnownDefault(r, project.default, configs),
             crossed = {} /\ ~forked => SureDefault(r, project.default, configs)
      PROVE  DefaultInv'
  <2>1. Running(r) /\ Request(r)
    BY <1>2, <1>5 DEF Running, Request, Making
  <2>2. QED
    BY <1>1, <1>5, <2>1, DefaultKeeps
<1>6. CASE /\ rec.op = "update" /\ rec.config \in configs \cup {None}
           /\ \E n : Sets(s, renamed(n, IF rec.config = None THEN rec.seen.default ELSE rec.config))
  <2> DEFINE d == IF rec.config = None THEN rec.seen.default ELSE rec.config
  <2>1. PICK n : Sets(s, renamed(n, d))
    BY <1>6
  <2> DEFINE r == renamed(n, d)
  <2>2. Same(r) /\ r.pc = "update" /\ r.seen.default = d
    BY <1>3
  <2>3. Sets(s, r)
    BY <2>1
  <2> HIDE DEF r
  <2>4. "delete_config" \notin crossed => KnownDefault(r, project.default, configs)
    BY <1>2, <1>6, <2>2 DEF KnownDefault, KnownTo
  <2>5. crossed = {} /\ ~forked => SureDefault(r, project.default, configs)
    BY <1>1, <1>2, <1>6, <2>2 DEF SureDefault, Making
  <2>6. rec.op \notin Making
    BY <1>6 DEF Making
  <2>7. QED
    BY <1>5, <2>2, <2>3, <2>4, <2>5, <2>6
<1>7. CASE rec.op \in Making /\ Sets(s, goes("insert"))
  <2>1. "delete_config" \notin crossed => KnownDefault(goes("insert"), project.default, configs)
    BY <1>2, <1>3, <1>7 DEF KnownDefault, KnownTo, Making
  <2>2. crossed = {} /\ ~forked => SureDefault(goes("insert"), project.default, configs)
    BY <1>2, <1>3, <1>7 DEF SureDefault, Making
  <2>3. QED
    BY <1>3, <1>5, <1>7, <2>1, <2>2
<1>8. CASE rec.op = "create_config" /\ rec.seen.default # None /\ Sets(s, goes("end"))
  <2>1. "delete_config" \notin crossed => KnownDefault(goes("end"), project.default, configs)
    BY <1>2, <1>3, <1>8 DEF KnownDefault, KnownTo
  <2>2. crossed = {} /\ ~forked => SureDefault(goes("end"), project.default, configs)
    BY <1>1, <1>2, <1>3, <1>8 DEF SureDefault, Making
  <2>3. QED
    BY <1>3, <1>5, <1>8, <2>1, <2>2
<1>9. CASE rec.op = "create_config" /\ rec.seen.default = None /\ Sets(s, first)
  <2>1. "delete_config" \notin crossed => KnownDefault(first, project.default, configs)
    BY <1>2, <1>3, <1>9 DEF KnownDefault, KnownTo
  <2>2. crossed = {} /\ ~forked => SureDefault(first, project.default, configs)
    BY <1>1, <1>2, <1>3, <1>9 DEF SureDefault, Making
  <2>3. rec.op \notin Making
    BY <1>9 DEF Making
  <2>4. QED
    BY <1>3, <1>5, <1>9, <2>1, <2>2, <2>3
<1>10. CASE /\ rec.op = "delete_config"
            /\ \E d \in DefaultWithout(project, rec.config) : Sets(s, reread(d))
  <2>1. PICK d \in DefaultWithout(project, rec.config) : Sets(s, reread(d))
    BY <1>10
  <2> DEFINE r == reread(d)
  <2>2. Same(r) /\ r.seen.default = d /\ r.pc = IF d = project.default THEN "end" ELSE "update"
    BY <1>3
  <2>3. Sets(s, r)
    BY <2>1
  <2> HIDE DEF r
  <2>4. ASSUME "delete_config" \notin crossed
        PROVE  KnownDefault(r, project.default, configs)
    <3>1. project.default \in configs \cup {None} /\ rec.base = None
      BY <1>2, <1>10, <2>4 DEF DefaultInv, KnownDefault
    <3>2. d \in Remaining(rec, configs) \cup {None}
      BY <3>1 DEF DefaultWithout, Remaining
    <3>3. Remaining(r, configs) = Remaining(rec, configs)
      BY <2>2 DEF Remaining
    <3>4. QED
      BY <1>10, <2>2, <3>1, <3>2, <3>3 DEF KnownDefault
  <2>5. ASSUME crossed = {}, ~forked
        PROVE  SureDefault(r, project.default, configs)
    <3>1. /\ rec.base = None /\ rec.config \in configs
          /\ Fits(project.default, configs) /\ project.default \in configs \cup {None}
          /\ None \notin configs
      BY <1>2, <1>10, <2>5 DEF DefaultInv, SureDefault
    <3>2. Fits(d, Remaining(rec, configs))
      BY <3>1 DEF DefaultWithout, Remaining, Fits
    <3>3. Remaining(r, configs) = Remaining(rec, configs)
      BY <2>2 DEF Remaining
    <3>4. QED
      BY <1>10, <2>2, <3>1, <3>2, <3>3 DEF SureDefault, Making
  <2>6. r.pc \in {"update", "insert", "end"} /\ rec.op \notin Making
    BY <1>10, <2>2 DEF Making
  <2>7. QED
    BY <1>5, <2>2, <2>3, <2>4, <2>5, <2>6
<1>11. QED
  BY <1>4, <1>6, <1>7, <1>8, <1>9, <1>10, DefaultStops

(* A request waits for the row only when another is under way.             *)
LEMMA UpdateDefault ==
  ASSUME DefaultInv, TypesInv, NamesInv', NEW s \in Editors, UpdateProject(s),
         UNCHANGED <<project, configs, forked, crossed>>
  PROVE  DefaultInv'
<1> DEFINE rec == session[s]
           base == IF rec.base = None THEN project ELSE rec.base
           row == MergedRow(project, base, rec.seen)
           next == WithStatus(row, rec.status)
           goes == [rec EXCEPT !.pc = "end"]
           waits == [rec EXCEPT !.base = project]
           writes == [rec EXCEPT !.pc = "end", !.base = None, !.new = next]
           Same(r) == r.op = rec.op /\ r.config = rec.config /\ r.seen = rec.seen
<1>1. Running(rec) /\ rec.pc = "update"
  BY DEF UpdateProject, Running
<1>2. /\ DOMAIN rec = SessionFields /\ rec.new = None
      /\ rec.op \in SettingsOps /\ DOMAIN rec.seen = RowFields
      /\ rec.op = "create_config" => rec.config # None
      /\ DOMAIN project = RowFields /\ rec.op \notin Making
      /\ "delete_config" \notin crossed => KnownDefault(rec, project.default, configs)
      /\ crossed = {} /\ ~forked => SureDefault(rec, project.default, configs)
  BY <1>1, DefaultRequest DEF SessionGood
<1>3. /\ Same(goes) /\ goes.pc = "end" /\ goes.base = rec.base /\ goes.new = None
      /\ Same(waits) /\ waits.pc = "update" /\ waits.base = project /\ waits.new = None
      /\ Same(writes) /\ writes.pc = "end" /\ writes.base = None /\ writes.new = next
  <2> HIDE DEF next, base
  <2>1. Same(goes) /\ goes.pc = "end" /\ goes.base = rec.base /\ goes.new = None
    BY <1>2 DEF SessionFields
  <2>2. Same(waits) /\ waits.pc = "update" /\ waits.base = project /\ waits.new = None
    BY <1>1, <1>2 DEF SessionFields
  <2>3. Same(writes) /\ writes.pc = "end" /\ writes.base = None /\ writes.new = next
    BY <1>2 DEF SessionFields
  <2>4. QED
    BY <2>1, <2>2, <2>3
<1>4. next.default \in {project.default, rec.seen.default}
  <2>1. DOMAIN row = RowFields /\ row.default \in {project.default, rec.seen.default}
    BY <1>2 DEF MergedRow, RowFields
  <2> HIDE DEF row
  <2>2. QED
    BY <2>1 DEF WithStatus, RowFields
<1>5. rec.base = None => next.default = rec.seen.default
  <2>1. rec.base = None => DOMAIN row = RowFields /\ row.default = rec.seen.default
    BY <1>2 DEF MergedRow, RowFields
  <2> HIDE DEF row
  <2>2. QED
    BY <2>1 DEF WithStatus, RowFields
<1>6. next # None
  <2>1. base \in ProjectRow
    BY <1>1 DEF TypesInv, SettingsTypeOK, SessionRecord
  <2>2. next \in ProjectRow
    BY <1>1, <2>1, WrittenTyped
  <2>3. QED
    BY <2>2, SettingsAssumption DEF SettingsAssumption
<1>7. \/ Fails(s)
      \/ rec.seen = base /\ rec.op # "update" /\ Sets(s, goes)
      \/ ~ProjectFree(s) /\ Sets(s, waits)
      \/ Sets(s, writes)
  BY Zenon DEF UpdateProject, Steps
<1> HIDE DEF goes, waits, writes, next, row
<1>8. ASSUME NEW r, Sets(s, r), Same(r), r.pc \in {"update", "end"},
             "delete_config" \notin crossed => KnownDefault(r, project.default, configs),
             crossed = {} /\ ~forked => SureDefault(r, project.default, configs)
      PROVE  DefaultInv'
  <2>1. Running(r) /\ Request(r)
    BY <1>2, <1>8 DEF Running, Request
  <2>2. QED
    BY <1>1, <1>8, <2>1, DefaultKeeps
<1>9. CASE rec.seen = base /\ rec.op # "update" /\ Sets(s, goes)
  <2>1. "delete_config" \notin crossed => KnownDefault(goes, project.default, configs)
    <3>1. Remaining(goes, configs) = Remaining(rec, configs)
      BY <1>3 DEF Remaining
    <3>2. QED
      BY <1>1, <1>2, <1>3, <1>9, <3>1 DEF KnownDefault, KnownTo
  <2>2. crossed = {} /\ ~forked => SureDefault(goes, project.default, configs)
    BY <1>1, <1>2, <1>3, <1>9 DEF SureDefault, Making
  <2>3. QED
    BY <1>3, <1>8, <1>9, <2>1, <2>2
<1>10. CASE ~ProjectFree(s) /\ Sets(s, waits)
  <2>1. PICK x \in Editors \ {s} : session[x].new # None
    BY <1>10 DEF ProjectFree
  <2>2. Running(session[x])
    BY <2>1 DEF DefaultInv, NamesInv, SessionGood, Running
  <2>3. rec.op \in crossed
    BY <1>1, <2>1, <2>2 DEF DefaultInv
  <2>4. "delete_config" \notin crossed => KnownDefault(waits, project.default, configs)
    BY <1>2, <1>3, <2>3 DEF KnownDefault, KnownTo
  <2>5. QED
    BY <1>3, <1>8, <1>10, <2>3, <2>4
<1>11. CASE Sets(s, writes)
  <2>1. ASSUME "delete_config" \notin crossed
        PROVE  KnownDefault(writes, project.default, configs)
    <3>1. KnownDefault(rec, project.default, configs) /\ project.default \in configs \cup {None}
      BY <1>2, <2>1 DEF DefaultInv
    <3>2. CASE rec.op # "delete_config"
      BY <1>3, <1>4, <3>1, <3>2 DEF KnownDefault, KnownTo
    <3>3. CASE rec.op = "delete_config"
      <4>1. next.default \in Remaining(rec, configs) \cup {None}
        BY <1>1, <1>5, <3>1, <3>3 DEF KnownDefault
      <4>2. Remaining(writes, configs) = Remaining(rec, configs)
        BY <1>3 DEF Remaining
      <4>3. writes.pc # "update"
        BY <1>3
      <4>4. QED
        BY <1>3, <1>6, <3>1, <3>3, <4>1, <4>2, <4>3 DEF KnownDefault
    <3>4. QED
      BY <3>2, <3>3
  <2>2. ASSUME crossed = {}, ~forked
        PROVE  SureDefault(writes, project.default, configs)
    <3>1. SureDefault(rec, project.default, configs) /\ rec.base = None
      BY <1>2, <2>2 DEF SureDefault
    <3>2. next.default = rec.seen.default
      BY <1>5, <3>1
    <3>3. Remaining(writes, configs) = Remaining(rec, configs) /\ writes.pc # "update"
      BY <1>3 DEF Remaining
    <3>4. QED
      BY <1>1, <1>2, <1>3, <1>6, <3>1, <3>2, <3>3 DEF SureDefault, Making
  <2>3. QED
    BY <1>3, <1>8, <1>11, <2>1, <2>2
<1>12. QED
  BY <1>7, <1>9, <1>10, <1>11, DefaultStops

LEMMA InsertDefault ==
  ASSUME DefaultInv, NamesInv', NEW s \in Editors, InsertProject(s) \/ CopyConfigs(s),
         UNCHANGED <<project, configs, forked, crossed>>
  PROVE  DefaultInv'
<1> DEFINE rec == session[s]
           inserted == [rec EXCEPT !.pc = IF rec.op = "fork" THEN "copy" ELSE "end",
                          !.made = [name |-> rec.name, configs |-> {}]]
           copied == [rec EXCEPT !.pc = "end", !.made.configs = configs]
           Same(r) == /\ r.op = rec.op /\ r.config = rec.config /\ r.new = rec.new
                      /\ r.base = rec.base /\ r.seen = rec.seen
<1>1. Running(rec) /\ rec.pc \in {"insert", "copy"}
  BY DEF InsertProject, CopyConfigs, Running
<1>2. /\ DOMAIN rec = SessionFields /\ rec.new = None /\ rec.op \in Making
      /\ rec.op \in SettingsOps /\ DOMAIN rec.seen = RowFields
      /\ "delete_config" \notin crossed => KnownDefault(rec, project.default, configs)
      /\ crossed = {} /\ ~forked => SureDefault(rec, project.default, configs)
  BY <1>1, DefaultRequest DEF SessionGood
<1>3. Same(inserted) /\ inserted.pc \in {"copy", "end"} /\ Same(copied) /\ copied.pc = "end"
  BY <1>2 DEF SessionFields
<1>4. Fails(s) \/ Sets(s, inserted) \/ Sets(s, copied)
  BY Zenon DEF InsertProject, CopyConfigs
<1> HIDE DEF inserted, copied
<1>5. ASSUME NEW r, Sets(s, r), Same(r), r.pc \in {"copy", "end"}
      PROVE  DefaultInv'
  <2>1. Running(r) /\ Request(r)
    BY <1>2, <1>5 DEF Running, Request, Making
  <2>2. "delete_config" \notin crossed => KnownDefault(r, project.default, configs)
    BY <1>2, <1>5 DEF KnownDefault, KnownTo, Making
  <2>3. crossed = {} /\ ~forked => SureDefault(r, project.default, configs)
    BY <1>2, <1>5 DEF SureDefault, Making
  <2>4. QED
    BY <1>1, <1>5, <2>1, <2>2, <2>3, DefaultKeeps
<1>6. QED
  BY <1>3, <1>4, <1>5, DefaultStops

(* A commit adds a configuration, or drops one with another as default.    *)
LEMMA EndDefault ==
  ASSUME DefaultInv, NamesInv', NEW s \in Editors, EndEdit(s)
  PROVE  DefaultInv'
<1> DEFINE rec == session[s]
<1>1. /\ Running(rec) /\ rec.pc = "end"
      /\ project' = IF rec.new = None THEN project ELSE rec.new
      /\ rec.op \notin {"create_config", "delete_config"} => configs' = configs
      /\ rec.op = "create_config" => configs' = configs \cup {rec.config}
      /\ rec.op = "delete_config" => configs' = configs \ {rec.config}
      /\ Sets(s, IdleSession) /\ UNCHANGED <<forked, crossed>>
  BY DEF EndEdit, Running, Fails
<1>2. /\ rec.op \in SettingsOps
      /\ rec.op = "create_config" => rec.config # None
      /\ "delete_config" \notin crossed => KnownDefault(rec, project.default, configs)
      /\ crossed = {} /\ ~forked => SureDefault(rec, project.default, configs)
  BY <1>1, DefaultRequest
<1>3. /\ \A x \in Editors : session'[x] = IF x = s THEN IdleSession ELSE session[x]
      /\ ~Running(IdleSession)
  BY <1>1, IdleSessionGood DEF Sets, DefaultInv, NamesInv, Running
<1>4. \A x \in Editors : Running(session'[x]) => x # s /\ session'[x] = session[x]
  BY <1>3
<1>5. ASSUME NEW x \in Editors, Running(session'[x])
      PROVE  rec.op \in crossed /\ session[x].op \in crossed
  BY <1>1, <1>4, <1>5 DEF DefaultInv
<1>6. /\ \A x \in Editors : Request(session'[x])
      /\ \A x, y \in Editors :
           x # y /\ Running(session'[x]) /\ Running(session'[y]) => session'[x].op \in crossed'
  BY <1>1, <1>3, <1>4 DEF DefaultInv, Request
<1>7. ~forked => None \notin configs'
  BY <1>1, <1>2 DEF DefaultInv, SettingsOps
<1>8. ASSUME "delete_config" \notin crossed
      PROVE  /\ project'.default \in configs' \cup {None}
             /\ \A x \in Editors :
                  Running(session'[x]) => KnownDefault(session'[x], project'.default, configs')
  <2>1. KnownDefault(rec, project.default, configs) /\ project.default \in configs \cup {None}
    BY <1>2, <1>8 DEF DefaultInv
  <2>2. project'.default \in configs' \cup {None}
    <3>1. CASE rec.op = "delete_config"
      BY <1>1, <2>1, <3>1 DEF KnownDefault, Remaining
    <3>2. CASE rec.op # "delete_config"
      BY <1>1, <1>2, <2>1, <3>2 DEF KnownDefault, KnownTo
    <3>3. QED
      BY <3>1, <3>2
  <2>3. ASSUME NEW x \in Editors, Running(session'[x])
        PROVE  KnownDefault(session'[x], project'.default, configs')
    <3>1. session'[x] = session[x] /\ Running(session[x])
      BY <1>4, <2>3
    <3>2. rec.op # "delete_config" /\ session[x].op # "delete_config"
      BY <1>5, <1>8, <2>3
    <3>3. configs \subseteq configs'
      BY <1>1, <3>2
    <3>4. KnownDefault(session[x], project.default, configs)
      BY <1>8, <3>1 DEF DefaultInv
    <3>5. QED
      BY <3>1, <3>2, <3>3, <3>4 DEF KnownDefault, KnownTo
  <2>4. QED
    BY <2>2, <2>3
<1>9. ASSUME crossed = {}, ~forked
      PROVE  /\ Fits(project'.default, configs')
             /\ \A x \in Editors : ~Running(session'[x])
  <2>1. /\ SureDefault(rec, project.default, configs) /\ Fits(project.default, configs)
        /\ project.default \in configs \cup {None} /\ None \notin configs
    BY <1>2, <1>9 DEF DefaultInv
  <2>2. Fits(project'.default, configs')
    <3>1. CASE rec.op = "delete_config"
      BY <1>1, <2>1, <3>1 DEF SureDefault, Remaining
    <3>2. CASE rec.op = "create_config"
      BY <1>1, <1>2, <2>1, <3>2 DEF SureDefault, Fits
    <3>3. CASE rec.op = "update"
      BY <1>1, <2>1, <3>3 DEF SureDefault, Fits
    <3>4. CASE rec.op \in Making
      BY <1>1, <2>1, <3>4 DEF SureDefault, Making
    <3>5. QED
      BY <1>2, <3>1, <3>2, <3>3, <3>4 DEF SettingsOps, Making
  <2>3. QED
    BY <1>5, <1>9, <2>2
<1>10. QED
  BY <1>1, <1>6, <1>7, <1>8, <1>9 DEF DefaultInv

LEMMA DefaultStep ==
  DefaultInv /\ TypesInv /\ NamesInv' /\ [SettingsNext]_settingsVars => DefaultInv'
<1> SUFFICES ASSUME DefaultInv, TypesInv, NamesInv', [SettingsNext]_settingsVars PROVE DefaultInv'
  OBVIOUS
<1>1. CASE UNCHANGED settingsVars
  BY <1>1 DEF settingsVars, DefaultInv
<1>2. CASE SettingsNext
  <2>1. PICK s \in Editors :
          \/ BeginEdit(s) \/ EndEdit(s)
          \/ /\ Check(s) \/ UpdateProject(s) \/ InsertProject(s) \/ CopyConfigs(s) \/ RollbackEdit(s)
             /\ UNCHANGED <<project, configs, forked, crossed>>
    BY <1>2, Zenon DEF SettingsNext
  <2>2. RollbackEdit(s) => Fails(s)
    BY DEF RollbackEdit
  <2>3. QED
    BY <2>1, <2>2, BeginDefault, EndDefault, CheckDefault, UpdateDefault, InsertDefault, DefaultStops
<1>3. QED
  BY <1>1, <1>2

(* The default is one of the project's configurations unless a deletion    *)
(* has overlapped another request; and without any overlap a project that  *)
(* is no fork lacks one only when it has no configurations.                *)
THEOREM DefaultExists == SettingsSpec => []DefaultFollowsConfigurations
<1>1. DefaultInv => DefaultFollowsConfigurations
  BY DEF DefaultInv, DefaultFollowsConfigurations, Fits
<1>2. SettingsInit => TypesInv /\ NamesInv /\ DefaultInv
  BY TypesInitial, NamesInitial, DefaultInitial
<1>3. /\ TypesInv /\ NamesInv /\ DefaultInv /\ [SettingsNext]_settingsVars
      => (TypesInv /\ NamesInv /\ DefaultInv)'
  BY TypesStep, NamesStep, DefaultStep
<1>4. QED
  BY <1>1, <1>2, <1>3, PTL DEF SettingsSpec

=============================================================================
