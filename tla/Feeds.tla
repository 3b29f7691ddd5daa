------------------------------- MODULE Feeds -------------------------------
(***************************************************************************)
(* A feed read page by page: the notifications of one recipient, or the    *)
(* activities of a workspace (which are never marked).                     *)
(*                                                                         *)
(* Requests publish an entry inside their transaction, in a savepoint,     *)
(* under the time they read from the clock; entries are listed newest      *)
(* first, so an entry is named here by its place in that order.  A page is *)
(* two statements: the number of entries, then its rows by offset.         *)
(***************************************************************************)
EXTENDS Naturals, FiniteSets

CONSTANTS
  Publishers,    \* requests that publish at the same time
  PageSize,      \* page_size of the reader
  MaxPublished   \* bound: entries published

ASSUME FeedsAssumption == PageSize \in Nat \ {0} /\ MaxPublished \in Nat \ {0, 1}

Entries == 1..MaxPublished

VARIABLES
  clock,      \* the entries whose time has been read
  feed,       \* the committed entries
  unread,     \* those without read_at
  publisher,  \* publisher[p]: the transaction of request p
  reader      \* a client reading the list

feedVars == <<clock, feed, unread, publisher, reader>>

PublisherRecord == [pc : {"idle", "save", "commit"}, entry : Entries \cup {0}, saved : BOOLEAN]
ReaderRecord ==
  [pc      : {"idle", "count", "fetch", "done"},
   unread  : BOOLEAN,             \* it asks for unread entries only
   page    : Nat,
   total   : Nat,
   began   : SUBSET Entries,      \* history: listed when it began
   seen    : SUBSET Entries,
   slipped : Nat,                 \* history: committed between count and rows
   marked  : BOOLEAN]             \* history: entries were marked since it began

IdlePublisher == [pc |-> "idle", entry |-> 0, saved |-> FALSE]
IdleReader == [pc |-> "idle", unread |-> FALSE, page |-> 0, total |-> 0, began |-> {},
               seen |-> {}, slipped |-> 0, marked |-> FALSE]

FeedsInit ==
  /\ clock \in 0..2
  /\ feed = 1..clock /\ unread = feed
  /\ publisher = [p \in Publishers |-> IdlePublisher]
  /\ reader = IdleReader

Publishes(p, rec) == publisher' = [publisher EXCEPT ![p] = rec]

-----------------------------------------------------------------------------
(* The operation has succeeded; its time is read before anything commits.  *)
Announce(p) ==
  /\ publisher[p].pc = "idle"
  /\ clock < MaxPublished
  /\ clock' = clock + 1
  /\ Publishes(p, [IdlePublisher EXCEPT !.pc = "save", !.entry = clock'])
  /\ UNCHANGED <<feed, unread, reader>>

(* The savepoint: a failure is logged, and costs the entry only.           *)
SaveEntry(p) ==
  /\ publisher[p].pc = "save"
  /\ \E saved \in BOOLEAN :
       Publishes(p, [publisher[p] EXCEPT !.pc = "commit", !.saved = saved])
  /\ UNCHANGED <<clock, feed, unread, reader>>

CommitEntry(p) ==
  /\ publisher[p].pc = "commit"
  /\ Publishes(p, IdlePublisher)
  /\ IF publisher[p].saved
     THEN /\ feed' = feed \cup {publisher[p].entry}
          /\ unread' = unread \cup {publisher[p].entry}
          /\ reader' = IF reader.pc = "fetch" THEN [reader EXCEPT !.slipped = @ + 1] ELSE reader
     ELSE UNCHANGED <<feed, unread, reader>>
  /\ UNCHANGED clock

-----------------------------------------------------------------------------
Reads(rec) == reader' = rec /\ UNCHANGED <<clock, feed, unread, publisher>>

Shown(onlyUnread) == IF onlyUnread THEN unread ELSE feed

BeginReading ==
  /\ reader.pc = "idle"
  /\ \E only \in BOOLEAN :
       Reads([IdleReader EXCEPT !.pc = "count", !.unread = only, !.page = 1,
                !.began = Shown(only)])

CountEntries ==
  /\ reader.pc = "count"
  /\ Reads([reader EXCEPT !.pc = "fetch", !.total = Cardinality(Shown(reader.unread)),
              !.slipped = 0])

(* Faulty: pages are counted from 0.                                       *)
OffsetFromZero(page) == page * PageSize

Offset(page) == (page - 1) * PageSize

(* ORDER BY created_at DESC, id DESC with OFFSET and LIMIT.                *)
Newer(set, e) == Cardinality({x \in set : x > e})
Rows(set, page) ==
  {e \in set : Newer(set, e) >= Offset(page) /\ Newer(set, e) < Offset(page) + PageSize}

HasMore(page, total) == page * PageSize < total

(* The client asks for the next page as long as there is more.             *)
FetchRows ==
  LET seen == reader.seen \cup Rows(Shown(reader.unread), reader.page) IN
  /\ reader.pc = "fetch"
  /\ Reads(IF HasMore(reader.page, reader.total)
           THEN [reader EXCEPT !.pc = "count", !.page = @ + 1, !.seen = seen]
           ELSE [reader EXCEPT !.pc = "done", !.seen = seen])

(* mark_read, mark_all_read: an UPDATE of what is unread and committed.    *)
Mark ==
  /\ \/ \E e \in unread : unread' = unread \ {e}
     \/ unread # {} /\ unread' = {}
  /\ reader' = [reader EXCEPT !.marked = reader.pc # "idle"]
  /\ UNCHANGED <<clock, feed, publisher>>

FeedsNext ==
  \/ \E p \in Publishers : Announce(p) \/ SaveEntry(p) \/ CommitEntry(p)
  \/ BeginReading \/ CountEntries \/ FetchRows \/ Mark

FeedsSpec == FeedsInit /\ [][FeedsNext]_feedVars

FeedsTypeOK ==
  /\ clock \in 0..MaxPublished
  /\ unread \subseteq feed /\ feed \subseteq Entries
  /\ publisher \in [Publishers -> PublisherRecord]
  /\ reader \in ReaderRecord

-----------------------------------------------------------------------------
(* Whoever reads to the end has seen every entry that was listed when they *)
(* began, however many are published meanwhile: at most as many are missed *)
(* as were committed between the count and the rows of the last page.  (A  *)
(* list of unread entries loses that promise when entries are marked while *)
(* it is read.)                                                            *)
FeedSkipsNothing ==
  reader.pc = "done" /\ ~(reader.unread /\ reader.marked) =>
    Cardinality(reader.began \ reader.seen) <= reader.slipped

=============================================================================
