------------------------- MODULE ConversationListing -------------------------
(***************************************************************************)
(* Paged reads of the conversation archive (list of                        *)
(* src/conversation-archive-v1.mjs) while the archive changes under them.  *)
(* A reader asks for one page after another, giving back the cursor of the *)
(* page before; every page is one query.  The archive order                *)
(* (sourceOccurredAt, sourceSequence, eventId) is the rank of a payload.   *)
(***************************************************************************)
EXTENDS ConversationArchive, Sequences

CONSTANTS
  Readers,           \* listings in progress
  Conversations,     \* conversations they list
  PageLimits         \* page limits they ask for

VARIABLES
  reader             \* what each listing has received

Start == 0           \* below every rank: a first page has no cursor

\* The event id, the last column of the order, tells any two events apart.
ASSUME ListingAssumption ==
  /\ \A p, q \in Payloads : p.rank = q.rank => p.id = q.id
  /\ \A p \in Payloads : p.rank # Start
  /\ PageLimits \subseteq Nat \ {0}

lvars == <<tables, reader>>

IdleListing == [conversation |-> CHOOSE c \in Conversations : TRUE,
                tombstones |-> FALSE, limit |-> CHOOSE l \in PageLimits : TRUE,
                cursor |-> Start, items |-> <<>>, status |-> "idle", steady |-> {}]

\* Mutant: a replacement hides its target only until the replacement expires.
SupersededByLiveEvent(i, inConversation) ==
  \E j \in Ids \ expired : /\ events[j] # None
                           /\ events[j].conversation = inConversation
                           /\ events[j].kind \in {"tombstone", "edited"}
                           /\ i \in events[j].refs

\* A tombstone or a replacement of the event is stored, expired or not.
Superseded(i, inConversation) ==
  \E j \in Ids : /\ events[j] # None
                 /\ events[j].conversation = inConversation
                 /\ events[j].kind \in {"tombstone", "edited"}
                 /\ i \in events[j].refs

Visible(c, tombstones) ==
  {i \in Ids \ expired : /\ events[i] # None
                         /\ events[i].conversation = c
                         /\ events[i].kind # "conflict"
                         /\ tombstones \/ events[i].kind # "tombstone"
                         /\ ~Superseded(i, c)}

Rank(i) == events[i].rank

\* ORDER BY rank: the row at place n has n - 1 rows before it.
InOrder(ids) ==
  [n \in 1..Cardinality(ids) |->
     CHOOSE i \in ids : Cardinality({j \in ids : Rank(j) < Rank(i)}) = n - 1]

\* Mutant: a page leaves out as many rows as were received, so that a row stored
\* behind the cursor pushes one that was received onto the next page.
RowsAfterByCount(r) ==
  LET rows == InOrder(Visible(reader[r].conversation, reader[r].tombstones))
  IN  SubSeq(rows, Len(reader[r].items) + 1, Len(rows))

\* The rows of the query behind one page, before LIMIT.
RowsAfter(r) ==
  InOrder({i \in Visible(reader[r].conversation, reader[r].tombstones) :
             Rank(i) > reader[r].cursor})

ListingInit == ArchiveInit /\ reader = [r \in Readers |-> IdleListing]

StartListing(r, c, t, l) ==
  /\ reader[r].status = "idle"
  /\ reader' = [reader EXCEPT ![r] =
       [IdleListing EXCEPT !.conversation = c, !.tombstones = t, !.limit = l,
                           !.status = "reading", !.steady = Visible(c, t)]]
  /\ UNCHANGED tables

\* Mutant: the cursor of the next page is taken from the row after the page.
NextPageSkipping(r) ==
  LET rows == RowsAfter(r)
      page == IF Len(rows) > reader[r].limit
              THEN SubSeq(rows, 1, reader[r].limit) ELSE rows
  IN /\ reader[r].status = "reading"
     /\ reader' = [reader EXCEPT ![r] =
          IF Len(rows) > reader[r].limit
          THEN [@ EXCEPT !.items = @ \o page, !.cursor = Rank(rows[reader[r].limit + 1])]
          ELSE [@ EXCEPT !.items = @ \o page, !.status = "done"]]
     /\ UNCHANGED tables

\* One page: at most limit rows, and a cursor at its last row when there are
\* more.
NextPage(r) ==
  LET me == reader[r]
      rows == RowsAfter(r)
      page == IF Len(rows) > me.limit THEN SubSeq(rows, 1, me.limit) ELSE rows
  IN /\ me.status = "reading"
     /\ reader' = [reader EXCEPT ![r] =
          IF Len(rows) > me.limit
          THEN [me EXCEPT !.items = me.items \o page, !.cursor = Rank(page[Len(page)])]
          ELSE [me EXCEPT !.items = me.items \o page, !.status = "done"]]
     /\ UNCHANGED tables

\* The archive changes; what a listing may count on shrinks with it.
TablesChange ==
  /\ ArchiveNext
  /\ LET StillVisible(c, t) == Visible(c, t)' IN
     reader' = [r \in Readers |->
       IF reader[r].status = "reading"
       THEN [reader[r] EXCEPT !.steady =
               {i \in @ : \E c \in Conversations, t \in BOOLEAN :
                  /\ c = reader[r].conversation /\ t = reader[r].tombstones
                  /\ i \in StillVisible(c, t)}]
       ELSE reader[r]]

ListingNext ==
  \/ TablesChange
  \/ \E r \in Readers :
       \/ NextPage(r)
       \/ \E c \in Conversations, t \in BOOLEAN, l \in PageLimits : StartListing(r, c, t, l)

ListingSpec == ListingInit /\ [][ListingNext]_lvars

(***************************************************************************)
(* Properties                                                              *)
(***************************************************************************)

\* A finished listing has every event that was visible from its start to its
\* end.
PagesComplete ==
  \A r \in Readers :
    reader[r].status = "done" =>
      \A i \in reader[r].steady : \E n \in 1..Len(reader[r].items) : reader[r].items[n] = i

\* What a listing has received is in the order of the archive, across all its
\* pages: no event comes twice, though rows are stored, replaced and expired
\* between one page and the next (list, src/conversation-archive-v1.mjs:152).
PagesNeverRepeat ==
  \A r \in Readers : \A m, n \in 1..Len(reader[r].items) :
    m < n => Rank(reader[r].items[m]) < Rank(reader[r].items[n])

\* What a replacement or a tombstone has hidden never shows again, even when
\* retention expires the replacement.
NeverResurrected ==
  [][\A c \in Conversations, t \in BOOLEAN :
       \A i \in Visible(c, t)' : events[i] # None => i \in Visible(c, t)]_lvars

=============================================================================
