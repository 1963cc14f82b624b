-------------------------------- MODULE Listings --------------------------------
(***************************************************************************)
(* One actor's history in one workspace, read a page at a time while it is *)
(* written (ListConversations, ListMessages).  A transaction's now() is    *)
(* the time it began at, its locks are taken later, and a message takes    *)
(* its sequence number when it is inserted, before it can be seen.         *)
(* Locks are PostgreSQL's: create, reset and start hold the actor's row    *)
(* (upsertProjections), start holds its conversation's row FOR UPDATE, and *)
(* inserting a message holds that row FOR KEY SHARE (messages references   *)
(* conversations).                                                         *)
(***************************************************************************)
EXTENDS Integers, FiniteSets, FiniteSetsExt

CONSTANTS
  Convs, Writers, None,
  ConvPage, MessagePage,   \* limits of the two calls
  MaxClock, MaxMessages    \* bounds

ASSUME ListingsAssumption ==
  /\ {ConvPage, MessagePage} \subseteq Nat \ {0}
  /\ {MaxClock, MaxMessages} \subseteq Nat
  /\ None \notin Convs

VARIABLES
  clock,      \* the last now() of a transaction
  drawn,      \* last value of messages_sequence_seq
  state,      \* of a conversation: none, active or archived
  updated,    \* updated_at
  running,    \* conversations with a running run
  messages,   \* committed rows
  tx,         \* the transaction of a writer
  listing,    \* one client's walk through the conversations
  reading     \* one client's walk through a conversation's messages

store == <<state, updated, running, messages>>
vars == <<clock, drawn, state, updated, running, messages, tx, listing, reading>>

Idle == [op |-> "none", conv |-> None, current |-> None, at |-> 0, seq |-> 0]

Unlisted == [step |-> "idle", cursor |-> None, listed |-> {}, began |-> [c \in Convs |-> None]]

Unread == [step |-> "idle", conv |-> None, cursor |-> None, read |-> {}, upTo |-> 0]

\* No two transactions begin in the same microsecond.
Begin(w, op, c, current) ==
  /\ tx[w] = Idle
  /\ clock < MaxClock
  /\ clock' = clock + 1
  /\ tx' = [tx EXCEPT ![w] = [op |-> op, conv |-> c, current |-> current, at |-> clock + 1, seq |-> 0]]
  /\ UNCHANGED <<drawn, store, listing, reading>>

Unused(c) == state[c] = "none" /\ \A w \in Writers : tx[w].conv # c

BeginCreate(w) == \E c \in Convs : Unused(c) /\ Begin(w, "create", c, None)

\* With no current id every active conversation of the scope is archived.
BeginReset(w) ==
  \E c \in Convs, current \in {d \in Convs : state[d] # "none"} \cup {None} :
    Unused(c) /\ Begin(w, "reset", c, current)

BeginStart(w) == \E c \in Convs : state[c] # "none" /\ Begin(w, "start", c, None)

\* Only the run's handler ends the run, and it makes one call at a time.
BeginComplete(w) ==
  \E c \in running :
    /\ \A v \in Writers : ~(tx[v].op = "complete" /\ tx[v].conv = c)
    /\ Begin(w, "complete", c, None)

ActorRowFree(w) ==
  \A v \in Writers \ {w} : ~(tx[v].op = "start" /\ tx[v].seq > 0)

ConversationRowFree(w, c) ==
  \A v \in Writers \ {w} : ~(tx[v].conv = c /\ tx[v].seq > 0)

Active == {c \in Convs : state[c] = "active"}

End(w) == tx' = [tx EXCEPT ![w] = Idle]

Refused(w) == End(w) /\ UNCHANGED <<clock, drawn, store, listing, reading>>

\* conversations_one_active_idx
CreateConversation(w) ==
  /\ tx[w].op = "create"
  /\ ActorRowFree(w)
  /\ Active = {}
  /\ state' = [state EXCEPT ![tx[w].conv] = "active"]
  /\ updated' = [updated EXCEPT ![tx[w].conv] = tx[w].at]
  /\ End(w)
  /\ UNCHANGED <<clock, drawn, running, messages, listing, reading>>

CreateRefused(w) ==
  /\ tx[w].op = "create"
  /\ ActorRowFree(w)
  /\ Active # {}
  /\ Refused(w)

\* A conversation with a running run is archived too.
Mutant_ArchivesRunning(w) == IF tx[w].current = None THEN Active ELSE Active \cap {tx[w].current}

Archivable(w) == (IF tx[w].current = None THEN Active ELSE Active \cap {tx[w].current}) \ running

\* The old conversation and the new one get the same time.
ResetConversation(w) ==
  /\ tx[w].op = "reset"
  /\ ActorRowFree(w)
  /\ LET old == Archivable(w) new == tx[w].conv IN
       /\ old = {} => tx[w].current = None
       /\ Active \subseteq old
       /\ state' = [c \in Convs |-> IF c = new THEN "active" ELSE IF c \in old THEN "archived" ELSE state[c]]
       /\ updated' = [c \in Convs |-> IF c \in old \cup {new} THEN tx[w].at ELSE updated[c]]
  /\ End(w)
  /\ UNCHANGED <<clock, drawn, running, messages, listing, reading>>

ResetRefused(w) ==
  /\ tx[w].op = "reset"
  /\ ActorRowFree(w)
  /\ \/ Archivable(w) = {} /\ tx[w].current # None
     \/ ~(Active \subseteq Archivable(w))
  /\ Refused(w)

\* The sequence belongs to a session, which takes numbers ahead (CACHE).
Mutant_CachedNumbers == (1 .. MaxMessages) \ ({m.seq : m \in messages} \cup {tx[w].seq : w \in Writers})

\* messages.sequence is BIGSERIAL: one number at a time, never given back.
NextNumber == {n \in 1 .. MaxMessages : n = drawn + 1}

InsertMessage(w) ==
  \E n \in NextNumber :
    /\ drawn' = IF n > drawn THEN n ELSE drawn
    /\ tx' = [tx EXCEPT ![w].seq = n]
    /\ UNCHANGED <<clock, store, listing, reading>>

StartInserts(w) ==
  /\ tx[w].op = "start" /\ tx[w].seq = 0
  /\ ActorRowFree(w)
  /\ ConversationRowFree(w, tx[w].conv)
  /\ tx[w].conv \in Active \ running
  /\ InsertMessage(w)

StartRefused(w) ==
  /\ tx[w].op = "start" /\ tx[w].seq = 0
  /\ ActorRowFree(w)
  /\ ConversationRowFree(w, tx[w].conv)
  /\ tx[w].conv \notin Active \ running
  /\ Refused(w)

Commit(w) ==
  /\ messages' = messages \cup {[conv |-> tx[w].conv, seq |-> tx[w].seq]}
  /\ updated' = [updated EXCEPT ![tx[w].conv] = tx[w].at]
  /\ End(w)
  /\ UNCHANGED <<clock, drawn, state, listing, reading>>

StartCommits(w) ==
  /\ tx[w].op = "start" /\ tx[w].seq > 0
  /\ running' = running \cup {tx[w].conv}
  /\ Commit(w)

\* CompleteRun, CompleteInteractionRun and CreateClarification alike: the
\* message first, then the run, if it is still running.
CompleteInserts(w) ==
  /\ tx[w].op = "complete" /\ tx[w].seq = 0
  /\ ConversationRowFree(w, tx[w].conv)
  /\ InsertMessage(w)

CompleteCommits(w) ==
  /\ tx[w].op = "complete" /\ tx[w].seq > 0
  /\ tx[w].conv \in running
  /\ running' = running \ {tx[w].conv}
  /\ Commit(w)

\* The call fails, and the handler fails the run.
CompleteFails(w) ==
  /\ tx[w].op = "complete"
  /\ running' = running \ {tx[w].conv}
  /\ End(w)
  /\ UNCHANGED <<clock, drawn, state, updated, messages, listing, reading>>

\* A single statement: it looks for messages as of its beginning, and waits for
\* the row a starting run has locked.
BeginUpdate(w) ==
  \E c \in Active : (\A m \in messages : m.conv # c) /\ Begin(w, "update", c, None)

UpdateConversationModel(w) ==
  /\ tx[w].op = "update"
  /\ ConversationRowFree(w, tx[w].conv)
  /\ updated' = IF tx[w].conv \in Active THEN [updated EXCEPT ![tx[w].conv] = tx[w].at] ELSE updated
  /\ End(w)
  /\ UNCHANGED <<clock, drawn, state, running, messages, listing, reading>>

-----------------------------------------------------------------------------
\* A page: the first rows in the query's order, which leaves ties to the ids.
Pages(rows, limit, key) ==
  {P \in SUBSET rows :
     /\ Cardinality(P) = IF Cardinality(rows) > limit THEN limit ELSE Cardinality(rows)
     /\ \A p \in P, q \in rows \ P : key[q] <= key[p]}

\* The cursor is the row after the page, which the query then leaves out too.
Mutant_CursorPastPage(rows, P, key) ==
  IF P = rows THEN None ELSE Max({key[q] : q \in rows \ P})

\* The cursor is the page's last row, when there is a row after it.
NextCursor(rows, P, key) ==
  IF P = rows THEN None ELSE Min({key[p] : p \in P})

\* Archived conversations included: without them there is at most one.
ListConversations ==
  LET first == listing.step = "idle"
      rows == {c \in Convs : state[c] # "none" /\ (first \/ updated[c] < listing.cursor)}
  IN /\ listing.step # "done"
     /\ \E P \in Pages(rows, ConvPage, updated) :
          listing' = [step   |-> IF P = rows THEN "done" ELSE "more",
                      cursor |-> NextCursor(rows, P, updated),
                      listed |-> listing.listed \cup P,
                      began  |-> IF first THEN [c \in Convs |-> IF state[c] = "none" THEN None ELSE updated[c]]
                                 ELSE listing.began]
     /\ UNCHANGED <<clock, drawn, store, tx, reading>>

ListMessages(c) ==
  LET first == reading.step = "idle"
      rows == {m.seq : m \in {x \in messages : x.conv = c /\ (first \/ x.seq < reading.cursor)}}
      key == [n \in rows |-> n]
  IN /\ reading.step # "done"
     /\ first \/ reading.conv = c
     /\ \E P \in Pages(rows, MessagePage, key) :
          reading' = [step   |-> IF P = rows THEN "done" ELSE "more",
                      conv   |-> c,
                      cursor |-> NextCursor(rows, P, key),
                      read   |-> reading.read \cup P,
                      upTo   |-> IF first THEN Max(P \cup {0}) ELSE reading.upTo]
     /\ UNCHANGED <<clock, drawn, store, tx, listing>>

\* The client reads the same pages again from the start.
CloseListing ==
  /\ listing.step = "done"
  /\ listing' = Unlisted
  /\ UNCHANGED <<clock, drawn, store, tx, reading>>

CloseConversation ==
  /\ reading.step = "done"
  /\ reading' = Unread
  /\ UNCHANGED <<clock, drawn, store, tx, listing>>

Init ==
  /\ clock = 0 /\ drawn = 0
  /\ state = [c \in Convs |-> "none"]
  /\ updated = [c \in Convs |-> 0]
  /\ running = {} /\ messages = {}
  /\ tx = [w \in Writers |-> Idle]
  /\ listing = Unlisted /\ reading = Unread

Write(w) ==
  \/ BeginCreate(w) \/ CreateConversation(w) \/ CreateRefused(w)
  \/ BeginReset(w) \/ ResetConversation(w) \/ ResetRefused(w)
  \/ BeginStart(w) \/ StartInserts(w) \/ StartRefused(w) \/ StartCommits(w)
  \/ BeginComplete(w) \/ CompleteInserts(w) \/ CompleteCommits(w) \/ CompleteFails(w)
  \/ BeginUpdate(w) \/ UpdateConversationModel(w)

Next ==
  \/ \E w \in Writers : Write(w)
  \/ ListConversations \/ CloseListing \/ CloseConversation
  \/ \E c \in Convs : ListMessages(c)

Spec == Init /\ [][Next]_vars

-----------------------------------------------------------------------------
TypeOK ==
  /\ clock \in 0 .. MaxClock /\ drawn \in 0 .. MaxMessages
  /\ state \in [Convs -> {"none", "active", "archived"}]
  /\ updated \in [Convs -> 0 .. MaxClock]
  /\ running \subseteq Active
  /\ messages \subseteq [conv : Convs, seq : 1 .. MaxMessages]
  /\ tx \in [Writers -> [op : {"none", "create", "reset", "start", "complete", "update"},
                         conv : Convs \cup {None}, current : Convs \cup {None},
                         at : 0 .. MaxClock, seq : 0 .. MaxMessages]]
  /\ listing.step \in {"idle", "more", "done"} /\ listing.listed \subseteq Convs
  /\ reading.step \in {"idle", "more", "done"} /\ reading.read \subseteq 1 .. MaxMessages

\* A message that becomes visible is newer than every message of its
\* conversation one could already see, though its number was drawn while other
\* transactions were under way (migration 000001, line 38; run_repository.go:24).
MessagesAppearInOrder ==
  [][\A m \in messages' \ messages : \A x \in messages : x.conv = m.conv => x.seq < m.seq]_vars

\* The pages read so far are the whole of the conversation between the cursor
\* and the first message read, whatever is written between two pages
\* (message_repository.go:25).
HistoryIsReadWhole ==
  LET there == {m.seq : m \in {x \in messages : x.conv = reading.conv}} IN
  reading.step # "idle" =>
    reading.read = {n \in there : n <= reading.upTo /\ (reading.step = "more" => n >= reading.cursor)}

\* A conversation that existed when the listing began, and has kept its place
\* since, is on one of its pages (README.md:29).
EveryConversationIsListed ==
  listing.step = "done" =>
    \A c \in Convs : listing.began[c] # None /\ listing.began[c] = updated[c] => c \in listing.listed
=============================================================================
