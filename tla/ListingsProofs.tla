----------------------------- MODULE ListingsProofs -----------------------------
(***************************************************************************)
(* The history is read whole, page by page, while it is written: for any   *)
(* number of conversations, transactions and messages, and pages of any    *)
(* size.  The argument is about two row locks and one counter: a message's *)
(* number is drawn under the lock of its conversation's row, so that the   *)
(* number drawn last in a conversation is the one committed next.          *)
(***************************************************************************)
EXTENDS Listings, DataInduction, FiniteSetTheorems

-----------------------------------------------------------------------------
(* The inductive invariant. *)

\* The rows that transactions hold: a message is inserted under the lock of its
\* conversation's row, and a start under that of the actor's row, which keeps
\* the conversation active until the start commits.
LocksInv ==
  \A w \in Writers :
    /\ tx[w].op # "none" => tx[w].conv \in Convs
    /\ tx[w].seq > 0 => tx[w].op \in {"start", "complete"}
    /\ tx[w].op = "start" /\ tx[w].seq > 0 => tx[w].conv \in Active \ running
    /\ \A v \in Writers \ {w} :
         /\ ~(tx[v].op = "start" /\ tx[v].seq > 0 /\ tx[w].op = "start" /\ tx[w].seq > 0)
         /\ ~(tx[v].conv = tx[w].conv /\ tx[v].seq > 0 /\ tx[w].seq > 0)

\* A number that is drawn and not yet committed is newer than every message of
\* its conversation.
NumbersInv ==
  /\ \A m \in messages : m.seq <= drawn
  /\ \A w \in Writers :
       /\ tx[w].seq <= drawn
       /\ tx[w].seq > 0 => \A m \in messages : m.conv = tx[w].conv => m.seq < tx[w].seq

\* The messages of the conversation that is being read.
There == {m.seq : m \in {x \in messages : x.conv = reading.conv}}

\* Where the reader is: between the first message it has read and the last.
ReadingInv ==
  IF reading.step = "idle" THEN reading.read = {}
  ELSE /\ reading.upTo = 0 \/ reading.upTo \in There
       /\ reading.step = "more" => reading.cursor \in There /\ reading.cursor <= reading.upTo
       /\ HistoryIsReadWhole

IInv == TypeOK /\ LocksInv /\ NumbersInv /\ ReadingInv

-----------------------------------------------------------------------------
(* What a step does to the transactions. *)

TxType == [op : {"none", "create", "reset", "start", "complete", "update"},
           conv : Convs \cup {None}, current : Convs \cup {None},
           at : 0 .. MaxClock, seq : 0 .. MaxMessages]

\* A transaction that begins, on a conversation, with nothing drawn.
Begun(w) ==
  \E op \in {"create", "reset", "start", "complete", "update"}, c \in Convs,
     current \in Convs \cup {None} : Begin(w, op, c, current)

LEMMA BeginsAlike ==
  ASSUME NEW w \in Writers,
         TypeOK,
         BeginCreate(w) \/ BeginReset(w) \/ BeginStart(w) \/ BeginComplete(w) \/ BeginUpdate(w)
  PROVE  Begun(w)
<1>1. running \subseteq Convs /\ Active \subseteq Convs
  BY DEF TypeOK, Active
<1>2. CASE BeginCreate(w)
  BY <1>2 DEF BeginCreate, Begun
<1>3. CASE BeginReset(w)
  BY <1>3 DEF BeginReset, Begun
<1>4. CASE BeginStart(w)
  BY <1>4 DEF BeginStart, Begun
<1>5. CASE BeginComplete(w)
  BY <1>1, <1>5 DEF BeginComplete, Begun
<1>6. CASE BeginUpdate(w)
  BY <1>1, <1>6 DEF BeginUpdate, Begun
<1> QED BY <1>2, <1>3, <1>4, <1>5, <1>6

LEMMA BegunTx ==
  ASSUME NEW w \in Writers, Begun(w), TypeOK
  PROVE  /\ tx' \in [Writers -> TxType]
         /\ tx'[w].seq = 0 /\ tx'[w].op # "none" /\ tx'[w].conv \in Convs
         /\ \A v \in Writers \ {w} : tx'[v] = tx[v]
         /\ clock' \in 0 .. MaxClock
<1>1. PICK op \in {"create", "reset", "start", "complete", "update"}, c \in Convs,
           current \in Convs \cup {None} : Begin(w, op, c, current)
  BY DEF Begun
<1>2. clock + 1 \in 0 .. MaxClock
  BY <1>1, ListingsAssumption DEF Begin, TypeOK
<1>3. 0 \in 0 .. MaxMessages
  BY ListingsAssumption
<1>4. tx' = [tx EXCEPT ![w] = [op |-> op, conv |-> c, current |-> current, at |-> clock + 1, seq |-> 0]]
  BY <1>1 DEF Begin
<1>5. [op |-> op, conv |-> c, current |-> current, at |-> clock + 1, seq |-> 0] \in TxType
  BY <1>2, <1>3 DEF TxType
<1>6. tx \in [Writers -> TxType]
  BY DEF TypeOK, TxType
<1> QED
  BY <1>1, <1>2, <1>4, <1>5, <1>6 DEF Begin

LEMMA EndTx ==
  ASSUME NEW w \in Writers, End(w), TypeOK
  PROVE  /\ tx' \in [Writers -> TxType]
         /\ tx'[w] = Idle /\ tx'[w].seq = 0 /\ tx'[w].op = "none"
         /\ \A v \in Writers \ {w} : tx'[v] = tx[v]
<1>1. Idle \in TxType
  BY ListingsAssumption DEF Idle, TxType
<1>2. tx \in [Writers -> TxType]
  BY DEF TypeOK, TxType
<1> QED
  BY <1>1, <1>2 DEF End, Idle

LEMMA InsertTx ==
  ASSUME NEW w \in Writers, InsertMessage(w), TypeOK
  PROVE  /\ tx' \in [Writers -> TxType]
         /\ tx'[w].seq = drawn + 1 /\ drawn' = drawn + 1 /\ drawn' \in 0 .. MaxMessages
         /\ tx'[w].op = tx[w].op /\ tx'[w].conv = tx[w].conv
         /\ \A v \in Writers \ {w} : tx'[v] = tx[v]
<1>1. PICK n \in NextNumber : tx' = [tx EXCEPT ![w].seq = n] /\ drawn' = IF n > drawn THEN n ELSE drawn
  BY DEF InsertMessage
<1>2. n = drawn + 1 /\ n \in 0 .. MaxMessages /\ drawn \in Nat
  BY ListingsAssumption DEF NextNumber, TypeOK
<1>3. tx \in [Writers -> TxType]
  BY DEF TypeOK, TxType
<1>4. [tx[w] EXCEPT !.seq = n] \in TxType
  BY <1>2, <1>3 DEF TxType
<1>5. tx' = [tx EXCEPT ![w] = [tx[w] EXCEPT !.seq = n]]
  BY <1>1
<1> QED
  BY <1>1, <1>2, <1>3, <1>4, <1>5 DEF TxType

-----------------------------------------------------------------------------
(* Types. *)

LEMMA TypeKept ==
  ASSUME IInv, [Next]_vars
  PROVE  TypeOK'
<1> USE DEF TxType
<1>1. CASE UNCHANGED vars
  BY <1>1 DEF IInv, TypeOK, vars, Active
<1>2. ASSUME NEW w \in Writers, Begun(w) PROVE TypeOK'
  BY <1>2, BegunTx DEF IInv, TypeOK, Begun, Begin, store, Active
<1>3. ASSUME NEW w \in Writers, Refused(w) PROVE TypeOK'
  BY <1>3, EndTx DEF IInv, TypeOK, Refused, store, Active
<1>4. ASSUME NEW w \in Writers, CreateConversation(w) PROVE TypeOK'
  BY <1>4, EndTx DEF IInv, TypeOK, CreateConversation, LocksInv, Active
<1>5. ASSUME NEW w \in Writers, ResetConversation(w) PROVE TypeOK'
  BY <1>5, EndTx DEF IInv, TypeOK, ResetConversation, Archivable, Active
<1>6. ASSUME NEW w \in Writers, StartInserts(w) \/ CompleteInserts(w) PROVE TypeOK'
  <2>1. InsertMessage(w)
    BY <1>6 DEF StartInserts, CompleteInserts
  <2> QED
    BY <2>1, InsertTx DEF IInv, TypeOK, InsertMessage, store, Active
<1>7. ASSUME NEW w \in Writers, StartCommits(w) \/ CompleteCommits(w) PROVE TypeOK'
  <2>1. tx[w].seq > 0 /\ tx[w].conv \in Convs /\ Commit(w)
    BY <1>7 DEF StartCommits, CompleteCommits, IInv, LocksInv
  <2>2. messages' \subseteq [conv : Convs, seq : 1 .. MaxMessages]
    BY <2>1, ListingsAssumption DEF Commit, IInv, TypeOK
  <2>3. running' \subseteq Active'
    BY <1>7, <2>1 DEF StartCommits, CompleteCommits, Commit, IInv, TypeOK, LocksInv, Active
  <2>4. updated' \in [Convs -> 0 .. MaxClock]
    BY <2>1 DEF Commit, IInv, TypeOK
  <2> QED
    BY <2>1, <2>2, <2>3, <2>4, EndTx DEF Commit, IInv, TypeOK
<1>8. ASSUME NEW w \in Writers, CompleteFails(w) PROVE TypeOK'
  BY <1>8, EndTx DEF IInv, TypeOK, CompleteFails, Active
<1>9. ASSUME NEW w \in Writers, UpdateConversationModel(w) PROVE TypeOK'
  BY <1>9, EndTx DEF IInv, TypeOK, UpdateConversationModel, Active
<1>10. CASE ListConversations \/ CloseListing
  <2>1. UNCHANGED <<clock, drawn, store, tx, reading>>
    BY <1>10 DEF ListConversations, CloseListing
  <2>2. CASE ListConversations
    <3> DEFINE rows == {c \in Convs : state[c] # "none" /\ (listing.step = "idle" \/ updated[c] < listing.cursor)}
    <3>1. PICK P \in Pages(rows, ConvPage, updated) :
            \E began, cursor :
              listing' = [step |-> IF P = rows THEN "done" ELSE "more", cursor |-> cursor,
                          listed |-> listing.listed \cup P, began |-> began]
      BY <2>2, Zenon DEF ListConversations
    <3>2. P \subseteq Convs
      BY DEF Pages
    <3> QED
      BY <2>1, <3>1, <3>2 DEF IInv, TypeOK, store, Active
  <2>3. CASE CloseListing
    BY <2>1, <2>3 DEF IInv, TypeOK, CloseListing, Unlisted, store, Active
  <2> QED BY <1>10, <2>2, <2>3
<1>11. ASSUME NEW c \in Convs, ListMessages(c) PROVE TypeOK'
  <2>1. reading'.step \in {"idle", "more", "done"} /\ reading'.read \subseteq 1 .. MaxMessages
    BY <1>11 DEF IInv, TypeOK, ListMessages, Pages
  <2> QED
    BY <1>11, <2>1 DEF IInv, TypeOK, ListMessages, store, Active
<1>12. CASE CloseConversation
  BY <1>12 DEF IInv, TypeOK, CloseConversation, Unread, store, Active
<1> QED
  BY <1>1, <1>2, <1>3, <1>4, <1>5, <1>6, <1>7, <1>8, <1>9, <1>10, <1>11, <1>12, BeginsAlike
     DEF IInv, Next, Write, CreateRefused, ResetRefused, StartRefused

-----------------------------------------------------------------------------
(* Locks and numbers. *)

\* A transaction that begins or is over holds nothing, and takes nothing from
\* the others.
LEMMA OthersKeepLocks ==
  ASSUME IInv, TypeOK', NEW w \in Writers,
         tx'[w].seq = 0, tx'[w].op # "none" => tx'[w].conv \in Convs,
         \A v \in Writers \ {w} : tx'[v] = tx[v],
         \A v \in Writers \ {w} :
           tx[v].op = "start" /\ tx[v].seq > 0 => tx[v].conv \in (Active \ running)'
  PROVE  LocksInv'
BY DEF IInv, TypeOK, LocksInv

LEMMA LocksKept ==
  ASSUME IInv, [Next]_vars
  PROVE  LocksInv'
<1> USE TypeKept
<1>1. CASE UNCHANGED vars
  BY <1>1 DEF IInv, LocksInv, vars, Active
<1>2. ASSUME NEW w \in Writers, Begun(w) PROVE LocksInv'
  <2>1. UNCHANGED <<state, running>>
    BY <1>2 DEF Begun, Begin, store
  <2> QED
    BY <1>2, <2>1, BegunTx, OthersKeepLocks DEF IInv, LocksInv, Active
<1>3. ASSUME NEW w \in Writers, Refused(w) PROVE LocksInv'
  BY <1>3, EndTx, OthersKeepLocks DEF IInv, LocksInv, Refused, store, Active
<1>4. ASSUME NEW w \in Writers, CreateConversation(w) PROVE LocksInv'
  BY <1>4, EndTx, OthersKeepLocks DEF IInv, TypeOK, LocksInv, CreateConversation, ActorRowFree, Active
<1>5. ASSUME NEW w \in Writers, ResetConversation(w) PROVE LocksInv'
  <2>1. End(w) /\ ActorRowFree(w)
    BY <1>5 DEF ResetConversation
  <2>2. tx'[w] = Idle /\ tx'[w].seq = 0 /\ tx'[w].op = "none" /\ \A v \in Writers \ {w} : tx'[v] = tx[v]
    BY <2>1, EndTx DEF IInv
  <2>3. \A v \in Writers \ {w} : ~(tx[v].op = "start" /\ tx[v].seq > 0)
    BY <2>1 DEF ActorRowFree
  <2> QED
    BY <2>2, <2>3, OthersKeepLocks DEF IInv, LocksInv
<1>6. ASSUME NEW w \in Writers, StartInserts(w) PROVE LocksInv'
  <2>1. InsertMessage(w) /\ UNCHANGED <<state, running>>
    BY <1>6 DEF StartInserts, InsertMessage, store
  <2>2. tx[w].conv \in Convs
    BY <1>6 DEF StartInserts, IInv, LocksInv
  <2> QED
    BY <1>6, <2>1, <2>2, InsertTx
       DEF IInv, TypeOK, LocksInv, StartInserts, ActorRowFree, ConversationRowFree, Active
<1>7. ASSUME NEW w \in Writers, CompleteInserts(w) PROVE LocksInv'
  <2>1. InsertMessage(w) /\ UNCHANGED <<state, running>>
    BY <1>7 DEF CompleteInserts, InsertMessage, store
  <2> QED
    BY <1>7, <2>1, InsertTx
       DEF IInv, TypeOK, LocksInv, CompleteInserts, ConversationRowFree, Active
<1>8. ASSUME NEW w \in Writers, StartCommits(w) \/ CompleteCommits(w) PROVE LocksInv'
  <2>1. tx[w].seq > 0 /\ Commit(w) /\ running' \subseteq running \cup {tx[w].conv}
    BY <1>8 DEF StartCommits, CompleteCommits
  <2>2. \A v \in Writers \ {w} :
          tx[v].op = "start" /\ tx[v].seq > 0 => tx[v].conv \in (Active \ running)'
    BY <2>1 DEF IInv, TypeOK, LocksInv, Commit, Active
  <2> QED
    BY <2>1, <2>2, EndTx, OthersKeepLocks DEF Commit, IInv
<1>9. ASSUME NEW w \in Writers, CompleteFails(w) PROVE LocksInv'
  BY <1>9, EndTx, OthersKeepLocks DEF IInv, TypeOK, LocksInv, CompleteFails, Active
<1>10. ASSUME NEW w \in Writers, UpdateConversationModel(w) PROVE LocksInv'
  BY <1>10, EndTx, OthersKeepLocks DEF IInv, TypeOK, LocksInv, UpdateConversationModel, Active
<1>11. CASE \/ ListConversations \/ CloseListing \/ CloseConversation
            \/ \E c \in Convs : ListMessages(c)
  <2>1. UNCHANGED <<tx, state, running>>
    BY <1>11 DEF ListConversations, CloseListing, CloseConversation, ListMessages, store
  <2> QED
    BY <2>1 DEF IInv, LocksInv, Active
<1> QED
  BY <1>1, <1>2, <1>3, <1>4, <1>5, <1>6, <1>7, <1>8, <1>9, <1>10, <1>11, BeginsAlike
     DEF IInv, Next, Write, CreateRefused, ResetRefused, StartRefused

\* What a step adds to the messages: nothing, or the message of a transaction
\* whose number is drawn and that is over with this step.
LEMMA MessagesGrow ==
  ASSUME IInv, [Next]_vars
  PROVE  \/ UNCHANGED messages
         \/ \E w \in Writers :
              /\ tx[w].seq > 0 /\ tx[w].conv \in Convs
              /\ messages' = messages \cup {[conv |-> tx[w].conv, seq |-> tx[w].seq]}
              /\ tx'[w].seq = 0 /\ \A v \in Writers \ {w} : tx'[v] = tx[v]
              /\ UNCHANGED <<drawn, reading>>
<1>1. ASSUME NEW w \in Writers, StartCommits(w) \/ CompleteCommits(w)
      PROVE  /\ tx[w].seq > 0 /\ tx[w].conv \in Convs
             /\ messages' = messages \cup {[conv |-> tx[w].conv, seq |-> tx[w].seq]}
             /\ tx'[w].seq = 0 /\ \A v \in Writers \ {w} : tx'[v] = tx[v]
             /\ UNCHANGED <<drawn, reading>>
  BY <1>1, EndTx DEF IInv, LocksInv, StartCommits, CompleteCommits, Commit
<1>2. ASSUME NEW w \in Writers, Write(w), ~(StartCommits(w) \/ CompleteCommits(w))
      PROVE  UNCHANGED messages
  BY <1>2, BeginsAlike
     DEF IInv, Write, CreateConversation, CreateRefused, ResetConversation, ResetRefused, StartInserts,
         StartRefused, CompleteInserts, CompleteFails, UpdateConversationModel, InsertMessage,
         Refused, Begun, Begin, store
<1>3. CASE \/ ListConversations \/ CloseListing \/ CloseConversation
           \/ \E c \in Convs : ListMessages(c)
  BY <1>3 DEF ListConversations, CloseListing, CloseConversation, ListMessages, store
<1> QED
  BY <1>1, <1>2, <1>3 DEF Next, vars

LEMMA NumbersKept ==
  ASSUME IInv, [Next]_vars
  PROVE  NumbersInv'
<1> USE TypeKept DEF NumbersInv
<1>1. CASE UNCHANGED vars
  BY <1>1 DEF IInv, vars
<1>2. ASSUME NEW w \in Writers, StartInserts(w) \/ CompleteInserts(w) PROVE NumbersInv'
  <2>1. InsertMessage(w) /\ UNCHANGED messages
    BY <1>2 DEF StartInserts, CompleteInserts, InsertMessage, store
  <2>2. \A m \in messages : m.seq \in Nat /\ drawn \in Nat
    BY DEF IInv, TypeOK
  <2> QED
    BY <2>1, <2>2, InsertTx DEF IInv, TypeOK
<1>3. ASSUME NEW w \in Writers, StartCommits(w) \/ CompleteCommits(w) PROVE NumbersInv'
  <2>1. /\ tx[w].seq > 0
        /\ messages' = messages \cup {[conv |-> tx[w].conv, seq |-> tx[w].seq]}
        /\ UNCHANGED drawn /\ End(w)
    BY <1>3 DEF StartCommits, CompleteCommits, Commit
  <2>2. \A v \in Writers \ {w} : ~(tx[v].conv = tx[w].conv /\ tx[v].seq > 0)
    BY <2>1 DEF IInv, LocksInv
  <2>3. drawn \in Nat
    BY DEF IInv, TypeOK
  <2> QED
    BY <2>1, <2>2, <2>3, EndTx DEF IInv
<1>4. ASSUME NEW w \in Writers, tx'[w].seq = 0, \A v \in Writers \ {w} : tx'[v] = tx[v],
             UNCHANGED <<drawn, messages>>
      PROVE  NumbersInv'
  BY <1>4 DEF IInv, TypeOK
<1>5. ASSUME NEW w \in Writers, Begun(w) PROVE NumbersInv'
  BY <1>4, <1>5, BegunTx DEF IInv, Begun, Begin, store
<1>6. ASSUME NEW w \in Writers,
             \/ Refused(w) \/ CreateConversation(w) \/ ResetConversation(w)
             \/ CompleteFails(w) \/ UpdateConversationModel(w)
      PROVE  NumbersInv'
  BY <1>4, <1>6, EndTx
     DEF IInv, Refused, CreateConversation, ResetConversation, CompleteFails, UpdateConversationModel, store
<1>7. CASE \/ ListConversations \/ CloseListing \/ CloseConversation
           \/ \E c \in Convs : ListMessages(c)
  <2>1. UNCHANGED <<tx, drawn, messages>>
    BY <1>7 DEF ListConversations, CloseListing, CloseConversation, ListMessages, store
  <2> QED
    BY <2>1 DEF IInv
<1> QED
  BY <1>1, <1>2, <1>3, <1>5, <1>6, <1>7, BeginsAlike
     DEF IInv, Next, Write, CreateRefused, ResetRefused, StartRefused

-----------------------------------------------------------------------------
(* Pages. *)

\* A page of a set of numbers: its cursor is a row of the page, and what is left
\* out is what comes before the cursor.
\* A message's key is its number.
Identity(rows) == [n \in rows |-> n]

LEMMA PageIsATop ==
  \A rows \in SUBSET (1 .. MaxMessages) : 
    \A P \in Pages(rows, MessagePage, Identity(rows)) :
      /\ P \subseteq rows
      /\ P # rows => /\ NextCursor(rows, P, Identity(rows)) \in P
                     /\ P = {n \in rows : n >= NextCursor(rows, P, Identity(rows))}
<1> SUFFICES ASSUME NEW rows \in SUBSET (1 .. MaxMessages),
                    NEW P \in Pages(rows, MessagePage, Identity(rows))
  PROVE  /\ P \subseteq rows
         /\ P # rows => /\ NextCursor(rows, P, Identity(rows)) \in P
                        /\ P = {n \in rows : n >= NextCursor(rows, P, Identity(rows))}
  BY Zenon
<1>1. /\ P \in SUBSET rows
      /\ Cardinality(P) = IF Cardinality(rows) > MessagePage THEN MessagePage ELSE Cardinality(rows)
      /\ \A p \in P, q \in rows \ P : q <= p
  BY DEF Pages, Identity
<1>2. /\ MaxMessages \in Nat /\ MessagePage \in Nat \ {0}
  BY ListingsAssumption
<1>3. IsFiniteSet(rows)
  <2>1. IsFiniteSet(1 .. MaxMessages)
    BY <1>2, FS_Interval
  <2> QED BY <2>1, FS_Subset
<1>4. P # rows => P # {}
  BY <1>1, <1>2, <1>3, FS_Subset, FS_EmptySet
<1>5. CASE P # rows
  <2>1. {Identity(rows)[p] : p \in P} = P
    BY <1>1 DEF Identity
  <2>2. P \in SUBSET Nat /\ P # {}
    BY <1>1, <1>4, <1>5
  <2>3. Min(P) \in P /\ \A p \in P : Min(P) <= p
    BY <2>2, MinIsLeast
  <2>4. NextCursor(rows, P, Identity(rows)) = Min(P)
    BY <1>5, <2>1 DEF NextCursor
  <2>5. ASSUME NEW n \in rows, n >= Min(P) PROVE n \in P
    <3> SUFFICES ASSUME n \notin P PROVE FALSE
      OBVIOUS
    <3>1. n <= Min(P)
      BY <1>1, <2>3
    <3>2. n <= Min(P) /\ n # Min(P)
      BY <1>1, <2>3, <3>1
    <3>3. n \in Int /\ Min(P) \in Int
      <4>1. rows \subseteq Int
        BY <1>2
      <4> QED BY <2>3, <1>1, <4>1
    <3> QED
      BY <2>5, <3>2, <3>3
  <2> QED
    BY <1>1, <2>3, <2>4, <2>5
<1> QED
  BY <1>1, <1>5

-----------------------------------------------------------------------------
(* The reader. *)

\* A message that is committed while the reader is there is newer than what it
\* reads.
LEMMA WritesKeepReading ==
  ASSUME IInv, [Next]_vars, UNCHANGED reading
  PROVE  ReadingInv'
<1>1. CASE UNCHANGED messages
  BY <1>1 DEF IInv, ReadingInv, There, HistoryIsReadWhole
<1>2. ASSUME NEW w \in Writers, tx[w].seq > 0,
             messages' = messages \cup {[conv |-> tx[w].conv, seq |-> tx[w].seq]}
      PROVE  ReadingInv'
  <2> DEFINE n == tx[w].seq
  <2>1. \A m \in messages : m.conv = tx[w].conv => m.seq < n
    BY <1>2 DEF IInv, NumbersInv
  <2>2. There' = IF tx[w].conv = reading.conv THEN There \cup {n} ELSE There
    <3> DEFINE new == [conv |-> tx[w].conv, seq |-> n]
    <3>1. \A k : k \in There' <=> \E m \in messages \cup {new} : m.conv = reading.conv /\ k = m.seq
      BY <1>2 DEF There
    <3>2. \A k : k \in There <=> \E m \in messages : m.conv = reading.conv /\ k = m.seq
      BY DEF There
    <3>3. new.conv = tx[w].conv /\ new.seq = n
      OBVIOUS
    <3> HIDE DEF new, n
    <3>4. \A k : k \in There' <=> k \in There \/ (tx[w].conv = reading.conv /\ k = n)
      BY <3>1, <3>2, <3>3
    <3>5. CASE tx[w].conv = reading.conv
      BY <3>4, <3>5
    <3>6. CASE tx[w].conv # reading.conv
      BY <3>4, <3>6
    <3> QED
      BY <3>5, <3>6
  <2>3. n \in Nat /\ There \subseteq Nat
    BY <1>2 DEF IInv, TypeOK, There
  <2>4. tx[w].conv = reading.conv => \A k \in There : k < n
    BY <2>1 DEF There
  <2> SUFFICES ASSUME reading.step # "idle" PROVE ReadingInv'
    BY DEF ReadingInv, IInv
  <2>a. n > 0
    BY <1>2
  <2> HIDE DEF n
  <2>5. /\ reading.upTo = 0 \/ reading.upTo \in There
        /\ reading.step = "more" => reading.cursor \in There /\ reading.cursor <= reading.upTo
        /\ reading.read = {k \in There : k <= reading.upTo /\ (reading.step = "more" => k >= reading.cursor)}
    BY DEF IInv, ReadingInv, HistoryIsReadWhole, There
  <2>6. tx[w].conv = reading.conv => ~(n <= reading.upTo)
    <3>1. CASE reading.upTo = 0
      BY <2>a, <2>3, <3>1
    <3>2. CASE reading.upTo \in There
      <4>1. reading.upTo \in Nat
        BY <2>3, <3>2
      <4> QED
        BY <2>3, <2>4, <3>2, <4>1
    <3> QED
      BY <2>5, <3>1, <3>2
  <2>7. reading.read = {k \in There' : k <= reading.upTo /\ (reading.step = "more" => k >= reading.cursor)}
    BY <2>2, <2>5, <2>6
  <2> QED
    BY <2>2, <2>5, <2>7 DEF ReadingInv, HistoryIsReadWhole, There
<1> QED
  BY <1>1, <1>2, MessagesGrow

LEMMA PagesKeepReading ==
  ASSUME IInv, NEW c \in Convs, ListMessages(c)
  PROVE  ReadingInv'
<1> DEFINE first == reading.step = "idle"
           all   == {m.seq : m \in {x \in messages : x.conv = c}}
           rows  == {m.seq : m \in {x \in messages : x.conv = c /\ (first \/ x.seq < reading.cursor)}}
<1>1. PICK P \in Pages(rows, MessagePage, Identity(rows)) :
        reading' = [step   |-> IF P = rows THEN "done" ELSE "more",
                    conv   |-> c,
                    cursor |-> NextCursor(rows, P, Identity(rows)),
                    read   |-> reading.read \cup P,
                    upTo   |-> IF first THEN Max(P \cup {0}) ELSE reading.upTo]
  BY Zenon DEF ListMessages, Identity
<1>2. (first \/ reading.conv = c) /\ messages' = messages
  BY DEF ListMessages, store
<1>3. all \in SUBSET (1 .. MaxMessages) /\ rows = {n \in all : first \/ n < reading.cursor}
  BY DEF IInv, TypeOK
<1>4. There' = all
  BY <1>1, <1>2 DEF There
<1>5. first => rows = all
  BY <1>3
<1>6. ~first => There = all
  BY <1>2 DEF There
<1> DEFINE next == NextCursor(rows, P, Identity(rows))
<1> HIDE DEF all, rows, next
<1>7. /\ P \subseteq rows
      /\ P # rows => next \in P /\ P = {n \in rows : n >= next}
  <2>1. rows \in SUBSET (1 .. MaxMessages)
    BY <1>3
  <2>2. \A Q \in Pages(rows, MessagePage, Identity(rows)) :
          /\ Q \subseteq rows
          /\ Q # rows => /\ NextCursor(rows, Q, Identity(rows)) \in Q
                         /\ Q = {n \in rows : n >= NextCursor(rows, Q, Identity(rows))}
    BY <2>1, PageIsATop, Zenon
  <2>3. P \in Pages(rows, MessagePage, Identity(rows))
    BY <1>1
  <2> QED
    BY <2>2, <2>3, Zenon DEF next
<1>8. MaxMessages \in Nat
  BY ListingsAssumption
<1>9. CASE first
  <2>1. P \cup {0} \in SUBSET (0 .. MaxMessages)
    BY <1>3, <1>7, <1>8
  <2>2. Max(P \cup {0}) \in P \cup {0} /\ \A n \in P \cup {0} : Max(P \cup {0}) >= n
    BY <1>8, <2>1, MaxIsGreatest
  <2>3. reading.read = {} /\ rows = all
    BY <1>5, <1>9 DEF IInv, ReadingInv
  <2>4. /\ reading'.conv = c /\ reading'.read = P /\ reading'.upTo = Max(P \cup {0})
        /\ reading'.cursor = next
        /\ reading'.step = IF P = rows THEN "done" ELSE "more"
    BY <1>1, <1>9, <2>3 DEF next
  <2>5. /\ \A n \in P : n \in Nat /\ n <= reading'.upTo
        /\ reading'.upTo = 0 \/ reading'.upTo \in all
    <3>1. /\ \A n \in P : n \in Nat /\ n <= Max(P \cup {0})
          /\ Max(P \cup {0}) = 0 \/ Max(P \cup {0}) \in all
      BY <1>3, <1>7, <2>2
    <3> QED BY <2>4, <3>1, Zenon
  <2>6. P = {n \in all : n <= reading'.upTo /\ (reading'.step = "more" => n >= reading'.cursor)}
    BY <1>7, <2>3, <2>4, <2>5
  <2> QED
    BY <1>4, <1>7, <2>3, <2>4, <2>5, <2>6 DEF ReadingInv, HistoryIsReadWhole, There
<1>10. CASE ~first
  <2>1. /\ reading.step = "more" /\ all = There
        /\ reading.upTo = 0 \/ reading.upTo \in all
        /\ reading.cursor \in all /\ reading.cursor <= reading.upTo
        /\ reading.read = {n \in all : n <= reading.upTo /\ n >= reading.cursor}
    BY <1>6, <1>10 DEF IInv, TypeOK, ReadingInv, HistoryIsReadWhole, There, ListMessages
  <2>2. /\ reading'.conv = c /\ reading'.read = reading.read \cup P /\ reading'.upTo = reading.upTo
        /\ reading'.cursor = next
        /\ reading'.step = IF P = rows THEN "done" ELSE "more"
    BY <1>1, <1>10 DEF next
  <2>3. all \subseteq Nat /\ rows = {n \in all : n < reading.cursor} /\ reading.upTo \in Nat
    <3>1. all \subseteq Nat
      BY <1>3, <1>8
    <3>2. rows = {n \in all : n < reading.cursor}
      BY <1>3, <1>10
    <3>3. reading.upTo \in Nat
      <4>1. reading.upTo = 0 \/ reading.upTo \in all
        BY <2>1
      <4>2. 0 \in Nat
        OBVIOUS
      <4> QED BY <3>1, <4>1, <4>2, Zenon
    <3> QED BY <3>1, <3>2, <3>3
  <2>4. CASE P = rows
    <3>1. reading.read \cup P = {n \in all : n <= reading.upTo}
      <4>1. \A n \in all : n \in reading.read \cup P <=> n <= reading.upTo
        <5>1. reading.cursor \in Nat /\ reading.cursor <= reading.upTo /\ reading.upTo \in Nat
          BY <2>1, <2>3
        <5>2. \A n \in all : n \in Nat
          BY <2>3
        <5>3. \A n \in all : n \in reading.read <=> n <= reading.upTo /\ n >= reading.cursor
          BY <2>1
        <5>4. \A n \in all : n \in P <=> n < reading.cursor
          BY <2>3, <2>4
        <5> QED BY <5>1, <5>2, <5>3, <5>4
      <4>2. reading.read \cup P \subseteq all
        BY <2>1, <2>3, <2>4
      <4> QED BY <4>1, <4>2
    <3> QED
      BY <1>4, <2>1, <2>2, <2>4, <3>1 DEF ReadingInv, HistoryIsReadWhole, There
  <2>5. CASE P # rows
    <3>1. next \in all /\ next < reading.cursor /\ P = {n \in all : n < reading.cursor /\ n >= next}
      BY <1>7, <2>3, <2>5
    <3>a. reading.cursor \in Nat /\ reading.upTo \in Nat /\ next \in Nat
      BY <2>1, <2>3, <3>1
    <3>2. next <= reading.upTo
      BY <2>1, <3>1, <3>a
    <3>3. reading.read \cup P = {n \in all : n <= reading.upTo /\ n >= next}
      <4>1. \A n \in all : n \in reading.read \cup P <=> n <= reading.upTo /\ n >= next
        <5>1. \A n \in all : n \in Nat
          BY <2>3
        <5>2. \A n \in all : n \in reading.read <=> n <= reading.upTo /\ n >= reading.cursor
          BY <2>1
        <5>3. \A n \in all : n \in P <=> n < reading.cursor /\ n >= next
          BY <3>1
        <5>4. reading.cursor <= reading.upTo /\ next < reading.cursor
          BY <2>1, <3>1
        <5> QED BY <3>a, <5>1, <5>2, <5>3, <5>4
      <4>2. reading.read \cup P \subseteq all
        BY <2>1, <3>1
      <4> QED BY <4>1, <4>2
    <3> QED
      BY <1>4, <2>1, <2>2, <2>5, <3>1, <3>2, <3>3 DEF ReadingInv, HistoryIsReadWhole, There
  <2> QED BY <2>4, <2>5
<1> QED
  BY <1>9, <1>10

LEMMA ReadingKept ==
  ASSUME IInv, [Next]_vars
  PROVE  ReadingInv'
<1>1. CASE UNCHANGED reading
  BY <1>1, WritesKeepReading
<1>2. CASE CloseConversation
  BY <1>2 DEF CloseConversation, Unread, ReadingInv
<1>3. ASSUME NEW c \in Convs, ListMessages(c) PROVE ReadingInv'
  BY <1>3, PagesKeepReading
<1>4. ASSUME NEW w \in Writers, Write(w) PROVE UNCHANGED reading
  BY <1>4, BeginsAlike
     DEF IInv, Write, CreateConversation, CreateRefused, ResetConversation, ResetRefused, StartInserts,
         StartRefused, StartCommits, CompleteInserts, CompleteCommits, CompleteFails, Commit,
         UpdateConversationModel, InsertMessage, Refused, Begun, Begin
<1>5. ListConversations \/ CloseListing => UNCHANGED reading
  BY DEF ListConversations, CloseListing
<1> QED
  BY <1>1, <1>2, <1>3, <1>4, <1>5 DEF Next, vars

LEMMA Invariance == Spec => []IInv
<1>1. Init => IInv
  <2> SUFFICES ASSUME Init PROVE IInv
    OBVIOUS
  <2>1. TypeOK
    BY ListingsAssumption DEF Init, TypeOK, Idle, Active, Unlisted, Unread
  <2> QED
    BY <2>1 DEF Init, IInv, LocksInv, NumbersInv, ReadingInv, Idle, Unread
<1>2. IInv /\ [Next]_vars => IInv'
  BY TypeKept, LocksKept, NumbersKept, ReadingKept DEF IInv
<1> QED
  BY <1>1, <1>2, PTL DEF Spec

-----------------------------------------------------------------------------
(* The theorems. *)

\* Every row, transaction and page has its type, and a run is running in an
\* active conversation only: a reset cannot archive a conversation between the
\* check of a starting run and its commit (conversation_repository.go:67).
THEOREM TypesHold == Spec => []TypeOK
<1>1. IInv => TypeOK
  BY DEF IInv
<1> QED
  BY <1>1, Invariance, PTL

\* However many pages of whatever size, and whatever is written in between: what
\* was read is the conversation, without a gap (message_repository.go:25).
THEOREM PagesMissNothing == Spec => []HistoryIsReadWhole
<1>1. IInv => HistoryIsReadWhole
  BY DEF IInv, ReadingInv, HistoryIsReadWhole
<1> QED
  BY <1>1, Invariance, PTL

\* The order of a conversation is the order in which its messages can be seen,
\* with any number of transactions under way (run_repository.go:24).
THEOREM OrderIsTheOrderOfCommits == Spec => MessagesAppearInOrder
<1>1. IInv /\ [Next]_vars =>
        [\A m \in messages' \ messages : \A x \in messages : x.conv = m.conv => x.seq < m.seq]_vars
  <2> SUFFICES ASSUME IInv, [Next]_vars,
                      NEW m \in messages' \ messages, NEW x \in messages, x.conv = m.conv
               PROVE  x.seq < m.seq
    OBVIOUS
  <2>1. PICK w \in Writers :
          /\ tx[w].seq > 0
          /\ messages' = messages \cup {[conv |-> tx[w].conv, seq |-> tx[w].seq]}
    BY MessagesGrow
  <2>2. m = [conv |-> tx[w].conv, seq |-> tx[w].seq]
    BY <2>1
  <2> QED
    BY <2>1, <2>2 DEF IInv, NumbersInv
<1> QED
  BY <1>1, Invariance, PTL DEF Spec, MessagesAppearInOrder
==============================================================================
