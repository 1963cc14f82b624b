------------------------- MODULE ConversationHistory -------------------------
(***************************************************************************)
(* What the message store promises to whoever reads a conversation: a turn *)
(* opens with one user message, and closes with at most one assistant      *)
(* message, which directly follows it.  Nothing is ever removed or         *)
(* rewritten, and a request opens a turn at most once.  Handlers, runs,    *)
(* interactions and clarifications are hidden; Workbench implements this   *)
(* module with the running run of a conversation as its open turn.         *)
(***************************************************************************)
EXTENDS Naturals, Sequences

CONSTANTS
  Convs,      \* conversations
  Requests    \* run requests

VARIABLES
  log,        \* [Convs -> Seq of messages], oldest first
  turn        \* [Convs -> SUBSET Requests]: the open turn, if any

vars == <<log, turn>>

Message == [role : {"user", "assistant"}, run : Requests]

(***************************************************************************)
(* r has already been asked in some conversation.                          *)
(***************************************************************************)
Asked(r) ==
  \E c \in Convs : \E n \in 1..Len(log[c]) : log[c][n].run = r

Init ==
  /\ log = [c \in Convs |-> <<>>]
  /\ turn = [c \in Convs |-> {}]

Ask(c, r) ==
  /\ turn[c] = {}
  /\ ~Asked(r)
  /\ turn' = [turn EXCEPT ![c] = {r}]
  /\ log' = [log EXCEPT ![c] = Append(@, [role |-> "user", run |-> r])]

Answer(c, r) ==
  /\ r \in turn[c]
  /\ turn' = [turn EXCEPT ![c] = {}]
  /\ log' = [log EXCEPT ![c] = Append(@, [role |-> "assistant", run |-> r])]

Abandon(c, r) ==
  /\ r \in turn[c]
  /\ turn' = [turn EXCEPT ![c] = {}]
  /\ UNCHANGED log

Next ==
  \E c \in Convs, r \in Requests : Ask(c, r) \/ Answer(c, r) \/ Abandon(c, r)

Spec == Init /\ [][Next]_vars

(***************************************************************************)
(* Every assistant message answers the user message just before it.        *)
(***************************************************************************)
AnswersFollowQuestions ==
  \A c \in Convs : \A n \in 1..Len(log[c]) :
    log[c][n].role = "assistant" =>
      /\ n > 1
      /\ log[c][n-1] = [role |-> "user", run |-> log[c][n].run]
=============================================================================
