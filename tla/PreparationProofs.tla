--------------------------- MODULE PreparationProofs ---------------------------
(***************************************************************************)
(* What holds of a dialogue for every workspace, documentation and         *)
(* planning model.                                                         *)
(***************************************************************************)
EXTENDS Preparation, DataInduction

-----------------------------------------------------------------------------
(* The budget of calls. *)

BudgetInv ==
  /\ MaxCalls \in Nat
  /\ calls \in 0 .. MaxCalls
  /\ used \in 0 .. MaxCalls

LEMMA CallsKeepBudget ==
  ASSUME BudgetInv, UNCHANGED given,
         \/ CallRefused \/ CallMade
         \/ UNCHANGED <<used, calls>>
         \/ used' = 0 /\ (calls' = 0 \/ (calls' = 1 /\ MaxCalls > 0))
  PROVE  BudgetInv'
BY DEF BudgetInv, CallRefused, CallMade, MaxCalls

LEMMA BudgetIsKept == Spec => []BudgetInv
<1>1. Init => BudgetInv
  BY ConstantsAreSane DEF Init, BudgetInv, MaxCalls
<1>2. BudgetInv /\ [Next]_vars => BudgetInv'
  <2> SUFFICES ASSUME BudgetInv, [Next]_vars PROVE BudgetInv'
    OBVIOUS
  <2>1. CASE PlanDirectly \/ CallPlanner \/ RepairPlan
    BY <2>1, CallsKeepBudget DEF PlanDirectly, CallPlanner, RepairPlan
  <2>2. CASE SkipDocumentation \/ RetrieveDocumentation
    BY <2>2, CallsKeepBudget DEF SkipDocumentation, RetrieveDocumentation
  <2>3. CASE SkipDomain \/ ReuseEntity \/ ListEntities \/ ResolveEntity
    BY <2>3, CallsKeepBudget DEF SkipDomain, ReuseEntity, ListEntities, ResolveEntity
  <2>4. CASE AskForContext \/ AskToNarrow \/ Assemble \/ LeaveDialogue
    BY <2>4, CallsKeepBudget DEF AskForContext, AskToNarrow, Assemble, LeaveDialogue
  <2>5. CASE PickCandidate \/ AnswerInWords
    <3>1. /\ UNCHANGED given
          /\ used' = 0 /\ (calls' = 0 \/ (calls' = 1 /\ MaxCalls > 0))
      BY <2>5 DEF PickCandidate, AnswerInWords, NextTurn
    <3> QED
      BY <3>1 DEF BudgetInv, MaxCalls
  <2>6. CASE Rest \/ UNCHANGED vars
    BY <2>6, CallsKeepBudget DEF Rest, vars
  <2> QED
    BY <2>1, <2>2, <2>3, <2>4, <2>5, <2>6 DEF Next
<1> QED
  BY <1>1, <1>2, PTL DEF Spec

\* A turn spends at most MaxModelCalls calls, the classifier of its answer
\* included: Prepare's own budget starts again, the budget of the run does not
\* (run.go:22, model_calls.go:38).
THEOREM CallsNeverExceedTheBudget == Spec => []CallsShareOneBudget
<1>1. BudgetInv => CallsShareOneBudget
  BY DEF BudgetInv, CallsShareOneBudget
<1> QED
  BY <1>1, BudgetIsKept, PTL

-----------------------------------------------------------------------------
(* The deterministic plan. *)

\* The first of some values that is one.
LEMMA FirstOfSome ==
  ASSUME NEW names, NEW n \in Nat, DOMAIN names = 1 .. n, Len(names) = n
  PROVE  FirstNamed(names) = None \/ \E i \in 1 .. n : FirstNamed(names) = names[i]
<1> DEFINE I == {i \in 1 .. n : names[i] # None}
<1>1. FirstNamed(names) = IF (IF I # {} THEN Min(I) ELSE 0) = 0 THEN None
                          ELSE names[IF I # {} THEN Min(I) ELSE 0]
  BY Zenon DEF FirstNamed, SelectInSeq
<1>2. I \in SUBSET Nat
  OBVIOUS
<1>3. CASE I = {}
  BY <1>1, <1>3
<1>4. CASE I # {}
  <2>1. Min(I) \in I
    BY <1>2, <1>4, MinIsLeast
  <2>2. Min(I) \in 1 .. n
    BY <2>1
  <2> HIDE DEF I
  <2> QED
    BY <1>1, <1>4, <2>2
<1> QED
  BY <1>3, <1>4

\* A name is picked of a part, or none.
LEMMA MentionsAreNames ==
  ASSUME NEW part \in Part
  PROVE  /\ \A intent : SelectMention(part, intent) \in Names \cup {None}
         /\ SelectFolderMention(part) \in Names \cup {None}
<1>1. /\ part.quoted \in Names \cup {None} /\ part.identity \in Names \cup {None}
      /\ part.concept \in Names \cup {None} /\ part.rest \in Names \cup {None}
      /\ part.folder \in Names \cup {None}
  BY DEF Part
<1>2. ASSUME NEW intent PROVE SelectMention(part, intent) \in Names \cup {None}
  <2> DEFINE c == IF intent = "explain_documentation" THEN part.concept ELSE None
             names == <<part.quoted, part.identity, c, part.rest>>
  <2>1. c \in Names \cup {None}
    BY <1>1
  <2> HIDE DEF c
  <2>2. /\ DOMAIN names = 1 .. 4 /\ Len(names) = 4
        /\ \A i \in 1 .. 4 : names[i] \in Names \cup {None}
    BY <1>1, <2>1
  <2>3. SelectMention(part, intent) = FirstNamed(names)
    BY Zenon DEF SelectMention, c
  <2> HIDE DEF names
  <2>4. FirstNamed(names) = None \/ \E i \in 1 .. 4 : FirstNamed(names) = names[i]
    BY <2>2, FirstOfSome
  <2> QED
    BY <2>2, <2>3, <2>4
<1>3. SelectFolderMention(part) \in Names \cup {None}
  <2> DEFINE names == <<part.quoted, part.folder>>
  <2>1. /\ DOMAIN names = 1 .. 2 /\ Len(names) = 2
        /\ \A i \in 1 .. 2 : names[i] \in Names \cup {None}
    BY <1>1
  <2>2. SelectFolderMention(part) = FirstNamed(names)
    BY Zenon DEF SelectFolderMention
  <2> HIDE DEF names
  <2>3. FirstNamed(names) = None \/ \E i \in 1 .. 2 : FirstNamed(names) = names[i]
    BY <2>1, FirstOfSome
  <2> QED
    BY <2>1, <2>2, <2>3
<1> QED
  BY <1>2, <1>3

\* Every part is classified.
LEMMA PartsAreClassified ==
  ASSUME NEW part \in Part
  PROVE  ClassifyIntent(part).intent \in Intents /\ ClassifyIntent(part).source \in Sources
<1> DEFINE rules == Rules(part)
           I == {i \in 1 .. Len(rules) : rules[i].when}
<1>1. Len(rules) = 8 /\ rules[8].when
  BY DEF Rules
<1>2. \A i \in 1 .. 8 : rules[i].intent \in Intents /\ rules[i].source \in Sources
  BY DEF Rules, Intents, Sources
<1> HIDE DEF rules
<1>3. ClassifyIntent(part) = rules[IF I # {} THEN Min(I) ELSE 0]
  BY Zenon DEF ClassifyIntent, SelectInSeq, rules
<1>4. I \in SUBSET Nat /\ I # {}
  <2>1. 8 \in I
    BY <1>1
  <2>2. \A i \in I : i \in Nat
    BY <1>1
  <2> QED
    BY <2>1, <2>2
<1>5. Min(I) \in 1 .. 8
  BY <1>1, <1>4, MinIsLeast
<1>6. ClassifyIntent(part) = rules[Min(I)]
  BY <1>3, <1>4
<1> HIDE DEF I
<1> QED
  BY <1>2, <1>5, <1>6

LEMMA PartTaskIsUnresolved ==
  ASSUME NEW part \in Part
  PROVE  PartTask(part) \in UnresolvedTask /\ PartTask(part).deps = <<>>
<1> DEFINE t == PartTask(part)
           rule == ClassifyIntent(part)
           m == IF rule.intent = "unsupported" THEN None ELSE SelectMention(part, rule.intent)
           e == IF rule.intent = "unsupported" THEN {} ELSE part.types
<1>1. rule.intent \in Intents /\ rule.source \in Sources
  BY PartsAreClassified
<1>2. m \in Names \cup {None}
  BY MentionsAreNames
<1>3. e \in SUBSET Types
  BY DEF Part
<1>4. t = [intent |-> rule.intent, source |-> rule.source, mention |-> m, expects |-> e,
           deps |-> <<>>, scoped |-> FALSE, entity |-> None]
  BY Zenon DEF PartTask
<1> HIDE DEF rule, m, e, t
<1>5. t \in Task /\ t.entity = None /\ t.deps = <<>>
  BY <1>1, <1>2, <1>3, <1>4 DEF Task
<1> QED
  BY <1>5 DEF UnresolvedTask, t

LEMMA FolderTaskIsUnresolved ==
  ASSUME NEW part \in Part
  PROVE  FolderTask(part) \in UnresolvedTask /\ FolderTask(part).deps = <<>>
<1> DEFINE f == SelectFolderMention(part)
           i == "find_entity"
           s == "domain"
<1>1. f \in Names \cup {None} /\ i \in Intents /\ s \in Sources
  BY MentionsAreNames DEF Intents, Sources
<1>2. FolderTask(part) = [intent |-> i, source |-> s, mention |-> f, expects |-> {"folders"},
                          deps |-> <<>>, scoped |-> FALSE, entity |-> None]
  BY DEF FolderTask
<1> HIDE DEF f, i, s
<1>3. {"folders"} \in SUBSET Types
  BY FoldersAreACollection
<1> QED
  BY <1>1, <1>2, <1>3 DEF UnresolvedTask, Task

\* What the draft is while its parts are being read.
PartialPlan ==
  {p \in Seq(UnresolvedTask) :
     \A i \in DOMAIN p : \A k \in DOMAIN p[i].deps : p[i].deps[k] \in 1 .. (i - 1)}

\* Tasks are added after those there are, and depend on no later one.
LEMMA TasksAdded ==
  ASSUME NEW p \in PartialPlan, NEW new \in Seq(UnresolvedTask),
         \A i \in DOMAIN new : \A k \in DOMAIN new[i].deps : new[i].deps[k] \in 1 .. (Len(p) + i - 1)
  PROVE  p \o new \in PartialPlan
<1> DEFINE q == p \o new
           m == Len(p)
           n == Len(new)
<1>1. /\ p \in Seq(UnresolvedTask) /\ m \in Nat /\ n \in Nat /\ DOMAIN p = 1 .. m /\ DOMAIN new = 1 .. n
      /\ q \in Seq(UnresolvedTask) /\ DOMAIN q = 1 .. (m + n)
      /\ \A i \in 1 .. m : q[i] = p[i]
      /\ \A i \in 1 .. n : q[m + i] = new[i]
  BY DEF PartialPlan
<1> HIDE DEF q
<1>2. ASSUME NEW i \in DOMAIN q, NEW k \in DOMAIN q[i].deps PROVE q[i].deps[k] \in 1 .. (i - 1)
  <2>1. CASE i \in 1 .. m
    BY <1>1, <1>2, <2>1 DEF PartialPlan
  <2>2. CASE i \notin 1 .. m
    <3>1. i - m \in 1 .. n /\ i = m + (i - m)
      BY <1>1, <2>2
    <3>2. q[i] = new[i - m]
      BY <1>1, <3>1
    <3>3. q[i].deps[k] \in 1 .. (m + (i - m) - 1)
      BY <1>1, <1>2, <3>1, <3>2
    <3> QED
      BY <1>1, <3>1, <3>3
  <2> QED
    BY <2>1, <2>2
<1> HIDE DEF m, n
<1>3. q \in PartialPlan
  BY <1>1, <1>2 DEF PartialPlan
<1> QED
  BY <1>3 DEF q

LEMMA PartsAreAppended ==
  ASSUME NEW p \in PartialPlan, NEW part \in Part
  PROVE  AppendPart(p, part) \in PartialPlan /\ AppendPart(p, part) # <<>>
<1> DEFINE t == PartTask(part)
           f == FolderTask(part)
           s == (SelectFolderMention(part) # None)
           m == IF t.intent = "list_entities" THEN None ELSE t.mention
           u == [t EXCEPT !.expects = t.expects \ {"folders"}, !.deps = <<Len(p) + 1>>,
                          !.scoped = s, !.mention = m]
           two == "folders" \in t.expects /\ Cardinality(t.expects) > 1
<1>1. AppendPart(p, part) = IF two THEN p \o <<f, u>> ELSE Append(p, t)
  BY DEF AppendPart
<1>2. t \in UnresolvedTask /\ t.deps = <<>> /\ f \in UnresolvedTask /\ f.deps = <<>>
  BY PartTaskIsUnresolved, FolderTaskIsUnresolved
<1>3. s \in BOOLEAN
  OBVIOUS
<1> HIDE DEF t, f, s
<1>4. m \in Names \cup {None}
  BY <1>2 DEF UnresolvedTask, Task
<1> HIDE DEF m
<1>5. p \in Seq(UnresolvedTask) /\ Len(p) \in Nat
  BY DEF PartialPlan
<1>6. u \in UnresolvedTask /\ u.deps = <<Len(p) + 1>>
  <2> DEFINE x == t.expects \ {"folders"}
             d == <<Len(p) + 1>>
  <2>1. t \in Task /\ t.entity = None
    BY <1>2 DEF UnresolvedTask
  <2>2. x \in SUBSET Types
    BY <2>1 DEF Task
  <2>3. d \in Seq(Nat)
    BY <1>5
  <2>4. u = [t EXCEPT !.expects = x, !.deps = d, !.scoped = s, !.mention = m]
    OBVIOUS
  <2> HIDE DEF x, d, u
  <2>5. u \in Task /\ u.entity = None /\ u.deps = d
    BY <1>3, <1>4, <2>1, <2>2, <2>3, <2>4 DEF Task
  <2> QED
    BY <2>5 DEF UnresolvedTask, d
<1> HIDE DEF u
<1>7. CASE two
  <2> DEFINE new == <<f, u>>
  <2>1. /\ new \in Seq(UnresolvedTask) /\ Len(new) = 2 /\ DOMAIN new = 1 .. 2
        /\ new[1] = f /\ new[2] = u
    BY <1>2, <1>6
  <2> HIDE DEF new
  <2>2. ASSUME NEW i \in 1 .. 2, NEW k \in DOMAIN new[i].deps
        PROVE  new[i].deps[k] \in 1 .. (Len(p) + i - 1)
    <3>1. CASE i = 1
      BY <1>2, <2>1, <2>2, <3>1
    <3>2. CASE i = 2
      <4>1. new[i].deps = <<Len(p) + 1>>
        BY <1>6, <2>1, <3>2
      <4>2. k = 1 /\ new[i].deps[k] = Len(p) + 1
        BY <2>2, <4>1
      <4> QED
        BY <1>5, <3>2, <4>2
    <3> QED
      BY <3>1, <3>2
  <2>3. p \o new \in PartialPlan
    BY <2>1, <2>2, TasksAdded
  <2>4. p \o new # <<>>
    BY <1>5, <2>1
  <2> QED
    BY <1>1, <1>7, <2>3, <2>4 DEF new
<1>8. CASE ~two
  <2> DEFINE new == <<t>>
  <2>1. /\ new \in Seq(UnresolvedTask) /\ Len(new) = 1 /\ DOMAIN new = 1 .. 1 /\ new[1] = t
    BY <1>2
  <2>2. p \o new = Append(p, t)
    BY <1>2, <1>5
  <2> HIDE DEF new
  <2>3. \A i \in DOMAIN new : \A k \in DOMAIN new[i].deps : new[i].deps[k] \in 1 .. (Len(p) + i - 1)
    BY <1>2, <2>1
  <2>4. p \o new \in PartialPlan
    BY <2>1, <2>3, TasksAdded
  <2>5. Append(p, t) # <<>>
    BY <1>2, <1>5
  <2> QED
    BY <1>1, <1>8, <2>2, <2>4, <2>5
<1> QED
  BY <1>7, <1>8

PartAppended == [x \in PartialPlan \X Part |-> AppendPart(x[1], x[2])]

\* The draft of a request is the fold of its parts.
LEMMA DraftFolds ==
  ASSUME NEW parts \in Seq(Part)
  PROVE  FoldsTo(PartialPlan, <<>>, PartAppended, parts, FoldLeft(AppendPart, <<>>, parts))
<1> DEFINE Table(iter) ==
             iter = [S \in SUBSET DOMAIN parts |->
                       IF S = {} THEN <<>>
                       ELSE AppendPart(iter[S \ {Max(S)}], parts[Max(S)])]
<1>1. FoldLeft(AppendPart, <<>>, parts) = (CHOOSE iter : Table(iter))[DOMAIN parts]
  BY Zenon DEF FoldLeft, MapThenFoldSet
<1>2. <<>> \in PartialPlan
  BY DEF PartialPlan
<1>3. PartAppended \in [PartialPlan \X Part -> PartialPlan]
  BY PartsAreAppended DEF PartAppended
<1>4. \A S \in SUBSET DOMAIN parts : S # {} => parts[Max(S)] \in Part
  <2> SUFFICES ASSUME NEW S \in SUBSET DOMAIN parts, S # {} PROVE parts[Max(S)] \in Part
    OBVIOUS
  <2>1. S \in SUBSET (0 .. Len(parts)) /\ Len(parts) \in Nat
    OBVIOUS
  <2>2. Max(S) \in S
    BY <2>1, MaxIsGreatest
  <2> QED
    BY <2>2
<1>5. \A p \in PartialPlan, part \in Part : PartAppended[<<p, part>>] = AppendPart(p, part)
  BY DEF PartAppended
<1>6. \E iter : Table(iter)
  <2>0. PICK iter : Tabulates(PartialPlan, <<>>, PartAppended, parts, iter)
    BY <1>2, <1>3, TableExists
  <2>1. /\ iter \in [SUBSET DOMAIN parts -> PartialPlan]
        /\ \A S \in SUBSET DOMAIN parts :
             iter[S] = IF S = {} THEN <<>> ELSE PartAppended[<<iter[S \ {Max(S)}], parts[Max(S)]>>]
    BY <2>0 DEF Tabulates
  <2>2. \A S \in SUBSET DOMAIN parts :
          S # {} => PartAppended[<<iter[S \ {Max(S)}], parts[Max(S)]>>]
                    = AppendPart(iter[S \ {Max(S)}], parts[Max(S)])
    BY <1>4, <1>5, <2>1
  <2>3. iter = [S \in SUBSET DOMAIN parts |-> iter[S]]
    BY <2>1
  <2>4. \A S \in SUBSET DOMAIN parts :
          iter[S] = IF S = {} THEN <<>> ELSE AppendPart(iter[S \ {Max(S)}], parts[Max(S)])
    BY <2>1, <2>2, Zenon
  <2>5. Table(iter)
    BY <2>3, <2>4, Zenon
  <2> QED
    BY <2>5
<1> DEFINE table == CHOOSE iter : Table(iter)
<1>7. Table(table)
  BY <1>6, Zenon
<1>8. /\ table[{}] = <<>>
      /\ \A S \in SUBSET DOMAIN parts :
           S # {} => table[S] = AppendPart(table[S \ {Max(S)}], parts[Max(S)])
  <2> HIDE DEF table
  <2> QED
    BY <1>7
<1> HIDE DEF table
<1>9. \A S \in SUBSET DOMAIN parts :
        S # {} /\ table[S \ {Max(S)}] \in PartialPlan =>
          table[S] = PartAppended[<<table[S \ {Max(S)}], parts[Max(S)]>>]
  BY <1>4, <1>5, <1>8
<1>10. FoldsTo(PartialPlan, <<>>, PartAppended, parts, table[DOMAIN parts])
  BY <1>2, <1>3, <1>8, <1>9, TableWalks
<1> QED
  BY <1>1, <1>10 DEF table

\* The deterministic plan is a plan.
LEMMA DraftIsAPlan ==
  ASSUME NEW request \in Request
  PROVE  /\ DeterministicPlan(request) \in Seq(UnresolvedTask)
         /\ ValidPlan(DeterministicPlan(request))
<1>1. ASSUME NEW p \in PartialPlan, p # <<>> PROVE p \in Seq(UnresolvedTask) /\ ValidPlan(p)
  BY <1>1 DEF PartialPlan, ValidPlan, UnresolvedTask, Task
<1>2. CASE request.parts = <<>>
  <2> DEFINE i == "unsupported"
             s == "none"
             t == NothingAsked
  <2>1. i \in Intents /\ s \in Sources
    BY DEF Intents, Sources
  <2>2. t = [intent |-> i, source |-> s, mention |-> None, expects |-> {}, deps |-> <<>>,
             scoped |-> FALSE, entity |-> None]
    BY DEF NothingAsked
  <2> HIDE DEF i, s, t
  <2>3. t \in UnresolvedTask /\ t.deps = <<>>
    BY <2>1, <2>2 DEF UnresolvedTask, Task
  <2>4. <<t>> \in PartialPlan /\ <<t>> # <<>>
    BY <2>3 DEF PartialPlan
  <2> QED
    BY <1>1, <1>2, <2>4 DEF DeterministicPlan, t
<1>3. CASE request.parts # <<>>
  <2> DEFINE parts == request.parts
             v == FoldLeft(AppendPart, <<>>, parts)
  <2>1. parts \in Seq(Part) /\ parts # <<>>
    BY <1>3 DEF Request
  <2>2. FoldsTo(PartialPlan, <<>>, PartAppended, parts, v)
    BY <2>1, DraftFolds
  <2>3. DeterministicPlan(request) = v
    BY <1>3 DEF DeterministicPlan
  <2> HIDE DEF parts, v
  <2>4. PICK f \in [0 .. Len(parts) -> PartialPlan] :
          /\ \A n \in 1 .. Len(parts) : f[n] = PartAppended[<<f[n - 1], parts[n]>>]
          /\ v = f[Len(parts)]
    BY <2>2 DEF FoldsTo
  <2>5. Len(parts) \in 1 .. Len(parts) /\ Len(parts) - 1 \in 0 .. Len(parts) /\ Len(parts) \in 0 .. Len(parts)
    BY <2>1
  <2>6. f[Len(parts) - 1] \in PartialPlan /\ parts[Len(parts)] \in Part /\ v \in PartialPlan
    BY <2>1, <2>4, <2>5
  <2>7. v = AppendPart(f[Len(parts) - 1], parts[Len(parts)])
    BY <2>4, <2>5, <2>6 DEF PartAppended
  <2>8. v # <<>>
    BY <2>6, <2>7, PartsAreAppended
  <2> QED
    BY <1>1, <2>3, <2>6, <2>8
<1> QED
  BY <1>2, <1>3

-----------------------------------------------------------------------------
(* The plan. *)

Done(t) == UsesDomain(t) /\ t.intent # "list_entities" => t.entity # None

\* What a question is about, and may be answered by.
QuestionInv ==
  pc = "asking" =>
    /\ question.task \in DOMAIN plan
    /\ question.candidates \subseteq Documents
    /\ question.from \in Snapshots

\* The tasks before the one being prepared have what they need, and the answer
\* of the turn is about a task of the plan.
PlanInv ==
  /\ given.request \in Requests
  /\ snap \in Snapshots
  /\ plan \in Seq(Task)
  /\ pc \in {"planning", "repairing"} => answer = None
  /\ pc \notin {"planning", "repairing"} => ValidPlan(plan) /\ at \in DOMAIN plan
  /\ pc \in {"documentation", "domain"} => \A j \in 1 .. (at - 1) : Done(plan[j])
  /\ answer # None => answer.task \in DOMAIN plan
  /\ QuestionInv
  /\ PickHolds

\* A plan whose tasks differ from those of a valid one in what they mention and
\* which entity they have is valid.
LEMMA ValidityIgnoresEntities ==
  ASSUME NEW p \in Seq(Task), ValidPlan(p), NEW q \in Seq(Task), DOMAIN q = DOMAIN p,
         \A i \in DOMAIN p : /\ q[i].intent = p[i].intent /\ q[i].source = p[i].source
                             /\ q[i].expects = p[i].expects /\ q[i].deps = p[i].deps
  PROVE  ValidPlan(q)
<1>1. q # <<>>
  BY DEF ValidPlan
<1> QED
  BY <1>1 DEF ValidPlan

\* A task may be given another mention or another entity.
LEMMA TaskUpdate ==
  ASSUME NEW t \in Task
  PROVE  /\ \A e \in Entity \cup {None} :
              /\ [t EXCEPT !.entity = e] \in Task
              /\ [t EXCEPT !.entity = e].entity = e
              /\ [t EXCEPT !.entity = e].intent = t.intent
              /\ [t EXCEPT !.entity = e].source = t.source
              /\ [t EXCEPT !.entity = e].expects = t.expects
              /\ [t EXCEPT !.entity = e].deps = t.deps
         /\ \A n \in Names :
              /\ [t EXCEPT !.mention = n] \in Task
              /\ [t EXCEPT !.mention = n].intent = t.intent
              /\ [t EXCEPT !.mention = n].source = t.source
              /\ [t EXCEPT !.mention = n].expects = t.expects
              /\ [t EXCEPT !.mention = n].deps = t.deps
              /\ [t EXCEPT !.mention = n].entity = t.entity
BY DEF Task

\* An answer changes no task but in its mention and its entity, and the task it
\* is about becomes what the answer makes of it.
LEMMA PatchKeepsPlan ==
  ASSUME NEW p \in Seq(Task), ValidPlan(p), NEW i \in DOMAIN p, NEW t \in Task,
         t.intent = p[i].intent, t.source = p[i].source, t.expects = p[i].expects, t.deps = p[i].deps
  PROVE  /\ Patch(p, i, t) \in Seq(Task)
         /\ ValidPlan(Patch(p, i, t))
         /\ DOMAIN Patch(p, i, t) = DOMAIN p
         /\ Patch(p, i, t)[i] = t
<1> DEFINE q == Patch(p, i, t)
<1>1. \A j \in DOMAIN p : (q[j] = t /\ j = i) \/ q[j] = p[j] \/ q[j] = [p[j] EXCEPT !.entity = None]
  BY DEF Patch
<1>2. DOMAIN q = DOMAIN p /\ q = [j \in DOMAIN p |-> q[j]] /\ q[i] = t
  BY DEF Patch
<1> HIDE DEF q
<1>3. \A j \in DOMAIN p :
        /\ q[j] \in Task
        /\ q[j].intent = p[j].intent /\ q[j].source = p[j].source
        /\ q[j].expects = p[j].expects /\ q[j].deps = p[j].deps
  <2> SUFFICES ASSUME NEW j \in DOMAIN p
               PROVE  /\ q[j] \in Task
                      /\ q[j].intent = p[j].intent /\ q[j].source = p[j].source
                      /\ q[j].expects = p[j].expects /\ q[j].deps = p[j].deps
    OBVIOUS
  <2>1. p[j] \in Task
    OBVIOUS
  <2>2. CASE q[j] = t /\ j = i
    BY <2>2
  <2>3. CASE q[j] = p[j]
    BY <2>1, <2>3
  <2>4. CASE q[j] = [p[j] EXCEPT !.entity = None]
    BY <2>1, <2>4 DEF Task
  <2> QED
    BY <1>1, <2>2, <2>3, <2>4
<1>4. q \in Seq(Task)
  <2>1. Len(p) \in Nat /\ DOMAIN p = 1 .. Len(p)
    OBVIOUS
  <2> QED
    BY <1>2, <1>3, <2>1
<1>5. ValidPlan(q)
  BY <1>2, <1>3, <1>4, ValidityIgnoresEntities
<1> QED
  BY <1>2, <1>4, <1>5 DEF q

LEMMA UnresolvedPlansArePlans ==
  ASSUME NEW p \in Seq(UnresolvedTask)
  PROVE  p \in Seq(Task)
<1>1. UnresolvedTask \subseteq Task
  BY DEF UnresolvedTask
<1> QED
  BY <1>1

\* Where a dialogue begins.
LEMMA InitPlan == Init => PlanInv
<1> SUFFICES ASSUME Init PROVE PlanInv
  OBVIOUS
<1>1. plan \in Seq(Task)
  BY DEF Init
<1>2. given.request \in Requests
  BY DEF Init
<1> QED
  BY <1>1, <1>2 DEF Init, PlanInv, QuestionInv, PickHolds

\* A plan is made.
LEMMA PlannedKeeps ==
  ASSUME PlanInv, NEW p \in Seq(UnresolvedTask), ValidPlan(p), Planned(p),
         pc \in {"planning", "repairing"}, UNCHANGED <<snap, given, answer>>
  PROVE  PlanInv'
<1>1. p \in Seq(Task)
  BY UnresolvedPlansArePlans
<1>2. 1 \in DOMAIN p
  <2>1. p # <<>>
    BY DEF ValidPlan
  <2> QED
    BY <1>1, <2>1
<1>3. /\ plan' = p /\ at' = 1 /\ answer' = None
      /\ pc' \in {"unsupported", "documentation"}
  BY DEF Planned, PlanInv
<1> QED
  BY <1>1, <1>2, <1>3 DEF PlanInv, QuestionInv, PickHolds

\* Preparation goes on with the plan it has.
LEMMA SamePlanKeeps ==
  ASSUME PlanInv, UNCHANGED <<stored, snap, given, plan, at, question, answer>>,
         pc \notin {"planning", "repairing"},
         \/ pc = "documentation" /\ pc' = "domain"
         \/ pc' \in {"ready", "left"}
         \/ pc' = pc
  PROVE  PlanInv'
BY DEF PlanInv, QuestionInv, PickHolds

\* The task has what it needs, and the next one is prepared.
LEMMA NextTaskKeeps ==
  ASSUME PlanInv, UNCHANGED <<stored, snap, given, question, answer>>, pc = "domain", NextTask,
         plan' \in Seq(Task), ValidPlan(plan'), DOMAIN plan' = DOMAIN plan,
         \A j \in DOMAIN plan : plan'[j] = plan[j] \/ j = at,
         Done(plan'[at]),
         plan' = plan \/ ~Reusable(T)
  PROVE  PlanInv'
<1>1. at \in DOMAIN plan /\ plan \in Seq(Task) /\ at \in Nat /\ DOMAIN plan = 1 .. Len(plan)
  BY DEF PlanInv
<1>2. at' \in DOMAIN plan'
  BY <1>1 DEF NextTask
<1>3. pc' \in {"documentation", "domain"} => \A j \in 1 .. (at' - 1) : Done(plan'[j])
  <2> SUFFICES ASSUME pc' \in {"documentation", "domain"}, NEW j \in 1 .. (at' - 1)
               PROVE  Done(plan'[j])
    OBVIOUS
  <2>1. at' = at + 1
    BY DEF NextTask
  <2>2. CASE j = at
    BY <2>2
  <2>3. CASE j # at
    <3>1. j \in 1 .. (at - 1) /\ j \in DOMAIN plan
      BY <1>1, <2>1, <2>3
    <3>2. plan'[j] = plan[j]
      BY <2>3, <3>1
    <3> QED
      BY <3>1, <3>2 DEF PlanInv
  <2> QED
    BY <2>2, <2>3
<1>4. pc' \in {"gate", "documentation"}
  BY DEF NextTask
<1>5. PickHolds'
  <2> SUFFICES ASSUME answer # None, stored = snap, answer.picked # None
               PROVE  /\ plan'[answer.task].entity = answer.picked
                      /\ question # None /\ question.slot = "entity" => question.task # answer.task
    BY DEF PickHolds
  <2>1. /\ plan[answer.task].entity = answer.picked
        /\ question # None /\ question.slot = "entity" => question.task # answer.task
    BY DEF PlanInv, PickHolds
  <2>2. answer.task \in DOMAIN plan
    BY DEF PlanInv
  <2>3. answer.task = at => Reusable(T)
    BY <2>1 DEF Reusable, T
  <2> QED
    BY <2>1, <2>2, <2>3
<1> QED
  BY <1>1, <1>2, <1>3, <1>4, <1>5 DEF PlanInv, QuestionInv

\* The user is asked about a task: never about the one whose entity was picked.
LEMMA AskKeeps ==
  ASSUME PlanInv, UNCHANGED <<stored, snap, given, plan, answer>>,
         pc \in {"domain", "gate"},
         NEW i \in DOMAIN plan, NEW slot, NEW docs \in SUBSET Documents,
         Ask(i, slot, docs),
         slot = "entity" => i = at /\ ~Reusable(T)
  PROVE  PlanInv'
<1>1. /\ question' = [task |-> i, slot |-> slot, candidates |-> docs, from |-> snap]
      /\ pc' = "asking" /\ at' = at
  BY DEF Ask
<1>2. QuestionInv'
  BY <1>1 DEF QuestionInv, PlanInv
<1>3. PickHolds'
  <2> SUFFICES ASSUME answer # None, stored = snap, answer.picked # None
               PROVE  /\ plan[answer.task].entity = answer.picked
                      /\ slot = "entity" => i # answer.task
    BY <1>1 DEF PickHolds
  <2>1. plan[answer.task].entity = answer.picked
    BY DEF PlanInv, PickHolds
  <2> QED
    BY <2>1 DEF Reusable, T
<1> QED
  BY <1>1, <1>2, <1>3 DEF PlanInv

\* An answer is patched into the plan, and preparation begins again.
LEMMA AnswerKeeps ==
  ASSUME PlanInv, NextTurn, NEW t \in Task,
         LET old == plan[question.task]
         IN  /\ t.intent = old.intent /\ t.source = old.source
             /\ t.expects = old.expects /\ t.deps = old.deps,
         plan' = Patch(plan, question.task, t),
         answer'.task = question.task,
         answer'.picked # None => t.entity = answer'.picked
  PROVE  PlanInv'
<1>1. question.task \in DOMAIN plan /\ plan \in Seq(Task) /\ ValidPlan(plan)
  BY DEF PlanInv, QuestionInv, NextTurn
<1>2. /\ plan' \in Seq(Task) /\ ValidPlan(plan')
      /\ DOMAIN plan' = DOMAIN plan /\ plan'[question.task] = t
  BY <1>1, PatchKeepsPlan
<1>3. 1 \in DOMAIN plan
  BY <1>1
<1>4. /\ snap' \in Snapshots /\ pc' = "documentation" /\ at' = 1
      /\ question' = None /\ given' = given
  BY DEF NextTurn
<1>5. PickHolds'
  BY <1>2, <1>4 DEF PickHolds
<1> QED
  BY <1>1, <1>2, <1>3, <1>4, <1>5 DEF PlanInv, QuestionInv

\* The entity of a task is resolved, or asked for, among its candidates.
LEMMA ResolutionOutcomes ==
  ASSUME PlanInv, ResolveEntity
  PROVE  /\ Candidates(T) \in SUBSET Documents
         /\ \/ \E doc \in Candidates(T) : Resolved(doc)
            \/ \E docs \in SUBSET Candidates(T) : Ask(at, "entity", docs) /\ UNCHANGED <<plan, blocks>>
<1>1. Candidates(T) \in SUBSET Documents
  <2>1. snap \in Snapshots
    BY DEF PlanInv
  <2> QED
    BY <2>1, ConstantsAreSane DEF Candidates
<1>2. \A found \in Selections(T) : found \subseteq Candidates(T)
  BY DEF Selections
<1>3. PICK found \in Selections(T) :
        LET exact == ExactMatches(found, Sought(T)) IN
        \/ \E doc \in exact : Resolved(doc)
        \/ AskWhich(exact)
        \/ AskWhich({})
        \/ AskWhich(found)
        \/ \E short \in Shortlists(found) : \E doc \in short : Resolved(doc)
  BY DEF ResolveEntity
<1>4. ExactMatches(found, Sought(T)) \subseteq found
  BY DEF ExactMatches
<1>5. \A short \in Shortlists(found) : short \subseteq found
  BY DEF Shortlists
<1>6. \/ \E doc \in Candidates(T) : Resolved(doc)
      \/ \E docs \in SUBSET Candidates(T) : AskWhich(docs)
  BY <1>2, <1>3, <1>4, <1>5
<1>7. ASSUME NEW docs \in SUBSET Candidates(T), AskWhich(docs)
      PROVE  \E short \in SUBSET Candidates(T) : Ask(at, "entity", short) /\ UNCHANGED <<plan, blocks>>
  BY <1>7 DEF AskWhich, Shortlists
<1> QED
  BY <1>1, <1>6, <1>7

\* A plan is made of what the model replied or of the draft, or the reply is to
\* be repaired.
LEMMA PlanningOutcomes ==
  ASSUME PlanInv, PlanDirectly \/ CallPlanner \/ RepairPlan
  PROVE  /\ pc \in {"planning", "repairing"}
         /\ UNCHANGED <<stored, snap, given, question, answer>>
         /\ \/ \E p \in Seq(UnresolvedTask) : ValidPlan(p) /\ Planned(p)
            \/ pc' = "repairing" /\ UNCHANGED <<plan, at>>
<1>1. Draft \in Seq(UnresolvedTask) /\ ValidPlan(Draft)
  BY ConstantsAreSane, DraftIsAPlan DEF PlanInv, Draft
<1>2. CASE PlanDirectly
  BY <1>1, <1>2 DEF PlanDirectly
<1>3. CASE CallPlanner
  BY <1>1, <1>3, ConstantsAreSane DEF CallPlanner
<1>4. CASE RepairPlan
  <2>1. \E reply \in Replies \cup {Draft} : Planned(IF ValidPlan(reply) THEN reply ELSE Draft)
    BY <1>4 DEF RepairPlan
  <2>2. \A reply \in Replies \cup {Draft} :
          LET p == IF ValidPlan(reply) THEN reply ELSE Draft
          IN  p \in Seq(UnresolvedTask) /\ ValidPlan(p)
    BY <1>1, ConstantsAreSane
  <2> QED
    BY <1>4, <2>1, <2>2 DEF RepairPlan
<1> QED
  BY <1>2, <1>3, <1>4

LEMMA PlanningKeeps ==
  ASSUME PlanInv, PlanDirectly \/ CallPlanner \/ RepairPlan
  PROVE  PlanInv'
<1>1. /\ pc \in {"planning", "repairing"}
      /\ UNCHANGED <<stored, snap, given, question, answer>>
      /\ \/ \E p \in Seq(UnresolvedTask) : ValidPlan(p) /\ Planned(p)
         \/ pc' = "repairing" /\ UNCHANGED <<plan, at>>
  BY PlanningOutcomes
<1>2. CASE \E p \in Seq(UnresolvedTask) : ValidPlan(p) /\ Planned(p)
  BY <1>1, <1>2, PlannedKeeps
<1>3. CASE pc' = "repairing" /\ UNCHANGED <<plan, at>>
  BY <1>1, <1>3 DEF PlanInv, QuestionInv, PickHolds
<1> QED
  BY <1>1, <1>2, <1>3

\* The plan after an entity is resolved.
LEMMA ResolvedKeeps ==
  ASSUME PlanInv, UNCHANGED <<stored, snap, given, answer>>, pc = "domain", ~Reusable(T),
         NEW doc \in Documents, Resolved(doc)
  PROVE  PlanInv'
<1>1. plan \in Seq(Task) /\ at \in DOMAIN plan /\ ValidPlan(plan) /\ snap \in Snapshots
  BY DEF PlanInv
<1> DEFINE e == [doc |-> doc, from |-> snap]
<1>2. e \in Entity /\ e # None
  BY <1>1, NoneIsNoEntity DEF Entity
<1>3. plan' = [plan EXCEPT ![at] = [plan[at] EXCEPT !.entity = e]]
  BY <1>1 DEF Resolved
<1> HIDE DEF e
<1>4. plan[at] \in Task
  BY <1>1
<1>5. /\ DOMAIN plan' = DOMAIN plan
      /\ plan'[at] = [plan[at] EXCEPT !.entity = e]
      /\ \A j \in DOMAIN plan : plan'[j] = plan[j] \/ j = at
  BY <1>1, <1>3
<1>6. /\ plan'[at] \in Task /\ plan'[at].entity = e
      /\ plan'[at].intent = plan[at].intent /\ plan'[at].source = plan[at].source
      /\ plan'[at].expects = plan[at].expects /\ plan'[at].deps = plan[at].deps
  BY <1>2, <1>4, <1>5, TaskUpdate
<1>7. plan' \in Seq(Task)
  BY <1>1, <1>3, <1>5, <1>6
<1>8. ValidPlan(plan')
  <2>1. \A j \in DOMAIN plan : /\ plan'[j].intent = plan[j].intent
                               /\ plan'[j].source = plan[j].source
                               /\ plan'[j].expects = plan[j].expects
                               /\ plan'[j].deps = plan[j].deps
    BY <1>5, <1>6
  <2> QED
    BY <1>1, <1>5, <1>7, <2>1, ValidityIgnoresEntities
<1>9. Done(plan'[at])
  BY <1>2, <1>6 DEF Done
<1> QED
  BY <1>5, <1>7, <1>8, <1>9, NextTaskKeeps DEF Resolved

LEMMA DomainKeeps ==
  ASSUME PlanInv, SkipDomain \/ ReuseEntity \/ ListEntities \/ ResolveEntity
  PROVE  PlanInv'
<1>1. pc = "domain" /\ UNCHANGED <<stored, snap, given, answer>>
  BY DEF SkipDomain, ReuseEntity, ListEntities, ResolveEntity
<1>2. plan \in Seq(Task) /\ at \in DOMAIN plan /\ ValidPlan(plan) /\ snap \in Snapshots
  BY <1>1 DEF PlanInv
<1>3. CASE SkipDomain \/ ReuseEntity \/ ListEntities
  <2>1. UNCHANGED <<plan, question>> /\ NextTask
    BY <1>3 DEF SkipDomain, ReuseEntity, ListEntities
  <2>2. Done(plan[at])
    BY <1>3 DEF SkipDomain, ReuseEntity, ListEntities, Reusable, Done, T
  <2> QED
    BY <1>1, <1>2, <2>1, <2>2, NextTaskKeeps
<1>4. CASE ResolveEntity
  <2>1. ~Reusable(T)
    BY <1>4 DEF ResolveEntity
  <2>2. /\ Candidates(T) \in SUBSET Documents
        /\ \/ \E doc \in Candidates(T) : Resolved(doc)
           \/ \E docs \in SUBSET Candidates(T) : Ask(at, "entity", docs) /\ UNCHANGED <<plan, blocks>>
    BY <1>4, ResolutionOutcomes
  <2>3. CASE \E doc \in Candidates(T) : Resolved(doc)
    BY <1>1, <2>1, <2>2, <2>3, ResolvedKeeps
  <2>4. CASE \E docs \in SUBSET Candidates(T) : Ask(at, "entity", docs) /\ UNCHANGED <<plan, blocks>>
    BY <1>1, <1>2, <2>1, <2>2, <2>4, AskKeeps
  <2> QED
    BY <2>2, <2>3, <2>4
<1> QED
  BY <1>3, <1>4

LEMMA GateKeeps ==
  ASSUME PlanInv, AskForContext \/ AskToNarrow \/ Assemble \/ LeaveDialogue
  PROVE  PlanInv'
<1>1. CASE AskForContext
  <2>1. PICK i \in DOMAIN plan : Ask(i, "context", {})
    BY <1>1 DEF AskForContext, Starved
  <2> QED
    BY <1>1, <2>1, AskKeeps DEF AskForContext
<1>2. CASE AskToNarrow
  <2>1. 1 \in DOMAIN plan
    BY <1>2 DEF AskToNarrow, PlanInv
  <2> QED
    BY <1>2, <2>1, AskKeeps DEF AskToNarrow
<1>3. CASE Assemble \/ LeaveDialogue
  <2>1. /\ pc \in {"gate", "asking"} /\ pc' \in {"ready", "left"}
        /\ UNCHANGED <<stored, snap, given, plan, at, question, answer>>
    BY <1>3 DEF Assemble, LeaveDialogue
  <2> QED
    BY <2>1, SamePlanKeeps
<1> QED
  BY <1>1, <1>2, <1>3

LEMMA AnswersKeep ==
  ASSUME PlanInv, PickCandidate \/ AnswerInWords
  PROVE  PlanInv'
<1>1. NextTurn /\ pc = "asking"
  BY DEF PickCandidate, AnswerInWords, NextTurn
<1>2. /\ plan \in Seq(Task) /\ question.task \in DOMAIN plan
      /\ question.candidates \subseteq Documents /\ question.from \in Snapshots
  BY <1>1 DEF PlanInv, QuestionInv
<1> DEFINE old == plan[question.task]
<1>3. old \in Task
  BY <1>2
<1> HIDE DEF old
<1>4. CASE PickCandidate
  <2>1. PICK doc \in question.candidates :
          LET t == [old EXCEPT !.entity = [doc |-> doc, from |-> question.from]] IN
          /\ plan' = Patch(plan, question.task, t)
          /\ answer' = [task |-> question.task, slot |-> question.slot,
                        picked |-> t.entity, said |-> None]
    BY <1>4 DEF PickCandidate, old
  <2> DEFINE e == [doc |-> doc, from |-> question.from]
             t == [old EXCEPT !.entity = e]
  <2>2. e \in Entity
    BY <1>2 DEF Entity
  <2>3. plan' = Patch(plan, question.task, t) /\ answer'.task = question.task
    BY <2>1
  <2>4. answer'.picked = t.entity
    BY <2>1
  <2> HIDE DEF e
  <2>5. /\ t \in Task /\ t.intent = old.intent /\ t.source = old.source
        /\ t.expects = old.expects /\ t.deps = old.deps
    BY <1>3, <2>2, TaskUpdate
  <2> HIDE DEF t
  <2> QED
    BY <1>1, <2>3, <2>4, <2>5, AnswerKeeps DEF old
<1>5. CASE AnswerInWords
  <2>1. PICK name \in Names :
          /\ plan' = Patch(plan, question.task, [old EXCEPT !.mention = name])
          /\ answer' = [task |-> question.task, slot |-> question.slot,
                        picked |-> None, said |-> name]
    BY <1>5 DEF AnswerInWords, old
  <2> DEFINE t == [old EXCEPT !.mention = name]
  <2>2. /\ plan' = Patch(plan, question.task, t)
        /\ answer'.task = question.task /\ answer'.picked = None
    BY <2>1
  <2>3. /\ t \in Task /\ t.intent = old.intent /\ t.source = old.source
        /\ t.expects = old.expects /\ t.deps = old.deps
    BY <1>3, TaskUpdate
  <2> HIDE DEF t
  <2> QED
    BY <1>1, <2>2, <2>3, AnswerKeeps DEF old
<1> QED
  BY <1>4, <1>5

LEMMA PlanIsKept == Spec => []PlanInv
<1>1. PlanInv /\ [Next]_vars => PlanInv'
  <2> SUFFICES ASSUME PlanInv, [Next]_vars PROVE PlanInv'
    OBVIOUS
  <2>1. CASE PlanDirectly \/ CallPlanner \/ RepairPlan
    BY <2>1, PlanningKeeps
  <2>2. CASE SkipDocumentation \/ RetrieveDocumentation
    <3>1. /\ pc = "documentation" /\ pc' = "domain"
          /\ UNCHANGED <<stored, snap, given, plan, at, question, answer>>
      BY <2>2 DEF SkipDocumentation, RetrieveDocumentation
    <3> QED
      BY <3>1, SamePlanKeeps
  <2>3. CASE SkipDomain \/ ReuseEntity \/ ListEntities \/ ResolveEntity
    BY <2>3, DomainKeeps
  <2>4. CASE AskForContext \/ AskToNarrow \/ Assemble \/ LeaveDialogue
    BY <2>4, GateKeeps
  <2>5. CASE PickCandidate \/ AnswerInWords
    BY <2>5, AnswersKeep
  <2>6. CASE Rest \/ UNCHANGED vars
    BY <2>6 DEF Rest, vars, PlanInv, QuestionInv, PickHolds
  <2> QED
    BY <2>1, <2>2, <2>3, <2>4, <2>5, <2>6 DEF Next
<1> QED
  BY <1>1, InitPlan, PTL DEF Spec

\* When a task is looked up, what it depends on is resolved, whatever the
\* planning model, the retrievals and the answers were (coordinator.go:80).
THEOREM TasksFindTheirDependencies == Spec => []DependenciesAreResolved
<1>1. PlanInv => DependenciesAreResolved
  <2> SUFFICES ASSUME PlanInv, pc = "domain", NEW k \in DOMAIN T.deps
               PROVE  Done(plan[T.deps[k]])
    BY DEF DependenciesAreResolved, Done
  <2>1. T.deps[k] \in 1 .. (at - 1)
    BY DEF PlanInv, ValidPlan, T
  <2> QED
    BY <2>1 DEF PlanInv
<1> QED
  BY <1>1, PlanIsKept, PTL

\* A picked entity is neither replaced nor asked for again on the snapshot the
\* interaction began with (coordinator.go:98).
THEOREM PicksHold == Spec => []PickHolds
<1>1. PlanInv => PickHolds
  BY DEF PlanInv
<1> QED
  BY <1>1, PlanIsKept, PTL

-----------------------------------------------------------------------------
(* The state. *)

\* Before there is a plan there is nothing else, and what is asked is a question.
StateInv ==
  /\ pc \in {"planning", "repairing", "documentation", "domain", "gate",
            "asking", "ready", "unsupported", "left"}
  /\ stored \in Snapshots /\ snap \in Snapshots
  /\ given \in [request : Requests, calls : CallLimits, bundle : Bundles]
  /\ pc \in {"planning", "repairing"} => plan = <<>> /\ at = 1 /\ blocks = <<>>
  /\ turns \in Nat
  /\ question \in Question \cup {None}
  /\ pc = "asking" => question \in Question
  /\ question # None => question.task \in DOMAIN plan
  /\ answer \in Answer \cup {None}

\* A question is about a task of the plan, and offers documents.
LEMMA AskIsTyped ==
  ASSUME StateInv, PlanInv, UNCHANGED <<stored, snap, given, plan, answer, turns>>,
         pc \in {"domain", "gate"},
         NEW i \in DOMAIN plan, NEW slot \in {"entity", "context", "context_budget"},
         NEW docs \in SUBSET Documents, Ask(i, slot, docs)
  PROVE  StateInv'
<1>1. /\ question' = [task |-> i, slot |-> slot, candidates |-> docs, from |-> snap]
      /\ pc' = "asking"
  BY DEF Ask
<1>2. i \in Nat
  BY DEF PlanInv
<1>3. question' \in Question
  BY <1>1, <1>2 DEF Question, StateInv
<1> QED
  BY <1>1, <1>3 DEF StateInv

LEMMA StateIsKept ==
  ASSUME StateInv, PlanInv, PlanInv', [Next]_vars
  PROVE  StateInv'
<1>1. CASE PlanDirectly \/ CallPlanner \/ RepairPlan
  <2>1. /\ pc \in {"planning", "repairing"}
        /\ UNCHANGED <<stored, snap, given, question, answer, turns, blocks>>
        /\ \/ pc' \in {"unsupported", "documentation"}
           \/ pc' = "repairing" /\ UNCHANGED <<plan, at>>
    BY <1>1 DEF PlanDirectly, CallPlanner, RepairPlan, Planned
  <2>2. question = None
    BY <2>1 DEF StateInv
  <2> QED
    BY <2>1, <2>2 DEF StateInv
<1>2. CASE SkipDocumentation \/ RetrieveDocumentation
  BY <1>2 DEF SkipDocumentation, RetrieveDocumentation, StateInv
<1>3. CASE SkipDomain \/ ReuseEntity \/ ListEntities
  BY <1>3 DEF SkipDomain, ReuseEntity, ListEntities, NextTask, StateInv
<1>4. CASE ResolveEntity
  <2>1. pc = "domain" /\ UNCHANGED <<stored, snap, given, answer, turns>> /\ at \in DOMAIN plan
    BY <1>4 DEF ResolveEntity, PlanInv
  <2>2. CASE \E doc \in Documents : Resolved(doc)
    <3>1. DOMAIN plan' = DOMAIN plan /\ question' = question /\ pc' \in {"gate", "documentation"}
      BY <2>2 DEF Resolved, NextTask
    <3> QED
      BY <2>1, <3>1 DEF StateInv
  <2>3. CASE \E docs \in SUBSET Documents : Ask(at, "entity", docs) /\ UNCHANGED <<plan, blocks>>
    BY <2>1, <2>3, AskIsTyped
  <2> QED
    BY <1>4, <2>2, <2>3, ResolutionOutcomes
<1>5. CASE AskForContext
  <2>1. PICK i \in DOMAIN plan : Ask(i, "context", {})
    BY <1>5 DEF AskForContext, Starved
  <2> QED
    BY <1>5, <2>1, AskIsTyped DEF AskForContext
<1>6. CASE AskToNarrow
  <2>1. 1 \in DOMAIN plan
    BY <1>6 DEF AskToNarrow, PlanInv
  <2> QED
    BY <1>6, <2>1, AskIsTyped DEF AskToNarrow
<1>7. CASE Assemble \/ LeaveDialogue
  BY <1>7 DEF Assemble, LeaveDialogue, StateInv
<1>8. CASE PickCandidate \/ AnswerInWords
  <2>1. /\ snap' \in Snapshots /\ pc' = "documentation" /\ question' = None
        /\ turns' = turns + 1 /\ UNCHANGED <<stored, given>> /\ question \in Question
    BY <1>8 DEF PickCandidate, AnswerInWords, NextTurn, StateInv
  <2>2. answer' \in Answer
    <3>1. CASE PickCandidate
      <4>1. PICK doc \in question.candidates :
              LET t == [plan[question.task] EXCEPT !.entity = [doc |-> doc, from |-> question.from]] IN
              answer' = [task |-> question.task, slot |-> question.slot,
                         picked |-> t.entity, said |-> None]
        BY <3>1 DEF PickCandidate
      <4> DEFINE e == [doc |-> doc, from |-> question.from]
      <4>2. e \in Entity
        BY <2>1 DEF Question, Entity
      <4>3. plan[question.task] \in Task
        BY <2>1, NoneIsNoEntity, <3>1 DEF PlanInv, QuestionInv, PickCandidate, NextTurn
      <4>4. answer' = [task |-> question.task, slot |-> question.slot,
                       picked |-> [plan[question.task] EXCEPT !.entity = e].entity, said |-> None]
        BY <4>1
      <4> HIDE DEF e
      <4>5. [plan[question.task] EXCEPT !.entity = e].entity = e
        BY <4>2, <4>3, TaskUpdate
      <4> QED
        BY <2>1, <4>2, <4>4, <4>5 DEF Question, Answer
    <3>2. CASE AnswerInWords
      BY <2>1, <3>2 DEF AnswerInWords, Question, Answer
    <3> QED
      BY <1>8, <3>1, <3>2
  <2> QED
    BY <2>1, <2>2 DEF StateInv
<1>9. CASE Rest \/ UNCHANGED vars
  BY <1>9 DEF Rest, vars, StateInv
<1> QED
  BY <1>1, <1>2, <1>3, <1>4, <1>5, <1>6, <1>7, <1>8, <1>9 DEF Next

-----------------------------------------------------------------------------
(* The blocks of context. *)

\* As many chunks are scored as there are at most.
LEMMA ScoredIsFinite ==
  ASSUME NEW chunks \in Seq(Line), NEW said
  PROVE  IsFiniteSet(Scored(chunks, said))
<1> DEFINE f == [i \in DOMAIN chunks |-> [at |-> i, score |-> Score(chunks[i], said)]]
           I == {f[i] : i \in DOMAIN chunks}
<1>1. DOMAIN chunks = 1 .. Len(chunks) /\ Len(chunks) \in Nat
  OBVIOUS
<1>2. IsFiniteSet(DOMAIN chunks)
  <2>1. 1 \in Int /\ Len(chunks) \in Int
    BY <1>1
  <2> QED
    BY <1>1, <2>1, FS_Interval
<1>3. Scored(chunks, said) \in SUBSET I
  BY DEF Scored
<1> HIDE DEF f
<1>4. DOMAIN f = DOMAIN chunks
  BY DEF f
<1>5. IsFiniteSet(I)
  BY <1>2, <1>4, FiniteImage
<1> HIDE DEF I
<1> QED
  BY <1>3, <1>5, FS_Subset

\* The matches of a search are numbered from one.
LEMMA MatchesAreNumbered ==
  ASSUME NEW chunks \in Seq(Line), NEW said
  PROVE  \E n \in Nat : DOMAIN Retrieve(chunks, said).matches = 1 .. n
<1> DEFINE ranked == Ranked(chunks, said)
<1>1. PICK n \in Nat : DOMAIN ranked = 1 .. n
  BY ScoredIsFinite, SortedLength DEF Ranked
<1> HIDE DEF ranked
<1>2. DOMAIN Retrieve(chunks, said).matches = {k \in 1 .. n : k <= MaxResults}
  BY <1>1 DEF Retrieve, Result, ranked
<1>3. MaxResults \in Nat
  BY WordsAreSane
<1>4. {k \in 1 .. n : k <= MaxResults} = 1 .. (IF n <= MaxResults THEN n ELSE MaxResults)
  BY <1>3
<1> QED
  BY <1>2, <1>3, <1>4

\* Every block is about a task of the plan, which has a mandatory one; and the
\* request that goes out is grounded.
BlockInv ==
  /\ \E B : blocks \in Seq(B)
  /\ \A k \in DOMAIN blocks :
       /\ blocks[k].task \in DOMAIN plan
       /\ \E l \in DOMAIN blocks : blocks[l].task = blocks[k].task /\ blocks[l].mandatory
  /\ ReadyIsGrounded

\* Blocks of a task are added, a mandatory one first.
LEMMA BlocksAdded ==
  ASSUME BlockInv, at \in DOMAIN plan, DOMAIN plan' = DOMAIN plan, pc' # "ready",
         NEW C, NEW new \in Seq(C), blocks' = blocks \o new,
         \A k \in DOMAIN new : new[k].task = at,
         new # <<>> => new[1].mandatory
  PROVE  BlockInv'
<1>1. PICK B : blocks \in Seq(B)
  BY DEF BlockInv
<1> DEFINE D == B \cup C
           m == Len(blocks)
           n == Len(new)
<1>2. /\ blocks \in Seq(D) /\ m \in Nat /\ DOMAIN blocks = 1 .. m
      /\ new \in Seq(D) /\ n \in Nat /\ DOMAIN new = 1 .. n
  BY <1>1
<1>3. /\ blocks' \in Seq(D) /\ DOMAIN blocks' = 1 .. (m + n)
      /\ \A k \in 1 .. m : blocks'[k] = blocks[k]
      /\ \A k \in 1 .. n : blocks'[m + k] = new[k]
  <2> HIDE DEF D
  <2>1. /\ blocks \o new \in Seq(D) /\ DOMAIN (blocks \o new) = 1 .. (m + n)
        /\ \A k \in 1 .. m : (blocks \o new)[k] = blocks[k]
        /\ \A k \in 1 .. n : (blocks \o new)[m + k] = new[k]
    BY <1>2
  <2> QED
    BY <2>1
<1> HIDE DEF D, m, n
<1>4. ASSUME NEW k \in DOMAIN blocks'
      PROVE  /\ blocks'[k].task \in DOMAIN plan'
             /\ \E l \in DOMAIN blocks' : blocks'[l].task = blocks'[k].task /\ blocks'[l].mandatory
  <2>1. CASE k \in 1 .. m
    <3>1. /\ blocks[k].task \in DOMAIN plan
          /\ \E l \in DOMAIN blocks : blocks[l].task = blocks[k].task /\ blocks[l].mandatory
      BY <1>2, <2>1 DEF BlockInv
    <3>2. PICK l \in 1 .. m : blocks[l].task = blocks[k].task /\ blocks[l].mandatory
      BY <1>2, <3>1
    <3>3. l \in DOMAIN blocks'
      BY <1>2, <1>3
    <3> QED
      BY <1>3, <2>1, <3>1, <3>2, <3>3
  <2>2. CASE ~(k \in 1 .. m)
    <3>1. k - m \in 1 .. n /\ k = m + (k - m)
      BY <1>2, <1>3, <2>2
    <3>2. blocks'[k] = new[k - m] /\ new[k - m].task = at
      BY <1>2, <1>3, <3>1
    <3>3. 1 \in 1 .. n /\ new # <<>>
      BY <1>2, <3>1
    <3>4. /\ m + 1 \in DOMAIN blocks' /\ blocks'[m + 1] = new[1]
          /\ new[1].task = at /\ new[1].mandatory
      BY <1>2, <1>3, <3>3
    <3> QED
      BY <3>2, <3>4
  <2> QED
    BY <2>1, <2>2
<1>5. ReadyIsGrounded'
  BY DEF ReadyIsGrounded
<1>6. (\E S : blocks \in Seq(S))'
  BY <1>3
<1> QED
  BY <1>4, <1>5, <1>6 DEF BlockInv

LEMMA BlockAdded ==
  ASSUME BlockInv, at \in DOMAIN plan, DOMAIN plan' = DOMAIN plan, pc' # "ready",
         NEW b, blocks' = Append(blocks, b), b.task = at, b.mandatory
  PROVE  BlockInv'
<1>1. PICK B : blocks \in Seq(B)
  BY DEF BlockInv
<1>2. <<b>> \in Seq({b}) /\ DOMAIN <<b>> = {1} /\ <<b>>[1] = b /\ <<b>> # <<>>
  OBVIOUS
<1>3. blocks' = blocks \o <<b>>
  <2>1. blocks \in Seq(B \cup {b}) /\ b \in B \cup {b}
    BY <1>1
  <2>2. Append(blocks, b) = blocks \o <<b>>
    BY <2>1
  <2> QED
    BY <2>2
<1> QED
  BY <1>2, <1>3, BlocksAdded

\* What a search finds for a task is blocks of the task, the first mandatory.
LEMMA RetrievalAddsBlocks ==
  ASSUME BlockInv, StateInv, at \in DOMAIN plan, DOMAIN plan' = DOMAIN plan, pc' # "ready",
         NEW said, Retrieval(Search(said))
  PROVE  BlockInv'
<1>1. Chunks(given.bundle) \in Seq(Line)
  BY ConstantsAreSane DEF Chunks, StateInv, Bundle
<1> DEFINE found == Search(said)
           new == DocumentationBlocks(found.matches)
<1>2. PICK n \in Nat : DOMAIN found.matches = 1 .. n
  BY <1>1, MatchesAreNumbered DEF Search
<1>3. blocks' = blocks \o new
  BY DEF Retrieval
<1> HIDE DEF found
<1>4. /\ DOMAIN new = 1 .. n
      /\ \A k \in 1 .. n : new[k].task = at /\ new[k].mandatory = (k = 1)
      /\ new = [k \in 1 .. n |-> new[k]]
  BY <1>2 DEF DocumentationBlocks
<1> HIDE DEF new
<1> DEFINE C == {new[k] : k \in 1 .. n}
<1>5. new \in Seq(C)
  <2>1. new \in [1 .. n -> C]
    BY <1>4
  <2> HIDE DEF C
  <2> QED
    BY <2>1
<1>6. new # <<>> => 1 \in 1 .. n
  BY <1>4
<1> HIDE DEF C
<1> QED
  BY <1>3, <1>4, <1>5, <1>6, BlocksAdded

\* When nothing is added and nothing becomes ready.
LEMMA BlocksUnchanged ==
  ASSUME BlockInv, blocks' = blocks, DOMAIN plan' = DOMAIN plan,
         pc' # "ready" \/ UNCHANGED <<pc, plan, fitted>>
  PROVE  BlockInv'
<1>1. ReadyIsGrounded'
  BY DEF BlockInv, ReadyIsGrounded
<1> QED
  BY <1>1 DEF BlockInv

\* No blocks, nothing ready.
LEMMA NoBlocks ==
  ASSUME blocks' = <<>>, pc' # "ready"
  PROVE  BlockInv'
<1>1. blocks' \in Seq({})
  OBVIOUS
<1> QED
  BY <1>1 DEF BlockInv, ReadyIsGrounded

LEMMA BlocksAreKept ==
  ASSUME BlockInv, StateInv, PlanInv, [Next]_vars
  PROVE  BlockInv'
<1>1. CASE PlanDirectly \/ CallPlanner \/ RepairPlan
  <2>1. blocks' = <<>> /\ pc' # "ready"
    BY <1>1 DEF PlanDirectly, CallPlanner, RepairPlan, Planned, StateInv
  <2> QED
    BY <2>1, NoBlocks
<1>2. CASE SkipDocumentation
  BY <1>2, BlocksUnchanged DEF SkipDocumentation
<1>3. CASE RetrieveDocumentation
  <2>1. \E said : Retrieval(Search(said))
    BY <1>3 DEF RetrieveDocumentation
  <2>2. at \in DOMAIN plan /\ plan' = plan /\ pc' # "ready"
    BY <1>3 DEF RetrieveDocumentation, PlanInv
  <2> QED
    BY <2>1, <2>2, RetrievalAddsBlocks
<1>4. CASE SkipDomain
  BY <1>4, BlocksUnchanged DEF SkipDomain, NextTask
<1>5. CASE ReuseEntity
  <2>1. at \in DOMAIN plan /\ plan' = plan /\ pc' # "ready" /\ blocks' = Append(blocks, EntityBlock(T.entity.doc))
    BY <1>5 DEF ReuseEntity, NextTask, PlanInv
  <2>2. EntityBlock(T.entity.doc).task = at /\ EntityBlock(T.entity.doc).mandatory
    BY DEF EntityBlock, DomainBlock
  <2> QED
    BY <2>1, <2>2, BlockAdded
<1>6. CASE ListEntities
  <2>1. at \in DOMAIN plan /\ plan' = plan /\ pc' # "ready"
    BY <1>6 DEF ListEntities, NextTask, PlanInv
  <2>2. PICK found : blocks' = Append(blocks, DomainBlock(<<"list", at>>, 1 + Cardinality(Listed(found, T))))
    BY <1>6 DEF ListEntities
  <2> DEFINE b == DomainBlock(<<"list", at>>, 1 + Cardinality(Listed(found, T)))
  <2>3. b.task = at /\ b.mandatory
    BY DEF DomainBlock
  <2>4. blocks' = Append(blocks, b)
    BY <2>2
  <2> HIDE DEF b
  <2> QED
    BY <2>1, <2>3, <2>4, BlockAdded
<1>7. CASE ResolveEntity
  <2>1. at \in DOMAIN plan /\ pc = "domain"
    BY <1>7 DEF ResolveEntity, PlanInv
  <2>2. ASSUME NEW doc \in Documents, Resolved(doc) PROVE BlockInv'
    <3>1. /\ DOMAIN plan' = DOMAIN plan /\ pc' # "ready"
          /\ blocks' = Append(blocks, EntityBlock(doc))
      BY <2>2 DEF Resolved, NextTask
    <3>2. EntityBlock(doc).task = at /\ EntityBlock(doc).mandatory
      BY DEF EntityBlock, DomainBlock
    <3> QED
      BY <2>1, <3>1, <3>2, BlockAdded
  <2>3. ASSUME NEW docs \in SUBSET Documents, Ask(at, "entity", docs), UNCHANGED <<plan, blocks>>
        PROVE  BlockInv'
    BY <2>3, BlocksUnchanged DEF Ask
  <2> QED
    BY <1>7, <2>2, <2>3, ResolutionOutcomes
<1>8. CASE AskForContext \/ AskToNarrow \/ LeaveDialogue
  BY <1>8, BlocksUnchanged DEF AskForContext, AskToNarrow, LeaveDialogue, Ask
<1>9. CASE Assemble
  <2>1. /\ Starved = {} /\ AllMandatoryFit(blocks, Fit(blocks, Room))
        /\ fitted' = Fit(blocks, Room) /\ UNCHANGED <<plan, blocks>>
    BY <1>9 DEF Assemble
  <2>2. ASSUME NEW i \in DOMAIN plan, plan[i].source \notin {"conversation", "none"}
        PROVE  \E k \in DOMAIN blocks : blocks[k].task = i /\
                 \E j \in DOMAIN fitted' : fitted'[j].key = blocks[k].key
    <3>1. PICK k \in DOMAIN blocks : blocks[k].task = i
      BY <2>1, <2>2 DEF Starved
    <3>2. PICK l \in DOMAIN blocks : blocks[l].task = i /\ blocks[l].mandatory
      BY <3>1 DEF BlockInv
    <3>3. \E j \in DOMAIN fitted' : fitted'[j].key = blocks[l].key
      BY <2>1, <3>2 DEF AllMandatoryFit
    <3> QED
      BY <3>2, <3>3
  <2>3. ReadyIsGrounded'
    BY <2>1, <2>2 DEF ReadyIsGrounded
  <2> QED
    BY <2>1, <2>3 DEF BlockInv
<1>10. CASE PickCandidate \/ AnswerInWords
  <2>1. blocks' = <<>> /\ pc' # "ready"
    BY <1>10 DEF PickCandidate, AnswerInWords, NextTurn
  <2> QED
    BY <2>1, NoBlocks
<1>11. CASE Rest \/ UNCHANGED vars
  BY <1>11, BlocksUnchanged DEF Rest, vars
<1> QED
  BY <1>1, <1>2, <1>3, <1>4, <1>5, <1>6, <1>7, <1>8, <1>9, <1>10, <1>11 DEF Next

LEMMA StateAndBlocksAreKept == Spec => [](BudgetInv /\ StateInv /\ BlockInv)
<1>1. Init => StateInv /\ BlockInv
  <2> SUFFICES ASSUME Init PROVE StateInv /\ BlockInv
    OBVIOUS
  <2>1. StateInv
    BY DEF Init, StateInv
  <2>2. blocks \in Seq({})
    BY DEF Init
  <2> QED
    BY <2>1, <2>2 DEF Init, BlockInv, ReadyIsGrounded
<1>2. /\ StateInv /\ BlockInv /\ PlanInv /\ PlanInv' /\ [Next]_vars => StateInv' /\ BlockInv'
  BY StateIsKept, BlocksAreKept
<1> QED
  BY <1>1, <1>2, PlanIsKept, BudgetIsKept, PTL DEF Spec

\* In every state of every dialogue, questions, answers and blocks are about
\* tasks of the plan, and the plan is one that validatePlan accepts.
THEOREM DialogueTypes == Spec => []TypeOK
<1>1. BudgetInv /\ PlanInv /\ StateInv /\ BlockInv => TypeOK
  <2> SUFFICES ASSUME BudgetInv, PlanInv, StateInv, BlockInv PROVE TypeOK
    OBVIOUS
  <2>1. at \in Nat /\ (plan # <<>> => ValidPlan(plan) /\ at \in DOMAIN plan)
    BY DEF PlanInv, StateInv
  <2>2. used \in Nat /\ calls \in Nat
    BY DEF BudgetInv
  <2>3. \A k \in DOMAIN blocks : blocks[k].task \in DOMAIN plan
    BY DEF BlockInv
  <2> QED
    BY <2>1, <2>2, <2>3 DEF TypeOK, PlanInv, StateInv
<1> QED
  BY <1>1, PlanIsKept, StateAndBlocksAreKept, PTL

\* However the documentation and the entities were found, the request goes out
\* with a block for every task that needs context: each task that has blocks
\* has a mandatory one, and the gate lets none of those go (adequacy.go:16).
THEOREM ReadyRequestsAreGrounded == Spec => []ReadyIsGrounded
<1>1. BlockInv => ReadyIsGrounded
  BY DEF BlockInv
<1> QED
  BY <1>1, StateAndBlocksAreKept, PTL

-----------------------------------------------------------------------------
(* The tasks that depend on one. *)

Widened(p, S) == S \cup {j \in DOMAIN p : \E k \in DOMAIN p[j].deps : p[j].deps[k] \in S}

\* The rounds of invalidateDependents.
Rounds(p, i, round) ==
  /\ round \in [0 .. Len(p) -> SUBSET DOMAIN p]
  /\ round[0] = {i}
  /\ \A n \in 1 .. Len(p) : round[n] = Widened(p, round[n - 1])

LEMMA DependentsAreReached ==
  ASSUME NEW p \in Seq(Task), NEW i \in DOMAIN p
  PROVE  \E round : Rounds(p, i, round) /\ Dependents(p, i) = round[Len(p)] \ {i}
<1> DEFINE N == Len(p)
           Step(r) == [n \in 0 .. N |-> IF n = 0 THEN {i} ELSE Widened(p, r[n - 1])]
           chosen == CHOOSE r : r = Step(r)
<1>0. N \in Nat
  OBVIOUS
<1>1. Dependents(p, i) = chosen[N] \ {i}
  BY Zenon DEF Dependents, Widened
<1>2. \E r : r = Step(r)
  <2> DEFINE A == SUBSET DOMAIN p
             g == [S \in A |-> Widened(p, S)]
  <2>1. {i} \in A
    OBVIOUS
  <2>2. g \in [A -> A]
    BY DEF Widened
  <2> HIDE DEF g, A
  <2>3. PICK f \in [0 .. N -> A] : f[0] = {i} /\ \A n \in 1 .. N : f[n] = g[f[n - 1]]
    <3> DEFINE b == {i}
    <3>1. b \in A
      BY <2>1
    <3> HIDE DEF b, N
    <3>2. \E f : Iterates(A, b, g, N, f)
      BY <1>0, <2>2, <3>1, IterationExists
    <3> QED
      BY <3>2 DEF b, Iterates
  <2>4. ASSUME NEW n \in 0 .. N PROVE f[n] = Step(f)[n]
    <3>1. CASE n = 0
      BY <2>3, <3>1
    <3>2. CASE n # 0
      <4>1. n \in 1 .. N /\ n - 1 \in 0 .. N
        BY <1>0, <3>2
      <4>2. f[n] = g[f[n - 1]] /\ f[n - 1] \in A
        BY <2>3, <4>1
      <4>3. g[f[n - 1]] = Widened(p, f[n - 1])
        BY <4>2 DEF g
      <4> QED
        BY <3>2, <4>2, <4>3
    <3> QED
      BY <3>1, <3>2
  <2>5. DOMAIN Step(f) = 0 .. N /\ DOMAIN f = 0 .. N /\ Step(f) = [n \in 0 .. N |-> Step(f)[n]]
        /\ f = [n \in 0 .. N |-> f[n]]
    BY <2>3
  <2> HIDE DEF Step
  <2>6. f = Step(f)
    BY <2>4, <2>5
  <2> QED
    BY <2>6
<1>3. chosen = Step(chosen)
  BY <1>2, Zenon
<1> HIDE DEF chosen
<1>4. /\ DOMAIN chosen = 0 .. N /\ chosen[0] = {i}
      /\ \A n \in 1 .. N : chosen[n] = Widened(p, chosen[n - 1])
      /\ chosen = [n \in 0 .. N |-> chosen[n]]
  BY <1>0, <1>3
<1>5. \A n \in 0 .. N : chosen[n] \in SUBSET DOMAIN p
  <2> DEFINE U == {n \in 0 .. N : chosen[n] \in SUBSET DOMAIN p}
  <2>1. 0 \in U
    BY <1>0, <1>4
  <2>2. ASSUME NEW n \in 0 .. (N - 1), n \in U PROVE n + 1 \in U
    <3>1. n + 1 \in 1 .. N /\ (n + 1) - 1 = n
      BY <1>0
    <3>2. chosen[n + 1] = Widened(p, chosen[n])
      BY <1>4, <3>1
    <3> QED
      BY <2>2, <3>1, <3>2 DEF Widened
  <2> HIDE DEF U
  <2>3. 0 .. N \subseteq U
    BY <1>0, <2>1, <2>2, BoundedInduction
  <2> QED
    BY <2>3 DEF U
<1> QED
  BY <1>1, <1>4, <1>5 DEF Rounds

\* A later round has what an earlier one has, and a task in any round is in the
\* round of its own number: what it depends on comes before it.
LEMMA RoundsGrow ==
  ASSUME NEW p \in Seq(Task), ValidPlan(p), NEW i \in DOMAIN p, NEW round, Rounds(p, i, round)
  PROVE  /\ \A m, n \in 0 .. Len(p) : m <= n => round[m] \subseteq round[n]
         /\ \A n \in 0 .. Len(p) : \A d \in round[n] : (d = i \/ d > i) /\ d \in round[d]
<1> DEFINE N == Len(p)
<1>0. N \in Nat /\ DOMAIN p = 1 .. N /\ i \in 1 .. N
  OBVIOUS
<1> HIDE DEF N
<1>1. /\ round[0] = {i}
      /\ \A n \in 1 .. N : round[n] = Widened(p, round[n - 1])
      /\ \A n \in 0 .. N : round[n] \subseteq DOMAIN p
  BY DEF Rounds, N
<1>2. \A m, n \in 0 .. N : m <= n => round[m] \subseteq round[n]
  <2> SUFFICES ASSUME NEW m \in 0 .. N PROVE \A n \in 0 .. N : m <= n => round[m] \subseteq round[n]
    OBVIOUS
  <2> DEFINE U == {n \in 0 .. N : m <= n => round[m] \subseteq round[n]}
  <2>1. 0 \in U
    BY <1>0
  <2>2. ASSUME NEW n \in 0 .. (N - 1), n \in U PROVE n + 1 \in U
    <3>1. n + 1 \in 1 .. N /\ (n + 1) - 1 = n
      BY <1>0
    <3>2. round[n] \subseteq round[n + 1]
      BY <1>1, <3>1 DEF Widened
    <3>3. CASE m <= n
      BY <2>2, <3>1, <3>2, <3>3
    <3>4. CASE ~(m <= n)
      BY <3>1, <3>4
    <3> QED
      BY <3>3, <3>4
  <2> HIDE DEF U
  <2>3. 0 .. N \subseteq U
    BY <1>0, <2>1, <2>2, BoundedInduction
  <2> QED
    BY <2>3 DEF U
<1>3. \A n \in 0 .. N : \A d \in round[n] : (d = i \/ d > i) /\ d \in round[d]
  <2> DEFINE U == {n \in 0 .. N : \A d \in round[n] : (d = i \/ d > i) /\ d \in round[d]}
  <2>1. 0 \in U
    <3>1. i \in round[i]
      BY <1>0, <1>1, <1>2
    <3> QED
      BY <1>0, <1>1, <3>1
  <2>2. ASSUME NEW n \in 0 .. (N - 1), n \in U PROVE n + 1 \in U
    <3>1. n + 1 \in 1 .. N /\ (n + 1) - 1 = n
      BY <1>0
    <3>2. round[n + 1] = Widened(p, round[n])
      BY <1>1, <3>1
    <3>3. ASSUME NEW d \in round[n + 1] PROVE (d = i \/ d > i) /\ d \in round[d]
      <4>1. CASE d \in round[n]
        BY <2>2, <4>1
      <4>2. CASE d \notin round[n]
        <5>1. PICK k \in DOMAIN p[d].deps : p[d].deps[k] \in round[n]
          BY <3>2, <4>2 DEF Widened
        <5> DEFINE e == p[d].deps[k]
        <5>2. d \in 1 .. N /\ e \in 1 .. (d - 1)
          BY <1>0, <1>1, <3>1, <5>1 DEF ValidPlan
        <5>3. (e = i \/ e > i) /\ e \in round[e]
          BY <2>2, <5>1
        <5>4. e \in round[d - 1]
          BY <1>0, <1>2, <5>2, <5>3
        <5>5. d \in Widened(p, round[d - 1])
          BY <1>0, <5>2, <5>4 DEF Widened
        <5> QED
          BY <1>0, <1>1, <5>2, <5>3, <5>5
      <4> QED
        BY <4>1, <4>2
    <3> QED
      BY <3>1, <3>3
  <2> HIDE DEF U
  <2>3. 0 .. N \subseteq U
    BY <1>0, <2>1, <2>2, BoundedInduction
  <2> QED
    BY <2>3 DEF U
<1> QED
  BY <1>2, <1>3 DEF N

\* The tasks that depend on one come after it, and a task that depends on one of
\* them or on it is among them.
LEMMA DependentsAreClosed ==
  ASSUME NEW p \in Seq(Task), ValidPlan(p), NEW i \in DOMAIN p
  PROVE  /\ \A j \in Dependents(p, i) : j \in DOMAIN p /\ j > i
         /\ \A j \in DOMAIN p : \A k \in DOMAIN p[j].deps :
              p[j].deps[k] \in Dependents(p, i) \cup {i} => j \in Dependents(p, i)
<1>1. PICK round : Rounds(p, i, round) /\ Dependents(p, i) = round[Len(p)] \ {i}
  BY DependentsAreReached
<1> DEFINE N == Len(p)
<1>2. N \in Nat /\ DOMAIN p = 1 .. N /\ i \in 1 .. N
  OBVIOUS
<1>3. /\ \A m, n \in 0 .. N : m <= n => round[m] \subseteq round[n]
      /\ \A n \in 0 .. N : \A d \in round[n] : (d = i \/ d > i) /\ d \in round[d]
  BY <1>1, RoundsGrow
<1>4. /\ round[0] = {i}
      /\ \A n \in 1 .. N : round[n] = Widened(p, round[n - 1])
      /\ \A n \in 0 .. N : round[n] \subseteq DOMAIN p
  BY <1>1 DEF Rounds
<1> HIDE DEF N
<1>5. Dependents(p, i) = round[N] \ {i} /\ i \in round[N]
  <2>1. i \in round[0] /\ round[0] \subseteq round[N]
    BY <1>2, <1>3, <1>4
  <2> QED
    BY <1>1, <2>1 DEF N
<1>6. ASSUME NEW j \in DOMAIN p, NEW k \in DOMAIN p[j].deps, p[j].deps[k] \in round[N]
      PROVE  j \in round[N] /\ j # i
  <2> DEFINE e == p[j].deps[k]
  <2>1. j \in 1 .. N /\ e \in 1 .. (j - 1)
    BY <1>2 DEF ValidPlan
  <2>2. (e = i \/ e > i) /\ e \in round[e]
    BY <1>2, <1>3, <1>6
  <2>3. e \in round[j - 1]
    BY <1>2, <1>3, <2>1, <2>2
  <2>4. j \in Widened(p, round[j - 1])
    BY <2>3 DEF Widened
  <2>5. j \in round[j] /\ round[j] \subseteq round[N]
    BY <1>2, <1>3, <1>4, <2>1, <2>4
  <2> QED
    BY <1>2, <2>1, <2>2, <2>5
<1>7. \A j \in round[N] \ {i} : j \in DOMAIN p /\ j > i
  BY <1>2, <1>3, <1>4
<1> QED
  BY <1>5, <1>6, <1>7

-----------------------------------------------------------------------------
(* The scope of a task: the folder of the first resolved task it depends on. *)

FirstDep(p, t) ==
  CHOOSE k \in ResolvedDeps(p, t) : \A l \in ResolvedDeps(p, t) : k <= l

\* The snapshot that folder is from.
ScopeFrom(p, t) == p[t.deps[FirstDep(p, t)]].entity.from

InScope(doc, p, t) == Scope(p, t) # None => doc.folder = Scope(p, t)

DepsDone(p, t) == \A k \in DOMAIN t.deps : Done(p[t.deps[k]])

LEMMA ScopeIsOfFirst ==
  ASSUME NEW p, NEW t, t.deps \in Seq(Nat), ResolvedDeps(p, t) # {}
  PROVE  /\ FirstDep(p, t) \in ResolvedDeps(p, t)
         /\ Scope(p, t) = p[t.deps[FirstDep(p, t)]].entity.doc.identity
<1>1. ResolvedDeps(p, t) \in SUBSET Nat
  BY DEF ResolvedDeps
<1>2. \E k \in ResolvedDeps(p, t) : \A l \in ResolvedDeps(p, t) : k <= l
  BY <1>1, LeastNat
<1>3. FirstDep(p, t) \in ResolvedDeps(p, t)
  BY <1>2, Zenon DEF FirstDep
<1>4. Scope(p, t) = p[t.deps[FirstDep(p, t)]].entity.doc.identity
  BY Zenon DEF Scope, FirstDep
<1> QED
  BY <1>3, <1>4

ScopeStays(p, q, t, u) ==
  /\ ResolvedDeps(q, u) = ResolvedDeps(p, t)
  /\ Scope(q, u) = Scope(p, t)
  /\ ResolvedDeps(p, t) # {} => ScopeFrom(q, u) = ScopeFrom(p, t)
  /\ DepsDone(p, t) => DepsDone(q, u)

\* A scope changes only with what the task depends on.
LEMMA ScopeIsStable ==
  ASSUME NEW p, NEW q, NEW t, NEW u, t.deps \in Seq(Nat), u.deps = t.deps,
         \A k \in DOMAIN t.deps : q[t.deps[k]] = p[t.deps[k]]
  PROVE  ScopeStays(p, q, t, u)
<1>1. ResolvedDeps(q, u) = ResolvedDeps(p, t)
  BY DEF ResolvedDeps
<1>2. DepsDone(p, t) => DepsDone(q, u)
  BY DEF DepsDone
<1>3. CASE ResolvedDeps(p, t) = {}
  BY <1>1, <1>2, <1>3 DEF Scope, ScopeStays
<1>4. CASE ResolvedDeps(p, t) # {}
  <2>1. FirstDep(q, u) = FirstDep(p, t)
    BY <1>1, Zenon DEF FirstDep
  <2>2. FirstDep(p, t) \in DOMAIN t.deps
    BY <1>4, ScopeIsOfFirst DEF ResolvedDeps
  <2>3. /\ Scope(p, t) = p[t.deps[FirstDep(p, t)]].entity.doc.identity
        /\ Scope(q, u) = q[u.deps[FirstDep(q, u)]].entity.doc.identity
    BY <1>1, <1>4, ScopeIsOfFirst
  <2> QED
    BY <1>1, <1>2, <2>1, <2>2, <2>3 DEF ScopeFrom, ScopeStays
<1> QED
  BY <1>3, <1>4

ScopeMoves(p, q, t, i) ==
  /\ ResolvedDeps(q, t) = ResolvedDeps(p, t)
  /\ ResolvedDeps(p, t) # {} =>
       \/ ScopeFrom(q, t) = q[i].entity.from
       \/ Scope(q, t) = Scope(p, t) /\ ScopeFrom(q, t) = ScopeFrom(p, t)
  /\ ResolvedDeps(p, t) = {} => Scope(q, t) = Scope(p, t)

\* A task that is resolved again keeps the scope of a task that depends on it,
\* unless it is what that scope is of.
LEMMA ScopeAfterResolvingAgain ==
  ASSUME NEW p, NEW q, NEW t, t.deps \in Seq(Nat), NEW i,
         p[i].entity # None, q[i].entity # None,
         \A k \in DOMAIN t.deps : q[t.deps[k]] = p[t.deps[k]] \/ t.deps[k] = i
  PROVE  ScopeMoves(p, q, t, i)
<1>1. ResolvedDeps(q, t) = ResolvedDeps(p, t)
  BY DEF ResolvedDeps
<1>2. CASE ResolvedDeps(p, t) = {}
  BY <1>1, <1>2 DEF Scope, ScopeMoves
<1>3. CASE ResolvedDeps(p, t) # {}
  <2>1. FirstDep(q, t) = FirstDep(p, t)
    BY <1>1, Zenon DEF FirstDep
  <2>2. FirstDep(p, t) \in DOMAIN t.deps
    BY <1>3, ScopeIsOfFirst DEF ResolvedDeps
  <2>3. /\ Scope(p, t) = p[t.deps[FirstDep(p, t)]].entity.doc.identity
        /\ Scope(q, t) = q[t.deps[FirstDep(q, t)]].entity.doc.identity
    BY <1>1, <1>3, ScopeIsOfFirst
  <2> DEFINE j == t.deps[FirstDep(p, t)]
  <2>4. /\ ScopeFrom(p, t) = p[j].entity.from /\ ScopeFrom(q, t) = q[j].entity.from
        /\ Scope(p, t) = p[j].entity.doc.identity /\ Scope(q, t) = q[j].entity.doc.identity
    BY <2>1, <2>3 DEF ScopeFrom
  <2>5. q[j] = p[j] \/ j = i
    BY <2>2
  <2> HIDE DEF j
  <2> QED
    BY <1>1, <1>3, <2>4, <2>5 DEF ScopeMoves
<1> QED
  BY <1>2, <1>3

\* An entity belongs to a task that looks one up, after what that task depends
\* on; of the snapshot the interaction began with, it is in the task's scope.
HasScope(p, t) ==
  t.entity # None =>
    /\ UsesDomain(t) /\ t.intent # "list_entities"
    /\ DepsDone(p, t)
    /\ t.entity.from = stored /\ (ResolvedDeps(p, t) # {} => ScopeFrom(p, t) = stored) =>
         InScope(t.entity.doc, p, t)

\* The tasks this turn has been through.
Prepared ==
  IF pc \in {"documentation", "domain"} THEN 1 .. (at - 1)
  ELSE IF pc \in {"gate", "ready"} THEN DOMAIN plan
  ELSE {}

FreshlyScoped(p, t) ==
  t.entity # None => t.entity.from = snap /\ InScope(t.entity.doc, p, t)

\* What the user may pick from is in the scope of the task.
AskedInv ==
  pc = "asking" /\ question.candidates # {} =>
    LET t == plan[question.task] IN
    /\ UsesDomain(t) /\ t.intent # "list_entities"
    /\ DepsDone(plan, t)
    /\ \A doc \in question.candidates : InScope(doc, plan, t)

\* On another snapshot than the first, this turn has looked everything up anew.
ScopeInv ==
  /\ \A i \in DOMAIN plan : HasScope(plan, plan[i])
  /\ stored # snap => \A i \in Prepared : FreshlyScoped(plan, plan[i])
  /\ AskedInv

LEMMA TaskParts ==
  ASSUME PlanInv, NEW i \in DOMAIN plan
  PROVE  plan[i] \in Task /\ plan[i].deps \in Seq(Nat) /\ i \in Nat
<1>1. plan \in Seq(Task)
  BY DEF PlanInv
<1>2. plan[i] \in Task /\ i \in Nat
  BY <1>1
<1> QED
  BY <1>2 DEF Task

\* What a task depends on comes before it.
LEMMA DepsPrecede ==
  ASSUME NEW p \in Seq(Task), ValidPlan(p), NEW i \in DOMAIN p, NEW k \in DOMAIN p[i].deps
  PROVE  p[i].deps[k] \in 1 .. (i - 1) /\ p[i].deps[k] \in DOMAIN p
BY DEF ValidPlan

\* The plan after a task is resolved.
LEMMA ResolvedPlan ==
  ASSUME PlanInv, at \in DOMAIN plan, NEW doc \in Documents, Resolved(doc)
  PROVE  /\ DOMAIN plan' = DOMAIN plan
         /\ \A j \in DOMAIN plan : plan'[j] = plan[j] \/ j = at
         /\ plan'[at].entity = [doc |-> doc, from |-> snap] /\ plan'[at].entity # None
         /\ plan'[at].intent = plan[at].intent /\ plan'[at].source = plan[at].source
         /\ plan'[at].deps = plan[at].deps
<1> DEFINE e == [doc |-> doc, from |-> snap]
<1>1. e \in Entity /\ e # None
  BY NoneIsNoEntity DEF Entity, PlanInv
<1>2. plan[at] \in Task
  BY TaskParts
<1>3. plan' = [plan EXCEPT ![at] = [plan[at] EXCEPT !.entity = e]]
  BY DEF Resolved
<1> HIDE DEF e
<1>4. /\ DOMAIN plan' = DOMAIN plan
      /\ plan'[at] = [plan[at] EXCEPT !.entity = e]
      /\ \A j \in DOMAIN plan : plan'[j] = plan[j] \/ j = at
  BY <1>3
<1>5. /\ plan'[at].entity = e
      /\ plan'[at].intent = plan[at].intent /\ plan'[at].source = plan[at].source
      /\ plan'[at].deps = plan[at].deps
  BY <1>1, <1>2, <1>4, TaskUpdate
<1>6. plan'[at].entity = [doc |-> doc, from |-> snap]
  BY <1>5 DEF e
<1> QED
  BY <1>1, <1>4, <1>5, <1>6

\* After the last step of a task, this turn has been through it too.
LEMMA PreparedNext ==
  ASSUME PlanInv, pc = "domain", NextTask, DOMAIN plan' = DOMAIN plan
  PROVE  Prepared' = 1 .. at /\ pc' # "asking" /\ Prepared = 1 .. (at - 1) /\ at \in DOMAIN plan
<1>1. /\ at \in DOMAIN plan /\ plan \in Seq(Task)
      /\ DOMAIN plan = 1 .. Len(plan) /\ Len(plan) \in Nat
  BY DEF PlanInv
<1>2. CASE at = Len(plan)
  BY <1>1, <1>2 DEF NextTask, Prepared
<1>3. CASE at # Len(plan)
  BY <1>1, <1>3 DEF NextTask, Prepared
<1> QED
  BY <1>2, <1>3

LEMMA ResolvingKeepsScope ==
  ASSUME PlanInv, ScopeInv, UNCHANGED <<stored, snap>>, pc = "domain",
         UsesDomain(T), ~Reusable(T), T.intent # "list_entities",
         NEW doc \in Documents, InScope(doc, plan, T), Resolved(doc)
  PROVE  ScopeInv'
<1>1. at \in DOMAIN plan /\ plan \in Seq(Task) /\ ValidPlan(plan)
  BY DEF PlanInv
<1> DEFINE q == plan'
<1>2. /\ DOMAIN q = DOMAIN plan
      /\ \A j \in DOMAIN plan : q[j] = plan[j] \/ j = at
      /\ q[at].entity = [doc |-> doc, from |-> snap] /\ q[at].entity # None
      /\ q[at].intent = plan[at].intent /\ q[at].source = plan[at].source
      /\ q[at].deps = plan[at].deps
  BY <1>1, ResolvedPlan
<1>3. Prepared' = 1 .. at /\ pc' # "asking" /\ Prepared = 1 .. (at - 1)
  BY <1>2, PreparedNext DEF Resolved
<1> HIDE DEF q
<1>4. \A i \in DOMAIN plan : \A k \in DOMAIN plan[i].deps :
        plan[i].deps[k] \in 1 .. (i - 1) /\ plan[i].deps[k] \in DOMAIN plan
  BY <1>1, DepsPrecede
<1>5. /\ Scope(q, q[at]) = Scope(plan, T)
      /\ DepsDone(q, q[at])
  <2>1. plan[at].deps \in Seq(Nat) /\ at \in Nat
    BY <1>1, TaskParts
  <2>2. \A k \in DOMAIN plan[at].deps : q[plan[at].deps[k]] = plan[plan[at].deps[k]]
    BY <1>1, <1>2, <1>4, <2>1
  <2>3. DepsDone(plan, plan[at])
    BY <1>1, <1>4 DEF DepsDone, PlanInv
  <2>4. q[at].deps = plan[at].deps
    BY <1>2
  <2>5. ScopeStays(plan, q, plan[at], q[at])
    BY <2>1, <2>2, <2>4, ScopeIsStable
  <2> QED
    BY <2>3, <2>5 DEF ScopeStays, T
<1>6. InScope(doc, q, q[at])
  BY <1>5 DEF InScope
<1>7. Done(q[at])
  BY <1>2 DEF Done
<1>8. ASSUME NEW j \in DOMAIN plan, j # at
      PROVE  HasScope(q, q[j])
  <2>1. q[j] = plan[j] /\ plan[j].deps \in Seq(Nat)
    BY <1>2, <1>8, TaskParts
  <2>2. HasScope(plan, plan[j])
    BY DEF ScopeInv
  <2>3. SUFFICES ASSUME plan[j].entity # None PROVE HasScope(q, plan[j])
    BY <2>1 DEF HasScope
  <2>4. UsesDomain(plan[j]) /\ plan[j].intent # "list_entities" /\ DepsDone(plan, plan[j])
    BY <2>2, <2>3 DEF HasScope
  <2>5. \A k \in DOMAIN plan[j].deps :
          q[plan[j].deps[k]] = plan[plan[j].deps[k]] \/ plan[j].deps[k] = at
    BY <1>2, <1>4
  <2>6. DepsDone(q, plan[j])
    BY <1>7, <2>4, <2>5 DEF DepsDone
  <2>7. CASE \A k \in DOMAIN plan[j].deps : plan[j].deps[k] # at
    <3>1. /\ ResolvedDeps(q, plan[j]) = ResolvedDeps(plan, plan[j])
          /\ Scope(q, plan[j]) = Scope(plan, plan[j])
          /\ ResolvedDeps(plan, plan[j]) # {} => ScopeFrom(q, plan[j]) = ScopeFrom(plan, plan[j])
      BY <2>1, <2>5, <2>7, ScopeIsStable DEF ScopeStays
    <3> QED
      BY <2>2, <2>4, <2>6, <3>1 DEF HasScope, InScope
  <2>8. CASE \E k \in DOMAIN plan[j].deps : plan[j].deps[k] = at
    <3>1. Done(plan[at])
      BY <2>4, <2>8 DEF DepsDone
    <3>2. plan[at].entity # None /\ stored # snap
      BY <3>1 DEF Done, T, Reusable
    <3>3. q[at].entity.from = snap
      BY <1>2
    <3>4. ScopeMoves(plan, q, plan[j], at)
      <4>1. q[at].entity # None
        BY <1>2
      <4> QED
        BY <2>1, <2>5, <3>2, <4>1, ScopeAfterResolvingAgain
    <3> QED
      BY <2>2, <2>3, <2>4, <2>6, <3>2, <3>3, <3>4 DEF HasScope, InScope, ScopeMoves
  <2> QED
    BY <2>7, <2>8
<1>9. HasScope(q, q[at])
  BY <1>2, <1>5, <1>6 DEF HasScope, UsesDomain, T
<1>10. ASSUME stored # snap, NEW j \in 1 .. at PROVE FreshlyScoped(q, q[j])
  <2>1. CASE j = at
    BY <1>2, <1>6, <2>1 DEF FreshlyScoped
  <2>2. CASE j # at
    <3>1. j \in 1 .. (at - 1) /\ j \in DOMAIN plan /\ at \in Nat
      BY <1>1, <2>2
    <3>2. FreshlyScoped(plan, plan[j])
      BY <1>3, <1>10, <3>1 DEF ScopeInv
    <3>3. q[j] = plan[j] /\ plan[j].deps \in Seq(Nat)
      BY <1>2, <2>2, <3>1, TaskParts
    <3>4. \A k \in DOMAIN plan[j].deps : q[plan[j].deps[k]] = plan[plan[j].deps[k]]
      BY <1>2, <1>4, <3>1
    <3>5. Scope(q, plan[j]) = Scope(plan, plan[j])
      BY <3>3, <3>4, ScopeIsStable DEF ScopeStays
    <3> QED
      BY <3>2, <3>3, <3>5 DEF FreshlyScoped, InScope
  <2> QED
    BY <2>1, <2>2
<1>11. \A i \in DOMAIN plan' : HasScope(plan, plan[i])'
  <2>1. \A i \in DOMAIN q : HasScope(q, q[i])
    BY <1>2, <1>8, <1>9
  <2> QED
    BY <2>1 DEF q, HasScope
<1>12. (stored # snap => \A i \in Prepared : FreshlyScoped(plan, plan[i]))'
  <2>1. stored # snap => \A i \in Prepared' : FreshlyScoped(q, q[i])
    BY <1>3, <1>10
  <2> QED
    BY <2>1 DEF q, FreshlyScoped
<1>13. AskedInv'
  BY <1>3 DEF AskedInv
<1> QED
  BY <1>11, <1>12, <1>13 DEF ScopeInv

LEMMA DomainKeepsScope ==
  ASSUME PlanInv, ScopeInv, SkipDomain \/ ReuseEntity \/ ListEntities \/ ResolveEntity
  PROVE  ScopeInv'
<1>1. at \in DOMAIN plan /\ pc = "domain" /\ UNCHANGED <<stored, snap>>
  BY DEF SkipDomain, ReuseEntity, ListEntities, ResolveEntity, PlanInv
<1>2. CASE SkipDomain \/ ReuseEntity \/ ListEntities
  <2>1. UNCHANGED plan /\ NextTask
    BY <1>2 DEF SkipDomain, ReuseEntity, ListEntities
  <2>2. Prepared' = 1 .. at /\ pc' # "asking" /\ Prepared = 1 .. (at - 1)
    BY <1>1, <2>1, PreparedNext
  <2>3. HasScope(plan, plan[at])
    BY <1>1 DEF ScopeInv
  <2>4. stored # snap => plan[at].entity = None
    BY <1>2, <2>3 DEF SkipDomain, ReuseEntity, ListEntities, HasScope, Reusable, T
  <2>5. stored # snap => \A i \in 1 .. at : FreshlyScoped(plan, plan[i])
    <3> SUFFICES ASSUME stored # snap, NEW i \in 1 .. at PROVE FreshlyScoped(plan, plan[i])
      OBVIOUS
    <3>1. at \in Nat
      BY <1>1, TaskParts
    <3>2. CASE i = at
      BY <2>4, <3>2 DEF FreshlyScoped
    <3>3. CASE i # at
      BY <2>2, <3>1, <3>3 DEF ScopeInv
    <3> QED
      BY <3>2, <3>3
  <2>6. (\A i \in DOMAIN plan : HasScope(plan, plan[i]))'
    BY <1>1, <2>1 DEF ScopeInv, HasScope
  <2>7. (stored # snap => \A i \in Prepared : FreshlyScoped(plan, plan[i]))'
    BY <1>1, <2>1, <2>2, <2>5 DEF FreshlyScoped
  <2>8. AskedInv'
    BY <2>2 DEF AskedInv
  <2> QED
    BY <2>6, <2>7, <2>8 DEF ScopeInv
<1>3. CASE ResolveEntity
  <2>1. UsesDomain(T) /\ ~Reusable(T) /\ T.intent # "list_entities"
    BY <1>3 DEF ResolveEntity
  <2>2. \A doc \in Candidates(T) : InScope(doc, plan, T)
    BY DEF Candidates, InScope
  <2>3. CASE \E doc \in Candidates(T) : Resolved(doc)
    BY <1>1, <1>3, <2>1, <2>2, <2>3, ResolutionOutcomes, ResolvingKeepsScope
  <2>4. CASE \E docs \in SUBSET Candidates(T) : Ask(at, "entity", docs) /\ UNCHANGED <<plan, blocks>>
    <3>1. PICK docs \in SUBSET Candidates(T) : Ask(at, "entity", docs) /\ UNCHANGED plan
      BY <2>4
    <3>2. /\ question'.task = at /\ question'.candidates = docs
          /\ pc' = "asking" /\ plan' = plan
      BY <3>1 DEF Ask
    <3>3. DepsDone(plan, plan[at])
      <4>1. plan \in Seq(Task) /\ ValidPlan(plan)
        BY <1>1 DEF PlanInv
      <4>2. \A k \in DOMAIN plan[at].deps : plan[at].deps[k] \in 1 .. (at - 1)
        BY <1>1, <4>1, DepsPrecede
      <4> QED
        BY <1>1, <4>2 DEF DepsDone, PlanInv
    <3>4. AskedInv'
      BY <2>1, <2>2, <3>2, <3>3 DEF AskedInv, T, InScope, DepsDone
    <3>5. (\A i \in DOMAIN plan : HasScope(plan, plan[i]))'
      BY <1>1, <3>2 DEF ScopeInv, HasScope
    <3>6. Prepared' = {}
      BY <3>2 DEF Prepared
    <3> QED
      BY <3>4, <3>5, <3>6 DEF ScopeInv
  <2> QED
    BY <1>3, <2>3, <2>4, ResolutionOutcomes
<1> QED
  BY <1>2, <1>3

\* The plan stands, and no entity is offered.
LEMMA ScopeStands ==
  ASSUME ScopeInv, UNCHANGED <<stored, snap, plan>>, Prepared' \subseteq Prepared,
         pc' # "asking" \/ question'.candidates = {} \/ UNCHANGED <<pc, question>>
  PROVE  ScopeInv'
<1>1. (\A i \in DOMAIN plan : HasScope(plan, plan[i]))'
  BY DEF ScopeInv, HasScope
<1>2. (stored # snap => \A i \in Prepared : FreshlyScoped(plan, plan[i]))'
  BY DEF ScopeInv, FreshlyScoped
<1>3. AskedInv'
  BY DEF ScopeInv, AskedInv, InScope, DepsDone
<1> QED
  BY <1>1, <1>2, <1>3 DEF ScopeInv

\* An answer leaves the scope of every task it leaves an entity.
LEMMA AnswerKeepsScope ==
  ASSUME PlanInv, ScopeInv, NextTurn, NEW t,
         t.deps = plan[question.task].deps,
         t.intent = plan[question.task].intent, t.source = plan[question.task].source,
         plan' = Patch(plan, question.task, t),
         \/ t.entity = plan[question.task].entity
         \/ \E doc \in question.candidates : t.entity = [doc |-> doc, from |-> question.from]
  PROVE  ScopeInv'
<1> DEFINE i == question.task
           q == plan'
<1>1. plan \in Seq(Task) /\ ValidPlan(plan) /\ i \in DOMAIN plan /\ pc = "asking"
  BY DEF PlanInv, QuestionInv, NextTurn
<1>2. /\ \A j \in Dependents(plan, i) : j \in DOMAIN plan /\ j > i
      /\ \A j \in DOMAIN plan : \A k \in DOMAIN plan[j].deps :
           plan[j].deps[k] \in Dependents(plan, i) \cup {i} => j \in Dependents(plan, i)
  BY <1>1, DependentsAreClosed
<1>3. /\ DOMAIN q = DOMAIN plan /\ q[i] = t
      /\ \A j \in DOMAIN plan : j # i =>
           q[j] = IF j \in Dependents(plan, i) THEN [plan[j] EXCEPT !.entity = None] ELSE plan[j]
  BY <1>1 DEF Patch
<1> HIDE DEF q
<1>4. \A j \in DOMAIN plan : \A k \in DOMAIN plan[j].deps :
        plan[j].deps[k] \in 1 .. (j - 1) /\ plan[j].deps[k] \in DOMAIN plan
  BY <1>1, DepsPrecede
<1>5. ASSUME NEW j \in DOMAIN plan, j \notin Dependents(plan, i)
      PROVE  \A k \in DOMAIN plan[j].deps : q[plan[j].deps[k]] = plan[plan[j].deps[k]]
  <2> TAKE k \in DOMAIN plan[j].deps
  <2>1. plan[j].deps[k] \notin Dependents(plan, i) /\ plan[j].deps[k] # i
    BY <1>2, <1>5
  <2> QED
    BY <1>3, <1>4, <2>1
<1>6. i \notin Dependents(plan, i)
  BY <1>1, <1>2
<1>7. ASSUME NEW j \in DOMAIN plan PROVE HasScope(q, q[j])
  <2>1. plan[j] \in Task /\ plan[j].deps \in Seq(Nat)
    BY TaskParts
  <2>2. HasScope(plan, plan[j])
    BY DEF ScopeInv
  <2>3. CASE j \in Dependents(plan, i)
    <3>1. q[j].entity = None
      BY <1>3, <1>6, <2>1, <2>3 DEF Task
    <3> QED
      BY <3>1 DEF HasScope
  <2>4. CASE j \notin Dependents(plan, i) /\ j # i
    <3>1. q[j] = plan[j]
      BY <1>3, <2>4
    <3>2. /\ ResolvedDeps(q, plan[j]) = ResolvedDeps(plan, plan[j])
          /\ Scope(q, plan[j]) = Scope(plan, plan[j])
          /\ ResolvedDeps(plan, plan[j]) # {} => ScopeFrom(q, plan[j]) = ScopeFrom(plan, plan[j])
          /\ DepsDone(plan, plan[j]) => DepsDone(q, plan[j])
      BY <1>5, <2>1, <2>4, ScopeIsStable DEF ScopeStays
    <3> QED
      BY <2>2, <3>1, <3>2 DEF HasScope, InScope
  <2>5. CASE j = i
    <3>1. q[j] = t /\ t.deps = plan[j].deps /\ t.intent = plan[j].intent /\ t.source = plan[j].source
      BY <1>3, <2>5
    <3>2. /\ ResolvedDeps(q, t) = ResolvedDeps(plan, plan[j])
          /\ Scope(q, t) = Scope(plan, plan[j])
          /\ ResolvedDeps(plan, plan[j]) # {} => ScopeFrom(q, t) = ScopeFrom(plan, plan[j])
          /\ DepsDone(plan, plan[j]) => DepsDone(q, t)
      <4>1. \A k \in DOMAIN plan[j].deps : q[plan[j].deps[k]] = plan[plan[j].deps[k]]
        BY <1>5, <1>6, <2>5
      <4> HIDE DEF i
      <4>2. ScopeStays(plan, q, plan[j], t)
        BY <2>1, <3>1, <4>1, ScopeIsStable
      <4> QED
        BY <4>2 DEF ScopeStays
    <3>3. CASE t.entity = plan[j].entity
      BY <2>2, <3>1, <3>2, <3>3 DEF HasScope, InScope, UsesDomain
    <3>4. CASE \E doc \in question.candidates : t.entity = [doc |-> doc, from |-> question.from]
      <4>1. PICK doc \in question.candidates : t.entity = [doc |-> doc, from |-> question.from]
        BY <3>4
      <4>2. /\ UsesDomain(plan[j]) /\ plan[j].intent # "list_entities"
            /\ DepsDone(plan, plan[j]) /\ InScope(doc, plan, plan[j])
        BY <1>1, <2>5, <4>1 DEF ScopeInv, AskedInv
      <4>3. t.entity.doc = doc
        BY <4>1
      <4> QED
        BY <3>1, <3>2, <4>2, <4>3 DEF HasScope, InScope, UsesDomain
    <3> QED
      BY <2>5, <3>3, <3>4
  <2> QED
    BY <2>3, <2>4, <2>5
<1>8. (\A j \in DOMAIN plan : HasScope(plan, plan[j]))'
  <2>1. stored' = stored /\ \A j \in DOMAIN q : HasScope(q, q[j])
    BY <1>3, <1>7 DEF NextTurn
  <2> QED
    BY <2>1 DEF q, HasScope
<1>9. Prepared' = {} /\ pc' # "asking"
  BY DEF NextTurn, Prepared
<1> QED
  BY <1>8, <1>9 DEF ScopeInv, AskedInv

LEMMA AnswersKeepScope ==
  ASSUME PlanInv, ScopeInv, PickCandidate \/ AnswerInWords
  PROVE  ScopeInv'
<1>1. NextTurn /\ pc = "asking"
  BY DEF PickCandidate, AnswerInWords, NextTurn
<1>2. question.task \in DOMAIN plan /\ question.candidates \subseteq Documents /\ question.from \in Snapshots
  BY <1>1 DEF PlanInv, QuestionInv
<1> DEFINE old == plan[question.task]
<1>3. old \in Task
  BY <1>2, TaskParts
<1> HIDE DEF old
<1>4. CASE PickCandidate
  <2>1. PICK doc \in question.candidates :
          plan' = Patch(plan, question.task,
                        [old EXCEPT !.entity = [doc |-> doc, from |-> question.from]])
    BY <1>4 DEF PickCandidate, old
  <2> DEFINE e == [doc |-> doc, from |-> question.from]
             t == [old EXCEPT !.entity = e]
  <2>2. e \in Entity
    BY <1>2 DEF Entity
  <2>3. plan' = Patch(plan, question.task, t)
    BY <2>1
  <2> HIDE DEF e
  <2>4. /\ t.intent = old.intent /\ t.source = old.source /\ t.deps = old.deps /\ t.entity = e
    BY <1>3, <2>2, TaskUpdate
  <2> HIDE DEF t
  <2>5. \E d \in question.candidates : t.entity = [doc |-> d, from |-> question.from]
    BY <2>4 DEF e
  <2> QED
    BY <1>1, <2>3, <2>4, <2>5, AnswerKeepsScope DEF old
<1>5. CASE AnswerInWords
  <2>1. PICK name \in Names : plan' = Patch(plan, question.task, [old EXCEPT !.mention = name])
    BY <1>5 DEF AnswerInWords, old
  <2> DEFINE t == [old EXCEPT !.mention = name]
  <2>2. plan' = Patch(plan, question.task, t)
    BY <2>1
  <2>3. /\ t.intent = old.intent /\ t.source = old.source /\ t.deps = old.deps
        /\ t.entity = old.entity
    BY <1>3, TaskUpdate
  <2> HIDE DEF t
  <2> QED
    BY <1>1, <2>2, <2>3, AnswerKeepsScope DEF old
<1> QED
  BY <1>4, <1>5

\* A plan just made has no entities.
LEMMA PlanningKeepsScope ==
  ASSUME PlanInv, StateInv, ScopeInv, PlanDirectly \/ CallPlanner \/ RepairPlan
  PROVE  ScopeInv'
<1>1. \/ \E p \in Seq(UnresolvedTask) : Planned(p)
      \/ pc' = "repairing" /\ UNCHANGED plan
  BY PlanningOutcomes
<1>2. pc' \in {"documentation", "unsupported", "repairing"} /\ Prepared' = {}
  <2>1. \/ pc' \in {"unsupported", "repairing"}
        \/ pc' = "documentation" /\ at' = 1
    BY <1>1 DEF Planned
  <2> QED
    BY <2>1 DEF Prepared
<1>3. \A i \in DOMAIN plan' : plan'[i].entity = None
  <2>1. CASE \E p \in Seq(UnresolvedTask) : Planned(p)
    BY <2>1 DEF Planned, UnresolvedTask
  <2>2. CASE UNCHANGED plan
    BY <2>2 DEF PlanDirectly, CallPlanner, RepairPlan, StateInv
  <2> QED
    BY <1>1, <2>1, <2>2
<1>4. (\A i \in DOMAIN plan : HasScope(plan, plan[i]))'
  BY <1>3 DEF HasScope
<1> QED
  BY <1>2, <1>4 DEF ScopeInv, AskedInv

LEMMA ScopeInvIsKept == Spec => []ScopeInv
<1>1. Init => ScopeInv
  BY DEF Init, ScopeInv, Prepared, AskedInv
<1>2. ScopeInv /\ PlanInv /\ StateInv /\ [Next]_vars => ScopeInv'
  <2> SUFFICES ASSUME ScopeInv, PlanInv, StateInv, [Next]_vars PROVE ScopeInv'
    OBVIOUS
  <2>1. CASE PlanDirectly \/ CallPlanner \/ RepairPlan
    BY <2>1, PlanningKeepsScope
  <2>2. CASE SkipDocumentation \/ RetrieveDocumentation
    <3>1. /\ pc = "documentation" /\ pc' = "domain" /\ UNCHANGED <<stored, snap, plan, at>>
      BY <2>2 DEF SkipDocumentation, RetrieveDocumentation
    <3>2. Prepared' = Prepared
      BY <3>1 DEF Prepared
    <3> QED
      BY <3>1, <3>2, ScopeStands
  <2>3. CASE SkipDomain \/ ReuseEntity \/ ListEntities \/ ResolveEntity
    BY <2>3, DomainKeepsScope
  <2>4. CASE AskForContext \/ AskToNarrow
    <3>1. /\ pc' = "asking" /\ question'.candidates = {} /\ UNCHANGED <<stored, snap, plan>>
      BY <2>4 DEF AskForContext, AskToNarrow, Ask
    <3>2. Prepared' = {}
      BY <3>1 DEF Prepared
    <3> QED
      BY <3>1, <3>2, ScopeStands
  <2>5. CASE Assemble \/ LeaveDialogue
    <3>1. /\ pc' = "left" \/ (pc = "gate" /\ pc' = "ready")
          /\ UNCHANGED <<stored, snap, plan>>
      BY <2>5 DEF Assemble, LeaveDialogue
    <3>2. Prepared' \subseteq Prepared
      BY <3>1 DEF Prepared
    <3> QED
      BY <3>1, <3>2, ScopeStands
  <2>6. CASE PickCandidate \/ AnswerInWords
    BY <2>6, AnswersKeepScope
  <2>7. CASE Rest \/ UNCHANGED vars
    <3>1. UNCHANGED <<pc, stored, snap, plan, at, question>>
      BY <2>7 DEF Rest, vars
    <3>2. Prepared' = Prepared
      BY <3>1 DEF Prepared
    <3> QED
      BY <3>1, <3>2, ScopeStands
  <2> QED
    BY <2>1, <2>2, <2>3, <2>4, <2>5, <2>6, <2>7 DEF Next
<1> QED
  BY <1>1, <1>2, PlanIsKept, StateAndBlocksAreKept, PTL DEF Spec

\* Whatever the answers, the snapshots of the turns and the model's choices, the
\* entities a request goes out with are in the folders its final plan restricts
\* them to, when they are of one snapshot (coordinator.go:104,
\* interaction/coordinator.go:241).
THEOREM ReadyEntitiesAreInScope == Spec => []ScopeIsKept
<1>1. ScopeInv /\ PlanInv => ScopeIsKept
  <2> SUFFICES ASSUME ScopeInv, PlanInv, pc = "ready",
                      \A i \in DOMAIN plan : plan[i].entity # None => plan[i].entity.from = snap,
                      NEW i \in DOMAIN plan, plan[i].entity # None
               PROVE  InScope(plan[i].entity.doc, plan, plan[i])
    BY DEF ScopeIsKept, InScope
  <2>1. CASE stored # snap
    BY <2>1 DEF ScopeInv, Prepared, FreshlyScoped
  <2>2. CASE stored = snap
    <3>1. HasScope(plan, plan[i])
      BY DEF ScopeInv
    <3>2. ResolvedDeps(plan, plan[i]) # {} => ScopeFrom(plan, plan[i]) = stored
      <4> SUFFICES ASSUME ResolvedDeps(plan, plan[i]) # {} PROVE ScopeFrom(plan, plan[i]) = stored
        OBVIOUS
      <4>1. FirstDep(plan, plan[i]) \in ResolvedDeps(plan, plan[i])
        BY TaskParts, ScopeIsOfFirst
      <4>2. plan[i].deps[FirstDep(plan, plan[i])] \in DOMAIN plan
        BY <4>1, DepsPrecede DEF PlanInv, ResolvedDeps
      <4> QED
        BY <2>2, <4>1, <4>2 DEF ScopeFrom, ResolvedDeps
    <3> QED
      BY <2>2, <3>1, <3>2 DEF HasScope
  <2> QED
    BY <2>1, <2>2
<1> QED
  BY <1>1, ScopeInvIsKept, PlanIsKept, PTL

-----------------------------------------------------------------------------
(* The search. *)

TermAdded == [x \in Seq(Words) \X Words |-> WithTerm(x[1], x[2])]

LEMMA TermAddedIs ==
  /\ TermAdded \in [Seq(Words) \X Words -> Seq(Words)]
  /\ \A terms \in Seq(Words), w \in Words : TermAdded[<<terms, w>>] = WithTerm(terms, w)
<1>1. \A terms \in Seq(Words), w \in Words : WithTerm(terms, w) \in Seq(Words)
  BY DEF WithTerm
<1> QED
  BY <1>1 DEF TermAdded

\* The terms of a text are the fold of its words.
LEMMA TermsFold ==
  ASSUME NEW said \in Seq(Words)
  PROVE  FoldsTo(Seq(Words), <<>>, TermAdded, said, Terms(said))
<1> DEFINE Table(iter) ==
             iter = [S \in SUBSET DOMAIN said |->
                       IF S = {} THEN <<>> ELSE WithTerm(iter[S \ {Max(S)}], said[Max(S)])]
<1>1. Terms(said) = (CHOOSE iter : Table(iter))[DOMAIN said]
  BY Zenon DEF Terms, FoldLeft, MapThenFoldSet
<1>2. <<>> \in Seq(Words) /\ TermAdded \in [Seq(Words) \X Words -> Seq(Words)]
  BY TermAddedIs
<1>3. \A S \in SUBSET DOMAIN said : S # {} => said[Max(S)] \in Words
  <2> SUFFICES ASSUME NEW S \in SUBSET DOMAIN said, S # {} PROVE said[Max(S)] \in Words
    OBVIOUS
  <2>1. S \in SUBSET (0 .. Len(said)) /\ Len(said) \in Nat
    OBVIOUS
  <2>2. Max(S) \in S
    BY <2>1, MaxIsGreatest
  <2> QED
    BY <2>2
<1>4. \A terms \in Seq(Words), w \in Words : TermAdded[<<terms, w>>] = WithTerm(terms, w)
  BY TermAddedIs
<1>5. \E iter : Table(iter)
  <2>1. PICK iter : Tabulates(Seq(Words), <<>>, TermAdded, said, iter)
    BY <1>2, TableExists
  <2>2. /\ iter \in [SUBSET DOMAIN said -> Seq(Words)]
        /\ \A S \in SUBSET DOMAIN said :
             iter[S] = IF S = {} THEN <<>> ELSE TermAdded[<<iter[S \ {Max(S)}], said[Max(S)]>>]
    BY <2>1 DEF Tabulates
  <2>3. \A S \in SUBSET DOMAIN said :
          S # {} => TermAdded[<<iter[S \ {Max(S)}], said[Max(S)]>>]
                    = WithTerm(iter[S \ {Max(S)}], said[Max(S)])
    BY <1>3, <1>4, <2>2
  <2>4. iter = [S \in SUBSET DOMAIN said |-> iter[S]]
    BY <2>2
  <2>5. \A S \in SUBSET DOMAIN said :
          iter[S] = IF S = {} THEN <<>> ELSE WithTerm(iter[S \ {Max(S)}], said[Max(S)])
    BY <2>2, <2>3, Zenon
  <2>6. Table(iter)
    BY <2>4, <2>5, Zenon
  <2> QED
    BY <2>6
<1> DEFINE table == CHOOSE iter : Table(iter)
<1>6. Table(table)
  BY <1>5, Zenon
<1>7. /\ table[{}] = <<>>
      /\ \A S \in SUBSET DOMAIN said :
           S # {} => table[S] = WithTerm(table[S \ {Max(S)}], said[Max(S)])
  <2> HIDE DEF table
  <2> QED
    BY <1>6
<1> HIDE DEF table
<1>8. \A S \in SUBSET DOMAIN said :
        S # {} /\ table[S \ {Max(S)}] \in Seq(Words) =>
          table[S] = TermAdded[<<table[S \ {Max(S)}], said[Max(S)]>>]
  BY <1>3, <1>4, <1>7
<1>9. FoldsTo(Seq(Words), <<>>, TermAdded, said, table[DOMAIN said])
  BY <1>2, <1>7, <1>8, TableWalks
<1> QED
  BY <1>1, <1>9 DEF table

Begins(a, b) == Len(a) <= Len(b) /\ \A i \in 1 .. Len(a) : b[i] = a[i]

\* The terms of a longer text begin with the terms of the text.
LEMMA TermsBeginAlike ==
  ASSUME NEW said \in Seq(Words), NEW q \in Seq(Words)
  PROVE  /\ Terms(said) \in Seq(Words) /\ Terms(said \o q) \in Seq(Words)
         /\ Begins(Terms(said), Terms(said \o q))
<1> DEFINE A == Seq(Words)
           v == Terms(said \o q)
           U == {b \in Seq(Words) : Begins(Terms(said), b)}
<1>1. FoldsTo(A, <<>>, TermAdded, said \o q, v)
  <2>1. said \o q \in Seq(Words)
    OBVIOUS
  <2> QED
    BY <2>1, TermsFold
<1>2. PICK u \in A : FoldsTo(A, <<>>, TermAdded, said, u) /\ FoldsTo(A, u, TermAdded, q, v)
  <2> HIDE DEF A, v
  <2> QED
    BY <1>1, FoldOfConcat
<1>3. u = Terms(said)
  <2>1. FoldsTo(A, <<>>, TermAdded, said, Terms(said)) /\ <<>> \in A
    BY TermsFold
  <2> HIDE DEF v
  <2> QED
    BY <1>2, <2>1, TermAddedIs, FoldIsUnique
<1>4. u \in U
  BY <1>2, <1>3 DEF Begins
<1>5. \A b \in U, w \in Words : TermAdded[<<b, w>>] \in U
  <2> SUFFICES ASSUME NEW b \in U, NEW w \in Words PROVE WithTerm(b, w) \in U
    BY TermAddedIs
  <2>1. b \in Seq(Words) /\ Begins(u, b) /\ u \in Seq(Words)
    BY <1>2, <1>3
  <2>2. Begins(u, Append(b, w)) /\ Append(b, w) \in Seq(Words)
    <3>1. Len(u) \in Nat /\ Len(b) \in Nat /\ Len(Append(b, w)) = Len(b) + 1
          /\ \A i \in 1 .. Len(b) : Append(b, w)[i] = b[i]
      BY <2>1
    <3> QED
      BY <2>1, <3>1 DEF Begins
  <2> QED
    BY <1>3, <2>1, <2>2 DEF WithTerm
<1>6. v \in U
  <2> HIDE DEF A, U, v
  <2> QED
    BY <1>2, <1>4, <1>5, FoldStays
<1> QED
  BY <1>2, <1>3, <1>6

\* What a text is searched by: its terms, their stems and aliases.
SearchedBy(said) == ToSet(Terms(said)) \cup ExpandedTerms(said)

LEMMA SearchedByIs ==
  ASSUME NEW said
  PROVE  SearchedBy(said) = ToSet(Terms(said)) \cup
                            UNION {{Stem[t]} \cup Aliases[t] : t \in ToSet(Terms(said))}
<1> DEFINE A == ToSet(Terms(said))
           U == UNION {{Stem[t]} \cup Aliases[t] : t \in A}
<1>1. SearchedBy(said) = A \cup (U \ A)
  BY Zenon DEF SearchedBy, ExpandedTerms
<1> HIDE DEF A, U
<1>2. SearchedBy(said) = A \cup U
  BY <1>1
<1> QED
  BY <1>2 DEF A, U

LEMMA TermsAreFinite ==
  ASSUME NEW said \in Seq(Words)
  PROVE  /\ IsFiniteSet(ToSet(Terms(said))) /\ ToSet(Terms(said)) \subseteq Words
         /\ IsFiniteSet(Phrases(said))
<1> DEFINE terms == Terms(said)
<1>1. terms \in Seq(Words)
  <2>1. <<>> \in Seq(Words)
    OBVIOUS
  <2> QED
    BY <2>1, TermsBeginAlike
<1> HIDE DEF terms
<1>2. Len(terms) \in Nat /\ DOMAIN terms = 1 .. Len(terms)
  BY <1>1
<1>3. IsFiniteSet(DOMAIN terms)
  <2>1. 1 \in Int /\ Len(terms) \in Int
    BY <1>2
  <2> QED
    BY <1>2, <2>1, FS_Interval
<1>4. IsFiniteSet({terms[i] : i \in DOMAIN terms})
  BY <1>3, FiniteImage
<1>5. IsFiniteSet(Phrases(said))
  <2> DEFINE I == 1 .. (Len(terms) - 1)
             f == [i \in I |-> <<terms[i], terms[i + 1]>>]
  <2>1. 1 \in Int /\ Len(terms) - 1 \in Int
    BY <1>2
  <2>2. IsFiniteSet(I)
    BY <2>1, FS_Interval
  <2>3. DOMAIN f = I /\ Phrases(said) = {f[i] : i \in I}
    BY Zenon DEF Phrases, terms
  <2> HIDE DEF f, I
  <2> QED
    BY <2>2, <2>3, FiniteImage
<1> QED
  BY <1>1, <1>4, <1>5 DEF terms, ToSet

LEMMA SearchedByIsFinite ==
  ASSUME NEW said \in Seq(Words)
  PROVE  IsFiniteSet(SearchedBy(said)) /\ SearchedBy(said) \subseteq Words
<1> DEFINE A == ToSet(Terms(said))
           f == [t \in A |-> {Stem[t]} \cup Aliases[t]]
           F == {f[t] : t \in A}
<1>1. IsFiniteSet(A) /\ A \subseteq Words
  BY TermsAreFinite
<1> HIDE DEF A
<1>2. \A t \in A : IsFiniteSet({Stem[t]} \cup Aliases[t]) /\ {Stem[t]} \cup Aliases[t] \subseteq Words
  <2> SUFFICES ASSUME NEW t \in A
               PROVE  IsFiniteSet({Stem[t]} \cup Aliases[t]) /\ {Stem[t]} \cup Aliases[t] \subseteq Words
    OBVIOUS
  <2>1. t \in Words /\ IsFiniteSet(Aliases[t]) /\ Aliases[t] \subseteq Words /\ Stem[t] \in Words
    BY <1>1, WordsAreSane
  <2>2. IsFiniteSet(Aliases[t] \cup {Stem[t]})
    BY <2>1, FS_AddElement
  <2>3. Aliases[t] \cup {Stem[t]} = {Stem[t]} \cup Aliases[t]
    OBVIOUS
  <2> QED
    BY <2>1, <2>2, <2>3
<1>3. DOMAIN f = A /\ \A V \in F : IsFiniteSet(V)
  BY <1>2
<1>4. F = {{Stem[t]} \cup Aliases[t] : t \in A}
  BY Zenon
<1> HIDE DEF f
<1>5. IsFiniteSet(F)
  BY <1>1, <1>3, FiniteImage
<1>6. UNION F \subseteq Words
  <2> HIDE DEF F
  <2> QED
    BY <1>2, <1>4
<1> HIDE DEF F
<1>7. IsFiniteSet(UNION F)
  BY <1>3, <1>5, FS_UNION
<1>8. IsFiniteSet(A \cup UNION F)
  BY <1>1, <1>7, FS_Union
<1>9. SearchedBy(said) = A \cup UNION F
  BY <1>4, SearchedByIs DEF A
<1> QED
  BY <1>1, <1>6, <1>8, <1>9

\* More words are searched by more.
LEMMA SearchesGrow ==
  ASSUME NEW said \in Seq(Words), NEW q \in Seq(Words)
  PROVE  Phrases(said) \subseteq Phrases(said \o q) /\ SearchedBy(said) \subseteq SearchedBy(said \o q)
<1> DEFINE a == Terms(said)
           b == Terms(said \o q)
<1>1. a \in Seq(Words) /\ b \in Seq(Words) /\ Len(a) <= Len(b) /\ \A i \in 1 .. Len(a) : b[i] = a[i]
  BY TermsBeginAlike DEF Begins
<1>2. Phrases(said) = {<<a[i], a[i + 1]>> : i \in 1 .. (Len(a) - 1)}
      /\ Phrases(said \o q) = {<<b[i], b[i + 1]>> : i \in 1 .. (Len(b) - 1)}
  BY DEF Phrases
<1>3. ToSet(a) = {a[i] : i \in DOMAIN a} /\ ToSet(b) = {b[i] : i \in DOMAIN b}
  BY DEF ToSet
<1>4. SearchedBy(said) = ToSet(a) \cup UNION {{Stem[t]} \cup Aliases[t] : t \in ToSet(a)}
      /\ SearchedBy(said \o q) = ToSet(b) \cup UNION {{Stem[t]} \cup Aliases[t] : t \in ToSet(b)}
  BY SearchedByIs
<1> HIDE DEF a, b
<1>5. Len(a) \in Nat /\ DOMAIN a = 1 .. Len(a)
  BY <1>1
<1>6. Len(b) \in Nat /\ DOMAIN b = 1 .. Len(b)
  BY <1>1
<1>7. Phrases(said) \subseteq Phrases(said \o q)
  <2> SUFFICES ASSUME NEW i \in 1 .. (Len(a) - 1) PROVE <<a[i], a[i + 1]>> \in Phrases(said \o q)
    BY <1>2
  <2>1. Len(a) <= Len(b)
    BY <1>1
  <2>2. i \in 1 .. (Len(b) - 1) /\ i \in 1 .. Len(a) /\ i + 1 \in 1 .. Len(a)
    BY <1>5, <1>6, <2>1
  <2>3. a[i] = b[i] /\ a[i + 1] = b[i + 1]
    BY <1>1, <2>2
  <2> QED
    BY <1>2, <2>2, <2>3
<1>8. ToSet(a) \subseteq ToSet(b)
  <2>1. \A i \in DOMAIN a : i \in DOMAIN b /\ b[i] = a[i]
    BY <1>1, <1>5, <1>6
  <2> QED
    BY <1>3, <2>1
<1>9. SearchedBy(said) \subseteq SearchedBy(said \o q)
  BY <1>4, <1>8
<1> QED
  BY <1>7, <1>9

LEMMA ScoresAreNumbers ==
  ASSUME NEW chunk
  PROVE  (\A p : PhraseScore(chunk, p) \in Nat) /\ (\A t : TermScore(chunk, t) \in Nat)
<1>1. \A p : PhraseScore(chunk, p) \in Nat
  BY DEF PhraseScore
<1>2. \A t : ConceptScore(chunk, t) \in Nat
  BY DEF ConceptScore
<1>3. \A t : PlaceScore(chunk, t) \in Nat
  BY DEF PlaceScore
<1>4. \A t : TermScore(chunk, t) \in Nat
  BY <1>2, <1>3 DEF TermScore
<1> QED
  BY <1>1, <1>4

\* A chunk scores no less for more words.
LEMMA ScoreGrows ==
  ASSUME NEW chunk, NEW said \in Seq(Words), NEW q \in Seq(Words)
  PROVE  Score(chunk, said) \in Nat /\ Score(chunk, said) <= Score(chunk, said \o q)
<1> DEFINE ps(x) == [p \in Phrases(x) |-> PhraseScore(chunk, p)]
           ts(x) == [t \in SearchedBy(x) |-> TermScore(chunk, t)]
           long == said \o q
<1>1. long \in Seq(Words)
  OBVIOUS
<1> HIDE DEF long
<1>2. \A x : Score(chunk, x) = Total(ps(x)) + Total(ts(x))
  BY Zenon DEF Score, SearchedBy
<1>3. \A x : ps(x) \in [Phrases(x) -> Nat] /\ ts(x) \in [SearchedBy(x) -> Nat]
  BY ScoresAreNumbers
<1>4. \A x \in Seq(Words) : IsFiniteSet(Phrases(x)) /\ IsFiniteSet(SearchedBy(x))
  BY TermsAreFinite, SearchedByIsFinite
<1>5. Phrases(said) \in SUBSET Phrases(long) /\ SearchedBy(said) \in SUBSET SearchedBy(long)
  BY SearchesGrow DEF long
<1>6. /\ \A p \in Phrases(said) : ps(said)[p] = ps(long)[p]
      /\ \A t \in SearchedBy(said) : ts(said)[t] = ts(long)[t]
  BY <1>5
<1> HIDE DEF ps, ts
<1>7. /\ Total(ps(said)) \in Nat /\ Total(ts(said)) \in Nat
      /\ Total(ps(long)) \in Nat /\ Total(ts(long)) \in Nat
  BY <1>1, <1>3, <1>4, TotalIsNat
<1>8. Total(ps(said)) <= Total(ps(long))
  BY <1>1, <1>3, <1>4, <1>5, <1>6, TotalsGrow
<1>9. Total(ts(said)) <= Total(ts(long))
  BY <1>1, <1>3, <1>4, <1>5, <1>6, TotalsGrow
<1> QED
  BY <1>2, <1>7, <1>8, <1>9 DEF long

\* Better is a total order of the chunks with a score.
LEMMA ScoredAreOrdered ==
  ASSUME NEW chunks \in Seq(Line), NEW said \in Seq(Words)
  PROVE  Orders(Scored(chunks, said), Better)
<1> DEFINE S == Scored(chunks, said)
<1>1. \A c : Score(c, said) \in Nat
  <2>1. <<>> \in Seq(Words)
    OBVIOUS
  <2> QED
    BY <2>1, ScoreGrows
<1>2. \A s \in S : \E i \in DOMAIN chunks : s = [at |-> i, score |-> Score(chunks[i], said)]
  BY DEF Scored
<1> HIDE DEF S
<1>3. \A s \in S : s \in [at : Nat, score : Nat] /\ s.score = Score(chunks[s.at], said)
  BY <1>1, <1>2
<1>4. \A x, y \in S : <<x, y>> \in Better <=>
        x.score > y.score \/ (x.score = y.score /\ x.at < y.at)
  BY <1>3, Zenon DEF Better
<1>5. \A x \in S : x.score \in Nat /\ x.at \in Nat
  BY <1>3
<1>6. \A x \in S : <<x, x>> \notin Better
  BY <1>4, <1>5
<1>7. \A x, y, z \in S : <<x, y>> \in Better /\ <<y, z>> \in Better => <<x, z>> \in Better
  <2> SUFFICES ASSUME NEW x \in S, NEW y \in S, NEW z \in S, <<x, y>> \in Better, <<y, z>> \in Better
               PROVE  x.score > z.score \/ (x.score = z.score /\ x.at < z.at)
    BY <1>4
  <2>1. x.score > y.score \/ (x.score = y.score /\ x.at < y.at)
    BY <1>4
  <2>2. y.score > z.score \/ (y.score = z.score /\ y.at < z.at)
    BY <1>4
  <2>3. {x.score, y.score, z.score, x.at, y.at, z.at} \subseteq Nat
    BY <1>5
  <2> QED
    BY <2>1, <2>2, <2>3
<1>8. \A x, y \in S : x # y => <<x, y>> \in Better \/ <<y, x>> \in Better
  <2> SUFFICES ASSUME NEW x \in S, NEW y \in S, x # y
               PROVE  <<x, y>> \in Better \/ <<y, x>> \in Better
    OBVIOUS
  <2>1. x.at # y.at
    BY <1>2
  <2> QED
    BY <1>4, <1>5, <2>1
<1> QED
  BY <1>6, <1>7, <1>8 DEF Orders, S

\* What a search finds first scores as much as any chunk.
LEMMA BestIsHighest ==
  ASSUME NEW chunks \in Seq(Line), NEW said \in Seq(Words)
  PROVE  LET found == Retrieve(chunks, said) IN
         /\ found.best \in Nat
         /\ \A i \in DOMAIN chunks : Score(chunks[i], said) <= found.best
         /\ found.best > 0 =>
              /\ 1 \in DOMAIN found.matches /\ found.matches[1].score = found.best
              /\ \E i \in DOMAIN chunks : found.best = Score(chunks[i], said)
<1> DEFINE S == Scored(chunks, said)
           n == Cardinality(S)
           ranked == Ranked(chunks, said)
           found == Retrieve(chunks, said)
<1>1. /\ n \in Nat /\ ranked \in [1 .. n -> S]
      /\ \A i, j \in 1 .. n : i < j => <<ranked[i], ranked[j]>> \in Better
      /\ \A x \in S : \E i \in 1 .. n : ranked[i] = x
  BY ScoredIsFinite, ScoredAreOrdered, SortedInOrder DEF Ranked
<1>2. /\ found.best = IF ranked = <<>> THEN 0 ELSE ranked[1].score
      /\ found.matches = [k \in {k \in DOMAIN ranked : k <= MaxResults} |->
                           [chunk |-> chunks[ranked[k].at].id, score |-> ranked[k].score,
                            size |-> chunks[ranked[k].at].size]]
  BY DEF Retrieve, Result
<1>3. \A c : Score(c, said) \in Nat
  <2>1. <<>> \in Seq(Words)
    OBVIOUS
  <2> QED
    BY <2>1, ScoreGrows
<1>4. \A s \in S : \E i \in DOMAIN chunks :
        s = [at |-> i, score |-> Score(chunks[i], said)] /\ s.score = Score(chunks[i], said) /\ s.score > 0
  BY DEF Scored
<1>5. \A i \in DOMAIN chunks : Score(chunks[i], said) > 0 =>
        [at |-> i, score |-> Score(chunks[i], said)] \in S
  BY DEF Scored
<1>6. MaxResults \in Nat /\ MaxResults >= 1
  BY WordsAreSane
<1> HIDE DEF S, n, ranked, found
<1>7. \A s \in S : s.score \in Nat /\ s.score > 0
  BY <1>3, <1>4
<1>8. CASE n = 0
  <2>1. S = {} /\ ranked = <<>>
    BY <1>1, <1>8
  <2>2. found.best = 0
    BY <1>2, <2>1
  <2>3. \A i \in DOMAIN chunks : ~(Score(chunks[i], said) > 0)
    BY <1>5, <2>1
  <2>4. \A i \in DOMAIN chunks : Score(chunks[i], said) <= found.best
    BY <1>3, <2>2, <2>3
  <2> QED
    BY <2>2, <2>4 DEF found
<1>9. CASE n # 0
  <2>1. 1 \in 1 .. n /\ ranked # <<>> /\ ranked[1] \in S /\ DOMAIN ranked = 1 .. n
    BY <1>1, <1>9
  <2>2. found.best = ranked[1].score /\ found.best \in Nat
    BY <1>2, <1>7, <2>1
  <2>3. 1 \in DOMAIN found.matches /\ found.matches[1].score = found.best
    <3>1. 1 \in {k \in DOMAIN ranked : k <= MaxResults}
      BY <1>6, <2>1
    <3> QED
      BY <1>2, <2>2, <3>1
  <2>4. \E i \in DOMAIN chunks : found.best = Score(chunks[i], said)
    BY <1>4, <2>1, <2>2
  <2>5. ASSUME NEW s \in S PROVE s.score <= found.best
    <3>1. PICK j \in 1 .. n : ranked[j] = s
      BY <1>1
    <3>2. CASE j = 1
      BY <1>7, <2>2, <3>1, <3>2
    <3>3. CASE j # 1
      <4>1. 1 < j
        BY <1>1, <3>3
      <4>2. <<ranked[1], s>> \in Better
        BY <1>1, <2>1, <3>1, <4>1
      <4>3. ranked[1].score > s.score \/ ranked[1].score = s.score
        BY <4>2, Zenon DEF Better
      <4> QED
        BY <1>7, <2>1, <2>2, <4>3
    <3> QED
      BY <3>2, <3>3
  <2>6. \A i \in DOMAIN chunks : Score(chunks[i], said) <= found.best
    <3> SUFFICES ASSUME NEW i \in DOMAIN chunks, Score(chunks[i], said) > 0
                 PROVE  Score(chunks[i], said) <= found.best
      BY <1>3, <2>2
    <3> DEFINE s == [at |-> i, score |-> Score(chunks[i], said)]
    <3>1. s \in S /\ s.score = Score(chunks[i], said)
      BY <1>5
    <3> HIDE DEF s
    <3> QED
      BY <2>5, <3>1
  <2> QED
    BY <2>2, <2>3, <2>4, <2>6 DEF found
<1> QED
  BY <1>8, <1>9

\* However the expander's reply is taken, for its score or for the share of the
\* terms it covers, the first block of a task scores at least as much as the
\* best match of the task's own words: what is searched the second time begins
\* with what was searched the first, and a chunk scores no less for more words
\* (coordinator.go:176, retriever.go:141).
THEOREM ExpansionsKeepTheBest == Spec => ExpansionKeepsTheBest
<1>1. ASSUME StateInv, BlockInv, PlanInv, RetrieveDocumentation, T.mention # None
      PROVE  LET best == Search(WordsOf[T.mention]).best
             IN  best > 0 => /\ Len(blocks') > Len(blocks)
                             /\ blocks'[Len(blocks) + 1].score >= best
  <2> DEFINE words == WordsOf[T.mention]
             chunks == Chunks(given.bundle)
  <2>1. words \in Seq(Words)
    <3>1. plan \in Seq(Task) /\ at \in DOMAIN plan
      BY <1>1 DEF PlanInv, RetrieveDocumentation
    <3>2. T \in Task
      BY <3>1 DEF T
    <3>3. \A t \in Task : t.mention \in Names \cup {None}
      BY DEF Task
    <3>4. T.mention \in Names
      BY <1>1, <3>2, <3>3
    <3> QED
      BY <3>4, ConstantsAreSane
  <2>2. chunks \in Seq(Line)
    BY <1>1, ConstantsAreSane DEF Chunks, StateInv, Bundle
  <2>3. Searches(T) = {words}
    BY <1>1 DEF Searches
  <2> DEFINE Stands(s) == s \in Seq(Words) /\ Search(words).best <= Search(s).best
  <2> HIDE DEF words
  <2>4. Search(words).best \in Nat
    BY <2>1, <2>2, BestIsHighest DEF Search
  <2>5. Stands(words)
    BY <2>1, <2>4
  <2>6. ASSUME NEW q \in Expansions PROVE Stands(words \o q)
    <3>1. q \in Seq(Words) /\ words \o q \in Seq(Words)
      BY <2>1, ConstantsAreSane
    <3> DEFINE a == Search(words).best
               b == Search(words \o q).best
    <3>2. b \in Nat /\ \A i \in DOMAIN chunks : Score(chunks[i], words \o q) <= b
      BY <2>2, <3>1, BestIsHighest DEF Search
    <3>3. a > 0 => \E i \in DOMAIN chunks : a = Score(chunks[i], words)
      BY <2>1, <2>2, BestIsHighest DEF Search
    <3>4. \A c : /\ Score(c, words) \in Nat /\ Score(c, words \o q) \in Nat
                 /\ Score(c, words) <= Score(c, words \o q)
      <4>1. <<>> \in Seq(Words)
        OBVIOUS
      <4> QED
        BY <2>1, <3>1, <4>1, ScoreGrows
    <3> HIDE DEF a, b, chunks
    <3>5. CASE a > 0
      <4>1. PICK i \in DOMAIN chunks : a = Score(chunks[i], words)
        BY <3>3, <3>5
      <4>2. Score(chunks[i], words \o q) <= b
        BY <3>2
      <4> QED
        BY <3>1, <3>2, <3>4, <4>1, <4>2 DEF a, b
    <3>6. CASE ~(a > 0)
      BY <2>4, <3>1, <3>2, <3>6 DEF a, b
    <3> QED
      BY <3>5, <3>6
  <2>7. \E s : Stands(s) /\ Retrieval(Search(s))
    <3>1. PICK found \in {Search(said) : said \in Searches(T)} :
            \/ Retrieval(found)
            \/ \E expanded \in {Search(ExpandedQuery(found.said, q)) : q \in Expansions} :
                 Retrieval(expanded)
      BY <1>1 DEF RetrieveDocumentation
    <3>2. found = Search(words)
      BY <2>3, <3>1
    <3>3. CASE Retrieval(found)
      BY <2>5, <3>2, <3>3
    <3>4. CASE \E expanded \in {Search(ExpandedQuery(found.said, q)) : q \in Expansions} :
                 Retrieval(expanded)
      <4>1. PICK q \in Expansions : Retrieval(Search(ExpandedQuery(found.said, q)))
        BY <3>4
      <4>2. found.said = words
        BY <3>2, Zenon DEF Search, Retrieve, Result
      <4>3. ExpandedQuery(found.said, q) = words \o q
        BY <4>2 DEF ExpandedQuery
      <4>4. Retrieval(Search(words \o q))
        BY <4>1, <4>3
      <4> QED
        BY <2>6, <4>4
    <3> QED
      BY <3>1, <3>3, <3>4
  <2>8. PICK s : Stands(s) /\ Retrieval(Search(s))
    BY <2>7
  <2> DEFINE found == Search(s)
             new == DocumentationBlocks(found.matches)
  <2>9. /\ found.best \in Nat
        /\ found.best > 0 => 1 \in DOMAIN found.matches /\ found.matches[1].score = found.best
    BY <2>2, <2>8, BestIsHighest DEF Search
  <2>10. PICK n \in Nat : DOMAIN found.matches = 1 .. n
    BY <2>2, MatchesAreNumbered DEF Search
  <2>11. blocks' = blocks \o new
    BY <2>8 DEF Retrieval
  <2>12. Search(words).best <= found.best
    BY <2>8
  <2> HIDE DEF found
  <2>13. /\ \E B : new \in Seq(B)
         /\ Len(new) = n
         /\ \A k \in 1 .. n : new[k].score = found.matches[k].score
    <3>1. /\ DOMAIN new = 1 .. n
          /\ \A k \in 1 .. n : new[k].score = found.matches[k].score
          /\ new = [k \in 1 .. n |-> new[k]]
      BY <2>10 DEF DocumentationBlocks
    <3> HIDE DEF new
    <3> DEFINE C == {new[k] : k \in 1 .. n}
    <3>2. new \in [1 .. n -> C]
      BY <3>1
    <3> HIDE DEF C
    <3>3. new \in Seq(C) /\ Len(new) = n
      BY <3>2
    <3> QED
      BY <3>1, <3>3
  <2> HIDE DEF new
  <2>14. \E B : blocks \in Seq(B)
    BY <1>1 DEF BlockInv
  <2>15. Len(blocks) \in Nat /\ Len(blocks') = Len(blocks) + n
         /\ \A k \in 1 .. n : blocks'[Len(blocks) + k] = new[k]
    <3>1. PICK B : blocks \in Seq(B)
      BY <2>14
    <3>2. PICK C : new \in Seq(C)
      BY <2>13
    <3>3. blocks \in Seq(B \cup C) /\ new \in Seq(B \cup C)
      BY <3>1, <3>2
    <3>4. /\ Len(blocks) \in Nat
          /\ Len(blocks \o new) = Len(blocks) + Len(new)
          /\ \A k \in 1 .. Len(new) : (blocks \o new)[Len(blocks) + k] = new[k]
      BY <3>3
    <3> QED
      BY <2>11, <2>13, <3>4
  <2>16. ASSUME Search(words).best > 0
         PROVE  Len(blocks') > Len(blocks) /\ blocks'[Len(blocks) + 1].score >= Search(words).best
    <3>1. found.best > 0 /\ 1 \in 1 .. n /\ found.matches[1].score = found.best
      BY <2>4, <2>9, <2>10, <2>12, <2>16
    <3>2. new[1].score = found.best /\ blocks'[Len(blocks) + 1] = new[1]
      BY <2>13, <2>15, <3>1
    <3> QED
      BY <2>4, <2>9, <2>12, <2>15, <3>1, <3>2
  <2> QED
    BY <2>16 DEF words
<1>2. StateInv /\ BlockInv /\ PlanInv =>
        [RetrieveDocumentation /\ T.mention # None =>
           LET best == Search(WordsOf[T.mention]).best
           IN  best > 0 => /\ Len(blocks') > Len(blocks)
                           /\ blocks'[Len(blocks) + 1].score >= best]_vars
  BY <1>1
<1> QED
  BY <1>2, PlanIsKept, StateAndBlocksAreKept, PTL DEF ExpansionKeepsTheBest

-----------------------------------------------------------------------------
(* Answers. *)

\* invalidateDependents reaches the tasks that depend on one, and no other.
LEMMA DependentsDepend ==
  ASSUME NEW p \in Seq(Task), ValidPlan(p), NEW i \in DOMAIN p, NEW j \in DOMAIN p, j # i
  PROVE  j \in Dependents(p, i) <=> DependsOn(p, j, i)
<1>1. ASSUME DependsOn(p, j, i) PROVE j \in Dependents(p, i)
  <2> DEFINE S == Dependents(p, i) \cup {i}
  <2>1. S \in SUBSET DOMAIN p /\ i \in S
    BY DependentsAreClosed
  <2>2. \A t \in DOMAIN p : \A k \in DOMAIN p[t].deps : p[t].deps[k] \in S => t \in Dependents(p, i)
    BY DependentsAreClosed
  <2>3. Closed(p, S)
    BY <2>2 DEF Closed
  <2> HIDE DEF S
  <2>4. j \in S
    BY <1>1, <2>1, <2>3 DEF DependsOn
  <2> QED
    BY <2>4 DEF S
<1>2. ASSUME j \in Dependents(p, i), NEW S \in SUBSET DOMAIN p, i \in S, Closed(p, S)
      PROVE  j \in S
  <2>1. PICK round : Rounds(p, i, round) /\ Dependents(p, i) = round[Len(p)] \ {i}
    BY DependentsAreReached
  <2> DEFINE N == Len(p)
             U == {n \in 0 .. N : round[n] \subseteq S}
  <2>2. N \in Nat
    OBVIOUS
  <2>3. round[0] = {i} /\ \A n \in 1 .. N : round[n] = Widened(p, round[n - 1])
    BY <2>1 DEF Rounds
  <2> HIDE DEF N
  <2>4. 0 \in U
    BY <1>2, <2>2, <2>3
  <2>5. ASSUME NEW n \in 0 .. (N - 1), n \in U PROVE n + 1 \in U
    <3>1. n + 1 \in 1 .. N /\ (n + 1) - 1 = n /\ n + 1 \in 0 .. N
      BY <2>2
    <3>2. round[n + 1] = Widened(p, round[n]) /\ round[n] \subseteq S
      BY <2>3, <2>5, <3>1
    <3>3. round[n + 1] \subseteq S
      BY <1>2, <3>2 DEF Widened, Closed
    <3> QED
      BY <3>1, <3>3
  <2> HIDE DEF U
  <2>6. 0 .. N \subseteq U
    BY <2>2, <2>4, <2>5, BoundedInduction
  <2>7. round[N] \subseteq S
    BY <2>2, <2>6 DEF U
  <2> QED
    BY <1>2, <2>1, <2>7 DEF N
<1> QED
  BY <1>1, <1>2 DEF DependsOn

\* An answer forgets the entities of the tasks that depend on the one it is
\* about, all of them and no others: the rounds of invalidateDependents reach
\* every dependent because a plan lists a task after what it depends on
\* (interaction/coordinator.go:241).
THEOREM AnswersKeepToTheirBranch == Spec => AnswersPatchOneBranch
<1>1. ASSUME PlanInv, PickCandidate \/ AnswerInWords, NEW i \in DOMAIN plan, i # question.task
      PROVE  plan'[i] = IF DependsOn(plan, i, question.task)
                        THEN [plan[i] EXCEPT !.entity = None] ELSE plan[i]
  <2>1. plan \in Seq(Task) /\ ValidPlan(plan) /\ question.task \in DOMAIN plan
    BY <1>1 DEF PlanInv, QuestionInv, PickCandidate, AnswerInWords, NextTurn
  <2>2. \E t : plan' = Patch(plan, question.task, t)
    BY <1>1, Zenon DEF PickCandidate, AnswerInWords
  <2>3. i \in Dependents(plan, question.task) <=> DependsOn(plan, i, question.task)
    BY <1>1, <2>1, DependentsDepend
  <2> QED
    BY <1>1, <2>2, <2>3 DEF Patch
<1>2. PlanInv => [PickCandidate \/ AnswerInWords =>
                    \A i \in DOMAIN plan : i # question.task =>
                      plan'[i] = IF DependsOn(plan, i, question.task)
                                 THEN [plan[i] EXCEPT !.entity = None] ELSE plan[i]]_vars
  BY <1>1
<1> QED
  BY <1>2, PlanIsKept, PTL DEF AnswersPatchOneBranch
=============================================================================
