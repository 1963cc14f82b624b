------------------------------ MODULE AnswerCheck ------------------------------
(***************************************************************************)
(* The validation of a model's answer against the plan and the context it  *)
(* was given (response_validator.go, citations.go), the schema the model   *)
(* was asked to follow (assembler.go), and the text that is stored and     *)
(* streamed.  A reply is read as a record: whether it is one strict JSON   *)
(* object, whether its three arrays are present, what the answer's text is *)
(* and whom it cites.  Preparation ends with the entities of the plan, the *)
(* blocks it collected and those of them that fit; the schema is made from *)
(* these, and the context an answer is checked against from the result it  *)
(* returns.                                                                *)
(***************************************************************************)
EXTENDS Naturals, Sequences

CONSTANTS
  Entities,  \* pairs of document type and identity
  Chunks     \* ids of documentation chunks

Answers == {"text", "empty", "claim"}   \* "claim" says that something was changed

Reply == [json : BOOLEAN, arrays : BOOLEAN, answer : Answers,
          entities : SUBSET Entities, docs : SUBSET Chunks, limits : Nat]

\* A block of context: a chunk, or domain content that names entities.
Block == [kind : {"documentation", "domain"}, chunk : SUBSET Chunks, names : SUBSET Entities]

Prepared == {p \in [resolved : SUBSET Entities, blocks : SUBSET Block, fitted : SUBSET Block] :
               p.fitted \subseteq p.blocks}

Context == [resolved : SUBSET Entities, blocks : SUBSET Block]

\* allowedEntityCitations: the plan's entities and what domain blocks name.
AllowedEntities(resolved, blocks) ==
  resolved \cup UNION {b.names : b \in {x \in blocks : x.kind = "domain"}}

AllowedDocs(blocks) == UNION {b.chunk : b \in {x \in blocks : x.kind = "documentation"}}

\* finalAnswerSchema: the citations it lists as the only ones.  It is given the
\* plan and the blocks that fit.
Schema(p) == [entities |-> AllowedEntities(p.resolved, p.fitted),
              docs     |-> AllowedDocs(p.fitted)]

\* The trace is returned as it was collected.
Mutant_TracedAsCollected(p) == [resolved |-> p.resolved, blocks |-> p.blocks]

\* What Prepare returns to its caller: the plan, and the trace, whose blocks are
\* replaced by the fitted ones.
Traced(p) == [resolved |-> p.resolved, blocks |-> p.fitted]

Readable(reply) == reply.json /\ reply.arrays

\* validateStructuredResponse: a reply that cannot be read is not looked at
\* further.
Errors(reply, context) ==
  IF ~Readable(reply) THEN {"response_schema_invalid"}
  ELSE {e \in {"answer_empty", "unconfirmed_identity", "mutation_claim_forbidden"} :
          \/ e = "answer_empty" /\ reply.answer = "empty"
          \/ e = "unconfirmed_identity"
             /\ ~(reply.entities \subseteq AllowedEntities(context.resolved, context.blocks))
          \/ e = "mutation_claim_forbidden" /\ reply.answer = "claim"}

Fatal(errors) == errors \cap {"unconfirmed_identity", "mutation_claim_forbidden"} # {}

\* Only a reply that cannot be read is repaired.
Repairable(errors) == ~Fatal(errors) /\ "response_schema_invalid" \in errors

\* The response of a reply without errors: documentation the context does not
\* have is cut from the citations, and a limitation says so.
Response(reply, context) ==
  [answer   |-> reply.answer,
   entities |-> reply.entities,
   docs     |-> reply.docs \cap AllowedDocs(context.blocks),
   limits   |-> [i \in 1 .. reply.limits |-> "limitation"]
                \o IF reply.docs \subseteq AllowedDocs(context.blocks)
                   THEN <<>> ELSE <<"citations removed">>]

\* RenderValidatedAnswer: the text, then the limitations; citations are not shown.
Rendered(response) == <<response.answer>> \o response.limits

\* splitResponse: pieces of the given size, the last one shorter.
Pieces(content, size) ==
  [k \in 1 .. ((Len(content) + size - 1) \div size) |->
     SubSeq(content, (k - 1) * size + 1,
            IF k * size < Len(content) THEN k * size ELSE Len(content))]
=============================================================================
