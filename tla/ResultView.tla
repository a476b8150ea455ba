------------------------------- MODULE ResultView -------------------------------
(***************************************************************************)
(* What semantic-token requests promise, whatever is sent over the wire:   *)
(* an answer shows the client all of the tokens a document had when it was *)
(* answered, and answers are shown in the order they were given; a request *)
(* may also be refused, or be about a range, and then it shows nothing.    *)
(***************************************************************************)
EXTENDS Sequences

CONSTANTS Uris, Tokens

VARIABLES
  content,      \* content[u]: the tokens of the document now
  answers,      \* answers on their way to the client, oldest first
  shown         \* shown[u]: the tokens the client shows

viewVars == <<content, answers, shown>>

ViewInit ==
  /\ content = [u \in Uris |-> <<>>]
  /\ answers = <<>>
  /\ shown = [u \in Uris |-> <<>>]

Changes == content' \in [Uris -> Tokens \cup {<<>>}] /\ UNCHANGED <<answers, shown>>

Answers(u) ==
  /\ answers' = Append(answers, [uri |-> u, whole |-> TRUE, data |-> content[u]])
  /\ UNCHANGED <<content, shown>>

AnswersNothing(u) ==
  /\ answers' = Append(answers, [uri |-> u, whole |-> FALSE, data |-> <<>>])
  /\ UNCHANGED <<content, shown>>

Shows ==
  /\ answers # <<>>
  /\ shown' = IF Head(answers).whole
              THEN [shown EXCEPT ![Head(answers).uri] = Head(answers).data] ELSE shown
  /\ answers' = Tail(answers)
  /\ UNCHANGED content

ViewNext == Changes \/ Shows \/ \E u \in Uris : Answers(u) \/ AnswersNothing(u)

ViewSpec == ViewInit /\ [][ViewNext]_viewVars
=============================================================================
