----------------------------- MODULE Suggestions -----------------------------
(***************************************************************************)
(* What students suggest to the administrator through the assistant          *)
(* (application/chat_proposal_usecase.go, the tools of chat_tools.go,         *)
(* persistence/proposal_repo.go; the table is called proposals, these are     *)
(* not the proposals of shareholders).  Texts and attachments are left out.   *)
(***************************************************************************)
EXTENDS Messages

CONSTANT Suggestions  \* ids of proposals

VARIABLE suggestion   \* proposals

SuggestionsInit == suggestion = [p \in Suggestions |-> None]

Categories == {"feature", "bug", "general"}
ReviewStates == {"open", "reviewing", "resolved", "wontfix"}

SuggestionRow(a) == [user |-> a.user, category |-> a.category, status |-> "open"]

\* What the tool save_proposal is called with, for the user whose question it is.
Arguments == {a \in [user : Users, category : Categories] : MayAct(a.user)}

\* The row, then a notification, unless it is the administrator's own.
SaveProposal(r) ==
  \E a \in Arguments, p \in FreeId(suggestion) :
    /\ IF a.user = Staff THEN AnswerAtOnce("SaveProposal")
       ELSE Receive(r, "SaveProposal", "notice:insert",
                    Notice(Staff, "proposal", TRUE, "answer", 0, p))
    /\ suggestion' = [suggestion EXCEPT ![p] = SuggestionRow(a)]
    /\ UNCHANGED <<money, active, classroom, files, hub, messages>>

WithStatus(p, v) == [suggestion EXCEPT ![p].status = v]

\* AdminUpdate: an UPDATE by id, which asks for nothing but the new status.
AdminUpdateProposal ==
  \E p \in {x \in Suggestions : suggestion[x] # None}, v \in ReviewStates :
    /\ AnswerAtOnce("AdminUpdateProposal")
    /\ suggestion' = WithStatus(p, v)
    /\ UNCHANGED <<money, active, classroom, files, hub, messages>>

-----------------------------------------------------------------------------
SuggestionsNext == AdminUpdateProposal \/ \E r \in Requests : SaveProposal(r)
=============================================================================
