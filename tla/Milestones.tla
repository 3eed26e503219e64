----------------------------- MODULE Milestones -----------------------------
(***************************************************************************)
(* The students' milestones (application/milestone_usecase.go,               *)
(* persistence/milestone_repo.go): one row per student and type, which the    *)
(* student submits, or which is found in the student's companies and grant    *)
(* applications whenever the page is opened, and an administrator approves    *)
(* or rejects.  A retrospective of 200 characters or more is scored by the    *)
(* language model; if that fails, by rules.  A text or address is a member of *)
(* Texts; the files of a business plan are left out.                         *)
(***************************************************************************)
EXTENDS Classroom

CONSTANTS
  Mvps,       \* the types filled automatically, in order
  Texts,      \* addresses and texts a student may submit
  LongTexts,  \* texts long enough to be scored
  Finds       \* what collectCandidates may find: addresses with their source

MilestoneRows == [source : {"manual", "company", "grant"}, text : Texts, status : Statuses,
                  scored : Texts \cup {None}]

ASSUME MilestonesAssumption ==
  /\ LongTexts \subseteq Texts /\ None \notin Texts \cup MilestoneRows /\ Mvps \in Seq({"mvp1", "mvp2"})
  /\ <<>> \in Finds
  /\ Finds \subseteq Seq([source : {"company", "grant"}, text : Texts])

VARIABLES
  milestone,   \* student_milestones by student and type
  found,       \* what collectCandidates finds, by student
  judgedAs     \* history: what was last approved, and not submitted again or rejected

milestones == <<milestone, found, judgedAs>>

Types == {Mvps[i] : i \in DOMAIN Mvps} \cup {"retrospective"}

MilestonesInit ==
  /\ milestone = [m \in Users \X Types |-> None]
  /\ found = [u \in Users |-> <<>>]
  /\ judgedAs = [m \in Users \X Types |-> None]

\* Upsert: back to pending, with what the administrator noted erased; the score
\* of a retrospective stays.
Upserted_KeepsStatus(m, source, text) ==
  [source |-> source, text |-> text,
   status |-> IF milestone[m] = None THEN "pending" ELSE milestone[m].status,
   scored |-> IF milestone[m] = None THEN None ELSE milestone[m].scored]

Upserted(m, source, text) ==
  [source |-> source, text |-> text, status |-> "pending",
   scored |-> IF milestone[m] = None THEN None ELSE milestone[m].scored]

-----------------------------------------------------------------------------
(* SubmitManual, with ScoreAndStoreEssay: the model takes its time, the score  *)
(* goes to whatever the row contains then.                                   *)

SubmitManual(r) ==
  \E u \in Users \ {Staff}, type \in Types, text \in Texts :
    LET m == <<u, type>>
    IN  /\ MayAct(u)
        /\ IF type = "retrospective" /\ text \in LongTexts
             THEN Receive(r, "SubmitManual", "essay:score", [row |-> m, text |-> text])
             ELSE Idle(r) /\ AnswerAtOnce("SubmitManual")
        /\ milestone' = [milestone EXCEPT ![m] = Upserted(m, "manual", text)]
        /\ judgedAs' = [judgedAs EXCEPT ![m] = None]
        /\ UNCHANGED <<money, active, classroom, found>>

EssayScore(r) ==
  LET t == task[r]
  IN  /\ At(r, "essay:score")
      /\ Return(r)
      /\ milestone' = [milestone EXCEPT ![t.row].scored = t.text]
      /\ UNCHANGED <<money, active, classroom, found, judgedAs>>

-----------------------------------------------------------------------------
(* Approve and Reject, by id *)

JudgeMilestone ==
  \E m \in {x \in Users \X Types : milestone[x] # None} :
    /\ \/ /\ AnswerAtOnce("Approve")
          /\ milestone' = [milestone EXCEPT ![m].status = "approved"]
          /\ judgedAs' = [judgedAs EXCEPT ![m] = milestone[m].text]
       \/ /\ AnswerAtOnce("Reject")
          /\ milestone' = [milestone EXCEPT ![m].status = "rejected"]
          /\ judgedAs' = [judgedAs EXCEPT ![m] = None]
    /\ UNCHANGED <<money, active, classroom, found>>

-----------------------------------------------------------------------------
(* SyncAuto: the i-th address found is the i-th MVP, unless the row has been   *)
(* approved, is the student's own, or says so already.                       *)

\* The student's companies or applications name other addresses.
FindAddresses ==
  \E u \in Users \ {Staff}, list \in Finds :
    /\ list # found[u]
    /\ AnswerAtOnce("FindAddresses")
    /\ found' = [found EXCEPT ![u] = list]
    /\ UNCHANGED <<money, active, classroom, milestone, judgedAs>>

SyncAuto(r) ==
  \E u \in Users \ {Staff} :
    /\ MayAct(u)
    /\ Receive(r, "SyncAuto", "sync:find", [user |-> u, found |-> found[u], i |-> 1])
    /\ UNCHANGED <<money, active, classroom, milestones>>

Untouched(row, c) ==
  /\ row # None
  /\ \/ row.status = "approved"
     \/ row.source = "manual"
     \/ row.text = c.text /\ row.source = c.source

SyncFind(r) ==
  LET t == task[r]
      m == <<t.user, Mvps[t.i]>>
  IN  /\ At(r, "sync:find")
      /\ IF t.i > Len(Mvps) \/ t.i > Len(t.found) THEN Return(r)
         ELSE IF Untouched(milestone[m], t.found[t.i])
           THEN GotoWith(r, "sync:find", [t EXCEPT !.i = @ + 1])
           ELSE Goto(r, "sync:write")
      /\ UNCHANGED <<money, active, classroom, milestones>>

SyncWrite(r) ==
  LET t == task[r]
      m == <<t.user, Mvps[t.i]>>
  IN  /\ At(r, "sync:write")
      /\ GotoWith(r, "sync:find", [t EXCEPT !.i = @ + 1])
      /\ milestone' = [milestone EXCEPT ![m] = Upserted(m, t.found[t.i].source, t.found[t.i].text)]
      /\ UNCHANGED <<money, active, classroom, found, judgedAs>>

-----------------------------------------------------------------------------
MilestonesStep(r) == EssayScore(r) \/ SyncFind(r) \/ SyncWrite(r)

MilestonesRequest(r) == SubmitManual(r) \/ SyncAuto(r)

MilestonesNext ==
  \/ FindAddresses \/ JudgeMilestone
  \/ \E r \in Requests : MilestonesStep(r) \/ MilestonesRequest(r)
=============================================================================
