-------------------------------- MODULE Posts -------------------------------
(***************************************************************************)
(* Posts, likes, comments and assignments (application/post_usecase.go,       *)
(* persistence/post_repo.go).  Authors are rewarded for posts and for the     *)
(* likes and comments of others, students for graded submissions, in the      *)
(* wallet of the post's classroom; what is taken back is taken back as far as *)
(* the balance goes.  The counters of a post are kept beside the rows.        *)
(***************************************************************************)
EXTENDS Classroom

CONSTANTS
  PostIds,
  StartPost,       \* posts at the start
  Comments,        \* ids of comments
  StartComment,    \* comments at the start
  LikeReward,      \* LikeRewardAmount
  CommentReward,   \* CommentRewardAmount
  PostReward,      \* PostRewardAmount
  AssignReward,    \* assignments.reward_amount
  MaxScore         \* assignments.max_score

ASSUME PostsAssumption ==
  {LikeReward, CommentReward, PostReward, AssignReward, MaxScore} \subseteq Nat \ {0}

VARIABLES
  post,        \* posts; a row that was deleted keeps its id
  likedBy,     \* post_likes: users by post
  comment,     \* comments; a row that was deleted keeps its id
  submission   \* submissions by <<post of the assignment, student>>

posts == <<post, likedBy, comment, submission>>

PostsInit ==
  /\ post = StartPost
  /\ likedBy = [p \in PostIds |-> {}]
  /\ comment = StartComment
  /\ submission = [s \in PostIds \X Users |-> None]

Live(p) == post[p] # None /\ post[p].live

LiveComment(c) == comment[c] # None /\ comment[c].live

CommentsOf(p) == {c \in Comments : LiveComment(c) /\ comment[c].post = p}

\* The assignments table has a row for this post (UNIQUE post_id).
HasAssignment(p) == Live(p) /\ post[p].assigned

MayDelete(u, author) == u = author \/ u = Staff

-----------------------------------------------------------------------------
(* creditOrDebitUser: EnsureClassroomWallet of the post's classroom, then a   *)
(* credit or a debit whose failure the callers ignore; then on to `next`.    *)

RewardTask(p, u, amount, type, ref, next) ==
  EnsureFor(u, post[p].room, "reward:pay",
            [p |-> p, amount |-> amount, type |-> type, ref |-> ref, next |-> next])

Reward(r, p, u, amount, type, ref, next, more) ==
  GotoWith(r, "ensure:select", With(more, RewardTask(p, u, amount, type, ref, next)))

GoNext(r, next) == IF next = "answer" THEN Return(r) ELSE Goto(r, next)

RewardPay(r) ==
  LET t == task[r]
  IN  /\ At(r, "reward:pay")
      /\ GoNext(r, t.next)
      /\ IF t.amount < 0 /\ ~CanDebit(t.wallet, -t.amount) THEN UNCHANGED money
         ELSE Credit(t.wallet, t.amount, t.type, t.ref)
      /\ UNCHANGED <<active, classroom, posts>>

-----------------------------------------------------------------------------
(* CreatePost, DeletePost *)

PostRow(u, k, kind) ==
  [author |-> u, room |-> k, kind |-> kind, assigned |-> FALSE, likes |-> 0,
   comments |-> 0, live |-> TRUE]

CreatePost(r) ==
  \E u \in Users, k \in rooms, p \in FreeId(post) :
    /\ MayAct(u)
    /\ Receive(r, "CreatePost", "ensure:select",
         [whom |-> u, where |-> k, then |-> "reward:pay", p |-> p, amount |-> PostReward,
          type |-> "post_reward", ref |-> p, next |-> "answer"])
    /\ post' = [post EXCEPT ![p] = PostRow(u, k, "normal")]
    /\ UNCHANGED <<money, active, classroom, likedBy, comment, submission>>

DeletePost(r) ==
  \E u \in Users, p \in PostIds :
    /\ Live(p) /\ MayAct(u) /\ MayDelete(u, post[p].author)
    /\ Receive(r, "DeletePost", "unpost:comments", [p |-> p])
    /\ UNCHANGED <<money, active, classroom, posts>>

\* DELETE FROM comments; a submission that refers to one of them forbids it.
UnpostComments(r) ==
  LET p == task[r].p
      held == \E u \in Users : submission[p, u] # None /\ submission[p, u].comment \in CommentsOf(p)
  IN  /\ At(r, "unpost:comments")
      /\ IF held THEN Return(r) /\ UNCHANGED comment
         ELSE /\ Goto(r, "unpost:likes")
              /\ comment' = [c \in Comments |->
                   IF c \in CommentsOf(p) THEN [comment[c] EXCEPT !.live = FALSE] ELSE comment[c]]
      /\ UNCHANGED <<money, active, classroom, post, likedBy, submission>>

UnpostLikes(r) ==
  /\ At(r, "unpost:likes")
  /\ Goto(r, "unpost:row")
  /\ likedBy' = [likedBy EXCEPT ![task[r].p] = {}]
  /\ UNCHANGED <<money, active, classroom, post, comment, submission>>

\* The post itself: likes and comments of the meantime go with it, an assignment
\* forbids it.
UnpostRow(r) ==
  LET p == task[r].p
  IN  /\ At(r, "unpost:row")
      /\ IF HasAssignment(p) THEN Return(r) /\ UNCHANGED posts
         ELSE /\ Reward(r, p, post[p].author, -PostReward, "post_reward", p, "answer", <<>>)
              /\ post' = [post EXCEPT ![p].live = FALSE]
              /\ likedBy' = [likedBy EXCEPT ![p] = {}]
              /\ comment' = [c \in Comments |->
                   IF c \in CommentsOf(p) THEN [comment[c] EXCEPT !.live = FALSE] ELSE comment[c]]
              /\ UNCHANGED submission
      /\ UNCHANGED <<money, active, classroom>>

-----------------------------------------------------------------------------
(* LikePost: a second one takes the first one back.                          *)

LikePost(r) ==
  \E u \in Users, p \in PostIds :
    /\ Live(p) /\ MayAct(u)
    /\ Receive(r, "LikePost", IF u \in likedBy[p] THEN "like:delete" ELSE "like:insert",
               [p |-> p, user |-> u])
    /\ UNCHANGED <<money, active, classroom, posts>>

\* UNIQUE (post_id, user_id) and the foreign key.
LikeInsert(r) ==
  LET t == task[r]
  IN  /\ At(r, "like:insert")
      /\ IF Live(t.p) /\ t.user \notin likedBy[t.p]
           THEN Goto(r, "like:up") /\ likedBy' = [likedBy EXCEPT ![t.p] = @ \cup {t.user}]
           ELSE Return(r) /\ UNCHANGED likedBy
      /\ UNCHANGED <<money, active, classroom, post, comment, submission>>

LikeDelete(r) ==
  LET t == task[r]
  IN  /\ At(r, "like:delete")
      /\ Goto(r, "like:down")
      /\ likedBy' = [likedBy EXCEPT ![t.p] = @ \ {t.user}]
      /\ UNCHANGED <<money, active, classroom, post, comment, submission>>

Lowered_Never(n) == n

Lowered(n) == IF n > 0 THEN n - 1 ELSE 0

\* One's own like is not rewarded.
LikeRewarded(r, amount) ==
  LET t == task[r]
  IN  IF t.user = post[t.p].author THEN Return(r)
      ELSE Reward(r, t.p, post[t.p].author, amount, "like_reward", t.p, "answer", <<>>)

LikeUp(r) ==
  /\ At(r, "like:up")
  /\ LikeRewarded(r, LikeReward)
  /\ post' = [post EXCEPT ![task[r].p].likes = @ + 1]
  /\ UNCHANGED <<money, active, classroom, likedBy, comment, submission>>

LikeDown(r) ==
  /\ At(r, "like:down")
  /\ LikeRewarded(r, -LikeReward)
  /\ post' = [post EXCEPT ![task[r].p].likes = Lowered(@)]
  /\ UNCHANGED <<money, active, classroom, likedBy, comment, submission>>

-----------------------------------------------------------------------------
(* CreateComment, DeleteComment *)

CreateComment(r) ==
  \E u \in Users, p \in PostIds :
    /\ Live(p) /\ MayAct(u)
    /\ Receive(r, "CreateComment", "comment:insert", [p |-> p, user |-> u])
    /\ UNCHANGED <<money, active, classroom, posts>>

InsertComment(c, p, u) ==
  comment' = [comment EXCEPT ![c] = [post |-> p, author |-> u, live |-> TRUE]]

CommentInsert(r) ==
  LET t == task[r]
  IN  /\ At(r, "comment:insert")
      /\ IF Live(t.p) /\ FreeId(comment) # {}
           THEN \E c \in FreeId(comment) :
                  /\ GotoWith(r, "comment:count", With(t, [c |-> c]))
                  /\ InsertComment(c, t.p, t.user)
           ELSE Return(r) /\ UNCHANGED comment
      /\ UNCHANGED <<money, active, classroom, post, likedBy, submission>>

CommentCount(r) ==
  LET t == task[r]
      next == IF post[t.p].kind = "assignment" THEN "comment:submit" ELSE "answer"
  IN  /\ At(r, "comment:count")
      /\ IF t.user = post[t.p].author THEN GoNext(r, next)
         ELSE Reward(r, t.p, post[t.p].author, CommentReward, "comment_reward", t.p, next,
                     [user |-> t.user, c |-> t.c])
      /\ post' = [post EXCEPT ![t.p].comments = @ + 1]
      /\ UNCHANGED <<money, active, classroom, likedBy, comment, submission>>

\* UNIQUE (assignment_id, student_id), and the comment must still be there.
InsertSubmission(p, u, c) ==
  IF HasAssignment(p) /\ submission[p, u] = None /\ LiveComment(c)
    THEN submission' = [submission EXCEPT ![<<p, u>>] =
           [comment |-> c, grade |-> None, rewarded |-> FALSE]]
    ELSE UNCHANGED submission

CommentSubmit(r) ==
  LET t == task[r]
  IN  /\ At(r, "comment:submit")
      /\ Return(r)
      /\ InsertSubmission(t.p, t.user, t.c)
      /\ UNCHANGED <<money, active, classroom, post, likedBy, comment>>

DeleteComment(r) ==
  \E u \in Users, c \in Comments :
    /\ LiveComment(c) /\ MayAct(u) /\ MayDelete(u, comment[c].author)
    /\ Receive(r, "DeleteComment", "uncomment:delete",
               [c |-> c, p |-> comment[c].post, user |-> comment[c].author])
    /\ UNCHANGED <<money, active, classroom, posts>>

UncommentDelete(r) ==
  LET t == task[r]
  IN  /\ At(r, "uncomment:delete")
      /\ IF \E u \in Users : submission[t.p, u] # None /\ submission[t.p, u].comment = t.c
           THEN Return(r) /\ UNCHANGED comment
           ELSE Goto(r, "uncomment:count")
                /\ comment' = [comment EXCEPT ![t.c].live = FALSE]
      /\ UNCHANGED <<money, active, classroom, post, likedBy, submission>>

UncommentCount(r) ==
  LET t == task[r]
  IN  /\ At(r, "uncomment:count")
      /\ IF t.user = post[t.p].author THEN Return(r)
         ELSE Reward(r, t.p, post[t.p].author, -CommentReward, "comment_reward", t.p,
                     "answer", <<>>)
      /\ post' = [post EXCEPT ![t.p].comments = Lowered(@)]
      /\ UNCHANGED <<money, active, classroom, likedBy, comment, submission>>

-----------------------------------------------------------------------------
(* CreateAssignment, SubmitAssignment, GradeAssignment *)

CreateAssignment(r) ==
  \E k \in rooms, p \in FreeId(post) :
    /\ Receive(r, "CreateAssignment", "assign:insert", [p |-> p])
    /\ post' = [post EXCEPT ![p] = PostRow(Staff, k, "assignment")]
    /\ UNCHANGED <<money, active, classroom, likedBy, comment, submission>>

\* One row of assignments for the post.
InsertAssignment(p) == post' = [post EXCEPT ![p].assigned = TRUE]

AssignInsert(r) ==
  LET p == task[r].p
  IN  /\ At(r, "assign:insert")
      /\ Return(r)
      /\ IF Live(p) THEN InsertAssignment(p) ELSE UNCHANGED post
      /\ UNCHANGED <<money, active, classroom, likedBy, comment, submission>>

SubmitAssignment(r) ==
  \E u \in Users, p \in PostIds :
    /\ HasAssignment(p) /\ MayAct(u) /\ submission[p, u] = None
    /\ Receive(r, "SubmitAssignment", "submit:comment", [p |-> p, user |-> u])
    /\ UNCHANGED <<money, active, classroom, posts>>

SubmitComment(r) ==
  LET t == task[r]
  IN  /\ At(r, "submit:comment")
      /\ IF FreeId(comment) = {} THEN Return(r) /\ UNCHANGED comment
         ELSE \E c \in FreeId(comment) :
                /\ GotoWith(r, "submit:count", With(t, [c |-> c]))
                /\ InsertComment(c, t.p, t.user)
      /\ UNCHANGED <<money, active, classroom, post, likedBy, submission>>

SubmitCount(r) ==
  /\ At(r, "submit:count")
  /\ Goto(r, "comment:submit")
  /\ post' = [post EXCEPT ![task[r].p].comments = @ + 1]
  /\ UNCHANGED <<money, active, classroom, likedBy, comment, submission>>

\* The part of the reward that a grade earns, rounded down by the integer division.
GradeReward(grade) == (AssignReward * grade) \div MaxScore

\* A part that is not 0 is paid and marked; a grade may be given again, and earns again.
GradeAssignment(r) ==
  \E s \in PostIds \X Users, grade \in 0 .. MaxScore :
    LET reward == GradeReward(grade)
    IN  /\ submission[s] # None
        /\ Receive(r, "GradeAssignment", IF reward > 0 THEN "ensure:select" ELSE "grade:save",
             With(RewardTask(s[1], s[2], reward, "assign_reward", s, "grade:save"),
                  [s |-> s, grade |-> grade, rewarded |-> reward > 0]))
        /\ UNCHANGED <<money, active, classroom, posts>>

GradeSave(r) ==
  LET t == task[r]
  IN  /\ At(r, "grade:save")
      /\ Return(r)
      /\ submission' = [submission EXCEPT ![t.s].grade = t.grade, ![t.s].rewarded = t.rewarded]
      /\ UNCHANGED <<money, active, classroom, post, likedBy, comment>>

-----------------------------------------------------------------------------
PostsStep(r) ==
  \/ RewardPay(r)
  \/ UnpostComments(r) \/ UnpostLikes(r) \/ UnpostRow(r)
  \/ LikeInsert(r) \/ LikeDelete(r) \/ LikeUp(r) \/ LikeDown(r)
  \/ CommentInsert(r) \/ CommentCount(r) \/ CommentSubmit(r)
  \/ UncommentDelete(r) \/ UncommentCount(r)
  \/ AssignInsert(r) \/ SubmitComment(r) \/ SubmitCount(r) \/ GradeSave(r)

\* The requests of the post handler.

PostRequest(r) == CreatePost(r) \/ DeletePost(r) \/ LikePost(r)

CommentRequest(r) == CreateComment(r) \/ DeleteComment(r)

AssignmentRequest(r) == CreateAssignment(r) \/ SubmitAssignment(r) \/ GradeAssignment(r)

PostsNext ==
  \E r \in Requests :
    PostsStep(r) \/ PostRequest(r) \/ CommentRequest(r) \/ AssignmentRequest(r)
=============================================================================
