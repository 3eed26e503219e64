------------------------------ MODULE MCCampus ------------------------------
(***************************************************************************)
(* Two classrooms, the second still to be created.  s1 is the admin and u1      *)
(* a student of the first; u2 has been approved and has the unassigned wallet  *)
(* that came with it; u3 has not registered.  u1 has an overdue loan, a pending  *)
(* application to a grant, a post with a comment, a key for the proxy and a    *)
(* session with the assistant, a rejected mail address and a company with one   *)
(* connected and one checked service.                                        *)
(* Each behaviour draws one of the mixes of requests.                         *)
(***************************************************************************)
EXTENDS Campus

CONSTANTS s1, u1, u2, u3, l1, g1, x1, p1, p2, c1, d1, h1, w1, w2, m1, f1, t1, t2, k1, k2

MCRows == [r \in Users \X Classrooms |->
  IF r \in {<<s1, 0>>, <<u1, 0>>} THEN 1 ELSE IF r = <<u2, 0>> THEN 0 ELSE None]
MCFunds == [r \in Users \X Classrooms |-> IF MCRows[r] = 1 THEN 3 ELSE 0]
MCHomeRoom == [x \in Users |-> IF x \in {s1, u1} THEN 1 ELSE 0]
MCAccount == [x \in Users |-> IF x = u3 THEN None ELSE "approved"]
MCMember == {<<1, s1>>, <<1, u1>>}

MCLoan == [l \in Loans |->
  IF l = l1
  THEN [user |-> u1, room |-> 1, amount |-> 4, remaining |-> 4, rate |-> 2600,
        status |-> "overdue"]
  ELSE None]
MCGrant == [g \in GrantIds |->
  IF g = g1 THEN [admin |-> s1, room |-> 1, reward |-> 2, status |-> "open"] ELSE None]
MCApplication == [a \in Applications |->
  IF a = x1 THEN [grant |-> g1, user |-> u1, status |-> "pending"] ELSE None]
MCPost == [p \in PostIds |->
  CASE p = p1 -> PostRow(u1, 1, "normal")
    [] p = p2 -> [PostRow(s1, 1, "assignment") EXCEPT !.assigned = TRUE]
    [] OTHER -> None]
MCKey == [k \in KeyIds |-> IF k = 1 THEN [user |-> u1, revoked |-> FALSE] ELSE None]
MCComment == [c \in Comments |-> None]
MCGifts == {2, -4}
\* The admin and u1 write to each other.
MCLetters == {<<s1, u1>>, <<u1, s1>>}
MCOwner == [d \in Clients |-> u1]
MCSession == [h \in Sessions |-> IF h = h1 THEN SessionRow(u1) ELSE None]
\* u1 and u2 have the same name as far as databases are concerned.
MCWishes == {<<u1, w1>>, <<u1, w2>>, <<u2, w1>>}
MCSlug == [x \in Users |-> IF x = u2 THEN u1 ELSE x]

One == {{"Ask", "AskStream"}, {"SendAnnouncement"}}

MCKeeper == [o \in Users \cup {f1} |-> IF o = f1 THEN u1 ELSE o]
MCAddress == [a \in Addresses |->
  IF a = m1 THEN [AddressRow(u1, t1, FALSE) EXCEPT !.status = "rejected"] ELSE None]

MCMvps == <<"mvp1", "mvp2">>
MCFinds == {<<>>, <<[source |-> "company", text |-> t1]>>,
            <<[source |-> "company", text |-> t2], [source |-> "grant", text |-> t1]>>}

MCOwnerOf == [f \in {f1} |-> u1]
MCRoomOf == [f \in {f1} |-> 1]
MCService == [s \in ServiceIds |->
  CASE s = 1 -> [ServiceRow(f1, t1) EXCEPT !.validation = "valid", !.checked = t1,
                                           !.status = "connected", !.hasSite = TRUE]
    [] s = 2 -> [ServiceRow(f1, t2) EXCEPT !.validation = "valid", !.checked = t2]
    [] OTHER -> None]

\* An app of the admin, for which u1 has a code.  The volume has a document that is not in the image, with
\* neither frontmatter nor page; the others are at Notion, k3 has lost its file.
MCApp == [a \in Apps |-> IF a = 1 THEN AppRow(s1) ELSE None]
MCCode == [c \in Codes |-> IF c = 1 THEN CodeRow(1, u1, FALSE) ELSE None]
MCFiles == [s \in Slugs |->
  IF s = k1 THEN MdRow(0, 0, TRUE, TRUE) ELSE IF s = k2 THEN MdRow(0, 0, FALSE, FALSE) ELSE None]

Two == { {"Upgrade", "RepayLoan", "JoinClassroom"},
         {"AdminTransfer", "JoinClassroom"},
         {"CreatePost", "LikePost", "DeletePost"},
         {"CreateComment", "DeletePost"},
         {"CreateComment", "DeleteComment"},
         {"SubmitAssignment", "GradeAssignment"},
         {"ApproveApplication", "RevokeApplication", "Transfer"},
         {"Transfer", "BillAll"},
         {"SendMessage", "Upload"},
         {"AdminReindexWiki", "AdminUpdateWikiDoc", "OperatorRemoves"},
         {"AdminSyncNotionOne", "AdminSyncNotionAll", "AdminReindexWiki"},
         {"AskStream"},
         {"Ask", "DeleteSession"},
         {"Ask", "CreateSession"},
         {"CreateDatabase", "AdminReconcile"},
         {"SaveProposal", "AdminUpdateProposal"},
         {"Transfer", "JoinClassroom"} }

Three == { {"CreateClassroom", "ActivateClassroom", "JoinClassroom"},
           {"CreateAssignment", "GradeAssignment", "DeletePost"},
           {"ApproveApplication", "RevokeApplication"},
           {"ApproveApplication", "DeleteApplication", "ApplyToGrant"},
           {"EnsureKey", "RotateKey", "BillAll"},
           {"CreateDatabase"},
           {"CreateDatabase", "RotatePassword", "AdminDeleteByDBName"},
           {"CreateDatabase", "DropByHand", "AdminReconcile"},
           {"CreateDatabase", "DropByHand", "AdminDeleteByDBName"},
           {"ClaimAddress", "ApproveAddress", "RejectAddress"},
           {"SubmitManual", "Approve", "Reject"},
           {"SubmitManual", "FindAddresses", "SyncAuto"},
           {"UpdateService", "ValidateService", "ConnectRybbit"},
           {"CreateService", "ValidateService", "ConnectRybbit", "AdminReconcileRybbit"},
           {"UpdateService", "DeleteService", "ChecksExpire", "ConnectRybbit"},
           {"RegisterClient", "Authorize", "DeleteClient"},
           {"ExchangeCode", "RefreshAccessToken", "TokensExpire"},
           {"Authorize", "ExchangeCode", "DeleteClient"},
           {"ForgotPassword", "ResetPassword", "LinksExpire", "ChangePassword"},
           {"AdminReject", "RefreshToken", "ImpersonateUser", "Authorize"},
           {"OperatorRemoves", "AdminReindexWiki"},
           {"AdminCreateSkill", "AdminUpdateSkill", "AdminDeleteSkill"},
           {"UploadFile", "DeleteFile"},
           {"SendMessage", "MarkAsRead", "MarkRead", "MarkAllRead"},
           {"UpdateEmailPreference", "CreateNotification"} }

Four == { {"CreateDatabase", "DeleteDatabase"},
          {"SubscribePush", "UnsubscribePush", "CreateNotification", "EndpointExpires"},
          {"ApproveAddress", "Send", "ReceiveInbound", "GetEmail"},
          {"ExchangeCode", "RefreshAccessToken", "RevokeToken"},
          {"CreateSharedAddress", "GrantSharedAccess", "RevokeSharedAccess", "Send"},
          {"FindAddresses", "SyncAuto", "Approve", "Reject"},
          {"Register", "Login", "AdminApprove", "AdminReject", "JoinClassroom"},
          {"ApplyLoan", "ApproveLoan", "RejectLoan", "RepayLoan"},
          {"RepayLoan", "ProcessWeeklyInterest", "WeekPasses"},
          {"ApplyLoan", "ApproveLoan", "ProcessWeeklyInterest", "WeekPasses"},
          {"CreateGrant", "ApplyToGrant", "CloseGrant", "DeleteApplication"} }

MCWorkloads == One \cup Two \cup Three \cup Four
MCMaxRequests ==
  [m \in MCWorkloads |->
     IF m \in One THEN 1 ELSE IF m \in Two THEN 2 ELSE IF m \in Three THEN 3 ELSE 4]

\* Calls of tools: two at a time where one question has the model to itself.
MCMaxCalls == [m \in MCWorkloads |->
  IF "AskStream" \in m /\ "Ask" \in m THEN 2 ELSE IF "DeleteSession" \in m THEN 1 ELSE 0]

\* A message with files, or one file at a time.
MCMaxFiles == [m \in MCWorkloads |->
  IF "Upload" \in m THEN 2 ELSE IF "UploadFile" \in m THEN 1 ELSE 0]

\* Connections, and what is sent over them.
MCHubWorkloads == {{"ServeWS", "SendMessage"}, {"ServeWS", "CreateNotification"},
                   {"ServeWS", "Broadcast"}}
MCHubMaxRequests == [m \in MCHubWorkloads |-> IF "SendMessage" \in m THEN 2 ELSE 3]
MCHubMaxCalls == [m \in MCHubWorkloads |-> 0]
MCHubMaxFiles == MCHubMaxCalls

\* Four requests, until the hub cannot go on.
MCStuckWorkloads == {{"ServeWS", "CreateNotification"}}
MCStuckMaxRequests == [m \in MCStuckWorkloads |-> 4]
MCStuckMaxCalls == [m \in MCStuckWorkloads |-> 0]
MCStuckMaxFiles == MCStuckMaxCalls

\* A session in which 24 questions have been asked and answered.
MCLongSession ==
  [MCSession EXCEPT ![h1].messages =
     [i \in 1 .. 48 |-> Message(IF i % 2 = 1 THEN "user" ELSE "assistant", 0, 0)]]
MCChatWorkloads == {{"Ask"}}
MCChatMaxRequests == [m \in MCChatWorkloads |-> 3]
MCChatMaxCalls == [m \in MCChatWorkloads |-> 1]
MCChatMaxFiles == MCChatMaxCalls
=============================================================================
