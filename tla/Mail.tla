-------------------------------- MODULE Mail --------------------------------
(***************************************************************************)
(* The mailboxes (application/mail_usecase.go, persistence/mail_repo.go).    *)
(* A user or a company claims an address, which an administrator approves   *)
(* or rejects; shared addresses are the administrator's, and others use      *)
(* them by a grant.  A mail goes out by an external sender and is then       *)
(* stored, one that comes in is stored, and marked when it is read.  Texts,  *)
(* attachments, replies and notifications are left out.                      *)
(***************************************************************************)
EXTENDS Classroom

CONSTANTS
  Addresses,     \* ids of mail_addresses
  StartAddress,  \* mail_addresses at the start
  Keeper,        \* the user who acts for an owner of an address
  Parts          \* local parts

Owners == DOMAIN Keeper

AddressRows == [owner : Owners, part : Parts, shared : BOOLEAN, status : Statuses]

EmailRows == [address : Addresses, dir : {"in", "out"}, part : Parts, read : BOOLEAN]

ASSUME MailAssumption ==
  /\ Users \subseteq Owners /\ \A o \in Owners : Keeper[o] \in Users
  /\ StartAddress \in [Addresses -> AddressRows \cup {None}]
  /\ None \notin AddressRows \cup Parts

VARIABLES
  address,     \* mail_addresses
  shared,      \* mail_address_grants that are not revoked
  emails,      \* emails
  sent,        \* history: mails the sender has accepted
  approvedAs   \* history: the local part last approved for an address

mail == <<address, shared, emails, sent, approvedAs>>

AddressRow(o, part, isShared) ==
  [owner |-> o, part |-> part, shared |-> isShared,
   status |-> IF isShared THEN "approved" ELSE "pending"]

KnownAddresses == {a \in Addresses : address[a] # None}

ApprovedAddress(a) == address[a].status = "approved"

MailInit ==
  /\ address = IF "Upgrade" \in workload THEN [a \in Addresses |-> None] ELSE StartAddress
  /\ shared = {}
  /\ emails = <<>>
  /\ sent = 0
  /\ approvedAs = [a \in Addresses |->
       IF address[a] # None /\ ApprovedAddress(a) THEN address[a].part ELSE None]

\* UNIQUE (owner), unless the address is shared.
AddressesOf(o) == {a \in KnownAddresses : address[a].owner = o /\ ~address[a].shared}

\* UNIQUE (local_part)
Taken(part, by) == \E a \in KnownAddresses \ by : address[a].part = part

-----------------------------------------------------------------------------
(* claimAddress: changes the owner's row, or makes one.  That the local part   *)
(* is free is asked before, and again by UNIQUE.                             *)

Claimable_Always(o) == TRUE

Claimable(o) == \A a \in AddressesOf(o) : ~ApprovedAddress(a)

ClaimAddress(r) ==
  \E o \in Owners, part \in Parts :
    /\ MayAct(Keeper[o]) /\ Claimable(o)
    /\ Receive(r, "ClaimAddress", "claim:write",
               [owner |-> o, part |-> part, rows |-> AddressesOf(o)])
    /\ UNCHANGED <<money, active, classroom, mail>>

ClaimWrite(r) ==
  LET t == task[r]
  IN  /\ At(r, "claim:write")
      /\ Return(r)
      /\ \/ /\ t.rows # {} /\ ~Taken(t.part, t.rows)
            /\ address' = [a \in Addresses |->
                 IF a \in t.rows
                 THEN [address[a] EXCEPT !.part = t.part, !.status = "pending"]
                 ELSE address[a]]
         \/ /\ t.rows = {} /\ ~Taken(t.part, {}) /\ AddressesOf(t.owner) = {}
            /\ \E a \in FreeId(address) :
                 address' = [address EXCEPT ![a] = AddressRow(t.owner, t.part, FALSE)]
         \/ /\ \/ Taken(t.part, t.rows)
               \/ t.rows = {} /\ (AddressesOf(t.owner) # {} \/ FreeId(address) = {})
            /\ UNCHANGED address
      /\ UNCHANGED <<money, active, classroom, shared, emails, sent, approvedAs>>

\* ApproveAddress and RejectAddress: not for an address that has been approved.
JudgeAddress(r) ==
  \E a \in KnownAddresses, verdict \in {"approved", "rejected"} :
    /\ ~ApprovedAddress(a)
    /\ Receive(r, IF verdict = "approved" THEN "ApproveAddress" ELSE "RejectAddress",
               "verdict:write", [address |-> a, verdict |-> verdict])
    /\ UNCHANGED <<money, active, classroom, mail>>

VerdictWrite(r) ==
  LET t == task[r]
  IN  /\ At(r, "verdict:write")
      /\ Return(r)
      /\ address' = [address EXCEPT ![t.address].status = t.verdict]
      /\ approvedAs' = [approvedAs EXCEPT ![t.address] =
           IF t.verdict = "approved" THEN address[t.address].part ELSE @]
      /\ UNCHANGED <<money, active, classroom, shared, emails, sent>>

-----------------------------------------------------------------------------
(* Shared addresses *)

CreateSharedAddress ==
  \E part \in Parts, a \in FreeId(address) :
    /\ ~Taken(part, {})
    /\ AnswerAtOnce("CreateSharedAddress")
    /\ address' = [address EXCEPT ![a] = AddressRow(Staff, part, TRUE)]
    /\ approvedAs' = [approvedAs EXCEPT ![a] = part]
    /\ UNCHANGED <<money, active, classroom, shared, emails, sent>>

ShareAddress ==
  \E a \in KnownAddresses, u \in Users :
    /\ address[a].shared
    /\ \/ AnswerAtOnce("GrantSharedAccess") /\ shared' = shared \cup {<<a, u>>}
       \/ AnswerAtOnce("RevokeSharedAccess") /\ shared' = shared \ {<<a, u>>}
    /\ UNCHANGED <<money, active, classroom, address, emails, sent, approvedAs>>

-----------------------------------------------------------------------------
(* Mails *)

HasActiveGrant(a, u) == <<a, u>> \in shared

\* userOwnsAddress
MayUse(u, a) ==
  IF address[a].shared THEN HasActiveGrant(a, u) ELSE Keeper[address[a].owner] = u

Send(r) ==
  \E u \in Users, a \in KnownAddresses :
    /\ MayAct(u) /\ MayUse(u, a) /\ ApprovedAddress(a)
    /\ Receive(r, "Send", "mail:send",
               [address |-> a, dir |-> "out", part |-> address[a].part])
    /\ UNCHANGED <<money, active, classroom, mail>>

\* The sender, which tries a second time under its own address, accepts it or not.
Accepted == BOOLEAN

\* What the sender does not accept is not stored.
SendOut(r) ==
  /\ At(r, "mail:send")
  /\ \E accepted \in Accepted :
       IF accepted THEN Goto(r, "mail:store") /\ sent' = sent + 1
       ELSE Return(r) /\ UNCHANGED sent
  /\ UNCHANGED <<money, active, classroom, address, shared, emails, approvedAs>>

\* The address of a recipient is looked up; one that is not approved is unknown.
ReceiveInbound(r) ==
  \E a \in KnownAddresses :
    /\ ApprovedAddress(a)
    /\ Receive(r, "ReceiveInbound", "mail:store",
               [address |-> a, dir |-> "in", part |-> address[a].part])
    /\ UNCHANGED <<money, active, classroom, mail>>

MailStore(r) ==
  /\ At(r, "mail:store")
  /\ Return(r)
  /\ emails' = Append(emails, With(task[r], [read |-> FALSE]))
  /\ UNCHANGED <<money, active, classroom, address, shared, sent, approvedAs>>

\* The administrator reads every mail, but that is not marked.
Marks(u, i) == u # Staff /\ MayUse(u, emails[i].address) /\ emails[i].dir = "in"

WithRead(i) == [emails EXCEPT ![i].read = TRUE]

\* GetEmail: whoever has access now, not only when the mail came.
GetEmail ==
  \E u \in Users, i \in DOMAIN emails :
    /\ MayAct(u) /\ Marks(u, i) /\ ~emails[i].read
    /\ AnswerAtOnce("GetEmail")
    /\ emails' = WithRead(i)
    /\ UNCHANGED <<money, active, classroom, address, shared, sent, approvedAs>>

-----------------------------------------------------------------------------
MailStep(r) == ClaimWrite(r) \/ VerdictWrite(r) \/ SendOut(r) \/ MailStore(r)

MailRequest(r) == Send(r) \/ ReceiveInbound(r)

SharedRequest == CreateSharedAddress \/ ShareAddress

MailNext ==
  \/ SharedRequest \/ GetEmail
  \/ \E r \in Requests : MailStep(r) \/ ClaimAddress(r) \/ JudgeAddress(r) \/ MailRequest(r)
=============================================================================
