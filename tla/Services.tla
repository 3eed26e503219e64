------------------------------ MODULE Services ------------------------------
(***************************************************************************)
(* The web services of companies and their analytics                         *)
(* (application/company_service_usecase.go,                                  *)
(* persistence/company_service_repo.go, infrastructure/rybbit/provisioner.go,*)
(* infrastructure/urlcheck/checker.go).  The owner registers an address, has  *)
(* it checked, and connects it to an external analytics service, Rybbit,      *)
(* which makes a site of it and replaces the owner's access to the company's   *)
(* sites by what is asked for.  Rybbit may refuse, or do it and not answer.    *)
(* Names are left out, and the host of an address is the address.            *)
(***************************************************************************)
EXTENDS Classroom

CONSTANTS
  ServiceIds,     \* ids of company_services, never used again
  StartService,   \* company_services at the start
  Urls,           \* normalized addresses
  OwnerOf,        \* companies.owner_id
  RoomOf          \* companies.classroom_id

Firms == DOMAIN OwnerOf

\* The history "checked" is the address of the last check that is on record.
ServiceRows ==
  [firm : Firms, url : Urls, validation : {"unvalidated", "valid", "invalid", "stale"},
   status : {"not_connected", "connected", "needs_reconnect"}, hasSite : BOOLEAN,
   checked : Urls \cup {None}, live : BOOLEAN]

\* What is on record at the start has been checked, and connected, as it is.
ASSUME ServicesAssumption ==
  /\ ServiceIds \subseteq Nat /\ IsFiniteSet(Firms)
  /\ OwnerOf \in [Firms -> Users] /\ RoomOf \in [Firms -> Classrooms]
  /\ StartService \in [ServiceIds -> ServiceRows \cup {None}]
  /\ \A s \in ServiceIds : StartService[s] # None =>
       /\ StartService[s].validation # "unvalidated" =>
            StartService[s].checked = StartService[s].url
       /\ StartService[s].status = "connected" => StartService[s].hasSite
  /\ None \notin ServiceRows

VARIABLES
  service,   \* company_services
  site,      \* Rybbit: the domain of a service's site
  access     \* Rybbit: who may see which sites

services == <<service, site, access>>

\* Neither checked nor connected.
ServiceRow(f, url) ==
  [firm |-> f, url |-> url, validation |-> "unvalidated", status |-> "not_connected",
   hasSite |-> FALSE, checked |-> None, live |-> TRUE]

LiveService(s) == service[s] # None /\ service[s].live

ServicesOf(f) == {s \in ServiceIds : LiveService(s) /\ service[s].firm = f}

ServicesInit ==
  /\ service = IF "Upgrade" \in workload THEN [s \in ServiceIds |-> None] ELSE StartService
  /\ site = [s \in ServiceIds |->
       IF service[s] # None /\ service[s].hasSite THEN service[s].url ELSE None]
  /\ access = {<<OwnerOf[service[s].firm], s>> :
                 s \in {x \in ServiceIds : service[x] # None /\ service[x].hasSite}}

\* UNIQUE (company_id, normalized_url)
Duplicate(f, url, self) == \E s \in ServicesOf(f) \ self : service[s].url = url

-----------------------------------------------------------------------------
(* CreateService, UpdateService, DeleteService.  That an address is not yet     *)
(* registered is asked before, and again by UNIQUE.                          *)

CreateService ==
  \E f \in Firms, url \in Urls, s \in FreeId(service) :
    /\ MayAct(OwnerOf[f])
    /\ ~Duplicate(f, url, {})
    /\ AnswerAtOnce("CreateService")
    /\ service' = [service EXCEPT ![s] = ServiceRow(f, url)]
    /\ UNCHANGED <<money, active, classroom, site, access>>

\* Another address has not been checked, and has to be connected again.
Moved(row, url) ==
  IF url = row.url THEN row
  ELSE [row EXCEPT !.url = url, !.validation = "unvalidated", !.checked = None,
                   !.status = IF @ = "connected" THEN "needs_reconnect" ELSE @]

UpdateService(r) ==
  \E s \in {x \in ServiceIds : LiveService(x)}, url \in Urls :
    /\ MayAct(OwnerOf[service[s].firm])
    /\ ~Duplicate(service[s].firm, url, {s})
    /\ Receive(r, "UpdateService", "service:write",
               [service |-> s, row |-> Moved(service[s], url)])
    /\ UNCHANGED <<money, active, classroom, services>>

\* The whole row is written, as it was read.
ServiceWrite(r) ==
  LET t == task[r]
  IN  /\ At(r, "service:write")
      /\ Return(r)
      /\ IF LiveService(t.service) /\ ~Duplicate(t.row.firm, t.row.url, {t.service})
           THEN service' = [service EXCEPT ![t.service] = t.row]
           ELSE UNCHANGED service
      /\ UNCHANGED <<money, active, classroom, site, access>>

\* The site stays.
DeleteService ==
  \E s \in {x \in ServiceIds : LiveService(x)} :
    /\ MayAct(OwnerOf[service[s].firm])
    /\ AnswerAtOnce("DeleteService")
    /\ service' = [service EXCEPT ![s].live = FALSE]
    /\ UNCHANGED <<money, active, classroom, site, access>>

-----------------------------------------------------------------------------
(* ValidateService: a request to the address, then its result by id.         *)

ValidateService(r) ==
  \E s \in {x \in ServiceIds : LiveService(x)} :
    /\ MayAct(OwnerOf[service[s].firm])
    /\ Receive(r, "ValidateService", "service:check", [service |-> s, url |-> service[s].url])
    /\ UNCHANGED <<money, active, classroom, services>>

\* The address answers within the time and the redirects it is given, or not.
Verdicts == {"valid", "invalid"}

\* UpdateValidation and UpdateRybbit change their columns only.
Checked(s, result, url) ==
  [service EXCEPT ![s].validation = result, ![s].checked = url]

Connected(s) == [service EXCEPT ![s].status = "connected", ![s].hasSite = TRUE]

ServiceCheck(r) ==
  \E result \in Verdicts :
    LET t == task[r]
    IN  /\ At(r, "service:check")
        /\ Return(r)
        /\ service' = IF LiveService(t.service) THEN Checked(t.service, result, t.url)
                      ELSE service
        /\ UNCHANGED <<money, active, classroom, site, access>>

\* A check counts for 24 hours.
ChecksExpire ==
  /\ \E s \in ServiceIds : LiveService(s) /\ service[s].validation = "valid"
  /\ AnswerAtOnce("ChecksExpire")
  /\ service' = [s \in ServiceIds |->
       IF LiveService(s) /\ service[s].validation = "valid"
       THEN [service[s] EXCEPT !.validation = "stale"] ELSE service[s]]
  /\ UNCHANGED <<money, active, classroom, site, access>>

-----------------------------------------------------------------------------
(* Provision: the site of service s of company f, and user u's access to the    *)
(* sites of the company.  A site that is not there makes the request fail.   *)

Provision(u, f, s, url, ids) ==
  LET firms == {x \in ServiceIds : service[x] # None /\ service[x].firm = f}
  IN  /\ \A x \in ids \ {s} : site[x] # None
      /\ site' = [site EXCEPT ![s] = url]
      /\ access' = {a \in access : a[1] # u \/ a[2] \notin firms} \cup ({u} \X (ids \cup {s}))

\* What a call of Rybbit comes to: done, done with the answer lost, or refused.
Outcomes == {"done", "lost", "refused"}

GrantIdsFor_Clicked(f, s) == {s}

\* grantServiceIDs: whatever has a site, and the one that was clicked.
GrantIdsFor(f, s) == {x \in ServicesOf(f) : x = s \/ service[x].hasSite}

ConnectRybbit(r) ==
  \E s \in {x \in ServiceIds : LiveService(x)} :
    LET f == service[s].firm
        u == OwnerOf[f]
    IN  /\ MayAct(u) /\ account[u] = "approved"
        /\ active[u] # 0 /\ active[u] = RoomOf[f]
        /\ service[s].validation = "valid"
        /\ ~(service[s].status = "connected" /\ service[s].hasSite)
        /\ Receive(r, "ConnectRybbit", "connect:list",
                   [user |-> u, service |-> s, url |-> service[s].url, firm |-> f])
        /\ UNCHANGED <<money, active, classroom, services>>

ConnectList(r) ==
  LET t == task[r]
  IN  /\ At(r, "connect:list")
      /\ GotoWith(r, "connect:provision", With(t, [ids |-> GrantIdsFor(t.firm, t.service)]))
      /\ UNCHANGED <<money, active, classroom, services>>

ConnectProvision(r) ==
  LET t == task[r]
  IN  /\ At(r, "connect:provision")
      /\ \E outcome \in Outcomes :
           /\ IF outcome = "refused" THEN UNCHANGED <<site, access>>
              ELSE Provision(t.user, t.firm, t.service, t.url, t.ids)
           /\ IF outcome = "done" THEN Goto(r, "connect:write") ELSE Return(r)
      /\ UNCHANGED <<money, active, classroom, service>>

ConnectWrite(r) ==
  LET s == task[r].service
  IN  /\ At(r, "connect:write")
      /\ Return(r)
      /\ service' = IF LiveService(s) THEN Connected(s) ELSE service
      /\ UNCHANGED <<money, active, classroom, site, access>>

-----------------------------------------------------------------------------
(* AdminReconcileRybbit: access for the administrator to all sites of his       *)
(* classroom, one company after the other, until one fails.                  *)

AdminReconcileRybbit(r) ==
  LET Sites(f) == {s \in ServicesOf(f) : service[s].hasSite}
      here == {f \in Firms : RoomOf[f] = active[Staff] /\ Sites(f) # {}}
      Group(f) == LET s == CHOOSE x \in Sites(f) : \A y \in Sites(f) : x <= y
                  IN  [firm |-> f, service |-> s, url |-> service[s].url, ids |-> Sites(f)]
  IN  /\ account[Staff] = "approved" /\ active[Staff] # 0
      /\ Receive(r, "AdminReconcileRybbit", "rybbit:next",
                 [todo |-> SetToSeq({Group(f) : f \in here})])
      /\ UNCHANGED <<money, active, classroom, services>>

RybbitNext(r) ==
  LET todo == task[r].todo
      g == Head(todo)
  IN  /\ At(r, "rybbit:next")
      /\ IF todo = <<>> THEN Return(r) /\ UNCHANGED <<site, access>>
         ELSE \E outcome \in Outcomes :
                /\ IF outcome = "refused" THEN UNCHANGED <<site, access>>
                   ELSE Provision(Staff, g.firm, g.service, g.url, g.ids)
                /\ IF outcome = "done" THEN GotoWith(r, "rybbit:next", [todo |-> Tail(todo)])
                   ELSE Return(r)
      /\ UNCHANGED <<money, active, classroom, service>>

-----------------------------------------------------------------------------
ServicesStep(r) ==
  \/ ServiceWrite(r) \/ ServiceCheck(r)
  \/ ConnectList(r) \/ ConnectProvision(r) \/ ConnectWrite(r) \/ RybbitNext(r)

ServicesRequest(r) ==
  \/ CreateService \/ UpdateService(r) \/ DeleteService \/ ValidateService(r)
  \/ ConnectRybbit(r) \/ AdminReconcileRybbit(r)

ServicesNext ==
  \/ ChecksExpire
  \/ \E r \in Requests : ServicesStep(r) \/ ServicesRequest(r)
=============================================================================
