---------------------------- MODULE MoneyRequests ----------------------------
(***************************************************************************)
(* RequestService over the transfer engine: a requester asks a requestee   *)
(* for money; the requestee approves, which runs one TransferService.      *)
(* execute, or rejects; the requester may cancel; a sweep expires.         *)
(*                                                                         *)
(* approve is a read, a call of execute and a conditional UPDATE; reject   *)
(* and cancel are a read and a conditional UPDATE.  Nothing is locked in   *)
(* between.  An approval c runs the engine's call c; the engine's calls    *)
(* are made by approvals only.                                             *)
(*                                                                         *)
(* The definitions commented "slip" are plausible mistakes in the code,    *)
(* not part of the specification.                                          *)
(***************************************************************************)
EXTENDS TransferEngine

CONSTANTS
  Requests,     \* ids of money_requests
  ApprovalKey,  \* [Requests -> Keys]: requestee and 'req-approve-<id>'
  Deciders,     \* calls of reject and cancel
  NoRequest

ASSUME ApprovalKeyAssumption ==
  /\ ApprovalKey \in [Requests -> Keys]
  /\ \A q, r \in Requests : ApprovalKey[q] = ApprovalKey[r] => q = r
ASSUME NoRequestAssumption == NoRequest \notin Requests

VARIABLES
  request,   \* money_requests.status of each request, NONE before create
  approval,  \* the local state of each call of approve
  decision   \* the local state of each call of reject and cancel

requestVars == <<request, approval, decision>>
allVars == <<vars, requestVars>>

Resolved == {"APPROVED", "REJECTED", "CANCELLED", "EXPIRED"}
Verdict == {"REJECTED", "CANCELLED"}

Approval == [pc : {"idle", "paying", "done"}, request : Requests \cup {NoRequest},
             reply : {"none", "NOT_PENDING", "APPROVED", "ERROR", "LOST"}]
Decision == [pc : {"idle", "update", "done"}, request : Requests \cup {NoRequest},
             verdict : Verdict \cup {"none"},
             reply : {"none", "NOT_PENDING", "DECIDED", "LOST"}]

FreshApproval == [pc |-> "idle", request |-> NoRequest, reply |-> "none"]
FreshDecision == [pc |-> "idle", request |-> NoRequest, verdict |-> "none",
                  reply |-> "none"]

(* The type invariant of the request layer; a call that has begun names its *)
(* request.                                                                 *)
RequestTypeOK ==
  /\ request \in [Requests -> Resolved \cup {"NONE", "PENDING"}]
  /\ approval \in [Callers -> Approval]
  /\ decision \in [Deciders -> Decision]
  /\ \A c \in Callers :
       approval[c] = FreshApproval \/ approval[c].request \in Requests
  /\ \A d \in Deciders :
       \/ decision[d] = FreshDecision
       \/ decision[d].request \in Requests /\ decision[d].verdict \in Verdict

-------------------------------------------------------------------------------
RequestInit ==
  /\ Init
  /\ request = [r \in Requests |-> "NONE"]
  /\ approval = [c \in Callers |-> FreshApproval]
  /\ decision = [d \in Deciders |-> FreshDecision]

(* The money of a request goes from the requestee to the requester.  Both   *)
(* are ACTIVE when it is created: the requester by requireAuth.             *)
Requestee(r) == Intent[ApprovalKey[r]].from
Requester(r) == Intent[ApprovalKey[r]].to

Create(r) ==
  /\ request[r] = "NONE"
  /\ {Requestee(r), Requester(r)} \subseteq active
  /\ request' = [request EXCEPT ![r] = "PENDING"]
  /\ UNCHANGED <<vars, approval, decision>>

-------------------------------------------------------------------------------
(* approve *)

OpenAnyway(r) == TRUE  \* slip: no status check before the payment
Open(r) == request[r] = "PENDING"

(* loadForActor and the status check.                                       *)
LoadForApproval(c, r) ==
  /\ approval[c].pc = "idle"
  /\ request[r] # "NONE"
  /\ approval' = [approval EXCEPT
       ![c] = IF Open(r) THEN [pc |-> "paying", request |-> r, reply |-> "none"]
              ELSE [pc |-> "done", request |-> r, reply |-> "NOT_PENDING"]]
  /\ UNCHANGED <<vars, request, decision>>

\* slip: a fresh random key for every approval
AnyKey(r) == {k \in Keys : Intent[k] = Intent[ApprovalKey[r]]}
KeysFor(r) == {ApprovalKey[r]}

(* A step of the call of execute the approval is waiting for.               *)
Pay(c) ==
  /\ approval[c].pc = "paying"
  /\ (\E k \in KeysFor(approval[c].request) : Lookup(c, k)) \/ Continue(c)
  /\ UNCHANGED requestVars

(* execute returns normally for a transfer that is still in flight, too;    *)
(* approve does not look at the status of what it got.                      *)
PaidAnyway == {"COMPLETED", "IN_FLIGHT", "FAILED", "UNCERTAIN"}  \* slip: error swallowed
TakenAsPaid == {"COMPLETED", "IN_FLIGHT"}

ApprovedFrom(s) == IF s = "PENDING" THEN "APPROVED" ELSE s

(* The UPDATE of the request.  The caller is answered APPROVED whether or   *)
(* not a row was updated.                                                   *)
Conclude(c) ==
  /\ approval[c].pc = "paying"
  /\ call[c].pc = "done"
  /\ call[c].answer \in TakenAsPaid
  /\ request' = [request EXCEPT ![approval[c].request] = ApprovedFrom(@)]
  /\ approval' = [approval EXCEPT ![c].pc = "done", ![c].reply = "APPROVED"]
  /\ UNCHANGED <<vars, decision>>

(* execute threw: the request stays as it is.                               *)
PassError(c) ==
  /\ approval[c].pc = "paying"
  /\ call[c].pc = "done"
  /\ call[c].answer \notin TakenAsPaid
  /\ approval' = [approval EXCEPT ![c].pc = "done", ![c].reply = "ERROR"]
  /\ UNCHANGED <<vars, request, decision>>

(* The server dies, or a statement fails, before, during or after execute.  *)
InterruptApproval(c) ==
  /\ approval[c].pc = "paying"
  /\ \/ Interrupt(c)
     \/ call[c].pc \in {"idle", "done"} /\ UNCHANGED vars
  /\ approval' = [approval EXCEPT ![c].pc = "done", ![c].reply = "LOST"]
  /\ UNCHANGED <<request, decision>>

-------------------------------------------------------------------------------
(* reject, cancel and the expiry sweep *)

LoadForDecision(d, r, verdict) ==
  /\ decision[d].pc = "idle"
  /\ request[r] # "NONE"
  /\ decision' = [decision EXCEPT
       ![d] = [pc |-> IF Open(r) THEN "update" ELSE "done", request |-> r,
               verdict |-> verdict,
               reply |-> IF Open(r) THEN "none" ELSE "NOT_PENDING"]]
  /\ UNCHANGED <<vars, request, approval>>

DecidableAnyway(r) == TRUE  \* slip: no AND status = 'PENDING'
Decidable(r) == request[r] = "PENDING"

(* UPDATE ... WHERE status = 'PENDING'; no row means "not pending".         *)
Decide(d) ==
  LET r == decision[d].request IN
  /\ decision[d].pc = "update"
  /\ \/ /\ Decidable(r)
        /\ request' = [request EXCEPT ![r] = decision[d].verdict]
        /\ decision' = [decision EXCEPT ![d].pc = "done", ![d].reply = "DECIDED"]
     \/ /\ ~Decidable(r)
        /\ decision' = [decision EXCEPT ![d].pc = "done", ![d].reply = "NOT_PENDING"]
        /\ UNCHANGED request
  /\ UNCHANGED <<vars, approval>>

InterruptDecision(d) ==
  /\ decision[d].pc = "update"
  /\ decision' = [decision EXCEPT ![d].pc = "done", ![d].reply = "LOST"]
  /\ UNCHANGED <<vars, request, approval>>

(* One UPDATE of every PENDING request that is overdue by now.              *)
ExpireStale ==
  \E overdue \in SUBSET {r \in Requests : request[r] = "PENDING"} :
    /\ overdue # {}
    /\ request' = [r \in Requests |-> IF r \in overdue THEN "EXPIRED" ELSE request[r]]
    /\ UNCHANGED <<vars, approval, decision>>

-------------------------------------------------------------------------------
(* The engine's steps that need no approval: accounts and verify.           *)
EngineStep ==
  /\ \/ \E u \in Users : Activate(u)
     \/ \E v \in Verifiers : ProbeNext(v)
  /\ UNCHANGED requestVars

RequestNext ==
  \/ EngineStep
  \/ \E r \in Requests : Create(r)
  \/ \E c \in Callers :
       \/ \E r \in Requests : LoadForApproval(c, r)
       \/ Pay(c) \/ Conclude(c) \/ PassError(c) \/ InterruptApproval(c)
  \/ \E d \in Deciders :
       \/ \E r \in Requests, verdict \in Verdict : LoadForDecision(d, r, verdict)
       \/ Decide(d) \/ InterruptDecision(d)
  \/ ExpireStale

RequestSpec == RequestInit /\ [][RequestNext]_allVars

(* The event loop resumes an approval whenever a statement is answered.     *)
RequestFairSpec ==
  /\ RequestSpec
  /\ \A c \in Callers : WF_allVars(Pay(c) \/ Conclude(c) \/ PassError(c))

-------------------------------------------------------------------------------
(* Safety *)

(* The debits of the requestee for a request, under whatever keys its       *)
(* approvals used.                                                          *)
PaymentsOf(r) ==
  UNION {Debits(call[c].key) :
           c \in {d \in Callers : approval[d].request = r /\ call[d].pc # "idle"}}

(* "approving twice (retry or double-click) moves money once" (comment in   *)
(* approve): however many approvals race, fail, die and are repeated, a     *)
(* request is paid at most once, as long as nobody runs verify on its       *)
(* transfer.                                                                *)
RequestPaidOnce ==
  Verifiers = {} => \A r \in Requests : \A i, j \in PaymentsOf(r) : i = j

(* Whoever was told DECIDED decided: the request has that verdict, whatever *)
(* approvals, other deciders and sweeps were under way.                     *)
DecisionStands ==
  \A d \in Deciders : decision[d].reply = "DECIDED" =>
    request[decision[d].request] = decision[d].verdict

(* The only way for a request to be APPROVED without money moving is an     *)
(* approval that stopped waiting for a transfer in flight.                  *)
ApprovedMeansPaid ==
  \A r \in Requests :
    request[r] = "APPROVED" =>
      \/ Moved(ApprovalKey[r])
      \/ \E c \in Callers : approval[c].request = r /\ call[c].answer = "IN_FLIGHT"

(* Action properties *)

(* PENDING is left once, for one of the four verdicts (PRD, Feature 4), by  *)
(* whichever of approve, reject, cancel and the sweep commits first.        *)
ResolutionIsFinal ==
  [][\A r \in Requests : request[r] \in Resolved => request'[r] = request[r]]_request

(* Only an approval already under way when a request is resolved can still  *)
(* pay for it: once it is resolved and no approval of it is under way, its  *)
(* money stays where it is.                                                 *)
Quiet(r) ==
  /\ request[r] \in Resolved
  /\ \A c \in Callers : approval[c].request = r => approval[c].pc # "paying"

ResolvedRequestsStayUnpaid ==
  [][\A r \in Requests : Quiet(r) =>
       Quiet(r)' /\ Debits(ApprovalKey[r])' = Debits(ApprovalKey[r])]_allVars

(* Liveness *)

(* Every approval is answered, even when it waits for a transfer row that   *)
(* an earlier approval abandoned in flight.                                 *)
EveryApprovalAnswered ==
  \A c \in Callers : approval[c].pc = "paying" ~> approval[c].pc = "done"

-------------------------------------------------------------------------------
(* The status of a request is the truth for its decider and its payer: a    *)
(* DECIDED verdict stands, APPROVED stands for money moved or in flight.    *)
StatusIsTrue == RequestTypeOK /\ DecisionStands /\ ApprovedMeansPaid
===============================================================================
