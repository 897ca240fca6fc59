----------------------------- MODULE McpGateway -----------------------------
(***************************************************************************)
(* The MCP gateway: tool calls of agents, checked against their token,     *)
(* the revocation list and, for destructive tools, a single-use human      *)
(* approval that expires; then executed.  Handlers run concurrently; an    *)
(* action is the code up to the next lock or await.  A payload digest is   *)
(* modelled by the tool and its arguments.                                 *)
(***************************************************************************)
EXTENDS Naturals, FiniteSets, TLC

CONSTANTS Handler,          (* requests served at the same time *)
          GatewayCall,      (* tool calls that may arrive *)
          ApprovalTtl,      (* APPROVAL_TTL_HOURS *)
          MaxGrants,        (* bound on approvals created *)
          MaxCalls,         (* bound on calls that pass the token check *)
          Revocable,        (* token ids and sessions that may be revoked *)
          MaxHour,          (* bound on the hours that pass *)
          GatewayFaults     (* bound on failing calls to the memory service *)

ToolName == {"repo.diff.read", "repo.diff.write", "repo.merge.execute", "memory::query",
             "memory::context_pack", "memory::write", "memory::delete"}

(* A ToolCallRequest with the claims of its token, and what the checks     *)
(* find: the headers there, the signature good, the arguments parsing.     *)
IsToolCallRequest(c) ==
    /\ DOMAIN c = {"tool", "args", "parses", "headers", "signed", "claims"}
    /\ c.tool \in ToolName /\ {c.parses, c.headers, c.signed} \subseteq BOOLEAN
    /\ DOMAIN c.claims = {"run", "scopes", "max", "jti", "session"}

ASSUME GatewayAssumption ==
    /\ \A c \in GatewayCall : IsToolCallRequest(c)
    /\ ApprovalTtl \in Nat /\ MaxGrants \in Nat /\ MaxCalls \in Nat /\ MaxHour \in Nat

NoApproval == 0

VARIABLES backend,      (* how memory tools choose their store *)
          approvals,    (* approval id -> grant *)
          authority,    (* authority records minted *)
          audit,        (* outcomes of the policy decisions recorded *)
          revoked,      (* revoked token ids and sessions *)
          gatewayHour,
          handler,      (* what each handler is doing *)
          localMemory, momMemory,  (* memories in the process, and at the Mom service *)
          calls, gfaults

gatewayVars == <<backend, approvals, authority, audit, revoked, gatewayHour, handler,
                 localMemory, momMemory, calls, gfaults>>

(* BackendSelector::from_env and MomBackendConfig::from_env.               *)
Backend == [selector : {"LocalOnly", "MomPrimary", "SurrealPrimary"}, mom : BOOLEAN]

Unstarted == [selector |-> "none", mom |-> FALSE]

IdleHandler == [pc |-> "idle"]

GatewayInit ==
    /\ backend = Unstarted
    /\ approvals = <<>> /\ authority = {} /\ audit = {}
    /\ revoked = {} /\ gatewayHour = 0
    /\ handler = [h \in Handler |-> IdleHandler]
    /\ localMemory = {} /\ momMemory = {} /\ calls = 0 /\ gfaults = 0

GatewayStart ==
    /\ backend = Unstarted /\ backend' \in Backend
    /\ UNCHANGED <<approvals, authority, audit, revoked, gatewayHour, handler,
                   localMemory, momMemory, calls, gfaults>>

-----------------------------------------------------------------------------
(* The risk of each tool and the scope it needs.                           *)
ToolRisk ==
    [t \in {"repo.diff.read", "memory::query", "memory::context_pack"} |-> "read"]
      @@ [t \in {"repo.diff.write", "memory::write"} |-> "write"]
      @@ [t \in {"repo.merge.execute", "memory::delete"} |-> "destructive"]

RequiredScope(tool) ==
    CASE tool = "memory::write" -> "memory.write"
      [] tool \in {"memory::query", "memory::context_pack"} -> "memory.read"
      [] tool = "memory::delete" -> "memory.delete"
      [] OTHER -> tool

ExceedsMaxRisk(risk, max) ==
    CASE risk = "read" -> FALSE
      [] risk = "write" -> max = "read"
      [] risk = "destructive" -> max # "write"

(* validate_auth: headers, the session, the signature, the token id.       *)
Authenticated(c) ==
    /\ c.headers /\ c.signed
    /\ c.claims.session \notin revoked /\ c.claims.jti \notin revoked

Permitted(c) ==
    /\ c.tool \in DOMAIN ToolRisk
    /\ RequiredScope(c.tool) \in c.claims.scopes
    /\ ~ExceedsMaxRisk(ToolRisk[c.tool], c.claims.max)

(* call_tool, up to the lock on the approvals; a call that is refused is   *)
(* answered and leaves nothing behind.                                     *)
CallTool(h, c) ==
    /\ backend # Unstarted /\ handler[h] = IdleHandler
    /\ calls < MaxCalls /\ calls' = calls + 1
    /\ Authenticated(c) /\ Permitted(c)
    /\ handler' = [handler EXCEPT ![h] =
           [pc |-> IF ToolRisk[c.tool] = "destructive" THEN "approval" ELSE "mint",
            call |-> c, approval |-> NoApproval, at |-> gatewayHour]]
    /\ UNCHANGED <<backend, approvals, authority, audit, revoked, gatewayHour,
                   localMemory, momMemory, gfaults>>

(* The grant a call needs: run stands for the run and its task.            *)
Grant(c) ==
    [run |-> c.claims.run, action |-> c.tool, payload |-> c.args]

Matching(c) == {a \in DOMAIN approvals : approvals[a].grant = Grant(c)}

Fresh(a) == ~approvals[a].used /\ gatewayHour - approvals[a].created <= ApprovalTtl

(* Why no approval counts: the status of any matching one.                 *)
StaleStatus(c) ==
    {IF approvals[a].used THEN "consumed" ELSE "expired" : a \in Matching(c)}

Escalate(h, c) ==
    /\ \A a \in Matching(c) : ~Fresh(a)
    /\ \E o \in IF Matching(c) = {} THEN {"escalated"} ELSE StaleStatus(c) :
          audit' = audit \cup {o}
    /\ handler' = [handler EXCEPT ![h] = IdleHandler]
    /\ UNCHANGED <<backend, approvals, authority, revoked, gatewayHour, localMemory, momMemory, calls, gfaults>>

(* A fresh approval is found and consumed under one lock.  A plausible bug *)
(* leaves it unused until the tool has run.                                *)
ConsumeNothing(h, a) ==
    /\ handler' = [handler EXCEPT ![h].pc = "mint", ![h].approval = a, ![h].at = gatewayHour]
    /\ UNCHANGED approvals

Consume(h, a) ==
    /\ approvals' = [approvals EXCEPT ![a].used = TRUE]
    /\ handler' = [handler EXCEPT ![h].pc = "mint", ![h].approval = a, ![h].at = gatewayHour]

TakeApproval(h) ==
    /\ handler[h].pc = "approval"
    /\ \/ Escalate(h, handler[h].call)
       \/ \E a \in Matching(handler[h].call) :
             /\ Fresh(a) /\ Consume(h, a)
             /\ UNCHANGED <<backend, authority, audit, revoked, gatewayHour,
                            localMemory, momMemory, calls, gfaults>>

(* The authority record is stored as "executed" before the tool runs.      *)
MintAuthority(h) ==
    /\ handler[h].pc = "mint"
    /\ authority' = authority \cup
          {[id |-> Cardinality(authority) + 1, tool |-> handler[h].call.tool,
            grant |-> Grant(handler[h].call), approval |-> handler[h].approval, at |-> handler[h].at]}
    /\ audit' = audit \cup {"allowed"}
    /\ handler' = [handler EXCEPT ![h].pc = "execute"]
    /\ UNCHANGED <<backend, approvals, revoked, gatewayHour, localMemory, momMemory, calls, gfaults>>

-----------------------------------------------------------------------------
(* Memory tools: a query and a context pack only read.  The local store    *)
(* cannot fail, except that it does not find what to delete.               *)
Applied(tool, m, store) ==
    CASE tool = "memory::write"  -> store \cup {m}
      [] tool = "memory::delete" -> store \ {m}
      [] OTHER                   -> store

LocalFails(tool, m) == tool = "memory::delete" /\ m \notin localMemory

LocalStep(tool, m) ==
    /\ localMemory' = Applied(tool, m, localMemory) /\ UNCHANGED <<momMemory, gfaults>>

(* The Mom service answers, or the request or its answer is lost.          *)
MomStep(tool, m) ==
    /\ momMemory' = Applied(tool, m, momMemory) /\ UNCHANGED <<localMemory, gfaults>>

MomLost(tool, m, local) ==
    /\ gfaults < GatewayFaults /\ gfaults' = gfaults + 1
    /\ momMemory' \in {momMemory, Applied(tool, m, momMemory)}
    /\ localMemory' = local

(* The hybrid_memory_ functions: the primary, and the other store when the *)
(* primary fails.                                                          *)
HybridMemory(tool, m) ==
    LET momFirst == backend.selector = "MomPrimary" /\ backend.mom
        momNext  == backend.selector = "SurrealPrimary" /\ backend.mom /\ LocalFails(tool, m)
    IN  \/ momFirst /\ (MomStep(tool, m) \/ MomLost(tool, m, Applied(tool, m, localMemory)))
        \/ momNext /\ (MomStep(tool, m) \/ MomLost(tool, m, localMemory))
        \/ ~momFirst /\ ~momNext /\ LocalStep(tool, m)

(* Arguments that do not parse are refused only here, after the approval   *)
(* was consumed; the repository tools are placeholders.                    *)
ExecuteTool(h) ==
    /\ handler[h].pc = "execute"
    /\ LET c == handler[h].call
       IN  IF c.tool \notin {"repo.diff.read", "repo.diff.write", "repo.merge.execute"} /\ c.parses
           THEN HybridMemory(c.tool, c.args)
           ELSE UNCHANGED <<localMemory, momMemory, gfaults>>
    /\ handler' = [handler EXCEPT ![h] = IdleHandler]
    /\ UNCHANGED <<backend, approvals, authority, audit, revoked, gatewayHour, calls>>

(* create_approval and revoke_token are open to any caller.                *)
CreateApproval(g) ==
    /\ backend # Unstarted /\ Cardinality(DOMAIN approvals) < MaxGrants
    /\ LET k == Cardinality(DOMAIN approvals) + 1
       IN  approvals' = [a \in DOMAIN approvals \cup {k} |->
               IF a \in DOMAIN approvals THEN approvals[a]
               ELSE [grant |-> g, created |-> gatewayHour, used |-> FALSE]]
    /\ UNCHANGED <<backend, authority, audit, revoked, gatewayHour, handler, localMemory, momMemory, calls, gfaults>>

RevokeToken(t) ==
    /\ backend # Unstarted /\ t \notin revoked
    /\ revoked' = revoked \cup {t}
    /\ UNCHANGED <<backend, approvals, authority, audit, gatewayHour, handler, localMemory, momMemory, calls, gfaults>>

HourPasses ==
    /\ backend # Unstarted /\ gatewayHour < MaxHour /\ gatewayHour' = gatewayHour + 1
    /\ UNCHANGED <<backend, approvals, authority, audit, revoked, handler,
                   localMemory, momMemory, calls, gfaults>>

GatewayNext ==
    \/ GatewayStart \/ HourPasses
    \/ \E c \in GatewayCall : ToolRisk[c.tool] = "destructive" /\ CreateApproval(Grant(c))
    \/ \E t \in Revocable : RevokeToken(t)
    \/ \E h \in Handler :
         \/ TakeApproval(h) \/ MintAuthority(h) \/ ExecuteTool(h)
         \/ \E c \in GatewayCall : CallTool(h, c)

GatewaySpec == GatewayInit /\ [][GatewayNext]_gatewayVars

-----------------------------------------------------------------------------
Grants == {Grant(c) : c \in GatewayCall}

AuthorityRecord ==
    [id : 1 .. MaxCalls, tool : ToolName, grant : Grants, approval : 0 .. MaxGrants,
     at : 0 .. MaxHour]

HumanApproval == [grant : Grants, created : 0 .. MaxHour, used : BOOLEAN]

(* The records of GatewayState.                                            *)
GatewayTypeOK ==
    /\ backend \in Backend \cup {Unstarted}
    /\ authority \subseteq AuthorityRecord
    /\ \A a \in DOMAIN approvals : approvals[a] \in HumanApproval
    /\ \A q, r \in authority : q.id = r.id => q = r
    /\ audit \subseteq {"allowed", "escalated", "consumed", "expired"}
    /\ revoked \subseteq Revocable
    /\ gatewayHour \in 0 .. MaxHour /\ calls \in 0 .. MaxCalls
    /\ gfaults \in 0 .. GatewayFaults

(* However calls and approvals interleave, every destructive execution     *)
(* rests on an approval of its own for exactly this run, tool and payload, *)
(* given at most ApprovalTtl hours before it was taken; so a payload is    *)
(* executed at most as often as it was approved.                           *)
DestructiveApproved ==
    \A r \in authority : ToolRisk[r.tool] = "destructive" =>
        /\ r.approval \in DOMAIN approvals
        /\ approvals[r.approval].grant = r.grant
        /\ r.at - approvals[r.approval].created \in 0 .. ApprovalTtl
        /\ \A q \in authority : q.approval = r.approval => q = r

=============================================================================
