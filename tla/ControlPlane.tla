----------------------------- MODULE ControlPlane -----------------------------
(***************************************************************************)
(* Requests to the replicas of ServerStart: the role-checking middleware   *)
(* (api/auth.go), the handlers of scenarios and tokens (api/scenarios.go,  *)
(* api/tokens.go) and the JSON-RPC endpoint (mcp/mcp.go).                  *)
(*                                                                         *)
(* The middleware looks the token up once; the handler acts later, a batch *)
(* on /mcp call by call, while tokens are revoked and replicas restart.    *)
(***************************************************************************)
EXTENDS ServerStart

CONSTANTS
    Requests,       \* bound: requests, each sent at most once; a request that
                    \* issues a token names the secret it gets
    Asks,           \* request -> what it may be: [server, secret, call]
    Invalid,        \* documents scenario.ValidateYAML refuses
    Workers         \* ids of registered workers

\* A call speaks of names and documents that there are.
WellFormed(c) ==
    /\ c.kind \in {"create", "update", "get", "issue", "revoke", "mcp"}
    /\ c.kind \in {"create", "update"} => c.doc \in Docs
    /\ c.kind = "create" => c.dry \in BOOLEAN
    /\ c.kind = "update" => c.name \in Names \cup {NoName}
    /\ c.kind = "get" => c.name \in Names
    /\ c.kind = "mcp" =>
           /\ c.batch \in Seq(Range(c.batch))
           /\ \A t \in Range(c.batch) :
                  /\ t.id \in BOOLEAN
                  /\ t.tool = "upsert_scenario" => t.name \in Names /\ t.doc \in Docs
                  /\ t.tool = "assign_scenario" => t.name \in Names

ASSUME ControlPlaneAssumption ==
    /\ Requests \subseteq Secrets
    /\ Unparsable \subseteq Invalid /\ Invalid \subseteq Docs
    /\ \A r \in Requests : \A ask \in Asks[r] :
           ask.server \in Servers /\ ask.secret \in Secrets \cup {NoSecret} /\ WellFormed(ask.call)

VARIABLES
    auth,       \* --require-auth
    req,        \* request -> [pc, server, secret, role, call, i]
    answers,    \* request -> outcomes sent back, in order
    made,       \* history: request -> the changes it made to the database
    held,       \* history: request -> roles its secret had since it arrived
    assigned    \* table assignments

reqVars == <<auth, req, answers, made, held, assigned>>
allVars == <<vars, reqVars>>

NoRole  == "none"
Idle    == [pc |-> "idle", server |-> CHOOSE s \in Servers : TRUE, secret |-> NoSecret,
            role |-> NoRole, call |-> [kind |-> "none"], i |-> 1]

\* roleRank; a role it does not list ranks 0.
Rank(role) == CASE role = "viewer" -> 1 [] role = "worker" -> 2
                [] role = "editor" -> 3 [] role = "admin" -> 4 [] OTHER -> 0

\* Server.routes: the group each route is mounted in.
Needs(kind) == CASE kind \in {"get", "mcp"}       -> "viewer"
                 [] kind \in {"create", "update"} -> "editor"
                 [] kind \in {"issue", "revoke"}  -> "admin"

Call(r)  == req[r].call
In(r, pc, kinds) == req[r].pc = pc /\ Call(r).kind \in kinds

Answer(r, a) ==
    /\ answers' = [answers EXCEPT ![r] = Append(@, a)]
    /\ req' = [req EXCEPT ![r].pc = "done"]

Makes(r, what) == made' = [made EXCEPT ![r] = Append(@, what)]

RoleOf(toks, k) == IF k \in DOMAIN toks THEN {toks[k].role} ELSE {}

\* Bookkeeping of every step: the roles a waiting request's secret has had.
Witness == held' = [r \in Requests |->
    CASE req[r].pc = "idle" /\ req'[r].pc # "idle" -> RoleOf(tokens, req'[r].secret)
      [] req[r].pc = "arrived" -> held[r] \cup RoleOf(tokens', req[r].secret)
      [] OTHER -> held[r]]
-----------------------------------------------------------------------------
(* RequireRole                                                             *)

\* An issued secret is known once its answer was sent.
Known(k) == k \in Requests => answers[k] # <<>> /\ answers[k][1] = "ok"

Arrive(r) ==
    /\ req[r].pc = "idle"
    /\ \E ask \in Asks[r] :
         /\ phase[ask.server] = "serving" /\ Known(ask.secret)
         /\ req' = [req EXCEPT ![r] = [pc |-> "arrived", server |-> ask.server, role |-> NoRole,
                                       secret |-> ask.secret, call |-> ask.call, i |-> 1]]
    /\ UNCHANGED <<vars, answers, made, assigned>>

\* LookupToken reads the row of the secret's digest, if there is one.
LookupRole(k) == IF k \in DOMAIN tokens THEN tokens[k].role ELSE NoRole

\* maybeRequire and RequireRole.  Without auth nothing is looked up.
Admit(r) ==
    /\ req[r].pc = "arrived"
    /\ IF auth
       THEN /\ Rank(LookupRole(req[r].secret)) >= Rank(Needs(Call(r).kind))
            /\ req' = [req EXCEPT ![r].pc = "handle", ![r].role = LookupRole(req[r].secret)]
       ELSE req' = [req EXCEPT ![r].pc = "handle"]
    /\ UNCHANGED <<vars, answers, made, assigned>>

\* 401 without a token that has a row, 403 with one that ranks too low.
Reject(r) ==
    /\ req[r].pc = "arrived" /\ auth
    /\ Rank(LookupRole(req[r].secret)) < Rank(Needs(Call(r).kind))
    /\ Answer(r, "denied")
    /\ UNCHANGED <<vars, made, assigned>>

\* Any error of the lookup is a 401 too.
LookupErrs(r) ==
    /\ req[r].pc = "arrived" /\ auth /\ req[r].secret # NoSecret
    /\ Fault
    /\ Answer(r, "denied")
    /\ UNCHANGED <<startVars, dbVars, demo, made, assigned>>
-----------------------------------------------------------------------------
(* Scenarios                                                               *)

\* createScenario takes the name from the document, updateScenario from the path.
SaveName(c) == IF c.kind = "create" THEN NameOf[c.doc] ELSE c.name

Acceptable(c) == c.doc \notin Invalid /\ SaveName(c) # NoName

Dry(c) == c.kind = "create" /\ c.dry

SaveScenario(r) ==
    /\ In(r, "handle", {"create", "update"})
    /\ LET c == Call(r)
       IN  \/ /\ ~Acceptable(c) /\ Answer(r, "refused")
              /\ UNCHANGED <<catalog, saved, made>>
           \/ /\ Acceptable(c) /\ Dry(c) /\ Answer(r, "dry")
              /\ UNCHANGED <<catalog, saved, made>>
           \/ /\ Acceptable(c) /\ ~Dry(c) /\ Answer(r, "ok")
              /\ Upsert(SaveName(c), c.doc) /\ Makes(r, "scenario")
    /\ UNCHANGED <<startVars, tokens, lastId, demo, faults, assigned>>

\* The statement fails, or it is executed and its result is lost: 500.
SaveErrs(r) ==
    /\ In(r, "handle", {"create", "update"})
    /\ Acceptable(Call(r)) /\ ~Dry(Call(r))
    /\ Fault
    /\ Answer(r, "failed")
    /\ \/ UNCHANGED <<catalog, saved, made>>
       \/ Upsert(SaveName(Call(r)), Call(r).doc) /\ Makes(r, "scenario")
    /\ UNCHANGED <<startVars, tokens, lastId, demo, assigned>>

GetScenario(r) ==
    /\ In(r, "handle", {"get"})
    /\ LET n == Call(r).name
       IN  \/ /\ Stored(n) /\ Answer(r, "read")
              /\ saved' = saved \cup {[name |-> n, version |-> catalog[n].version,
                                       doc |-> catalog[n].doc]}
           \/ ~Stored(n) /\ Answer(r, "missing") /\ UNCHANGED saved
    /\ UNCHANGED <<startVars, tokens, lastId, catalog, demo, faults, made, assigned>>
-----------------------------------------------------------------------------
(* Tokens                                                                  *)

\* Plausible bug: the role of the body is not checked.
IssueAnyRole(r) ==
    /\ In(r, "handle", {"issue"})
    /\ Answer(r, "ok") /\ Issue(r, Call(r).role) /\ Makes(r, "token")
    /\ UNCHANGED <<startVars, catalog, saved, demo, faults, assigned>>

\* A random secret and a random id, shown in this answer and never again.
IssueToken(r) ==
    /\ In(r, "handle", {"issue"})
    /\ Call(r).role \in Roles /\ Answer(r, "ok") /\ Issue(r, Call(r).role) /\ Makes(r, "token")
    /\ UNCHANGED <<startVars, catalog, saved, demo, faults, assigned>>

\* validRole.
IssueRefused(r) ==
    /\ In(r, "handle", {"issue"})
    /\ Call(r).role \notin Roles /\ Answer(r, "refused")
    /\ UNCHANGED <<vars, made, assigned>>

Rows(id) == {k \in DOMAIN tokens : tokens[k].id = id}

\* DELETE by id: how many rows it took tells whether there was one.
DropToken(id) ==
    /\ Rows(id) # {}
    /\ tokens' = [k \in DOMAIN tokens \ Rows(id) |-> tokens[k]]

\* A bootstrap secret comes back, under a new id, with the next start of a
\* replica that is configured with it.
RevokeToken(r) ==
    /\ In(r, "handle", {"revoke"})
    /\ \/ DropToken(Call(r).id) /\ Answer(r, "ok") /\ Makes(r, "token")
       \/ Rows(Call(r).id) = {} /\ Answer(r, "missing") /\ UNCHANGED <<tokens, made>>
    /\ UNCHANGED <<startVars, lastId, catalog, saved, demo, faults, assigned>>

\* The statement fails, or it is executed and its result is lost: a 500 may
\* hide a revoked token, or an issued one whose secret nobody will ever see.
TokenErrs(r) ==
    /\ In(r, "handle", {"issue", "revoke"})
    /\ Call(r).kind = "issue" => Call(r).role \in Roles
    /\ Fault
    /\ Answer(r, "failed")
    /\ \/ UNCHANGED <<tokens, lastId, made>>
       \/ Call(r).kind = "issue" /\ Issue(r, Call(r).role) /\ Makes(r, "token")
       \/ Call(r).kind = "revoke" /\ DropToken(Call(r).id) /\ Makes(r, "token") /\ UNCHANGED lastId
    /\ UNCHANGED <<startVars, catalog, saved, demo, assigned>>
-----------------------------------------------------------------------------
(* POST /mcp: a batch, or one request as a batch of one                    *)

Tool(r) == Call(r).batch[req[r].i]
WriteTools == {"upsert_scenario", "assign_scenario"}

\* Plausible bug: whoever may post to /mcp may write.
AnyoneMayWrite(r) == TRUE

\* mcpWritePolicy: a role in the context, so never without auth.
MayWrite(r) == req[r].role \in {"editor", "admin"}

\* isNotification: no id, no answer; what the call does it does all the same.
Replies(r, outcome) ==
    /\ answers' = [answers EXCEPT ![r] = IF Tool(r).id THEN Append(@, outcome) ELSE @]
    /\ req' = [req EXCEPT ![r].i = @ + 1]

Dispatches(r) == In(r, "handle", {"mcp"}) /\ req[r].i \in DOMAIN Call(r).batch

\* initialize, tools/list and the read tools; an unknown method or tool.  That
\* a read fails (-32603, changing nothing) is left out.
McpRead(r) ==
    /\ Dispatches(r) /\ Tool(r).tool \notin WriteTools
    /\ Replies(r, IF Tool(r).tool = "read" THEN "read" ELSE "refused")
    /\ UNCHANGED <<vars, made, assigned>>

\* Plausible bug: the policy's error becomes a tool result with isError false.
McpDeniedQuietly(r) ==
    /\ Dispatches(r) /\ Tool(r).tool \in WriteTools
    /\ ~MayWrite(r) /\ Replies(r, "ok")
    /\ UNCHANGED <<vars, made, assigned>>

\* -32604; the rest of the batch is dispatched all the same.
McpDenied(r) ==
    /\ Dispatches(r) /\ Tool(r).tool \in WriteTools
    /\ ~MayWrite(r) /\ Replies(r, "denied")
    /\ UNCHANGED <<vars, made, assigned>>

\* upsert_scenario neither parses nor validates the document.
McpUpsert(r) ==
    /\ Dispatches(r) /\ Tool(r).tool = "upsert_scenario" /\ MayWrite(r)
    /\ Replies(r, "ok") /\ Upsert(Tool(r).name, Tool(r).doc) /\ Makes(r, "scenario")
    /\ UNCHANGED <<startVars, tokens, lastId, demo, faults, assigned>>

\* AssignScenario looks for the scenario, then for the worker, then inserts.
Assignable(t) == Stored(t.name) /\ t.worker \in Workers

Assign(t) == Assignable(t) /\ assigned' = assigned \cup {<<t.worker, t.name>>}

McpAssign(r) ==
    /\ Dispatches(r) /\ Tool(r).tool = "assign_scenario" /\ MayWrite(r)
    /\ \/ Assign(Tool(r)) /\ Replies(r, "ok") /\ Makes(r, "assignment")
       \/ ~Assignable(Tool(r)) /\ Replies(r, "missing") /\ UNCHANGED <<made, assigned>>
    /\ UNCHANGED vars

\* -32603, before the statement was executed or after.
McpErrs(r) ==
    /\ Dispatches(r) /\ Tool(r).tool \in WriteTools /\ MayWrite(r)
    /\ Fault
    /\ Replies(r, "failed")
    /\ \/ UNCHANGED <<catalog, saved, made, assigned>>
       \/ /\ Tool(r).tool = "upsert_scenario" /\ Upsert(Tool(r).name, Tool(r).doc)
          /\ Makes(r, "scenario") /\ UNCHANGED assigned
       \/ /\ Tool(r).tool = "assign_scenario" /\ Assign(Tool(r))
          /\ Makes(r, "assignment") /\ UNCHANGED <<catalog, saved>>
    /\ UNCHANGED <<startVars, tokens, lastId, demo>>

\* The batch is answered as a whole; an empty one with an error.
McpEnds(r) ==
    /\ In(r, "handle", {"mcp"}) /\ req[r].i > Len(Call(r).batch)
    /\ req' = [req EXCEPT ![r].pc = "done"]
    /\ answers' = IF Call(r).batch = <<>> THEN [answers EXCEPT ![r] = <<"refused">>] ELSE answers
    /\ UNCHANGED <<vars, made, assigned>>
-----------------------------------------------------------------------------
\* The connections of a process that ends are lost with it.
Lost == [r \in Requests |->
    IF req[r].pc \in {"arrived", "handle"} /\ phase'[req[r].server] # "serving"
    THEN [req[r] EXCEPT !.pc = "lost"] ELSE req[r]]

ServerStep(s) ==
    /\ StartStep(s) \/ StartFault(s)
    /\ req' = Lost
    /\ UNCHANGED <<answers, made, assigned>>

Handler(r) ==
    \/ Admit(r) \/ Reject(r) \/ LookupErrs(r)
    \/ SaveScenario(r) \/ SaveErrs(r) \/ GetScenario(r)
    \/ IssueToken(r) \/ IssueRefused(r) \/ RevokeToken(r) \/ TokenErrs(r)
    \/ McpRead(r) \/ McpDenied(r) \/ McpUpsert(r) \/ McpAssign(r) \/ McpErrs(r) \/ McpEnds(r)

ControlPlaneNext ==
    /\ \/ \E s \in Servers : ServerStep(s)
       \/ \E r \in Requests : Arrive(r) \/ Handler(r)
    /\ Witness /\ UNCHANGED auth

\* Bound: after a cold start no request is sent.
ControlPlaneInit ==
    /\ StartInit
    /\ auth \in BOOLEAN
    /\ req = [r \in Requests |-> IF applied = {} THEN [Idle EXCEPT !.pc = "lost"] ELSE Idle]
    /\ answers = [r \in Requests |-> <<>>] /\ made = [r \in Requests |-> <<>>]
    /\ held = [r \in Requests |-> {}] /\ assigned = {}

ControlPlaneSpec == ControlPlaneInit /\ [][ControlPlaneNext]_allVars

\* A replica that is down is started again (restartPolicy of its Deployment),
\* and a process that starts goes on starting.
StartFairness == \A s \in Servers : WF_allVars(StartStep(s) /\ req' = Lost /\ Witness
                                               /\ UNCHANGED <<auth, answers, made, assigned>>)
-----------------------------------------------------------------------------
(* Properties                                                              *)

Outcomes == {"ok", "read", "dry", "denied", "refused", "missing", "failed"}

Changes  == {"scenario", "token", "assignment"}

RequestType == [pc : {"idle", "arrived", "handle", "done", "lost"}, server : Servers \cup {Idle.server},
                secret : Secrets \cup {NoSecret}, role : Roles \cup {NoRole},
                call : {a.call : a \in UNION {Asks[r] : r \in Requests}} \cup {Idle.call}, i : Nat]

RequestTypeOK ==
    /\ auth \in BOOLEAN /\ req \in [Requests -> RequestType]
    /\ answers \in [Requests -> Seq(Outcomes)] /\ made \in [Requests -> Seq(Changes)]
    /\ held \in [Requests -> SUBSET Roles]
    /\ \A k \in DOMAIN tokens : tokens[k].role \in Roles

ControlPlaneTypeOK == StartTypeOK /\ RequestTypeOK /\ assigned \subseteq Workers \X Names

\* What a change to the database takes, whichever way it was asked for.
Privilege(what) == IF what = "token" THEN "admin" ELSE "editor"

Authorised(r) == \A i \in DOMAIN made[r] :
    IF auth THEN \E role \in held[r] : Rank(role) >= Rank(Privilege(made[r][i]))
            ELSE Call(r).kind # "mcp"

\* Every change was asked for with a token that, at some moment after the
\* request had arrived, was in the table with a role that allows it: no
\* replica acts on a token that was revoked before, no batch on /mcp or
\* restart lifts a worker or a viewer, and with auth off /mcp changes nothing.
ChangesAuthorised == \A r \in Requests : Authorised(r)

\* The calls of a request, one unless it is a batch.
WritesOf(r) ==
    IF Call(r).kind = "mcp" THEN {i \in DOMAIN Call(r).batch : Call(r).batch[i].tool \in WriteTools}
    ELSE IF Call(r).kind = "get" THEN {} ELSE {1}

Silent(r) == IF Call(r).kind = "mcp" THEN {i \in WritesOf(r) : ~Call(r).batch[i].id} ELSE {}

Count(r, outcomes) == Cardinality({i \in DOMAIN answers[r] : answers[r][i] \in outcomes})

\* A request has made at least the changes it has said "ok" to, and no more than
\* it has said "ok" or "failed" to, or was silent about.
Balanced(r, silent) ==
    /\ Count(r, {"ok"}) <= Len(made[r])
    /\ Len(made[r]) <= Count(r, {"ok", "failed"}) + Cardinality(silent)

\* A client can trust its answers: as many changes as its writes were told
\* "ok", and more only where an answer said 500 or none was asked for, even
\* when a later call of the batch was refused or its token was revoked.
AnswersTellTheTruth ==
    \A r \in Requests : req[r].pc = "done" /\ WritesOf(r) # {} => Balanced(r, Silent(r))

\* A name and a version stand for one document: no two clients were shown
\* different documents under the same version, and nobody was shown a version
\* the table has not reached.
VersionNamesOneDocument ==
    /\ \A a, b \in saved : a.name = b.name /\ a.version = b.version => a.doc = b.doc
    /\ \A a \in saved :
           /\ a.version <= catalog[a.name].version
           /\ a.version = catalog[a.name].version => a.doc = catalog[a.name].doc

CatalogInv ==
    /\ catalog \in [Names -> [version : Nat, doc : Docs \cup {NoDoc}]]
    /\ saved \subseteq [name : Names, version : Nat, doc : Docs \cup {NoDoc}]
    /\ VersionNamesOneDocument

\* Why: a handler runs with a role its token had when it was looked up, of the
\* rank its route needs, and without auth with none.
RoleInv(r) ==
    /\ req[r].pc \in {"arrived", "handle"} => WellFormed(Call(r))
    /\ req[r].pc \in {"idle", "arrived"} => made[r] = <<>>
    /\ req[r].pc = "handle" /\ auth =>
           req[r].role \in held[r] /\ Rank(req[r].role) >= Rank(Needs(Call(r).kind))
    /\ ~auth => req[r].role = NoRole

\* Why: the balance holds call by call.
AnswerInv(r) ==
    /\ req[r].pc \in {"idle", "arrived"} => req[r].i = 1 /\ answers[r] = <<>>
    /\ req[r].pc = "handle" =>
           IF Call(r).kind = "mcp" THEN Balanced(r, {j \in Silent(r) : j < req[r].i})
                                   ELSE answers[r] = <<>> /\ made[r] = <<>>

ControlPlaneInv ==
    /\ RequestTypeOK /\ StartInv /\ CatalogInv
    /\ \A r \in Requests : RoleInv(r) /\ AnswerInv(r)
    /\ ChangesAuthorised /\ AnswersTellTheTruth
=============================================================================
