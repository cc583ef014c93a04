---------------------------- MODULE MCPlatform ------------------------------
(***************************************************************************)
(* The components around a run, side by side: leases and queues, records   *)
(* and budgets, policy and authority, the gateway and facade in front, the *)
(* connections and tooling behind.  They are independent machines (none    *)
(* names another's state): a behaviour picks one part and takes its steps  *)
(* only, so one run checks every part's properties on all its behaviours.  *)
(***************************************************************************)
EXTENDS
  EffectLedger, ProtectedRecords, Evidence, DecisionRecords,
  CanonicalJson, HttpGateway, LocalFacade, McpConnection, Migrations, Initializer, ReleasePublish, TLC

VARIABLE part

\* ------------------------------------------------------------------ instances

MCReservations ==
  {[id |-> "a1", key |-> "x1", run |-> "r1", effectKey |-> "k1", state |-> "consumed"],
   [id |-> "a2", key |-> "x2", run |-> "r2", effectKey |-> "k1", state |-> "consumed"],
   [id |-> "a3", key |-> "x1", run |-> "r2", effectKey |-> "k1", state |-> "consumed"]}

MCIdentities ==
  {[id |-> "e1", run |-> "r1", effectKey |-> "k1", operation |-> "o1", reservation |-> "a1"],
   [id |-> "e2", run |-> "r2", effectKey |-> "k1", operation |-> "o1", reservation |-> "a2"],
   [id |-> "e2", run |-> "r1", effectKey |-> "k1", operation |-> "o2", reservation |-> "a1"]}

MCVerifierDefinitions ==
  {[id |-> "rule", method |-> "deterministic", sufficient |-> TRUE],
   [id |-> "judge", method |-> "model", sufficient |-> FALSE]}

MCDecision == [c1 |-> "d1", c2 |-> "d1", c3 |-> "d2"]

MCKeyOrder == <<"a", "b">>

MCDefinitions ==
  {[key |-> "k1", digest |-> "d1", object |-> 1, time |-> 1],
   [key |-> "k1", digest |-> "d2", object |-> 2, time |-> 1],
   [key |-> "k2", digest |-> "d1", object |-> 3, time |-> 1],
   [key |-> "k2", digest |-> "d2", object |-> 4, time |-> 1]}

\* One request, with another body, resource and key, and the ones the gates refuse.
MCRequests ==
  LET plain == [key |-> "k", scope |-> "r", content |-> "x"] IN
    {plain, [plain EXCEPT !.content = "y"], [plain EXCEPT !.scope = "s"], [plain EXCEPT !.key = "l"],
     [plain EXCEPT !.key = "malformed"], [plain EXCEPT !.content = "invalid"],
     [plain EXCEPT !.content = "unreadable"]}

\* A build before the destructive migration, the current one, and one whose third
\* migration was edited after it had been applied.
MCBuilds ==
  {[last |-> 5, edited |-> {}], [last |-> 12, edited |-> {}], [last |-> 12, edited |-> {3}]}

\* A cycle, and a chain.
MCGraphs ==
  {[p \in RelPackages |-> CASE p = 2 -> {3} [] p = 3 -> {2} [] OTHER -> {}],
   [p \in RelPackages |-> CASE p = 1 -> {2} [] p = 2 -> {3} [] OTHER -> {}]}

\* --------------------------------------------------------------------- parts

Parts ==
  {"ledger", "records", "evidence", "durable", "decisions", "text", "numbers",
   "gateway", "hosts", "feed", "approve", "regrant", "registry", "execute", "mcp", "migrations",
   "initializer", "release"}

AnyInput == CHOOSE i \in EviInputs : i.artifacts = {}
AnyHost == CHOOSE h \in McpStdioHosts : TRUE
AnyGraph == CHOOSE g \in RelGraphs : TRUE
AnyWorker == CHOOSE w \in EviWorkers : TRUE

\* Only the chosen part's inputs range over their sets.
Pinned ==
  /\ part # "ledger" => ledStore = "memory"
  /\ part # "records" =>
       /\ recKind = "context" /\ recStore = "memory" /\ recSensitive = FALSE
       /\ recExpiry = [c \in RecContents |-> RecNever]
       /\ recCeiling = [w \in RecWriters |-> 1]
  /\ part = "records" =>
       /\ recKind \in RecKinds /\ recStore \in {"memory", "postgres"}
       /\ recSensitive \in BOOLEAN
       /\ recKind # "order" \/ recStore = "memory" \/ recSensitive =>
            recCeiling = [w \in RecWriters |-> 1]
  /\ part # "evidence" => eviInput = AnyInput
  /\ part # "durable" => eviHolder = AnyWorker
  /\ part # "decisions" => decStore = "memory"
  /\ part \in {"gateway", "hosts"} => gwCase \in GwCases
  /\ part = "gateway" => gwCase.host = GwPlainHost \/ gwCase.kind = "ready"
  /\ part = "hosts" =>
       /\ gwCase.kind \in GwStarts /\ gwCase.host.policy /\ gwCase.host.protectedStores
       /\ gwCase.host.admission = "configured" /\ gwCase.host.active = "configured"
  /\ part \notin {"gateway", "hosts"} => gwCase = [kind |-> "run", host |-> GwPlainHost]
  /\ part # "mcp" => mcpHost = AnyHost
  /\ part # "initializer" => iniTarget = IniNone("missing")
  /\ part # "release" =>
       relDeps = AnyGraph /\ relNames = {} /\ relRun = [x \in RelPublishers |-> RelIdle]

MCInit ==
  /\ part \in Parts /\ Pinned
  /\ LedInit /\ RecInit /\ EviInit
  /\ DecInit /\ GwInit /\ FeedInit /\ FacInit /\ McpInit
  /\ MigInit /\ IniInit /\ RelInit
  /\ IF part = "text" THEN CanTextInit
     ELSE (part # "numbers" => canNumber = CanZero) /\ CanNumberInit

\* The step of the part, and what it leaves alone.
MCNext ==
  /\ UNCHANGED part
  /\ IF part = "ledger" THEN LedNext ELSE UNCHANGED ledVars
  /\ IF part = "records" THEN RecNext ELSE UNCHANGED recVars
  /\ CASE part = "evidence" -> EviAsk
       [] part = "durable" -> EviDurableStep
       [] OTHER -> UNCHANGED eviVars
  /\ IF part = "decisions" THEN DecNext ELSE UNCHANGED decVars
  /\ IF part \in {"text", "numbers"} THEN CanNext ELSE UNCHANGED canVars
  /\ CASE part = "gateway" -> GwNext
       [] part = "hosts" ->
            \E x \in GwDeliveries : GwStep(x) /\ \A y \in GwDeliveries \ {x} : gwAt[y] = 0
       [] OTHER -> UNCHANGED gwVars
  /\ IF part = "feed" THEN FeedNext ELSE UNCHANGED feedVars
  /\ CASE part \in {"approve", "regrant"} ->
            \/ FacTick
            \/ part = "approve" /\ FacDecide
            \/ part = "regrant" /\ FacGrant
       [] part = "registry" -> FacDefine
       [] part = "execute" -> FacExecute
       [] OTHER -> UNCHANGED facVars
  /\ IF part = "mcp" THEN McpNext ELSE UNCHANGED mcpVars
  /\ IF part = "migrations" THEN MigNext ELSE UNCHANGED migVars
  /\ IF part = "initializer" THEN IniNext ELSE UNCHANGED iniVars
  /\ IF part = "release" THEN RelNext ELSE UNCHANGED relVars

platformVars ==
  <<part, ledVars, recVars, eviVars, decVars, canVars, gwVars, feedVars,
    facVars, mcpVars, migVars, iniVars, relVars>>

MCSpec == MCInit /\ [][MCNext]_platformVars

\* The clients, writers, processes and publishers of the parts are the same two.
Symmetry == Permutations(LedClients)
=============================================================================
