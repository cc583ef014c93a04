--------------------------- MODULE McpConnection ---------------------------
(***************************************************************************)
(* One connection to an MCP server (mcp/src): the host's configuration and *)
(* the transport it yields, the preview stdio transport that holds a       *)
(* verified executable handle and a child process, the connect sequence    *)
(* (initialize, discovery, exposure), and the calls of exposed tools.      *)
(* Every await is a step; the abort signal, the child and the kill switch  *)
(* move between the steps.                                                 *)
(***************************************************************************)
EXTENDS Integers, FiniteSets

CONSTANTS
  McpTools,      \* pinned tools
  McpCalls,      \* invocations of callTool
  McpCursors,    \* cursors the server may return: bounds the pages
  McpMaxTools,   \* profile.maxTools
  McpMaxGrant    \* bound: grants issued by the exposure authority

VARIABLES
  mcpHost,       \* host options and profile, as createOfficialMCPTransport tells them apart
  mcpPhase,      \* where connectMCPServer stands
  mcpFile,       \* the executable's FileHandle: none, open or closed
  mcpResolved,   \* of openVerifiedExecutableArtifact's open and stat, the ones that resolved
  mcpHeld,       \* #executableFile is set
  mcpChild,      \* external: the child process
  mcpRef,        \* #process is set
  mcpClosing,    \* #closing: no, file, term, kill, closed
  mcpAborted, mcpKilled,
  mcpPages,      \* cursors seen by discoverTools
  mcpFound,      \* discovered tools: None, or the schema the server described
  mcpGrant,      \* external: the authority's grant for each tool, 0 when it denies
  mcpExposed,    \* exposed tools: the grant of exposure, 0 when not exposed
  mcpCall        \* each invocation: its state, tool and the grant it was authorized with

mcpVars == <<mcpHost, mcpPhase, mcpFile, mcpResolved, mcpHeld, mcpChild, mcpRef, mcpClosing,
             mcpAborted, mcpKilled, mcpPages, mcpFound, mcpGrant, mcpExposed, mcpCall>>
mcpTransport == <<mcpFile, mcpResolved, mcpHeld, mcpChild, mcpRef, mcpClosing>>
mcpServer == <<mcpPages, mcpFound, mcpGrant, mcpExposed, mcpCall>>
mcpSignals == <<mcpHost, mcpAborted, mcpKilled>>
mcpPlan == <<mcpHost, mcpResolved, mcpAborted, mcpKilled>>

-----------------------------------------------------------------------------
(* The host's configuration.                                               *)

\* A preview host may inject a transport factory; a production host has a sandbox launcher,
\* absent, bound to another profile, without an isolation capability, or exact.
McpStdioHosts ==
  [transport : {"stdio"}, profile : {"preview"}, sandbox : {"absent", "factory"},
   environment : {"none", "exact", "unresolved"}]
  \cup
  [transport : {"stdio"}, profile : {"production"},
   sandbox : {"absent", "other", "weak", "exact"}, environment : {"none", "exact", "unresolved"}]

McpHttpHosts ==
  [transport : {"http"}, profile : {"preview", "production"}, egress : BOOLEAN,
   boundary : {"absent", "other", "exact"}, endpoint : {"public", "private", "plain"},
   trusted : BOOLEAN, credential : {"none", "bound", "missing", "unbound"}]

\* validateHttpEndpoint: https, on the exact origin, and private only with the capability.
McpEndpointAllowed(h) ==
  /\ h.endpoint # "plain"
  /\ h.endpoint = "private" => h.trusted

\* enforcedHttpEgress and the choice between it and the injected preview client.
McpEgress(h) ==
  /\ h.boundary # "other"
  /\ ~(h.egress /\ h.boundary = "exact")
  /\ h.boundary = "exact" \/ (h.profile = "preview" /\ h.egress)

\* resolveHttpCredential and validateCredentialBinding.
McpCredential(h) == h.credential \in {"none", "bound"}

\* createOfficialMCPTransport of a sandboxed or HTTP profile: what can be refused at once.
McpCreates(h) ==
  IF h.transport = "http"
  THEN McpEgress(h) /\ McpEndpointAllowed(h) /\ McpCredential(h)
  ELSE h.profile = "production" => h.sandbox = "exact"

\* evaluateMCPReadiness.
McpReady(h) ==
  IF h.transport = "stdio"
  THEN h.profile = "preview" \/ h.sandbox = "exact"
  ELSE /\ IF h.profile = "preview" THEN h.egress \/ h.boundary # "absent" ELSE h.boundary = "exact"
       /\ h.endpoint # "plain"
       /\ h.endpoint # "private" \/ h.trusted

\* Preview stdio opens the executable; its own transport spawns it unless a factory is injected.
McpOpensFile == mcpHost.transport = "stdio" /\ mcpHost.profile = "preview"
McpOwnsChild == McpOpensFile /\ mcpHost.sandbox = "absent"

McpInit ==
  /\ mcpHost \in McpStdioHosts \cup McpHttpHosts
  /\ mcpPhase = "new"
  /\ mcpFile = "none" /\ mcpResolved = {} /\ mcpHeld = FALSE /\ mcpChild = "none" /\ mcpRef = FALSE
  /\ mcpClosing = "no" /\ mcpAborted = FALSE /\ mcpKilled = FALSE
  /\ mcpPages = {} /\ mcpFound = [t \in McpTools |-> "none"]
  /\ mcpGrant = [t \in McpTools |-> 1]
  /\ mcpExposed = [t \in McpTools |-> 0]
  /\ mcpCall = [c \in McpCalls |-> [state |-> "idle"]]

-----------------------------------------------------------------------------
(* Connecting.                                                             *)

\* The checks in front of the try block: the kill switch and the abort signal.
McpConnect ==
  /\ mcpPhase = "new"
  /\ mcpPhase' = IF mcpKilled \/ mcpAborted THEN "refused" ELSE "creating"
  /\ UNCHANGED <<mcpTransport, mcpServer, mcpSignals>>

\* createOfficialMCPTransport up to its first await.  Nothing is held when it throws.
McpCreate ==
  /\ mcpPhase = "creating"
  /\ mcpPhase' = IF mcpAborted \/ ~McpCreates(mcpHost) THEN "failed"
                 ELSE IF McpOpensFile THEN "opening" ELSE "verifying"
  /\ UNCHANGED <<mcpTransport, mcpServer, mcpSignals>>

\* What the host then answers: a sandbox that does not verify the executable, an environment
\* that does not resolve, a launcher or a secret resolver that rejects; or the transport.
McpVerify ==
  /\ mcpPhase = "verifying"
  /\ \/ mcpPhase' = "failed"
     \/ /\ mcpHost.transport = "stdio" => ~mcpAborted /\ mcpHost.environment # "unresolved"
        /\ mcpPhase' = "starting"
  /\ UNCHANGED <<mcpTransport, mcpServer, mcpSignals>>

\* openVerifiedExecutableArtifact: Promise.all opens the executable and stats the working
\* directory.  When only the stat rejects, executableFile was never assigned: the catch closes
\* nothing, and the open handle is referred to by no one.
McpOpen ==
  /\ mcpPhase = "opening"
  /\ mcpResolved' \in SUBSET {"open", "stat"}
  /\ mcpFile' = IF "open" \in mcpResolved' THEN "open" ELSE "none"
  /\ mcpPhase' = IF mcpResolved' = {"open", "stat"} THEN "hashing" ELSE "failed"
  /\ UNCHANGED <<mcpHeld, mcpChild, mcpRef, mcpClosing, mcpServer, mcpSignals>>

\* The bytes are hashed and the environment resolved: an abort, another digest or an
\* environment that is not the allowlist closes the handle; an injected factory gets the
\* request once the handle is closed; else the transport holds it.
McpHashed ==
  /\ mcpPhase = "hashing"
  /\ \/ mcpFile' = "closed" /\ mcpHeld' = FALSE /\ mcpPhase' = "failed"
     \/ /\ ~mcpAborted /\ mcpHost.environment # "unresolved" /\ mcpPhase' = "starting"
        /\ mcpHeld' = McpOwnsChild
        /\ mcpFile' = IF McpOwnsChild THEN mcpFile ELSE "closed"
  /\ UNCHANGED <<mcpResolved, mcpChild, mcpRef, mcpClosing, mcpServer, mcpSignals>>

\* client.connect starts the transport: start() up to its stat calls.
McpStart ==
  /\ mcpPhase = "starting"
  /\ mcpPhase' = IF ~McpOwnsChild THEN "initialize"
                 ELSE IF mcpAborted \/ ~mcpHeld THEN "failing" ELSE "stat"
  /\ UNCHANGED <<mcpTransport, mcpServer, mcpSignals>>

\* The path still names the verified inode and the child is spawned; it does not and the
\* handle is closed; or the stat itself fails, which leaves the handle to close().
McpStat ==
  /\ mcpPhase = "stat"
  /\ \/ /\ mcpChild' = "spawning" /\ mcpRef' = TRUE /\ mcpPhase' = "spawning"
        /\ UNCHANGED <<mcpFile, mcpHeld>>
     \/ /\ mcpFile' = "closed" /\ mcpHeld' = FALSE /\ mcpPhase' = "failing"
        /\ UNCHANGED <<mcpChild, mcpRef>>
     \/ mcpPhase' = "failing" /\ UNCHANGED <<mcpFile, mcpHeld, mcpChild, mcpRef>>
  /\ UNCHANGED <<mcpClosing, mcpServer, mcpPlan>>

\* The child's "spawn" and "error" events: both close the handle, the second rejects start().
McpSpawned ==
  /\ mcpPhase = "spawning" /\ mcpFile' = "closed" /\ mcpHeld' = FALSE
  /\ \/ mcpPhase' = "initialize" /\ mcpChild' = (IF mcpChild = "spawning" THEN "running" ELSE mcpChild)
        /\ UNCHANGED mcpRef
     \/ mcpChild = "spawning" /\ mcpPhase' = "failing" /\ mcpChild' = "dead" /\ mcpRef' = FALSE
  /\ UNCHANGED <<mcpClosing, mcpServer, mcpPlan>>

\* A request can be written: send() finds #process, or the HTTP transport is open.
McpConnected == IF McpOwnsChild THEN mcpRef /\ mcpChild = "running" ELSE mcpClosing = "no"

\* The answer to initialize, its timeout, its abort or the loss of the child;
\* verifyServerIdentity and the kill switch once more.
McpInitialize ==
  /\ mcpPhase = "initialize"
  /\ \/ McpConnected /\ ~mcpAborted /\ mcpPhase' = IF mcpKilled THEN "failing" ELSE "listing"
     \/ mcpPhase' = "failing"
  /\ UNCHANGED <<mcpTransport, mcpServer, mcpSignals>>

\* discoverTools: one page of tools/list.  A duplicate name, a tool over the limit, a repeated
\* cursor, a malformed page, a timeout and an abort fail the connection.
McpPage(tools, schema, cursor) ==
  LET found == {t \in McpTools : mcpFound[t] # "none"} IN
  /\ mcpPhase = "listing"
  /\ \/ /\ McpConnected /\ ~mcpAborted
        /\ tools \cap found = {} /\ Cardinality(tools \cup found) <= McpMaxTools
        /\ cursor \notin mcpPages
        /\ mcpFound' = [t \in McpTools |-> IF t \in tools THEN schema ELSE mcpFound[t]]
        /\ mcpPages' = mcpPages \cup ({cursor} \ {"none"})
        /\ mcpPhase' = IF cursor = "none" THEN "exposing" ELSE "listing"
     \/ mcpPhase' = "failing" /\ UNCHANGED <<mcpFound, mcpPages>>
  /\ UNCHANGED <<mcpTransport, mcpGrant, mcpExposed, mcpCall, mcpSignals>>

\* exposeTools: a pin whose discovered schema differs, and an authority that rejects, fail the
\* connection; a pin for other purposes is skipped, a denied one is not exposed.
McpExpose(t) ==
  /\ mcpPhase = "exposing" /\ mcpFound[t] \in {"pinned", "changed"}
  /\ \/ mcpPhase' = "failing" /\ UNCHANGED <<mcpExposed, mcpFound>>
     \/ /\ mcpFound[t] = "pinned" /\ UNCHANGED mcpPhase
        /\ mcpFound' = [mcpFound EXCEPT ![t] = "asked"]
        /\ \E g \in {0, mcpGrant[t]} : mcpExposed' = [mcpExposed EXCEPT ![t] = g]
  /\ UNCHANGED <<mcpTransport, mcpPages, mcpGrant, mcpCall, mcpSignals>>

McpOpened ==
  /\ mcpPhase = "exposing" /\ \A t \in McpTools : mcpFound[t] \notin {"pinned", "changed"}
  /\ mcpPhase' = "open"
  /\ UNCHANGED <<mcpTransport, mcpServer, mcpSignals>>

-----------------------------------------------------------------------------
(* Closing the transport.                                                  *)

\* close(): the first call starts #close, later ones wait for it.
McpBeginClose == mcpClosing' = IF mcpClosing = "no" THEN "file" ELSE mcpClosing

\* Who closes: connectMCPServer's catch, connection.close, and a child whose output does
\* not parse or whose stderr is over the limit.
McpClose ==
  /\ mcpPhase \in {"failing", "open"} /\ mcpClosing = "no" /\ McpBeginClose
  /\ mcpPhase' = IF mcpPhase = "open" THEN "closing" ELSE mcpPhase
  /\ UNCHANGED <<mcpFile, mcpHeld, mcpChild, mcpRef, mcpServer, mcpPlan>>

McpConnectionClosed ==
  /\ mcpPhase = "open" /\ mcpClosing # "no" /\ mcpPhase' = "closing"
  /\ UNCHANGED <<mcpTransport, mcpServer, mcpSignals>>

McpBadOutput ==
  /\ mcpChild = "running" /\ mcpRef /\ mcpClosing = "no" /\ McpBeginClose
  /\ UNCHANGED <<mcpPhase, mcpFile, mcpHeld, mcpChild, mcpRef, mcpServer, mcpPlan>>

MutMcpCloseFile ==  \* mutant: a transport that still holds its handle is taken for unspawned
  /\ mcpClosing = "file"
  /\ mcpFile' = (IF mcpHeld THEN "closed" ELSE mcpFile) /\ mcpHeld' = FALSE
  /\ mcpRef' = FALSE
  /\ mcpClosing' = IF mcpRef /\ ~mcpHeld THEN "term" ELSE "closed"
  /\ UNCHANGED <<mcpPhase, mcpChild, mcpServer, mcpPlan>>

\* #close: the handle, then the child; without one nothing is left to do.
McpCloseFile ==
  /\ mcpClosing = "file"
  /\ mcpFile' = (IF mcpHeld THEN "closed" ELSE mcpFile) /\ mcpHeld' = FALSE
  /\ mcpRef' = FALSE
  /\ mcpClosing' = IF mcpRef THEN "term" ELSE "closed"
  /\ UNCHANGED <<mcpPhase, mcpChild, mcpServer, mcpPlan>>

\* SIGTERM to the group, 250 ms, and SIGKILL unless the child has exited by then.
McpTerminate ==
  /\ \/ mcpClosing = "term" /\ mcpChild' \in {mcpChild, "dead"} /\ mcpClosing' = "kill"
     \/ mcpClosing = "kill" /\ mcpChild' = "dead" /\ mcpClosing' = "closed"
  /\ UNCHANGED <<mcpPhase, mcpFile, mcpHeld, mcpRef, mcpServer, mcpPlan>>

\* The awaits of close() are over.
McpSettled ==
  /\ mcpPhase \in {"failing", "closing"} /\ mcpClosing = "closed"
  /\ mcpPhase' = IF mcpPhase = "failing" THEN "failed" ELSE "closed"
  /\ UNCHANGED <<mcpTransport, mcpServer, mcpSignals>>

\* The abort signal: start() listens once the child is spawned.
McpAbort ==
  /\ ~mcpAborted /\ mcpAborted' = TRUE
  /\ IF mcpChild = "none" THEN UNCHANGED mcpClosing ELSE McpBeginClose
  /\ UNCHANGED <<mcpHost, mcpKilled, mcpPhase, mcpFile, mcpResolved, mcpHeld, mcpChild, mcpRef, mcpServer>>

\* external: the child exits; its "close" event clears #process.
McpExit ==
  /\ mcpChild = "running" /\ mcpChild' = "dead" /\ mcpRef' = FALSE
  /\ UNCHANGED <<mcpPhase, mcpFile, mcpHeld, mcpClosing, mcpServer, mcpPlan>>

\* external: an operator kills the server identity; the authority revokes or reissues a grant.
McpKill ==
  /\ ~mcpKilled /\ mcpKilled' = TRUE
  /\ UNCHANGED <<mcpHost, mcpAborted, mcpPhase, mcpTransport, mcpServer>>

McpRegrant(t) ==
  /\ mcpPhase \in {"exposing", "open"} /\ mcpGrant[t] < McpMaxGrant
  /\ \E g \in {0, mcpGrant[t] + 1} : mcpGrant' = [mcpGrant EXCEPT ![t] = g]
  /\ UNCHANGED <<mcpPhase, mcpTransport, mcpPages, mcpFound, mcpExposed, mcpCall, mcpSignals>>

-----------------------------------------------------------------------------
(* Calls.                                                                  *)

McpSet(c, value) ==
  /\ mcpCall' = [mcpCall EXCEPT ![c] = value]
  /\ UNCHANGED <<mcpPhase, mcpTransport, mcpPages, mcpFound, mcpGrant, mcpExposed, mcpSignals>>

\* callTool up to the authority: closed, killed and unexposed calls throw.
McpCallTool(c, t) ==
  /\ mcpPhase \in {"open", "closing", "closed"} /\ mcpCall[c].state = "idle"
  /\ McpSet(c, [state |-> IF mcpPhase # "open" \/ mcpKilled \/ mcpExposed[t] = 0
                          THEN "refused" ELSE "asked", tool |-> t])

McpAuthorized(t) == mcpGrant[t] # 0 /\ mcpGrant[t] = mcpExposed[t]

\* The authority answers; a call under the grant of exposure is written to the transport.
McpAuthorize(c) ==
  /\ mcpCall[c].state = "asked"
  /\ McpSet(c, IF ~McpAuthorized(mcpCall[c].tool) \/ ~McpConnected
               THEN [state |-> "refused", tool |-> mcpCall[c].tool]
               ELSE [state |-> "sent", tool |-> mcpCall[c].tool, grant |-> mcpGrant[mcpCall[c].tool]])

\* The result, a malformed or oversized one, a tool error, a timeout or the loss of the child.
McpAnswer(c) ==
  /\ mcpCall[c].state = "sent"
  /\ \E s \in {"answered", "failed"} : McpSet(c, [mcpCall[c] EXCEPT !.state = s])

McpNext ==
  \/ McpConnect \/ McpCreate \/ McpVerify \/ McpOpen \/ McpHashed \/ McpStart \/ McpStat
  \/ McpSpawned \/ McpInitialize \/ McpOpened
  \/ \E tools \in SUBSET McpTools, s \in {"pinned", "changed"}, k \in McpCursors \cup {"none"} :
       McpPage(tools, s, k)
  \/ \E t \in McpTools : McpExpose(t) \/ McpRegrant(t)
  \/ McpClose \/ McpConnectionClosed \/ McpBadOutput \/ McpCloseFile \/ McpTerminate \/ McpSettled
  \/ McpAbort \/ McpExit \/ McpKill
  \/ \E c \in McpCalls, t \in McpTools : McpCallTool(c, t)
  \/ \E c \in McpCalls : McpAuthorize(c) \/ McpAnswer(c)

McpSpec == McpInit /\ [][McpNext]_mcpVars

-----------------------------------------------------------------------------
(* Properties.                                                             *)

\* However a connection ends (a refused configuration, another digest, an abort, bad output, a
\* dead child, close), its child is not left running, and the executable's handle is left open
\* on one path only: the working directory's stat rejects while the open beside it resolves, in
\* the Promise.all of openVerifiedExecutableArtifact, whose catch has no handle to close yet.
\* On every other path its catch, start(), #close and connectMCPServer's catch close it between
\* them.
McpReleased ==
  mcpPhase \in {"failed", "closed", "refused"} =>
    /\ mcpFile = "open" <=> mcpResolved = {"open"}
    /\ mcpChild \notin {"spawning", "running"}

\* Phases in which createOfficialMCPTransport has returned a transport.
McpBuilt ==
  mcpPhase \in {"starting", "stat", "spawning", "initialize", "listing", "exposing", "open",
                "closing", "closed", "failing"}

\* evaluateMCPReadiness and createOfficialMCPTransport are two readings of one configuration:
\* what the second builds the first reports ready, and what is reported ready is refused for a
\* configuration the readiness check does not look at only: a wrong credential, a preview
\* host's egress boundary that is ambiguous or bound to another profile, or an environment
\* that does not resolve.  (What verifying and opening find is not configuration.)
McpReadinessPredicts ==
  /\ McpBuilt => McpReady(mcpHost) /\ McpCreates(mcpHost)
  /\ McpBuilt /\ mcpHost.transport = "stdio" => mcpHost.environment # "unresolved"
  /\ McpReady(mcpHost) => \/ McpCreates(mcpHost)
                          \/ ~McpCredential(mcpHost)
                          \/ mcpHost.egress /\ mcpHost.boundary = "exact"
                          \/ mcpHost.boundary = "other"

\* A call that reaches the server was authorized, after it was made, under the very grant its
\* tool was exposed with, although the authority may revoke and reissue between the two.
McpCallAuthorized ==
  \A c \in McpCalls : mcpCall[c].state \in {"sent", "answered", "failed"} =>
    mcpCall[c].grant = mcpExposed[mcpCall[c].tool] /\ mcpCall[c].grant # 0

\* A connection that is made was reported ready, makes authorized calls only, and leaves no
\* child behind however it ends, and no handle but on the path McpReleased names.
ConnectionSafe == McpReleased /\ McpReadinessPredicts /\ McpCallAuthorized
=============================================================================
