------------------------------ MODULE McpServer ------------------------------
(***************************************************************************)
(* The tool server (tumult-mcp): the bind guard, the rate limit, the bearer *)
(* token with its role, the permits, the tools that read, create, run and   *)
(* report on files of the workspace, and the pages of its resources.  The   *)
(* transport keeps the last Authorization header on the session, which all  *)
(* requests of a client share.                                              *)
(***************************************************************************)
EXTENDS Naturals, Integers, FiniteSets

CONSTANTS
    McRequests,     \* requests in flight
    McFiles,        \* .toon names of the workspace, 1 .. n in their order
    McPermits,      \* MAX_CONCURRENT_TOOL_CALLS
    McBurst,        \* tokens of the session's bucket
    McPageSize      \* RESOURCES_PAGE_SIZE

ASSUME McAssumption ==
    /\ IsFiniteSet(McFiles) /\ McFiles = 1 .. Cardinality(McFiles)
    /\ McPermits \in Nat \ {0} /\ McBurst \in Nat /\ McPageSize \in Nat \ {0}

VARIABLES
    mcServer,       \* "down", "serving" or "refused"
    mcMode,         \* AuthMode: "open" or "tokens"
    mcHeader,       \* AuthInfo on the session's runtime
    mcBucket,       \* tokens left in the session's bucket
    mcFree,         \* free permits of the semaphore
    mcSlot,         \* the request that holds the enactment slot
    mcReq,          \* the requests: pc, tool, file, _meta token, role
    mcFile,         \* what each file of the workspace is
    mcWalk          \* a client that lists the resources page by page

mcVars == <<mcServer, mcMode, mcHeader, mcBucket, mcFree, mcSlot, mcReq, mcFile,
            mcWalk>>

McTokens == {"viewer", "operator", "unknown"}
McReading == {"read"}
McCreating == {"create_experiment", "gameday_create"}
McWriting == {"report"}
McEnacting == {"run"}   \* run_experiment and gameday_run
McTools == McReading \cup McCreating \cup McWriting \cup McEnacting
McIdle == [pc |-> "idle", tool |-> "read", file |-> 1, meta |-> "none", role |-> "none"]
McNoWalk == [at |-> -1, seen |-> {}, there |-> {}, moved |-> FALSE, missed |-> FALSE]

McInit ==
    /\ mcServer = "down" /\ mcMode \in {"open", "tokens"}
    /\ mcHeader = "none" /\ mcBucket = McBurst /\ mcFree = McPermits /\ mcSlot = {}
    /\ mcReq = [r \in McRequests |-> McIdle]
    /\ mcFile = [f \in McFiles |-> IF f = 1 THEN "experiment" ELSE "none"]
    /\ mcWalk = McNoWalk

McGo(r, pc) == mcReq' = [mcReq EXCEPT ![r].pc = pc]
McRefuse(r) == mcReq' = [mcReq EXCEPT ![r] = McIdle]
mcGate == <<mcServer, mcMode, mcBucket>>
mcDisk == <<mcFile, mcWalk>>

-----------------------------------------------------------------------------
(* serve() and the way of a request to its tool.                           *)

\* Without a token, HTTP is served on loopback only.
Serve(loopback) ==
    /\ mcServer = "down"
    /\ mcServer' = IF ~loopback /\ mcMode = "open" THEN "refused" ELSE "serving"
    /\ UNCHANGED <<mcMode, mcHeader, mcBucket, mcFree, mcSlot, mcReq, mcDisk>>

\* The middleware: with authentication configured a request needs a header,
\* and the header is kept on the session.
VerifyToken(r, token, meta, tool, f) ==
    /\ mcServer = "serving" /\ mcReq[r].pc = "idle"
    /\ mcMode = "open" => token = "unknown" /\ meta = "none"
    /\ mcHeader' = IF mcMode = "open" THEN mcHeader ELSE token
    /\ mcReq' = [mcReq EXCEPT ![r] =
         [pc |-> "auth", tool |-> tool, file |-> f, meta |-> meta, role |-> "none"]]
    /\ UNCHANGED <<mcGate, mcFree, mcSlot, mcDisk>>

\* One token per tick, up to the burst.
McRefill ==
    /\ mcBucket < McBurst /\ mcBucket' = mcBucket + 1
    /\ UNCHANGED <<mcServer, mcMode, mcHeader, mcFree, mcSlot, mcReq, mcDisk>>

\* An explicit _meta wins; otherwise it is what the session holds by now.
ResolveAuthorization(r) == IF mcReq[r].meta # "none" THEN mcReq[r].meta ELSE mcHeader

RequiredRole(tool) == IF tool \in McReading THEN "viewer" ELSE "operator"

\* Mutant: a role is enough, whichever it is.
RoleMeets_Any(role, tool) == role # "unknown"

RoleMeets(role, tool) ==
    \/ role \in {"open", "operator"}
    \/ role = "viewer" /\ RequiredRole(tool) = "viewer"

\* A call takes a token of the bucket, then its role is checked, and only
\* then does it wait for a permit.
Admit(r) ==
    /\ mcReq[r].pc = "auth"
    /\ mcBucket' = IF mcBucket > 0 THEN mcBucket - 1 ELSE 0
    /\ LET role == IF mcMode = "open" THEN "open" ELSE ResolveAuthorization(r) IN
         IF mcBucket > 0 /\ RoleMeets(role, mcReq[r].tool)
           THEN mcReq' = [mcReq EXCEPT ![r].pc = "permit", ![r].role = role, ![r].meta = "none"]
           ELSE McRefuse(r)
    /\ UNCHANGED <<mcServer, mcMode, mcHeader, mcFree, mcSlot, mcDisk>>

AcquirePermit(r) ==
    /\ mcReq[r].pc = "permit" /\ mcFree > 0
    /\ mcFree' = mcFree - 1 /\ McGo(r, "work")
    /\ UNCHANGED <<mcGate, mcHeader, mcSlot, mcDisk>>

\* The client of a call that still waits goes away.
WaiterGone(r) ==
    /\ mcReq[r].pc = "permit" /\ McRefuse(r)
    /\ UNCHANGED <<mcGate, mcHeader, mcFree, mcSlot, mcDisk>>

-----------------------------------------------------------------------------
(* The tools.                                                              *)

\* classify(): a .gameday.toon is one by its name, the others by what is in
\* them.
GamedayName(f) == f = Cardinality(McFiles)
Classify(f, content) == IF GamedayName(f) THEN "gameday" ELSE content

WriteFile(f, content) ==
    LET kind == Classify(f, content) IN
    /\ mcFile' = [mcFile EXCEPT ![f] = kind]
    /\ mcWalk' = [mcWalk EXCEPT !.moved = @ \/ (mcWalk.at >= 0 /\ mcFile[f] \notin {"none", kind})]

\* A path resolves when it is a file of the workspace; arguments may be
\* refused; a reader returns what it read.
ToolRead(r) ==
    /\ mcReq[r].pc = "work" /\ mcReq[r].tool = "read" /\ McGo(r, "finish")
    /\ UNCHANGED <<mcGate, mcHeader, mcFree, mcSlot, mcDisk>>

\* create: the file must not exist, and is written in a second step.
CreateCheck(r) ==
    /\ mcReq[r].pc = "work" /\ mcReq[r].tool \in McCreating
    /\ McGo(r, IF mcFile[mcReq[r].file] = "none" THEN "write" ELSE "finish")
    /\ UNCHANGED <<mcGate, mcHeader, mcFree, mcSlot, mcDisk>>

CreateWrite(r) ==
    /\ mcReq[r].pc = "write" /\ McGo(r, "finish")
    /\ WriteFile(mcReq[r].file, "experiment")
    /\ UNCHANGED <<mcGate, mcHeader, mcFree, mcSlot>>

\* report writes over whatever its output path names.
ReportWrite(r) ==
    /\ mcReq[r].pc = "work" /\ mcReq[r].tool = "report" /\ McGo(r, "finish")
    /\ \/ WriteFile(mcReq[r].file, "journal")
       \/ UNCHANGED mcDisk
    /\ UNCHANGED <<mcGate, mcHeader, mcFree, mcSlot>>

\* A run needs the slot, and is refused while another holds it.
RunTakesSlot(r) ==
    /\ mcReq[r].pc = "work" /\ mcReq[r].tool \in McEnacting
    /\ IF mcSlot = {} THEN McGo(r, "running") /\ mcSlot' = {r}
                      ELSE McGo(r, "finish") /\ UNCHANGED mcSlot
    /\ UNCHANGED <<mcGate, mcHeader, mcFree, mcDisk>>

\* The journal is renamed over its path; an error of the run leaves the old
\* one.
RunPublishes(r, ok) ==
    /\ mcReq[r].pc = "running" /\ McGo(r, "finish") /\ mcSlot' = {}
    /\ IF ok THEN WriteFile(mcReq[r].file, "journal") ELSE UNCHANGED mcDisk
    /\ UNCHANGED <<mcGate, mcHeader, mcFree>>

\* Mutant: a refused tool keeps its permit.
FinishToolCall_Leaks(r) ==
    /\ mcReq[r].pc = "finish" /\ McRefuse(r)
    /\ mcFree' = IF mcReq[r].tool \in McEnacting /\ mcSlot # {} THEN mcFree ELSE mcFree + 1
    /\ UNCHANGED <<mcGate, mcHeader, mcSlot, mcDisk>>

FinishToolCall(r) ==
    /\ mcReq[r].pc = "finish" /\ McRefuse(r) /\ mcFree' = mcFree + 1
    /\ UNCHANGED <<mcGate, mcHeader, mcSlot, mcDisk>>

-----------------------------------------------------------------------------
(* resources/list: behind the same gate, without a permit.                 *)

Rank == [experiment |-> 0, gameday |-> 1, journal |-> 2]

\* Sorted by URI, that is by kind and then by name.
Before(f, g) == \/ Rank[mcFile[f]] < Rank[mcFile[g]]
                \/ mcFile[f] = mcFile[g] /\ f < g
Resources == {f \in McFiles : mcFile[f] # "none"}
IndexOf(f) == Cardinality({g \in Resources : Before(g, f)})

\* Mutant: the cursor counts from one.
PageEnd_OneBased(at) == at + McPageSize + 1

PageEnd(at) == at + McPageSize

\* The cursor is an offset into a listing that every request makes afresh.
\* At its end a walk is judged: what was there when it began, it has seen.
ListResourcesPage ==
    /\ mcServer = "serving" /\ mcBucket > 0 /\ mcBucket' = mcBucket - 1
    /\ mcMode = "open" \/ mcHeader \in {"viewer", "operator"}
    /\ LET first == mcWalk.at < 0
           at == IF first THEN 0 ELSE mcWalk.at
           seen == mcWalk.seen \cup {f \in Resources : IndexOf(f) \in at .. at + McPageSize - 1}
           there == IF first THEN Resources ELSE mcWalk.there
       IN  mcWalk' = IF PageEnd(at) < Cardinality(Resources)
                     THEN [mcWalk EXCEPT !.at = PageEnd(at), !.seen = seen, !.there = there]
                     ELSE [McNoWalk EXCEPT !.missed = ~mcWalk.moved /\ ~(there \subseteq seen)]
    /\ UNCHANGED <<mcServer, mcMode, mcHeader, mcFree, mcSlot, mcReq, mcFile>>

McNext ==
    \/ \E loopback \in BOOLEAN : Serve(loopback)
    \/ \E r \in McRequests, token \in McTokens, meta \in {"none", "viewer"}, tool \in McTools,
          f \in McFiles :
         /\ tool = "read" => f = 1
         /\ tool = "gameday_create" => GamedayName(f)
         /\ VerifyToken(r, token, meta, tool, f)
    \/ \E r \in McRequests :
         \/ Admit(r) \/ AcquirePermit(r) \/ WaiterGone(r)
         \/ ToolRead(r) \/ CreateCheck(r) \/ CreateWrite(r) \/ ReportWrite(r) \/ RunTakesSlot(r)
         \/ FinishToolCall(r)
         \/ \E ok \in BOOLEAN : RunPublishes(r, ok)
    \/ McRefill \/ ListResourcesPage

McSpec == McInit /\ [][McNext]_mcVars

-----------------------------------------------------------------------------
McWorking == {r \in McRequests : mcReq[r].pc \in {"work", "write", "running", "finish"}}

McCallsAdmitted ==
    /\ mcFree + Cardinality(McWorking) = McPermits
    /\ \A r \in McWorking :
         /\ mcReq[r].role = "open" <=> mcMode = "open"
         /\ mcReq[r].role # "unknown"
         /\ mcReq[r].role = "viewer" => mcReq[r].tool \in McReading

McPagesComplete == ~mcWalk.missed

(* What runs was admitted, and what is listed is there.  A call at work holds
   one of the permits, which all come back however it ends; with
   tokens it has a known role, and with a viewer's it changes nothing.  A
   client that follows the cursor to its end has seen every resource that was
   there when it began, although each page lists the workspace anew and runs
   and creations go on in between, as long as no file changed its kind. *)
McSound == McCallsAdmitted /\ McPagesComplete
=============================================================================
