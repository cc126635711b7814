----------------------------- MODULE McpCatalog ------------------------------
(***************************************************************************)
(* One MCP server over stdio and the three copies of its tool list: that   *)
(* of managedServer (mcpclient/server.go), which starts, replaces and      *)
(* closes the server's process, that of Manager (manager.go), which is     *)
(* rebuilt from it, and the mirror in Registry (tools/tools.go), which     *)
(* turns and tool calls look at.  Each copy has a mutex of its own, and    *)
(* whoever has changed one carries the news to the next after the unlock.  *)
(*                                                                         *)
(* A tool list is the client it came from and the last change of the       *)
(* server's list that the client had been told of.  The server tells every *)
(* change by a notification, before any answer that already has it, and a  *)
(* client reads it only while it waits for an answer.                      *)
(***************************************************************************)
EXTENDS Naturals

CONSTANTS
    Callers,    \* goroutines that call tools, begin turns or close the registry
    Refreshers, \* goroutines that refreshCatalogFromNotification may run on
    MaxBegins,  \* bound: what the callers do
    MaxClients, \* bound: processes started
    MaxNews     \* bound: changes of the server's tool list that are told, processes that
                \* die, requests and starts that fail, together

ASSUME CallersAssumption == Callers \intersect Refreshers = {}

VARIABLES
    clients,    \* processes started
    connected,  \* the clients whose process lives (stdioClient.connected)
    heard,      \* the last change whose notification a client has read
    client,     \* managedServer.client, or 0
    spawning,   \* managedServer.starting
    closed,
    up,         \* status.Connected
    state,      \* status.CatalogState: "ready", "stale" or any other
    backoff,    \* status.NextRetryAt is set
    specs,      \* managedServer.specs
    tools,      \* Manager.tools
    mirror,     \* Registry.mcpTools
    subscribed, \* the registry listens to the manager
    pc,         \* where a goroutine is
    carry,      \* the news it has to carry first: "none", "rebuild", "snapshot", "install"
    goal,       \* what a caller is for: "call", "turn", "status", "close", or "none"
    using,      \* the client a goroutine deals with
    fetched,    \* the list that a goroutine has read from the server
    seen,       \* the list that a goroutine mirrors
    begun, faults,
    \* history
    misled,     \* the list that was installed last was out of date already
    overtaken   \* an older list than the manager's was mirrored last

server == <<clients, connected, heard>>
managed == <<client, spawning, closed, up, state, backoff, specs>>
copies == <<tools, mirror, subscribed>>
locals == <<goal, using, fetched, seen>>
history == <<misled, overtaken>>
catalogVars == <<server, managed, copies, pc, carry, locals, begun, faults, history>>

Goroutines == Callers \union Refreshers
Clients == 1..MaxClients
NoList == [from |-> 0, list |-> 0]
List(c) == [from |-> c, list |-> heard]

-----------------------------------------------------------------------------
\* NewRegistryWithMCP has started the server, or failed to start an optional one.
CatalogInit ==
    /\ clients = 1 /\ client \in {0, 1} /\ connected = {client} \ {0} /\ heard = 0
    /\ spawning = FALSE /\ closed = FALSE /\ backoff = FALSE
    /\ up = (client = 1) /\ state = IF up THEN "ready" ELSE "other"
    /\ specs = [from |-> client, list |-> 0] /\ tools = specs /\ mirror = specs
    /\ subscribed = TRUE
    /\ pc = [g \in Goroutines |-> "idle"] /\ carry = [g \in Goroutines |-> "none"]
    /\ goal = [g \in Goroutines |-> "none"]
    /\ using = [g \in Goroutines |-> 0]
    /\ fetched = [g \in Goroutines |-> NoList] /\ seen = fetched
    /\ begun = 0 /\ faults = 0
    /\ misled = FALSE /\ overtaken = FALSE

At(g, label) == pc[g] = label /\ carry[g] = "none"

\* The unlock after which a goroutine goes on, with the news that it carries first
\* if there are any (commitLocked, publishAbsorbed).
Publish(g, news, label) ==
    /\ pc' = [pc EXCEPT ![g] = label]
    /\ carry' = [carry EXCEPT ![g] = IF news THEN "rebuild" ELSE "none"]

Goto(g, label) == Publish(g, FALSE, label)

\* Its work is done: but refreshMCPTools goes on to mirror the manager's list.
Leave(g, news) ==
    /\ Publish(g, news, IF goal[g] = "turn" THEN "sync"
                        ELSE IF goal[g] = "close" THEN "gone" ELSE "idle")
    /\ using' = [using EXCEPT ![g] = 0]
    /\ fetched' = [fetched EXCEPT ![g] = NoList]
    /\ goal' = [goal EXCEPT ![g] = "none"]

\* clearCatalogLocked: what it clears is news if there was something.
News == specs # NoList
Clear == specs' = NoList /\ up' = FALSE /\ state' = "other" /\ misled' = FALSE

\* stdioClient.close.
Shut(c) == connected' = connected \ {c}

Fault == heard + faults < MaxNews /\ faults' = faults + 1

-----------------------------------------------------------------------------
\* The process of a server ends (watchProcess).
ServerDies ==
    /\ \E c \in connected : Shut(c)
    /\ Fault
    /\ UNCHANGED <<clients, heard, managed, copies, pc, carry, locals, history, begun>>

-----------------------------------------------------------------------------
\* A tool is called, a turn takes a snapshot of the tools, somebody asks for the
\* servers' statuses, or the registry is closed.  A closed registry has no manager
\* any more; the handlers of its tools still have the server.
HasManager == \A g \in Callers : pc[g] # "gone"

Begin(g) ==
    /\ g \in Callers /\ At(g, "idle") /\ begun < MaxBegins /\ begun' = begun + 1
    /\ \/ /\ goal' = [goal EXCEPT ![g] = "call"]
          /\ Goto(g, "ensure") /\ UNCHANGED subscribed
       \/ /\ HasManager /\ goal' = [goal EXCEPT ![g] = "turn"]
          /\ Goto(g, "ensure") /\ UNCHANGED subscribed
       \/ /\ HasManager /\ goal' = [goal EXCEPT ![g] = "status"]
          /\ Goto(g, "absorb") /\ UNCHANGED subscribed
       \/ /\ subscribed /\ subscribed' = FALSE
          /\ goal' = [goal EXCEPT ![g] = "close"] /\ Goto(g, "close")
    /\ UNCHANGED <<server, managed, tools, mirror, using, fetched, seen, faults, history>>

\* absorbClientLocked: the client has ended since the status was written.
Ended == client # 0 /\ client \notin connected /\ (up \/ specs # NoList)

\* managedServer.snapshot, and the end of a request whose client has ended.
Absorb(g) ==
    /\ At(g, "absorb")
    /\ \/ Ended /\ Clear /\ Leave(g, News)
       \/ ~Ended /\ Leave(g, FALSE) /\ UNCHANGED <<specs, up, state, misled>>
    /\ UNCHANGED <<server, client, spawning, closed, backoff, copies, seen, faults, overtaken,
                   begun>>

\* ensureConnected absorbs, and unlocks the server to tell what has changed.
AbsorbFirst(g) ==
    /\ At(g, "ensure") /\ Ended
    /\ Clear /\ Publish(g, News, "ensured")
    /\ UNCHANGED <<server, client, spawning, closed, backoff, copies, locals, faults,
                   overtaken, begun>>

Ensuring(g) == At(g, "ensured") \/ (At(g, "ensure") /\ ~Ended)

\* Mutant: a client that is connected is not taken.
NeverUsable == FALSE

Usable == client # 0 /\ client \in connected

Refused(g) ==
    /\ Ensuring(g)
    /\ closed \/ (~Usable /\ (spawning \/ backoff))
    /\ Leave(g, FALSE)
    /\ UNCHANGED <<server, managed, copies, seen, faults, history, begun>>

TakeClient(g) ==
    /\ Ensuring(g) /\ ~closed /\ Usable
    /\ \/ goal[g] = "turn" /\ Leave(g, FALSE)
       \/ /\ goal[g] = "call" /\ Goto(g, "call")
          /\ using' = [using EXCEPT ![g] = client] /\ UNCHANGED <<goal, fetched>>
    /\ UNCHANGED <<server, managed, copies, seen, faults, history, begun>>

\* startLocked: the old client is let go and the server is marked as starting.  A
\* backoff may be over by now.
StartLocked(g) ==
    /\ Ensuring(g) /\ ~closed /\ ~Usable /\ ~spawning
    /\ using' = [using EXCEPT ![g] = client]
    /\ client' = 0 /\ spawning' = TRUE /\ backoff' = FALSE
    /\ Clear /\ Publish(g, News, "spawn")
    /\ UNCHANGED <<server, closed, copies, goal, fetched, seen, faults, overtaken, begun>>

\* The old client is closed; startStdio runs the command and initializes the server.
Spawn(g) ==
    LET old == using[g]  new == clients + 1
    IN  /\ At(g, "spawn")
        /\ \/ /\ new \in Clients /\ clients' = new
              /\ connected' = (connected \ {old}) \union {new}
              /\ using' = [using EXCEPT ![g] = new]
              /\ Goto(g, "list") /\ UNCHANGED faults
           \/ /\ Fault /\ Shut(old)
              /\ Goto(g, "started") /\ UNCHANGED <<clients, using>>
        /\ UNCHANGED <<heard, managed, copies, goal, fetched, seen, history, begun>>

-----------------------------------------------------------------------------
(* stdioClient.request: one at a time on a client, whose mutex is held     *)
(* from the request to its response.                                       *)
Sent == [list |-> "listing", prompts |-> "prompting", call |-> "calling"]
Asking(g) == pc[g] \in {"listing", "prompting", "calling"}

WriteRequest(g) ==
    /\ pc[g] \in DOMAIN Sent /\ At(g, pc[g])
    /\ ~\E h \in Goroutines : Asking(h) /\ using[h] = using[g]
    /\ Goto(g, Sent[pc[g]])
    /\ UNCHANGED <<server, managed, copies, goal, using, fetched, seen, faults, history, begun>>

\* A notification comes before the response: markCatalogStale, whose news the reader
\* carries, and a goroutine that refreshes the list.
ReadNotification(g) ==
    LET marked == ~closed /\ up
    IN  /\ Asking(g) /\ carry[g] = "none" /\ using[g] \in connected /\ heard + faults < MaxNews
        /\ heard' = heard + 1
        /\ state' = IF marked THEN "stale" ELSE state
        /\ carry' = [carry EXCEPT ![g] = IF marked THEN "rebuild" ELSE "none"]
        /\ \E r \in Refreshers : At(r, "idle") /\ pc' = [pc EXCEPT ![r] = "refresh"]
        /\ UNCHANGED <<clients, connected, client, spawning, closed, up, backoff,
                       specs, copies, locals, faults, history, begun>>

\* The server had seen the request, and told of every change before.
Answered(g) == Asking(g) /\ carry[g] = "none" /\ using[g] \in connected

Respond(g) ==
    /\ Answered(g)
    /\ \/ /\ pc[g] = "listing" /\ Goto(g, "prompts")
          /\ fetched' = [fetched EXCEPT ![g] = List(using[g])]
          /\ UNCHANGED <<goal, using>>
       \/ /\ pc[g] = "prompting" /\ Goto(g, IF g \in Callers THEN "started" ELSE "apply")
          /\ UNCHANGED <<goal, using, fetched>>
       \/ pc[g] = "calling" /\ Leave(g, FALSE)
    /\ UNCHANGED <<server, managed, copies, seen, faults, history, begun>>

\* A transport error or a timeout: the client is closed.
RequestFails(g) ==
    /\ Asking(g) /\ carry[g] = "none"
    /\ Shut(using[g])
    /\ IF using[g] \in connected THEN Fault ELSE UNCHANGED faults
    /\ fetched' = [fetched EXCEPT ![g] = NoList]
    /\ Goto(g, IF pc[g] # "calling" /\ g \in Callers THEN "started"
               ELSE IF pc[g] = "listing" THEN "failed" ELSE "absorb")
    /\ UNCHANGED <<clients, heard, managed, copies, goal, using, seen, history, begun>>

\* The server answers tools/list with an error: a start gives the client up.
ListRefused(g) ==
    /\ Answered(g) /\ pc[g] = "listing"
    /\ Fault
    /\ \/ g \in Callers /\ Shut(using[g]) /\ Goto(g, "started")
       \/ g \in Refreshers /\ Goto(g, "failed") /\ UNCHANGED connected
    /\ UNCHANGED <<clients, heard, managed, copies, locals, history, begun>>

-----------------------------------------------------------------------------
\* Mutant: the end of a start does not look whether the manager was closed.
OpenAnyway == TRUE

Open == ~closed

\* startLocked after startStdio: closed meanwhile, failed, or connected.
Started(g) ==
    /\ At(g, "started")
    /\ spawning' = FALSE
    /\ \/ /\ ~Open
          /\ Clear /\ Publish(g, News, "discard")
          /\ UNCHANGED <<client, backoff, goal, using, fetched>>
       \/ /\ Open /\ fetched[g] = NoList
          /\ Clear /\ backoff' = TRUE /\ Leave(g, News)
          /\ UNCHANGED client
       \/ /\ Open /\ fetched[g] # NoList
          /\ client' = using[g] /\ specs' = fetched[g] /\ up' = TRUE /\ state' = "ready"
          /\ misled' = (fetched[g].list < heard)
          /\ backoff' = FALSE /\ Publish(g, TRUE, "return")
          /\ UNCHANGED <<goal, using, fetched>>
    /\ UNCHANGED <<server, closed, copies, seen, faults, overtaken, begun>>

\* ensureConnected returns s.client, which it reads without the mutex: a nil client
\* has no method to call.
Return(g) ==
    /\ At(g, "return")
    /\ \/ goal[g] = "turn" /\ Leave(g, FALSE)
       \/ /\ goal[g] = "call" /\ client = 0
          /\ Goto(g, "panicked") /\ UNCHANGED <<goal, using, fetched>>
       \/ /\ goal[g] = "call" /\ client # 0
          /\ Goto(g, "call") /\ using' = [using EXCEPT ![g] = client]
          /\ UNCHANGED <<goal, fetched>>
    /\ UNCHANGED <<server, managed, copies, seen, faults, history, begun>>

\* Registry.Close has unsubscribed: managedServer.close.
CloseServer(g) ==
    /\ At(g, "close")
    /\ using' = [using EXCEPT ![g] = client]
    /\ closed' = TRUE /\ client' = 0 /\ backoff' = FALSE
    /\ Clear /\ Publish(g, News, "discard")
    /\ UNCHANGED <<server, spawning, copies, goal, fetched, seen, faults, overtaken, begun>>

Discard(g) ==
    /\ At(g, "discard")
    /\ Shut(using[g])
    /\ Leave(g, FALSE)
    /\ UNCHANGED <<clients, heard, managed, copies, seen, faults, history, begun>>

-----------------------------------------------------------------------------
(* refreshCatalog, on a goroutine of its own for each notification.        *)
Refresh(g) ==
    /\ At(g, "refresh")
    /\ IF ~closed /\ Usable
       THEN Goto(g, "list") /\ using' = [using EXCEPT ![g] = client]
       ELSE Goto(g, "idle") /\ UNCHANGED using
    /\ UNCHANGED <<server, managed, copies, goal, fetched, seen, faults, history, begun>>

\* recordCatalogFetchFailureLocked.
RefreshFailed(g) ==
    /\ At(g, "failed")
    /\ state' = IF client = using[g] THEN "other" ELSE state
    /\ \/ using[g] \in connected /\ Leave(g, FALSE)
       \/ using[g] \notin connected /\ Goto(g, "absorb") /\ UNCHANGED <<goal, using, fetched>>
    /\ UNCHANGED <<server, client, spawning, closed, up, backoff, specs, copies, seen, faults,
                   history, begun>>

\* Mutant: the list of whichever client it was read from is applied.
AnyClient(g) == ~closed

SameClient(g) == ~closed /\ client = using[g]

\* The list is installed, and the catalog ready, or degraded if the prompts were not
\* understood.
Apply(g) ==
    /\ At(g, "apply")
    /\ \/ /\ SameClient(g)
          /\ specs' = fetched[g]
          /\ misled' = (fetched[g].list < heard)
          /\ \/ state' = "ready" /\ UNCHANGED faults
             \/ state' = "other" /\ Fault
          /\ Leave(g, TRUE)
       \/ ~SameClient(g) /\ Leave(g, FALSE) /\ UNCHANGED <<specs, state, misled, faults>>
    /\ UNCHANGED <<server, client, spawning, closed, up, backoff, copies, seen, overtaken, begun>>

-----------------------------------------------------------------------------
(* The news.                                                               *)
\* rebuildCatalog, under the manager's mutex and the server's.  The registry, if it
\* listens, mirrors it.
Rebuild(g) ==
    /\ carry[g] = "rebuild"
    /\ tools' = specs
    /\ carry' = [carry EXCEPT ![g] = IF subscribed THEN "snapshot" ELSE "none"]
    /\ UNCHANGED <<server, managed, mirror, subscribed, pc, locals, faults, history, begun>>

\* syncMCPToolsFromManager for a turn.
Sync(g) ==
    /\ At(g, "sync")
    /\ pc' = [pc EXCEPT ![g] = "idle"]
    /\ carry' = [carry EXCEPT ![g] = IF HasManager THEN "snapshot" ELSE "none"]
    /\ UNCHANGED <<server, managed, copies, locals, faults, history, begun>>

\* CatalogSnapshot under one mutex, the mirror under another.
Snapshot(g) ==
    /\ carry[g] = "snapshot"
    /\ seen' = [seen EXCEPT ![g] = tools]
    /\ carry' = [carry EXCEPT ![g] = "install"]
    /\ UNCHANGED <<server, managed, copies, pc, goal, using, fetched, faults, history, begun>>

Install(g) ==
    /\ carry[g] = "install"
    /\ mirror' = seen[g] /\ seen' = [seen EXCEPT ![g] = NoList]
    /\ overtaken' = (seen[g] # tools)
    /\ carry' = [carry EXCEPT ![g] = "none"]
    /\ UNCHANGED <<server, managed, tools, subscribed, pc, goal, using, fetched, faults, misled,
                   begun>>

-----------------------------------------------------------------------------
EnsureStep(g) == \/ AbsorbFirst(g) \/ Refused(g) \/ TakeClient(g) \/ StartLocked(g) \/ Spawn(g)
                 \/ Started(g) \/ Return(g)
RequestStep(g) == \/ WriteRequest(g) \/ ReadNotification(g) \/ Respond(g) \/ RequestFails(g)
                  \/ ListRefused(g)
RefreshStep(g) == g \in Refreshers /\ (Refresh(g) \/ RefreshFailed(g) \/ Apply(g))
NewsStep(g) == Rebuild(g) \/ Sync(g) \/ Snapshot(g) \/ Install(g)
Step(g) == \/ EnsureStep(g) \/ RequestStep(g) \/ RefreshStep(g) \/ NewsStep(g)
           \/ Absorb(g) \/ CloseServer(g) \/ Discard(g)

CatalogNext == ServerDies \/ \E g \in Goroutines : Begin(g) \/ Step(g)

CatalogSpec == CatalogInit /\ [][CatalogNext]_catalogVars

-----------------------------------------------------------------------------
(* Properties.                                                             *)

\* No process is left behind: each that lives is the installed client, is being
\* started, or is about to be closed by the goroutine that let it go; and nothing is
\* installed in a server that was closed (startLocked, managedServer.close).
Starting(g) == g \in Callers /\ pc[g] \in {"list", "listing", "prompts", "prompting", "started"}
NoOrphan ==
    /\ closed => client = 0
    /\ \A c \in connected :
          \/ c = client
          \/ \E g \in Callers : /\ using[g] = c
                                /\ Starting(g) \/ pc[g] \in {"spawn", "discard"}

\* When nobody has anything left to do, the three copies of the list agree and are the
\* installed client's; and a catalog that says "ready" has the change that its client
\* was told of last.  Except that the mirror may have been overtaken, and that a list
\* may have been read before the last notification and installed after it
\* (commitLocked, refreshCatalog, rebuildCatalog, syncMCPToolsFromManager).
AtRest == \A g \in Goroutines : carry[g] = "none" /\ pc[g] \in {"idle", "gone", "panicked"}
CatalogSettles ==
    AtRest =>
        /\ tools = specs
        /\ subscribed => mirror = tools \/ overtaken
        /\ specs # NoList => specs.from = client
        /\ state = "ready" /\ client \in connected => specs.list = heard \/ misled

\* A tool call whose ensureConnected has started a client finds one to call, unless
\* its client has gone meanwhile or the server was closed (ensureConnected).
CallHasClient ==
    \A g \in Callers : pc[g] = "panicked" => closed \/ using[g] \notin connected
=============================================================================
