---------------------------- MODULE AgentControl ----------------------------
(* The tree of agents that one session keeps: AgentRegistry with its spawn    *)
(* slots and paths (core/src/agent/registry.rs), and the operations of        *)
(* AgentControl (core/src/agent/control.rs) that create, resume, message and  *)
(* close agents.  Every agent of the tree calls them, one tool call at a time *)
(* per agent, all on the same registry.  Each lock or await of the code       *)
(* separates two steps; a call is dropped at any await when the turn that     *)
(* made it is cancelled.                                                      *)
EXTENDS Naturals, FiniteSets

CONSTANTS
    Agent,      \* thread ids of agents that may be spawned
    Root,       \* the thread of the session itself
    Path,       \* agent paths (task names) of the second version of the tools
    None,       \* no id, no path, no entry
    Reserved,   \* a path that is taken by an agent under construction
    MaxThreads, \* agent_max_threads
    MaxBusy     \* bound on tool calls under way at a time

ASSUME AgentAssumption ==
    /\ IsFiniteSet(Agent) /\ IsFiniteSet(Path)
    /\ Root \notin Agent /\ None \notin Agent /\ Reserved \notin Agent
    /\ Reserved # None /\ None # Root
    /\ None \notin Path /\ Path \cap Agent = {}
    /\ MaxThreads \in Nat /\ MaxBusy \in Nat

VARIABLES
    v2,        \* Feature::MultiAgentV2: agents have paths; before, they can be resumed
    count,     \* total_count
    tree,      \* agent_tree: key (path or thread id) -> agent, Reserved or None
    threads,   \* ThreadManagerState::threads, without the root
    alive,     \* agents whose submission loop still takes operations
    born,      \* agents that have a rollout
    parent,    \* parent_thread_id in the session source of a thread
    edge,      \* thread_spawn_edges: child -> parent and status
    pc, call,  \* the tool call of each agent: next step and locals
    lost       \* entries that a second registration of the same agent replaced

vars == <<v2, count, tree, threads, alive, born, parent, edge, pc, call, lost>>
treeVars == <<v2, born, parent>>

Caller == Agent \cup {Root}
Key == Path \cup Agent

Labels == {"idle", "prepare", "create", "commit", "persist", "input", "list", "next",
           "edge", "descend", "flush", "remove", "release"}

\* op: the tool; id: the agent it works on, the first one given as argument;
\* from: the parent of an agent that is created; queue: resumed agents whose
\* children are still to be resumed; rest: agents left to resume or to shut down.
NoCall == [op |-> "none", id |-> None, first |-> TRUE, from |-> None, path |-> None,
           queue |-> {}, rest |-> {}]

NoEdge == [parent |-> None, status |-> "none"]

Init ==
    /\ v2 \in BOOLEAN
    /\ count = 0
    /\ tree = [k \in Key |-> None]
    /\ threads = {}
    /\ alive = {}
    /\ born = {}
    /\ parent = [a \in Agent |-> None]
    /\ edge = [a \in Agent |-> NoEdge]
    /\ pc = [c \in Caller |-> "idle"]
    /\ call = [c \in Caller |-> NoCall]
    /\ lost = 0

----------------------------------------------------------------------------
At(c, l) == pc[c] = l
Goto(c, l) == pc' = [pc EXCEPT ![c] = l]
Return(c) == Goto(c, "idle") /\ call' = [call EXCEPT ![c] = NoCall]

\* An agent that is in the tree can call a tool; the root always can.
Ready(c) ==
    /\ At(c, "idle")
    /\ c = Root \/ c \in threads \cap alive
    /\ Cardinality({d \in Caller : pc[d] # "idle"}) < MaxBusy

(* AgentRegistry *)

\* try_increment_spawned
HasSlot == count < MaxThreads

\* reserve_agent_path refuses a path that is registered or reserved.
PathFree(p) == tree[p] = None

\* The key of an agent: its path, or its thread id.
KeyOf(c) == IF call[c].path # None THEN call[c].path ELSE call[c].id

\* Mutant: the slot of a failed spawn is not returned.
DropReservationPathOnly(c) ==
    /\ count' = count
    /\ tree' = IF At(c, "create") /\ call[c].path # None /\ tree[call[c].path] = Reserved
               THEN [tree EXCEPT ![call[c].path] = None]
               ELSE tree

\* Mutant: the slot is returned twice, by an early return and by drop.
DropReservationTwice(c) ==
    /\ count' = count - 2
    /\ tree' = IF At(c, "create") /\ call[c].path # None /\ tree[call[c].path] = Reserved
               THEN [tree EXCEPT ![call[c].path] = None]
               ELSE tree

\* Mutant: the path is given back although it is another spawn's.
DropReservationAnyPath(c) ==
    /\ count' = count - 1
    /\ tree' = IF call[c].path # None /\ tree[call[c].path] = Reserved
               THEN [tree EXCEPT ![call[c].path] = None]
               ELSE tree

\* SpawnReservation::drop returns the slot, and its own path if that is still
\* only reserved.
DropReservation(c) ==
    /\ count' = count - 1
    /\ tree' = IF At(c, "create") /\ call[c].path # None /\ tree[call[c].path] = Reserved
               THEN [tree EXCEPT ![call[c].path] = None]
               ELSE tree

\* SpawnReservation::commit, register_spawned_thread
Register(c) ==
    /\ tree' = [tree EXCEPT ![KeyOf(c)] = call[c].id]
    /\ lost' = IF tree[KeyOf(c)] \in Agent THEN lost + 1 ELSE lost

\* release_spawned_thread removes one entry of the agent and returns its slot.
ReleaseThread(a) ==
    \/ /\ \E k \in Key :
            /\ tree[k] = a
            /\ tree' = [tree EXCEPT ![k] = None]
       /\ count' = count - 1
    \/ /\ \A k \in Key : tree[k] # a
       /\ UNCHANGED <<tree, count>>

----------------------------------------------------------------------------
(* spawn_agent_internal and resume_single_agent_from_rollout *)

\* The spawn tool: a slot is reserved, or the call fails with AgentLimitReached.
SpawnStart(c) ==
    /\ Ready(c)
    /\ HasSlot
    /\ count' = count + 1
    /\ \E p \in (IF v2 THEN Path ELSE {None}) :
         call' = [call EXCEPT ![c] = [NoCall EXCEPT !.op = "spawn", !.from = c, !.path = p]]
    /\ Goto(c, "prepare")
    /\ UNCHANGED <<tree, threads, alive, treeVars, edge, lost>>

\* The resume tool, for an agent that the thread manager does not know.
ResumeStart(c, a) ==
    /\ Ready(c)
    /\ ~v2
    /\ a \in born \ threads
    /\ HasSlot
    /\ count' = count + 1
    /\ call' = [call EXCEPT ![c] = [NoCall EXCEPT !.op = "resume", !.id = a, !.from = c]]
    /\ Goto(c, "prepare")
    /\ UNCHANGED <<tree, threads, alive, treeVars, edge, lost>>

\* An error ends the call, except that a descendant that cannot be resumed is
\* skipped.
Fail(c) ==
    /\ DropReservation(c)
    /\ IF call[c].first THEN Return(c) ELSE Goto(c, "next") /\ UNCHANGED call

\* prepare_thread_spawn
Prepare(c) ==
    /\ At(c, "prepare")
    /\ LET p == call[c].path
       IN IF p # None => PathFree(p)
          THEN /\ tree' = [k \in Key |-> IF k = p THEN Reserved ELSE tree[k]]
               /\ Goto(c, "create")
               /\ UNCHANGED <<count, call>>
          ELSE Fail(c)
    /\ UNCHANGED <<threads, alive, treeVars, edge, lost>>

\* spawn_new_thread_with_source or resume_thread_from_rollout_with_source: the
\* thread is in the manager before it is in the registry.
Create(c) ==
    /\ At(c, "create")
    /\ \E a \in Agent :
         /\ IF call[c].op = "spawn" THEN a \notin born ELSE a = call[c].id
         /\ threads' = threads \cup {a}
         /\ alive' = alive \cup {a}
         /\ born' = born \cup {a}
         /\ parent' = [parent EXCEPT ![a] = call[c].from]
         /\ call' = [call EXCEPT ![c].id = a]
    /\ Goto(c, "commit")
    /\ UNCHANGED <<v2, count, tree, edge, lost>>

CreateFails(c) ==
    /\ At(c, "create")
    /\ Fail(c)
    /\ UNCHANGED <<threads, alive, treeVars, edge, lost>>

Commit(c) ==
    /\ At(c, "commit")
    /\ Register(c)
    /\ Goto(c, "persist")
    /\ UNCHANGED <<count, threads, alive, treeVars, edge, call>>

\* persist_thread_spawn_edge_for_source.  A resumption goes on with the children,
\* if its first agent is still there.  A state database that is missing or fails is
\* left out, here and in List and CloseEdge: the code then warns and goes on with an
\* edge that is not written (as when the call is dropped at this step), not marked,
\* or not listed, and neither slots nor paths depend on edges.
Persist(c) ==
    /\ At(c, "persist")
    /\ LET k == call[c]
       IN /\ edge' = [edge EXCEPT ![k.id] = [parent |-> k.from, status |-> "open"]]
          /\ CASE k.op = "spawn" -> Goto(c, "input") /\ UNCHANGED call
               [] k.op = "resume" /\ k.first /\ k.id \notin threads -> Return(c)
               [] OTHER ->
                    /\ call' = [call EXCEPT ![c].first = FALSE, ![c].queue = @ \cup {k.id}]
                    /\ Goto(c, IF k.first THEN "list" ELSE "next")
    /\ UNCHANGED <<count, tree, threads, alive, treeVars, lost>>

\* send_input of the first operation, and the send tool: an agent whose loop has
\* ended is removed (handle_thread_request_result).
Input(c) ==
    /\ At(c, "input")
    /\ IF call[c].id \in threads \ alive
       THEN Goto(c, "remove") /\ UNCHANGED call
       ELSE Return(c)
    /\ UNCHANGED <<count, tree, threads, alive, treeVars, edge, lost>>

SendStart(c, a) ==
    /\ Ready(c)
    /\ a \in threads \ alive
    /\ call' = [call EXCEPT ![c] = [NoCall EXCEPT !.op = "send", !.id = a]]
    /\ Goto(c, "input")
    /\ UNCHANGED <<count, tree, threads, alive, treeVars, edge, lost>>

----------------------------------------------------------------------------
(* resume_agent_from_rollout: the children of resumed agents *)

\* Agents whose edge from a parent is open.
OpenChildren(q) == {a \in Agent : edge[a] = [parent |-> q, status |-> "open"]}

List(c) ==
    /\ At(c, "list")
    /\ \/ /\ call[c].queue = {}
          /\ Return(c)
       \/ \E q \in call[c].queue :
            /\ call' = [call EXCEPT ![c].queue = @ \ {q}, ![c].from = q,
                                   ![c].rest = OpenChildren(q)]
            /\ Goto(c, "next")
    /\ UNCHANGED <<count, tree, threads, alive, treeVars, edge, lost>>

\* A child that is live is only visited, another one is resumed if there is a slot.
ResumeNext(c) ==
    /\ At(c, "next")
    /\ \/ /\ call[c].rest = {}
          /\ Goto(c, "list")
          /\ UNCHANGED <<count, call>>
       \/ \E a \in call[c].rest :
            \/ /\ a \in threads
               /\ call' = [call EXCEPT ![c].rest = @ \ {a}, ![c].queue = @ \cup {a}]
               /\ UNCHANGED <<count, pc>>
            \/ /\ a \notin threads /\ HasSlot
               /\ count' = count + 1
               /\ call' = [call EXCEPT ![c].rest = @ \ {a}, ![c].id = a]
               /\ Goto(c, "prepare")
            \/ /\ a \notin threads /\ ~HasSlot
               /\ call' = [call EXCEPT ![c].rest = @ \ {a}]
               /\ UNCHANGED <<count, pc>>
    /\ UNCHANGED <<tree, threads, alive, treeVars, edge, lost>>

----------------------------------------------------------------------------
(* close_agent, shutdown_agent_tree, shutdown_live_agent *)

CloseStart(c, a) ==
    /\ Ready(c)
    /\ a \in threads
    /\ call' = [call EXCEPT ![c] = [NoCall EXCEPT !.op = "close", !.id = a]]
    /\ Goto(c, "edge")
    /\ UNCHANGED <<count, tree, threads, alive, treeVars, edge, lost>>

CloseEdge(c) ==
    /\ At(c, "edge")
    /\ LET a == call[c].id
       IN edge' = IF a \in threads /\ edge[a] # NoEdge
                  THEN [edge EXCEPT ![a].status = "closed"]
                  ELSE edge
    /\ Goto(c, "descend")
    /\ UNCHANGED <<count, tree, threads, alive, treeVars, call, lost>>

\* live_thread_spawn_descendants: those below a, over live threads only.  A set
\* closed under "child of" that holds the children of a holds them all.
Descendants(a) ==
    LET Closed(S) == \A d \in threads : parent[d] \in S \cup {a} => d \in S
    IN {d \in threads : \A S \in SUBSET threads : Closed(S) => d \in S} \ {a}

Descend(c) ==
    /\ At(c, "descend")
    /\ call' = [call EXCEPT ![c].rest = Descendants(call[c].id)]
    /\ Goto(c, "flush")
    /\ UNCHANGED <<count, tree, threads, alive, treeVars, edge, lost>>

\* The next agent of the snapshot, or the end of the call.
ShutdownNext(c) ==
    \/ call[c].rest = {} /\ Return(c)
    \/ \E a \in call[c].rest :
         /\ call' = [call EXCEPT ![c].id = a, ![c].first = FALSE, ![c].rest = @ \ {a}]
         /\ Goto(c, "flush")

\* The rollout is flushed and Op::Shutdown sent; a thread that is gone, or whose
\* loop has ended, is no obstacle.
Flush(c) ==
    /\ At(c, "flush")
    /\ alive' = IF call[c].id \in threads THEN alive \ {call[c].id} ELSE alive
    /\ Goto(c, "remove")
    /\ UNCHANGED <<count, tree, threads, treeVars, edge, call, lost>>

\* The flush fails: the agent stays, and the error of a descendant ends the call.
FlushFails(c) ==
    /\ At(c, "flush")
    /\ call[c].id \in threads
    /\ IF call[c].first THEN ShutdownNext(c) ELSE Return(c)
    /\ UNCHANGED <<count, tree, threads, alive, treeVars, edge, lost>>

Remove(c) ==
    /\ At(c, "remove")
    /\ threads' = threads \ {call[c].id}
    /\ alive' = alive \ {call[c].id}
    /\ Goto(c, "release")
    /\ UNCHANGED <<count, tree, treeVars, edge, call, lost>>

Release(c) ==
    /\ At(c, "release")
    /\ ReleaseThread(call[c].id)
    /\ IF call[c].op = "close" THEN ShutdownNext(c) ELSE Return(c)
    /\ UNCHANGED <<threads, alive, treeVars, edge, lost>>

----------------------------------------------------------------------------
\* The submission loop of an agent ends by itself: a client shut it down, or it
\* failed.
Die(a) ==
    /\ a \in threads \cap alive
    /\ alive' = alive \ {a}
    /\ UNCHANGED <<count, tree, threads, treeVars, edge, pc, call, lost>>

\* The turn of the caller is cancelled and its tool call dropped at an await; the
\* step "release" follows "remove" without one, and so does the "commit" of a new
\* agent, while a resumed one applies its goal first.
Cancel(c) ==
    /\ pc[c] \notin {"idle", "release"}
    /\ At(c, "commit") => call[c].op = "resume"
    /\ Return(c)
    /\ IF pc[c] \in {"prepare", "create", "commit"}
       THEN DropReservation(c)
       ELSE UNCHANGED <<count, tree>>
    /\ UNCHANGED <<threads, alive, treeVars, edge, lost>>

CallStep(c) ==
    \/ Prepare(c) \/ Create(c) \/ CreateFails(c) \/ Commit(c) \/ Persist(c) \/ Input(c)
    \/ List(c) \/ ResumeNext(c)
    \/ CloseEdge(c) \/ Descend(c) \/ Flush(c) \/ FlushFails(c) \/ Remove(c) \/ Release(c)

Next ==
    \/ \E c \in Caller :
         \/ SpawnStart(c) \/ CallStep(c) \/ Cancel(c)
         \/ \E a \in Agent : ResumeStart(c, a) \/ SendStart(c, a) \/ CloseStart(c, a)
    \/ \E a \in Agent : Die(a)

Spec == Init /\ [][Next]_vars

----------------------------------------------------------------------------
(* Properties *)

Call == [op : {"none", "spawn", "resume", "send", "close"}, id : Agent \cup {None},
         first : BOOLEAN, from : Caller \cup {None}, path : Path \cup {None},
         queue : SUBSET Agent, rest : SUBSET Agent]
Edge == [parent : Caller \cup {None}, status : {"none", "open", "closed"}]

\* The type invariant: among others, the counter of slots never goes below zero.
AgentsTypeOK ==
    /\ v2 \in BOOLEAN
    /\ count \in Nat /\ lost \in Nat
    /\ tree \in [Key -> Agent \cup {None, Reserved}]
    /\ threads \subseteq born /\ alive \subseteq born /\ born \subseteq Agent
    /\ parent \in [Agent -> Caller \cup {None}]
    /\ edge \in [Agent -> Edge]
    /\ pc \in [Caller -> Labels]
    /\ call \in [Caller -> Call]

\* Calls that hold a slot for an agent under construction, and keys of agents
\* that are registered.
Holding == {c \in Caller : pc[c] \in {"prepare", "create", "commit"}}
Registered == {k \in Key : tree[k] \in Agent}

\* Spawns, resumptions, closings, failures and cancelled calls in any order
\* neither leak a slot nor return one twice: the counter is the number of agents
\* under construction or registered, except for agents that were registered a
\* second time, and it is within the limit.
SlotsExact ==
    /\ count = Cardinality(Holding) + Cardinality(Registered) + lost
    /\ count <= MaxThreads

\* Spawns that have reserved a path and not registered it yet.
Owners(p) == {c \in Caller : pc[c] \in {"create", "commit"} /\ call[c].path = p}

\* A path is reserved exactly as long as one spawn holds it.
PathsOwned ==
    \A p \in Path : Cardinality(Owners(p)) = (IF tree[p] = Reserved THEN 1 ELSE 0)
=============================================================================
