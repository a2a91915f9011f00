------------------------- MODULE AgentControlProofs -------------------------
(* The registry's books balance for any number of agents, paths and calls     *)
(* under way: SlotsExact and PathsOwned are inductive together with the       *)
(* types and with what a call knows at each of its steps.                     *)
EXTENDS AgentControl, FiniteSetTheorems, TLAPS

\* Labels at which a call holds a slot.
Slot == {"prepare", "create", "commit"}

\* What a call knows at its labels: only a spawn has a path, a call that has an
\* agent to work on has named it.
CallsKnow ==
    \A c \in Caller :
        /\ pc[c] \in {"commit", "persist", "input", "edge", "descend", "flush",
                      "remove", "release"} => call[c].id \in Agent
        /\ pc[c] \in {"create", "prepare"} /\ call[c].op # "spawn" => call[c].id \in Agent
        /\ call[c].op = "resume" => call[c].path = None

\* The types without the counter, whose sign follows from the books.
PlainTypes ==
    /\ v2 \in BOOLEAN
    /\ count \in Int /\ lost \in Nat
    /\ tree \in [Key -> Agent \cup {None, Reserved}]
    /\ threads \subseteq born /\ alive \subseteq born /\ born \subseteq Agent
    /\ parent \in [Agent -> Caller \cup {None}]
    /\ edge \in [Agent -> Edge]
    /\ pc \in [Caller -> Labels]
    /\ call \in [Caller -> Call]

Books == SlotsExact /\ PathsOwned

AgentsInv == PlainTypes /\ CallsKnow /\ Books

-----------------------------------------------------------------------------
(* Finite sets *)

\* Callers and keys are finitely many.
LEMMA FiniteBase == IsFiniteSet(Caller) /\ IsFiniteSet(Key)
<1>1. IsFiniteSet(Agent) /\ IsFiniteSet(Path)
  BY AgentAssumption
<1>2. IsFiniteSet(Agent \cup {Root})
  BY <1>1, FS_AddElement
<1>3. IsFiniteSet(Path \cup Agent)
  BY <1>1, FS_Union
<1> QED BY <1>2, <1>3 DEF Caller, Key

\* The sets whose sizes the books compare are finite, in this state and the next.
LEMMA BooksFinite ==
    /\ IsFiniteSet(Holding) /\ IsFiniteSet(Holding')
    /\ IsFiniteSet(Registered) /\ IsFiniteSet(Registered')
    /\ \A p : IsFiniteSet(Owners(p)) /\ IsFiniteSet(Owners(p)')
    /\ Cardinality(Holding) \in Nat /\ Cardinality(Holding') \in Nat
    /\ Cardinality(Registered) \in Nat /\ Cardinality(Registered') \in Nat
<1>1. Holding \in SUBSET Caller /\ Holding' \in SUBSET Caller
  BY DEF Holding
<1>2. Registered \in SUBSET Key /\ Registered' \in SUBSET Key
  BY DEF Registered
<1>3. \A p : Owners(p) \in SUBSET Caller /\ Owners(p)' \in SUBSET Caller
  BY DEF Owners
<1>4. IsFiniteSet(Holding) /\ IsFiniteSet(Holding')
  BY <1>1, FiniteBase, FS_Subset
<1>5. IsFiniteSet(Registered) /\ IsFiniteSet(Registered')
  BY <1>2, FiniteBase, FS_Subset
<1>6. \A p : IsFiniteSet(Owners(p)) /\ IsFiniteSet(Owners(p)')
  BY <1>3, FiniteBase, FS_Subset
<1> QED BY <1>4, <1>5, <1>6, FS_CardinalityType

-----------------------------------------------------------------------------
(* What each kind of step does to the books *)

\* Only the call of c changes.
Others(c) == \A d \in Caller : d # c => pc'[d] = pc[d] /\ call'[d] = call[d]

\* A step outside the construction of an agent.
LEMMA OutsideStep ==
    ASSUME AgentsInv, NEW c \in Caller, Others(c),
           pc[c] \notin Slot, pc'[c] \notin Slot, UNCHANGED <<count, tree, lost>>
    PROVE  Books'
<1>1. Holding' = Holding
  BY DEF Holding, Slot, Others
<1>2. Registered' = Registered
  BY DEF Registered
<1>3. \A p : Owners(p)' = Owners(p)
  BY DEF Owners, Slot, Others
<1> QED BY <1>1, <1>2, <1>3 DEF AgentsInv, Books, SlotsExact, PathsOwned

\* A call takes a slot.
LEMMA TakeStep ==
    ASSUME AgentsInv, NEW c \in Caller, Others(c), HasSlot,
           pc[c] \notin Slot, pc'[c] = "prepare", count' = count + 1,
           UNCHANGED <<tree, lost>>
    PROVE  Books'
<1>1. Holding' = Holding \cup {c} /\ c \notin Holding
  BY DEF Holding, Slot, Others
<1>2. Cardinality(Holding') = Cardinality(Holding) + 1
  BY <1>1, BooksFinite, FS_AddElement
<1>3. Registered' = Registered
  BY DEF Registered
<1>4. \A p : Owners(p)' = Owners(p)
  BY DEF Owners, Slot, Others
<1>5. SlotsExact'
  <2>1. count' = Cardinality(Holding') + Cardinality(Registered') + lost'
    BY <1>2, <1>3, BooksFinite DEF AgentsInv, Books, SlotsExact, PlainTypes
  <2>2. count' <= MaxThreads
    BY AgentAssumption DEF HasSlot, AgentsInv, PlainTypes
  <2> QED BY <2>1, <2>2 DEF SlotsExact
<1> QED BY <1>4, <1>5 DEF AgentsInv, Books, PathsOwned

\* A call reserves its path, if it has one.
LEMMA ReserveStep ==
    ASSUME AgentsInv, NEW c \in Caller, Others(c),
           pc[c] = "prepare", pc'[c] = "create", call'[c] = call[c],
           call[c].path # None => PathFree(call[c].path),
           tree' = [k \in Key |-> IF k = call[c].path THEN Reserved ELSE tree[k]],
           UNCHANGED <<count, lost>>
    PROVE  Books'
<1>1. Holding' = Holding
  BY DEF Holding, Others
<1>2. Registered' = Registered
  BY AgentAssumption DEF Registered, PathFree, Key
<1>3. ASSUME NEW p \in Path
      PROVE  Cardinality(Owners(p)') = (IF tree'[p] = Reserved THEN 1 ELSE 0)
  <2>1. CASE p = call[c].path
    <3>1. Cardinality(Owners(p)) = 0
      BY <2>1, AgentAssumption DEF AgentsInv, Books, PathsOwned, PathFree
    <3>2. Owners(p) = {}
      BY <3>1, BooksFinite, FS_EmptySet
    <3>3. Owners(p)' = {c}
      BY <2>1, <3>2 DEF Owners, Others
    <3>4. Cardinality(Owners(p)') = 1
      BY <3>3, FS_Singleton
    <3> QED BY <2>1, <3>4 DEF Key
  <2>2. CASE p # call[c].path
    <3>1. Owners(p)' = Owners(p)
      BY <2>2 DEF Owners, Others
    <3>2. tree'[p] = tree[p]
      BY <2>2 DEF Key
    <3> QED BY <3>1, <3>2 DEF AgentsInv, Books, PathsOwned
  <2> QED BY <2>1, <2>2
<1> QED BY <1>1, <1>2, <1>3 DEF AgentsInv, Books, SlotsExact, PathsOwned

\* A call creates its thread.
LEMMA CreateStep ==
    ASSUME AgentsInv, NEW c \in Caller, Others(c),
           pc[c] = "create", pc'[c] = "commit", call'[c].path = call[c].path,
           UNCHANGED <<count, tree, lost>>
    PROVE  Books'
<1>1. Holding' = Holding
  BY DEF Holding, Others
<1>2. Registered' = Registered
  BY DEF Registered
<1>3. \A p : Owners(p)' = Owners(p)
  BY DEF Owners, Others
<1> QED BY <1>1, <1>2, <1>3 DEF AgentsInv, Books, SlotsExact, PathsOwned

\* A call gives up its construction: the slot comes back, and so does a path.
LEMMA DropStep ==
    ASSUME AgentsInv, NEW c \in Caller, Others(c), DropReservation(c),
           pc[c] \in Slot, pc'[c] \notin Slot,
           pc[c] = "commit" => call[c].path = None,
           lost' = lost
    PROVE  Books'
<1>1. Holding' = Holding \ {c} /\ c \in Holding
  BY DEF Holding, Slot, Others
<1>2. Cardinality(Holding') = Cardinality(Holding) - 1
  BY <1>1, BooksFinite, FS_RemoveElement
<1>3. Registered' = Registered
  BY AgentAssumption DEF Registered, DropReservation, AgentsInv, PlainTypes, Key
<1>4. SlotsExact'
  <2>1. count' = count - 1
    BY DEF DropReservation
  <2> QED BY <1>2, <1>3, <2>1, BooksFinite, AgentAssumption
          DEF AgentsInv, Books, SlotsExact, PlainTypes
<1>5. ASSUME NEW p \in Path
      PROVE  Cardinality(Owners(p)') = (IF tree'[p] = Reserved THEN 1 ELSE 0)
  <2>1. CASE c \in Owners(p)
    <3>1. pc[c] = "create" /\ call[c].path = p /\ p # None
      BY <2>1, AgentAssumption DEF Owners
    <3>2. tree[p] = Reserved /\ Cardinality(Owners(p)) = 1
      <4>1. Owners(p) # {}
        BY <2>1
      <4>2. Cardinality(Owners(p)) # 0
        BY <4>1, BooksFinite, FS_EmptySet
      <4> QED BY <4>2 DEF AgentsInv, Books, PathsOwned
    <3>3. Owners(p)' = Owners(p) \ {c}
      BY DEF Owners, Slot, Others
    <3>4. Cardinality(Owners(p)') = 0
      <4>1. IsFiniteSet(Owners(p))
        BY BooksFinite
      <4>2. Cardinality(Owners(p) \ {c}) = Cardinality(Owners(p)) - 1
        BY <2>1, <4>1, FS_RemoveElement
      <4> QED BY <3>2, <3>3, <4>2
    <3>5. tree'[p] = None
      BY <3>1, <3>2 DEF DropReservation, At, AgentsInv, PlainTypes, Key
    <3> QED BY <3>4, <3>5, AgentAssumption
  <2>2. CASE c \notin Owners(p)
    <3>1. Owners(p)' = Owners(p)
      BY <2>2 DEF Owners, Slot, Others
    <3>2. tree'[p] = tree[p]
      BY <2>2 DEF DropReservation, At, AgentsInv, PlainTypes, Key, Owners
    <3> QED BY <3>1, <3>2 DEF AgentsInv, Books, PathsOwned
  <2> QED BY <2>1, <2>2
<1> QED BY <1>4, <1>5 DEF Books, PathsOwned

\* A call registers its agent: the slot is the agent's now.
LEMMA RegisterStep ==
    ASSUME AgentsInv, NEW c \in Caller, Others(c), Register(c),
           pc[c] = "commit", pc'[c] \notin Slot, count' = count
    PROVE  Books'
<1> DEFINE k == KeyOf(c)
<1>0. k \in Key /\ call[c].id \in Agent
  BY AgentAssumption DEF AgentsInv, PlainTypes, CallsKnow, KeyOf, Key, Call
<1>1. Holding' = Holding \ {c} /\ c \in Holding
  BY DEF Holding, Slot, Others
<1>2. Cardinality(Holding') = Cardinality(Holding) - 1
  BY <1>1, BooksFinite, FS_RemoveElement
<1>3. tree' = [tree EXCEPT ![k] = call[c].id] /\ tree'[k] \in Agent
  BY <1>0 DEF Register, AgentsInv, PlainTypes
<1>4. Registered' = Registered \cup {k}
  BY <1>0, <1>3 DEF Registered, AgentsInv, PlainTypes
<1>5. SlotsExact'
  <2>0. Cardinality(Holding) \in Nat /\ Cardinality(Registered) \in Nat /\ lost \in Nat
    BY BooksFinite DEF AgentsInv, PlainTypes
  <2>1. CASE k \in Registered
    <3>1. Registered' = Registered /\ lost' = lost + 1
      BY <1>4, <2>1 DEF Register, Registered
    <3>2. Cardinality(Registered') = Cardinality(Registered)
      BY <3>1
    <3> QED BY <1>2, <2>0, <3>1, <3>2 DEF AgentsInv, Books, SlotsExact
  <2>2. CASE k \notin Registered
    <3>1. Cardinality(Registered') = Cardinality(Registered) + 1
      BY <1>4, <2>2, BooksFinite, FS_AddElement
    <3>2. lost' = lost
      BY <1>0, <2>2 DEF Register, Registered
    <3> QED BY <1>2, <3>1, <3>2, BooksFinite DEF AgentsInv, Books, SlotsExact, PlainTypes
  <2> QED BY <2>1, <2>2
<1>6. ASSUME NEW p \in Path
      PROVE  Cardinality(Owners(p)') = (IF tree'[p] = Reserved THEN 1 ELSE 0)
  <2>1. CASE c \in Owners(p)
    <3>1. k = p
      BY <2>1, AgentAssumption DEF Owners, KeyOf
    <3>2. Cardinality(Owners(p)) = 1
      <4>1. Cardinality(Owners(p)) # 0
        BY <2>1, BooksFinite, FS_EmptySet
      <4> QED BY <4>1 DEF AgentsInv, Books, PathsOwned
    <3>3. Owners(p)' = Owners(p) \ {c}
      BY DEF Owners, Slot, Others
    <3>4. Cardinality(Owners(p)') = 0
      <4>1. IsFiniteSet(Owners(p))
        BY BooksFinite
      <4>2. Cardinality(Owners(p) \ {c}) = Cardinality(Owners(p)) - 1
        BY <2>1, <4>1, FS_RemoveElement
      <4> QED BY <3>2, <3>3, <4>2
    <3> QED BY <1>3, <3>1, <3>4, AgentAssumption
  <2>2. CASE c \notin Owners(p)
    <3>1. Owners(p)' = Owners(p)
      BY <2>2 DEF Owners, Slot, Others
    <3>2. k # p
      BY <1>0, <2>2, AgentAssumption DEF Owners, KeyOf
    <3>3. tree'[p] = tree[p]
      BY <1>3, <3>2 DEF AgentsInv, PlainTypes, Key
    <3> QED BY <3>1, <3>3 DEF AgentsInv, Books, PathsOwned
  <2> QED BY <2>1, <2>2
<1> QED BY <1>5, <1>6 DEF Books, PathsOwned

\* An agent that is removed gives back its entry and its slot together.
LEMMA ReleaseStep ==
    ASSUME AgentsInv, NEW c \in Caller, Others(c), NEW a \in Agent, ReleaseThread(a),
           pc[c] \notin Slot, pc'[c] \notin Slot, lost' = lost
    PROVE  Books'
<1>1. Holding' = Holding
  BY DEF Holding, Slot, Others
<1>2. \A p : Owners(p)' = Owners(p)
  BY DEF Owners, Slot, Others
<1>3. CASE UNCHANGED <<tree, count>>
  BY <1>1, <1>2, <1>3 DEF Registered, AgentsInv, Books, SlotsExact, PathsOwned
<1>4. ASSUME NEW k \in Key, tree[k] = a, tree' = [tree EXCEPT ![k] = None], count' = count - 1
      PROVE  Books'
  <2>1. Registered' = Registered \ {k} /\ k \in Registered
    BY <1>4, AgentAssumption DEF Registered, AgentsInv, PlainTypes
  <2>2. Cardinality(Registered') = Cardinality(Registered) - 1
    BY <2>1, BooksFinite, FS_RemoveElement
  <2>3. SlotsExact'
    BY <1>1, <1>4, <2>2, BooksFinite, AgentAssumption
       DEF AgentsInv, Books, SlotsExact, PlainTypes
  <2>4. \A p \in Path : tree'[p] = Reserved <=> tree[p] = Reserved
    BY <1>4, AgentAssumption DEF AgentsInv, PlainTypes, Key
  <2> QED BY <1>2, <2>3, <2>4 DEF AgentsInv, Books, PathsOwned
<1> QED BY <1>3, <1>4 DEF ReleaseThread
-----------------------------------------------------------------------------
(* One lemma per action *)

\* The record of a call that is not under way.
LEMMA NoCallType == NoCall \in Call /\ NoCall.op = "none" /\ NoCall.path = None
  BY DEF NoCall, Call

\* The types of the step and the locals of a call.
CallTypes == pc \in [Caller -> Labels] /\ call \in [Caller -> Call]

\* A call that returns leaves nothing behind.
LEMMA ReturnKeeps ==
    ASSUME AgentsInv, NEW c \in Caller, Return(c)
    PROVE  CallTypes' /\ CallsKnow' /\ Others(c) /\ pc'[c] = "idle"
<1>1. pc' = [pc EXCEPT ![c] = "idle"] /\ call' = [call EXCEPT ![c] = NoCall]
  BY DEF Return, Goto
<1>2. CallTypes' /\ Others(c) /\ pc'[c] = "idle" /\ call'[c] = NoCall
  BY <1>1, NoCallType DEF CallTypes, AgentsInv, PlainTypes, Labels, Others
<1>3. CallsKnow'
  BY <1>2, NoCallType DEF AgentsInv, CallsKnow, Others
<1> QED BY <1>2, <1>3

\* The labels at which a call has named its agent.
Named == {"commit", "persist", "input", "edge", "descend", "flush", "remove", "release"}

\* A call that goes on knows what it has to.
LEMMA GoesOn ==
    ASSUME AgentsInv, NEW c \in Caller, NEW l \in Labels, NEW r \in Call,
           pc' = [pc EXCEPT ![c] = l], call' = [call EXCEPT ![c] = r],
           l \in Named => r.id \in Agent,
           l \in {"create", "prepare"} /\ r.op # "spawn" => r.id \in Agent,
           r.op = "resume" => r.path = None
    PROVE  CallTypes' /\ CallsKnow' /\ Others(c) /\ pc'[c] = l /\ call'[c] = r
<1>1. CallTypes' /\ Others(c) /\ pc'[c] = l /\ call'[c] = r
  BY DEF CallTypes, AgentsInv, PlainTypes, Others
<1>2. CallsKnow'
  BY <1>1 DEF AgentsInv, CallsKnow, Others, Named
<1> QED BY <1>1, <1>2

\* A slot is taken for a new agent.
LEMMA SpawnStartKeeps ==
    ASSUME AgentsInv, NEW c \in Caller, SpawnStart(c)
    PROVE  AgentsInv'
<1>1. PICK p \in Path \cup {None} :
         call' = [call EXCEPT ![c] = [NoCall EXCEPT !.op = "spawn", !.from = c, !.path = p]]
  BY DEF SpawnStart
<1> DEFINE r == [NoCall EXCEPT !.op = "spawn", !.from = c, !.path = p]
<1>2. r \in Call /\ r.op = "spawn"
  BY <1>1 DEF NoCall, Call
<1>3. pc' = [pc EXCEPT ![c] = "prepare"] /\ "prepare" \in Labels
  BY DEF SpawnStart, Goto, Labels
<1> HIDE DEF r
<1>4. CallTypes' /\ CallsKnow' /\ Others(c) /\ pc'[c] = "prepare"
  BY <1>1, <1>2, <1>3, GoesOn DEF Named, r
<1>5. PlainTypes'
  BY <1>4 DEF SpawnStart, CallTypes, treeVars, AgentsInv, PlainTypes
<1>6. Books'
  BY <1>4, TakeStep DEF SpawnStart, Ready, At, Slot
<1> QED BY <1>4, <1>5, <1>6 DEF AgentsInv

\* A slot is taken for a closed agent.
LEMMA ResumeStartKeeps ==
    ASSUME AgentsInv, NEW c \in Caller, NEW a \in Agent, ResumeStart(c, a)
    PROVE  AgentsInv'
<1>1. Others(c)
  BY DEF ResumeStart, Ready, Others, Goto, Return, AgentsInv, PlainTypes
<1>2. PlainTypes'
  <2>1. CallTypes'
    BY AgentAssumption, NoCallType
       DEF ResumeStart, Ready, Goto, Return, CallTypes, AgentsInv, PlainTypes,
           Labels, Call, NoCall, Caller
  <2> QED BY <2>1, AgentAssumption
     DEF ResumeStart, Ready, CallTypes, treeVars, AgentsInv, PlainTypes, Call,
         CallsKnow, At, Edge, Caller, Key
<1>3. CallsKnow'
  BY AgentAssumption
     DEF ResumeStart, Ready, Goto, Return, At, AgentsInv, PlainTypes, CallsKnow,
         Call, NoCall, Caller, Key
<1>4. Books'
  BY <1>1, TakeStep DEF ResumeStart, Ready, Goto, At, Slot, AgentsInv, PlainTypes
<1> QED BY <1>2, <1>3, <1>4 DEF AgentsInv

\* The thread is made.
LEMMA CreateKeeps ==
    ASSUME AgentsInv, NEW c \in Caller, Create(c)
    PROVE  AgentsInv'
<1>1. Others(c)
  BY DEF Create, Others, Goto, Return, AgentsInv, PlainTypes
<1>2. PlainTypes'
  BY AgentAssumption
     DEF Create, Goto, Return, At, treeVars, AgentsInv, PlainTypes, Labels, Call,
         Edge, NoCall, Caller, Key
<1>3. CallsKnow'
  BY AgentAssumption
     DEF Create, Goto, Return, At, AgentsInv, PlainTypes, CallsKnow, Call, NoCall,
         Caller, Key
<1>4. Books'
  BY <1>1, CreateStep DEF Create, Goto, At, AgentsInv, PlainTypes, Call
<1> QED BY <1>2, <1>3, <1>4 DEF AgentsInv

\* The agent is registered.
LEMMA CommitKeeps ==
    ASSUME AgentsInv, NEW c \in Caller, Commit(c)
    PROVE  AgentsInv'
<1>1. Others(c)
  BY DEF Commit, Register, KeyOf, Others, Goto, Return, AgentsInv, PlainTypes
<1>2. PlainTypes'
  <2>1. CallTypes'
    BY AgentAssumption, NoCallType
       DEF Commit, Register, KeyOf, Goto, Return, CallTypes, AgentsInv,
           PlainTypes, Labels, Call, NoCall, Caller
  <2> QED BY <2>1, AgentAssumption
     DEF Commit, Register, KeyOf, CallTypes, treeVars, AgentsInv, PlainTypes, Call,
         CallsKnow, At, Edge, Caller, Key
<1>3. CallsKnow'
  BY AgentAssumption
     DEF Commit, Register, KeyOf, Goto, Return, At, AgentsInv, PlainTypes,
         CallsKnow, Call, NoCall, Caller, Key
<1>4. Books'
  BY <1>1, RegisterStep DEF Commit, Goto, At, Slot, AgentsInv, PlainTypes
<1> QED BY <1>2, <1>3, <1>4 DEF AgentsInv

\* The edge of a closed agent is marked.
LEMMA CloseEdgeKeeps ==
    ASSUME AgentsInv, NEW c \in Caller, CloseEdge(c)
    PROVE  AgentsInv'
<1>1. Others(c)
  BY DEF CloseEdge, NoEdge, Others, Goto, Return, AgentsInv, PlainTypes
<1>2. PlainTypes'
  BY AgentAssumption
     DEF CloseEdge, NoEdge, Goto, Return, At, treeVars, AgentsInv, PlainTypes,
         Labels, Call, Edge, NoCall, Caller, Key
<1>3. CallsKnow'
  BY AgentAssumption
     DEF CloseEdge, NoEdge, Goto, Return, At, AgentsInv, PlainTypes, CallsKnow,
         Call, NoCall, Caller, Key
<1>4. Books'
  BY <1>1, OutsideStep DEF CloseEdge, Goto, Return, At, Slot, AgentsInv, PlainTypes
<1> QED BY <1>2, <1>3, <1>4 DEF AgentsInv

\* The descendants of a closed agent are listed.
LEMMA DescendKeeps ==
    ASSUME AgentsInv, NEW c \in Caller, Descend(c)
    PROVE  AgentsInv'
<1>1. Others(c)
  BY DEF Descend, Descendants, Others, Goto, Return, AgentsInv, PlainTypes
<1>2. PlainTypes'
  BY AgentAssumption
     DEF Descend, Descendants, Goto, Return, At, treeVars, AgentsInv, PlainTypes,
         Labels, Call, Edge, NoCall, Caller, Key
<1>3. CallsKnow'
  BY AgentAssumption
     DEF Descend, Descendants, Goto, Return, At, AgentsInv, PlainTypes, CallsKnow,
         Call, NoCall, Caller, Key
<1>4. Books'
  BY <1>1, OutsideStep DEF Descend, Goto, Return, At, Slot, AgentsInv, PlainTypes
<1> QED BY <1>2, <1>3, <1>4 DEF AgentsInv

\* The rollout is flushed.
LEMMA FlushKeeps ==
    ASSUME AgentsInv, NEW c \in Caller, Flush(c)
    PROVE  AgentsInv'
<1>1. Others(c)
  BY DEF Flush, Others, Goto, Return, AgentsInv, PlainTypes
<1>2. PlainTypes'
  BY AgentAssumption
     DEF Flush, Goto, Return, At, treeVars, AgentsInv, PlainTypes, Labels, Call,
         Edge, NoCall, Caller, Key
<1>3. CallsKnow'
  BY AgentAssumption
     DEF Flush, Goto, Return, At, AgentsInv, PlainTypes, CallsKnow, Call, NoCall,
         Caller, Key
<1>4. Books'
  BY <1>1, OutsideStep DEF Flush, Goto, Return, At, Slot, AgentsInv, PlainTypes
<1> QED BY <1>2, <1>3, <1>4 DEF AgentsInv

\* The thread leaves the manager.
LEMMA RemoveKeeps ==
    ASSUME AgentsInv, NEW c \in Caller, Remove(c)
    PROVE  AgentsInv'
<1>1. Others(c)
  BY DEF Remove, Others, Goto, Return, AgentsInv, PlainTypes
<1>2. PlainTypes'
  BY AgentAssumption
     DEF Remove, Goto, Return, At, treeVars, AgentsInv, PlainTypes, Labels, Call,
         Edge, NoCall, Caller, Key
<1>3. CallsKnow'
  BY AgentAssumption
     DEF Remove, Goto, Return, At, AgentsInv, PlainTypes, CallsKnow, Call, NoCall,
         Caller, Key
<1>4. Books'
  BY <1>1, OutsideStep DEF Remove, Goto, Return, At, Slot, AgentsInv, PlainTypes
<1> QED BY <1>2, <1>3, <1>4 DEF AgentsInv

\* A message is sent.
LEMMA SendStartKeeps ==
    ASSUME AgentsInv, NEW c \in Caller, NEW a \in Agent, SendStart(c, a)
    PROVE  AgentsInv'
<1>1. Others(c)
  BY DEF SendStart, Ready, Others, Goto, Return, AgentsInv, PlainTypes
<1>2. PlainTypes'
  BY AgentAssumption
     DEF SendStart, Ready, Goto, Return, At, treeVars, AgentsInv, PlainTypes,
         Labels, Call, Edge, NoCall, Caller, Key
<1>3. CallsKnow'
  BY AgentAssumption
     DEF SendStart, Ready, Goto, Return, At, AgentsInv, PlainTypes, CallsKnow,
         Call, NoCall, Caller, Key
<1>4. Books'
  BY <1>1, OutsideStep DEF SendStart, Ready, Goto, Return, At, Slot, AgentsInv, PlainTypes
<1> QED BY <1>2, <1>3, <1>4 DEF AgentsInv

\* A closing begins.
LEMMA CloseStartKeeps ==
    ASSUME AgentsInv, NEW c \in Caller, NEW a \in Agent, CloseStart(c, a)
    PROVE  AgentsInv'
<1>1. Others(c)
  BY DEF CloseStart, Ready, Others, Goto, Return, AgentsInv, PlainTypes
<1>2. PlainTypes'
  BY AgentAssumption
     DEF CloseStart, Ready, Goto, Return, At, treeVars, AgentsInv, PlainTypes,
         Labels, Call, Edge, NoCall, Caller, Key
<1>3. CallsKnow'
  BY AgentAssumption
     DEF CloseStart, Ready, Goto, Return, At, AgentsInv, PlainTypes, CallsKnow,
         Call, NoCall, Caller, Key
<1>4. Books'
  BY <1>1, OutsideStep DEF CloseStart, Ready, Goto, Return, At, Slot, AgentsInv, PlainTypes
<1> QED BY <1>2, <1>3, <1>4 DEF AgentsInv

\* The spawn edge is written, and a resumption goes on to the children.
LEMMA PersistKeeps ==
    ASSUME AgentsInv, NEW c \in Caller, Persist(c)
    PROVE  AgentsInv'
<1> DEFINE k == call[c]
<1>0. k \in Call /\ k.id \in Agent /\ pc[c] = "persist"
  BY DEF Persist, At, AgentsInv, PlainTypes, CallsKnow
<1>1. CallTypes' /\ CallsKnow' /\ Others(c) /\ pc'[c] \notin Slot
  <2>1. CASE Goto(c, "input") /\ UNCHANGED call
    <3>1. call' = [call EXCEPT ![c] = call[c]]
      BY <2>1 DEF AgentsInv, PlainTypes
    <3> QED BY <2>1, <3>1, <1>0, GoesOn DEF Goto, Labels, Slot, AgentsInv, CallsKnow
  <2>2. CASE Return(c)
    BY <2>2, ReturnKeeps DEF Slot
  <2>3. CASE /\ call' = [call EXCEPT ![c].first = FALSE, ![c].queue = @ \cup {k.id}]
             /\ Goto(c, IF k.first THEN "list" ELSE "next")
    <3> DEFINE r == [k EXCEPT !.first = FALSE, !.queue = @ \cup {k.id}]
    <3>1. call' = [call EXCEPT ![c] = r]
      BY <2>3, <1>0 DEF AgentsInv, PlainTypes, Call
    <3>2. r \in Call /\ r.op = k.op /\ r.path = k.path
      BY <1>0 DEF Call
    <3>3. PICK l \in {"list", "next"} : pc' = [pc EXCEPT ![c] = l]
      BY <2>3 DEF Goto
    <3>4. l \in Labels /\ l \notin Named /\ l \notin Slot
      BY <3>3 DEF Labels, Named, Slot
    <3>5. r.op = "resume" => r.path = None
      BY <3>2 DEF AgentsInv, CallsKnow
    <3> HIDE DEF r
    <3> QED BY <3>1, <3>2, <3>3, <3>4, <3>5, GoesOn DEF Slot
  <2> QED BY <2>1, <2>2, <2>3 DEF Persist
<1>2. PlainTypes'
  <2>1. edge' \in [Agent -> Edge]
    BY <1>0 DEF Persist, AgentsInv, PlainTypes, Edge, Call
  <2> QED BY <1>1, <2>1 DEF Persist, CallTypes, treeVars, AgentsInv, PlainTypes
<1>3. Books'
  BY <1>0, <1>1, OutsideStep DEF Persist, Slot
<1> QED BY <1>1, <1>2, <1>3 DEF AgentsInv

\* The first input is sent, or an agent that ended is removed.
LEMMA InputKeeps ==
    ASSUME AgentsInv, NEW c \in Caller, Input(c)
    PROVE  AgentsInv'
<1>0. call[c] \in Call /\ call[c].id \in Agent /\ pc[c] = "input"
  BY DEF Input, At, AgentsInv, PlainTypes, CallsKnow
<1>1. CallTypes' /\ CallsKnow' /\ Others(c) /\ pc'[c] \notin Slot
  <2>1. CASE Goto(c, "remove") /\ UNCHANGED call
    <3>1. call' = [call EXCEPT ![c] = call[c]]
      BY <2>1 DEF AgentsInv, PlainTypes
    <3> QED BY <2>1, <3>1, <1>0, GoesOn DEF Goto, Labels, Slot, AgentsInv, CallsKnow
  <2>2. CASE Return(c)
    BY <2>2, ReturnKeeps DEF Slot
  <2> QED BY <2>1, <2>2 DEF Input
<1>2. PlainTypes'
  BY <1>1 DEF Input, CallTypes, treeVars, AgentsInv, PlainTypes
<1>3. Books'
  BY <1>0, <1>1, OutsideStep DEF Input, Slot
<1> QED BY <1>1, <1>2, <1>3 DEF AgentsInv

\* The children of a resumed agent are listed.
LEMMA ListKeeps ==
    ASSUME AgentsInv, NEW c \in Caller, List(c)
    PROVE  AgentsInv'
<1>0. call[c] \in Call /\ pc[c] = "list"
  BY DEF List, At, AgentsInv, PlainTypes
<1>1. CallTypes' /\ CallsKnow' /\ Others(c) /\ pc'[c] \notin Slot
  <2>1. CASE Return(c)
    BY <2>1, ReturnKeeps DEF Slot
  <2>2. ASSUME NEW q \in call[c].queue,
               call' = [call EXCEPT ![c].queue = @ \ {q}, ![c].from = q,
                                    ![c].rest = OpenChildren(q)],
               Goto(c, "next")
        PROVE  CallTypes' /\ CallsKnow' /\ Others(c) /\ pc'[c] \notin Slot
    <3> DEFINE r == [call[c] EXCEPT !.queue = @ \ {q}, !.from = q, !.rest = OpenChildren(q)]
    <3>1. call' = [call EXCEPT ![c] = r]
      BY <2>2, <1>0 DEF AgentsInv, PlainTypes, Call
    <3>2. r \in Call /\ r.op = call[c].op /\ r.path = call[c].path
      BY <1>0, <2>2 DEF Call, Caller, OpenChildren
    <3>3. r.op = "resume" => r.path = None
      BY <3>2 DEF AgentsInv, CallsKnow
    <3> HIDE DEF r
    <3> QED BY <2>2, <3>1, <3>2, <3>3, GoesOn DEF Goto, Labels, Named, Slot
  <2> QED BY <2>1, <2>2 DEF List
<1>2. PlainTypes'
  BY <1>1 DEF List, CallTypes, treeVars, AgentsInv, PlainTypes
<1>3. Books'
  BY <1>0, <1>1, OutsideStep DEF List, Slot
<1> QED BY <1>1, <1>2, <1>3 DEF AgentsInv

\* The next agent of a closing.
LEMMA ShutdownNextKeeps ==
    ASSUME AgentsInv, NEW c \in Caller, ShutdownNext(c)
    PROVE  CallTypes' /\ CallsKnow' /\ Others(c) /\ pc'[c] \notin Slot
<1>0. call[c] \in Call
  BY DEF AgentsInv, PlainTypes
<1>1. CASE Return(c)
  BY <1>1, ReturnKeeps DEF Slot
<1>2. ASSUME NEW a \in call[c].rest,
             call' = [call EXCEPT ![c].id = a, ![c].first = FALSE, ![c].rest = @ \ {a}],
             Goto(c, "flush")
      PROVE  CallTypes' /\ CallsKnow' /\ Others(c) /\ pc'[c] \notin Slot
  <2> DEFINE r == [call[c] EXCEPT !.id = a, !.first = FALSE, !.rest = @ \ {a}]
  <2>1. call' = [call EXCEPT ![c] = r]
    BY <1>2, <1>0 DEF AgentsInv, PlainTypes, Call
  <2>2. r \in Call /\ r.op = call[c].op /\ r.path = call[c].path /\ r.id \in Agent
    BY <1>0, <1>2 DEF Call
  <2>3. r.op = "resume" => r.path = None
    BY <2>2 DEF AgentsInv, CallsKnow
  <2> HIDE DEF r
  <2> QED BY <1>2, <2>1, <2>2, <2>3, GoesOn DEF Goto, Labels, Slot
<1> QED BY <1>1, <1>2 DEF ShutdownNext

\* The rollout cannot be flushed.
LEMMA FlushFailsKeeps ==
    ASSUME AgentsInv, NEW c \in Caller, FlushFails(c)
    PROVE  AgentsInv'
<1>1. CallTypes' /\ CallsKnow' /\ Others(c) /\ pc'[c] \notin Slot
  BY ReturnKeeps, ShutdownNextKeeps DEF FlushFails, Slot
<1>2. PlainTypes'
  BY <1>1 DEF FlushFails, CallTypes, treeVars, AgentsInv, PlainTypes
<1>3. Books'
  BY <1>1, OutsideStep DEF FlushFails, At, Slot
<1> QED BY <1>1, <1>2, <1>3 DEF AgentsInv

\* An agent's entry is released.
LEMMA ReleaseKeeps ==
    ASSUME AgentsInv, NEW c \in Caller, Release(c)
    PROVE  AgentsInv'
<1>0. call[c].id \in Agent /\ pc[c] = "release"
  BY DEF Release, At, AgentsInv, CallsKnow
<1>1. CallTypes' /\ CallsKnow' /\ Others(c) /\ pc'[c] \notin Slot
  BY ReturnKeeps, ShutdownNextKeeps DEF Release, Slot
<1>2. PlainTypes'
  <2>1. tree' \in [Key -> Agent \cup {None, Reserved}] /\ count' \in Int
    BY DEF Release, ReleaseThread, AgentsInv, PlainTypes
  <2> QED BY <1>1, <2>1 DEF Release, CallTypes, treeVars, AgentsInv, PlainTypes
<1>3. Books'
  BY <1>0, <1>1, ReleaseStep DEF Release, Slot
<1> QED BY <1>1, <1>2, <1>3 DEF AgentsInv

\* A failed construction ends the call or goes on to the next child.
LEMMA FailKeeps ==
    ASSUME AgentsInv, NEW c \in Caller, Fail(c), pc[c] \in {"prepare", "create"},
           UNCHANGED <<threads, alive, treeVars, edge, lost>>
    PROVE  AgentsInv'
<1>1. CallTypes' /\ CallsKnow' /\ Others(c) /\ pc'[c] \notin Slot
  <2>1. CASE Return(c)
    BY <2>1, ReturnKeeps DEF Slot
  <2>2. CASE Goto(c, "next") /\ UNCHANGED call
    <3>1. call' = [call EXCEPT ![c] = call[c]] /\ call[c] \in Call
      BY <2>2 DEF AgentsInv, PlainTypes
    <3> QED BY <2>2, <3>1, GoesOn DEF Goto, Labels, Named, Slot, AgentsInv, CallsKnow
  <2> QED BY <2>1, <2>2 DEF Fail
<1>2. PlainTypes'
  <2>0. DropReservation(c)
    BY DEF Fail
  <2>1. tree' = tree \/ tree' = [tree EXCEPT ![call[c].path] = None]
    BY <2>0 DEF DropReservation
  <2>2. count' = count - 1
    BY <2>0 DEF DropReservation
  <2>3. tree' \in [Key -> Agent \cup {None, Reserved}] /\ count' \in Int
    BY <2>1, <2>2 DEF AgentsInv, PlainTypes
  <2> QED BY <1>1, <2>3 DEF CallTypes, treeVars, AgentsInv, PlainTypes
<1>3. Books'
  BY <1>1, DropStep DEF Fail, Slot
<1> QED BY <1>1, <1>2, <1>3 DEF AgentsInv

\* The thread cannot be made.
LEMMA CreateFailsKeeps ==
    ASSUME AgentsInv, NEW c \in Caller, CreateFails(c)
    PROVE  AgentsInv'
  BY FailKeeps DEF CreateFails, At

\* The path is reserved, or the call fails.
LEMMA PrepareKeeps ==
    ASSUME AgentsInv, NEW c \in Caller, Prepare(c)
    PROVE  AgentsInv'
<1> DEFINE p == call[c].path
<1>0. pc[c] = "prepare" /\ call[c] \in Call
  BY DEF Prepare, At, AgentsInv, PlainTypes
<1>1. CASE Fail(c)
  BY <1>0, <1>1, FailKeeps DEF Prepare
<1>2. CASE /\ p # None => PathFree(p)
           /\ tree' = [k \in Key |-> IF k = p THEN Reserved ELSE tree[k]]
           /\ Goto(c, "create")
           /\ UNCHANGED <<count, call>>
  <2>1. call' = [call EXCEPT ![c] = call[c]]
    BY <1>2 DEF AgentsInv, PlainTypes
  <2>2. CallTypes' /\ CallsKnow' /\ Others(c) /\ pc'[c] = "create" /\ call'[c] = call[c]
    BY <1>0, <1>2, <2>1, GoesOn DEF Goto, Labels, Named, AgentsInv, CallsKnow
  <2>3. PlainTypes'
    <3>1. tree' \in [Key -> Agent \cup {None, Reserved}]
      BY <1>2 DEF AgentsInv, PlainTypes
    <3> QED BY <1>2, <2>2, <3>1 DEF Prepare, CallTypes, treeVars, AgentsInv, PlainTypes
  <2>4. Books'
    BY <1>0, <1>2, <2>2, ReserveStep DEF Prepare
  <2> QED BY <2>2, <2>3, <2>4 DEF AgentsInv
<1> QED BY <1>1, <1>2 DEF Prepare

\* The next child of a resumed agent.
LEMMA ResumeNextKeeps ==
    ASSUME AgentsInv, NEW c \in Caller, ResumeNext(c)
    PROVE  AgentsInv'
<1>0. pc[c] = "next" /\ call[c] \in Call /\ (call[c].op = "resume" => call[c].path = None)
  BY DEF ResumeNext, At, AgentsInv, PlainTypes, CallsKnow
<1>1. CASE Goto(c, "list") /\ UNCHANGED <<count, call>>
  <2>1. call' = [call EXCEPT ![c] = call[c]]
    BY <1>1 DEF AgentsInv, PlainTypes
  <2>2. CallTypes' /\ CallsKnow' /\ Others(c) /\ pc'[c] \notin Slot
    BY <1>0, <1>1, <2>1, GoesOn DEF Goto, Labels, Named, Slot
  <2>3. Books'
    BY <1>0, <1>1, <2>2, OutsideStep DEF ResumeNext, Slot
  <2> QED BY <1>1, <2>2, <2>3 DEF ResumeNext, CallTypes, treeVars, AgentsInv, PlainTypes
<1>2. ASSUME NEW q \in SUBSET Agent,
             call' = [call EXCEPT ![c].rest = q] \/
             (\E a \in Agent : call' = [call EXCEPT ![c].rest = q, ![c].queue = @ \cup {a}]),
             UNCHANGED <<count, pc>>
      PROVE  AgentsInv'
  <2>1. PICK r \in Call :
           call' = [call EXCEPT ![c] = r] /\ r.op = call[c].op /\ r.path = call[c].path
    <3>1. CASE call' = [call EXCEPT ![c].rest = q]
      <4> DEFINE r == [call[c] EXCEPT !.rest = q]
      <4>1. r \in Call /\ r.op = call[c].op /\ r.path = call[c].path
        BY <1>0, <1>2 DEF Call
      <4>2. call' = [call EXCEPT ![c] = r]
        BY <3>1
      <4> QED BY <4>1, <4>2
    <3>2. ASSUME NEW a \in Agent, call' = [call EXCEPT ![c].rest = q, ![c].queue = @ \cup {a}]
          PROVE  \E r \in Call :
                   call' = [call EXCEPT ![c] = r] /\ r.op = call[c].op /\ r.path = call[c].path
      <4> DEFINE r == [call[c] EXCEPT !.rest = q, !.queue = @ \cup {a}]
      <4>1. r \in Call /\ r.op = call[c].op /\ r.path = call[c].path
        BY <1>0, <1>2 DEF Call
      <4>2. call' = [call EXCEPT ![c] = r]
        BY <3>2, <1>0 DEF AgentsInv, PlainTypes, Call
      <4> QED BY <4>1, <4>2
    <3> QED BY <1>2, <3>1, <3>2
  <2>2. pc' = [pc EXCEPT ![c] = "next"]
    BY <1>0, <1>2 DEF AgentsInv, PlainTypes
  <2>3. CallTypes' /\ CallsKnow' /\ Others(c) /\ pc'[c] \notin Slot
    BY <1>0, <2>1, <2>2, GoesOn DEF Labels, Named, Slot
  <2>4. Books'
    BY <1>0, <1>2, <2>3, OutsideStep DEF ResumeNext, Slot
  <2> QED BY <1>2, <2>3, <2>4 DEF ResumeNext, CallTypes, treeVars, AgentsInv, PlainTypes
<1>3. ASSUME NEW a \in Agent, HasSlot, count' = count + 1, Goto(c, "prepare"),
             call' = [call EXCEPT ![c].rest = @ \ {a}, ![c].id = a]
      PROVE  AgentsInv'
  <2> DEFINE r == [call[c] EXCEPT !.rest = @ \ {a}, !.id = a]
  <2>1. r \in Call /\ r.op = call[c].op /\ r.path = call[c].path /\ r.id \in Agent
    BY <1>0 DEF Call
  <2>2. call' = [call EXCEPT ![c] = r]
    BY <1>3, <1>0 DEF AgentsInv, PlainTypes, Call
  <2> HIDE DEF r
  <2>3. pc' = [pc EXCEPT ![c] = "prepare"] /\ "prepare" \in Labels /\ "prepare" \notin Named
    BY <1>3 DEF Goto, Labels, Named
  <2>4. r.op = "resume" => r.path = None
    BY <1>0, <2>1
  <2>5. CallTypes' /\ CallsKnow' /\ Others(c) /\ pc'[c] = "prepare"
    BY <2>1, <2>2, <2>3, <2>4, GoesOn
  <2>6. UNCHANGED <<tree, threads, alive, treeVars, edge, lost>>
    BY DEF ResumeNext
  <2>7. Books'
    BY <1>0, <1>3, <2>5, <2>6, TakeStep DEF Slot
  <2> QED BY <1>3, <2>5, <2>6, <2>7 DEF CallTypes, treeVars, AgentsInv, PlainTypes
<1>4. \A a \in call[c].rest : a \in Agent /\ call[c].rest \ {a} \in SUBSET Agent
  BY <1>0 DEF Call
<1>5. ASSUME NEW a \in call[c].rest, UNCHANGED <<count, pc>>,
             call' = [call EXCEPT ![c].rest = @ \ {a}]
      PROVE  AgentsInv'
  <2>1. call' = [call EXCEPT ![c].rest = call[c].rest \ {a}]
    BY <1>5
  <2> QED BY <1>2, <1>4, <1>5, <2>1
<1>6. ASSUME NEW a \in call[c].rest, UNCHANGED <<count, pc>>,
             call' = [call EXCEPT ![c].rest = @ \ {a}, ![c].queue = @ \cup {a}]
      PROVE  AgentsInv'
  <2>1. call' = [call EXCEPT ![c].rest = call[c].rest \ {a}, ![c].queue = @ \cup {a}]
    BY <1>6
  <2> QED BY <1>2, <1>4, <1>6, <2>1
<1> QED BY <1>1, <1>3, <1>4, <1>5, <1>6 DEF ResumeNext

\* A call is dropped.
LEMMA CancelKeeps ==
    ASSUME AgentsInv, NEW c \in Caller, Cancel(c)
    PROVE  AgentsInv'
<1>1. CallTypes' /\ CallsKnow' /\ Others(c) /\ pc'[c] \notin Slot
  BY ReturnKeeps DEF Cancel, Slot
<1>2. PlainTypes'
  <2>1. tree' \in [Key -> Agent \cup {None, Reserved}] /\ count' \in Int
    BY DEF Cancel, DropReservation, AgentsInv, PlainTypes
  <2> QED BY <1>1, <2>1 DEF Cancel, CallTypes, treeVars, AgentsInv, PlainTypes
<1>3. Books'
  <2>1. CASE pc[c] \in Slot
    <3>1. pc[c] = "commit" => call[c].path = None
      BY DEF Cancel, At, AgentsInv, CallsKnow
    <3> QED BY <1>1, <2>1, <3>1, DropStep DEF Cancel, Slot
  <2>2. CASE pc[c] \notin Slot
    BY <1>1, <2>2, OutsideStep DEF Cancel, Slot
  <2> QED BY <2>1, <2>2
<1> QED BY <1>1, <1>2, <1>3 DEF AgentsInv

\* An agent ends by itself.
LEMMA DieKeeps ==
    ASSUME AgentsInv, NEW a \in Agent, Die(a)
    PROVE  AgentsInv'
<1>1. PlainTypes' /\ CallsKnow'
  BY DEF Die, treeVars, AgentsInv, PlainTypes, CallsKnow
<1>2. Holding' = Holding /\ Registered' = Registered /\ \A p : Owners(p)' = Owners(p)
  BY DEF Die, Holding, Registered, Owners
<1> QED BY <1>1, <1>2 DEF Die, AgentsInv, Books, SlotsExact, PathsOwned

-----------------------------------------------------------------------------
\* The books are balanced at the start.
LEMMA AgentsInit == Init => AgentsInv
<1> SUFFICES ASSUME Init PROVE AgentsInv
  OBVIOUS
<1>1. PlainTypes /\ CallsKnow
  BY NoCallType DEF Init, PlainTypes, CallsKnow, NoEdge, Edge, Labels
<1>2. Holding = {} /\ Registered = {} /\ \A p : Owners(p) = {}
  BY AgentAssumption DEF Init, Holding, Registered, Owners
<1>3. SlotsExact
  BY <1>2, FS_EmptySet, AgentAssumption DEF Init, SlotsExact
<1>4. PathsOwned
  BY <1>2, FS_EmptySet, AgentAssumption DEF Init, PathsOwned, Key
<1> QED BY <1>1, <1>3, <1>4 DEF AgentsInv, Books

\* Every step keeps them so.
LEMMA AgentsStep == AgentsInv /\ [Next]_vars => AgentsInv'
<1> SUFFICES ASSUME AgentsInv, [Next]_vars PROVE AgentsInv'
  OBVIOUS
<1>1. CASE UNCHANGED vars
  <2>1. PlainTypes' /\ CallsKnow'
    BY <1>1 DEF vars, AgentsInv, PlainTypes, CallsKnow
  <2>2. Holding' = Holding /\ Registered' = Registered /\ \A p : Owners(p)' = Owners(p)
    BY <1>1 DEF vars, Holding, Registered, Owners
  <2> QED BY <1>1, <2>1, <2>2 DEF vars, AgentsInv, Books, SlotsExact, PathsOwned
<1>2. ASSUME NEW c \in Caller, SpawnStart(c) \/ Cancel(c) PROVE AgentsInv'
  BY <1>2, SpawnStartKeeps, CancelKeeps
<1>3. ASSUME NEW c \in Caller, CallStep(c) PROVE AgentsInv'
  <2>1. CASE Prepare(c) \/ Create(c) \/ CreateFails(c) \/ Commit(c) \/ Persist(c) \/ Input(c)
    BY <2>1, PrepareKeeps, CreateKeeps, CreateFailsKeeps, CommitKeeps, PersistKeeps, InputKeeps
  <2>2. CASE List(c) \/ ResumeNext(c) \/ CloseEdge(c) \/ Descend(c)
    BY <2>2, ListKeeps, ResumeNextKeeps, CloseEdgeKeeps, DescendKeeps
  <2>3. CASE Flush(c) \/ FlushFails(c) \/ Remove(c) \/ Release(c)
    BY <2>3, FlushKeeps, FlushFailsKeeps, RemoveKeeps, ReleaseKeeps
  <2> QED BY <1>3, <2>1, <2>2, <2>3 DEF CallStep
<1>4. ASSUME NEW c \in Caller, NEW a \in Agent,
             ResumeStart(c, a) \/ SendStart(c, a) \/ CloseStart(c, a)
      PROVE  AgentsInv'
  BY <1>4, ResumeStartKeeps, SendStartKeeps, CloseStartKeeps
<1>5. ASSUME NEW a \in Agent, Die(a) PROVE AgentsInv'
  BY <1>5, DieKeeps
<1> QED BY <1>1, <1>2, <1>3, <1>4, <1>5 DEF Next

\* The inductive invariant holds in every reachable state.
THEOREM AgentsInductive == Spec => []AgentsInv
<1> QED BY AgentsInit, AgentsStep, PTL DEF Spec

\* The types hold for any number of agents, paths and concurrent calls; the
\* counter of slots, which the code decrements without a check, never goes
\* below zero (AgentRegistry::release_spawned_thread, SpawnReservation::drop).
THEOREM AgentsTypeCorrect == Spec => []AgentsTypeOK
<1>1. AgentsInv => AgentsTypeOK
  <2> SUFFICES ASSUME AgentsInv PROVE AgentsTypeOK
    OBVIOUS
  <2>1. count \in Nat
    BY BooksFinite DEF AgentsInv, PlainTypes, Books, SlotsExact
  <2> QED BY <2>1 DEF AgentsInv, PlainTypes, AgentsTypeOK
<1> QED BY <1>1, AgentsInductive, PTL

\* No order of spawns, resumptions, closings, failures and dropped calls leaks a
\* slot or returns one twice, and the limit is kept (core/src/agent/registry.rs).
THEOREM SlotsBalance == Spec => []SlotsExact
<1>1. AgentsInv => SlotsExact
  BY DEF AgentsInv, Books
<1> QED BY <1>1, AgentsInductive, PTL

\* A path is reserved exactly as long as one spawn holds it (reserve_agent_path,
\* SpawnReservation::drop).
THEOREM PathsBalance == Spec => []PathsOwned
<1>1. AgentsInv => PathsOwned
  BY DEF AgentsInv, Books
<1> QED BY <1>1, AgentsInductive, PTL
=============================================================================
