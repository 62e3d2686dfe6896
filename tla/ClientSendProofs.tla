-------------------------- MODULE ClientSendProofs --------------------------
(***************************************************************************)
(* Theorems about where conversations work and about the command line      *)
(* client, for any conversations, directories, settings, commands, keys    *)
(* and texts, and any number of messages.                                  *)
(***************************************************************************)
EXTENDS ClientSend, TLAPS

-----------------------------------------------------------------------------
(* Where conversations work.                                               *)

(* What CreateConversation fixed of a conversation, for good.              *)
PlacedRight ==
  \A c \in Created :
    IF conversation[c].agent
    THEN conversation[c].workspaceID = AgentWorkspaceID /\ conversation[c].lock = AgentWorkspaceID
    ELSE /\ conversation[c].workspaceID = c
         /\ conversation[c].env = "e2b" => conversation[c].lock = c
         /\ conversation[c].env # "e2b" => conversation[c].dir \in Dirs /\ conversation[c].lock = conversation[c].dir

(* A run belongs to a conversation, and has its lock for itself; the runs  *)
(* that work are all in the sandbox there is.                              *)
RunsApart ==
  \A c \in Ids : run[c] # "none" =>
    /\ serving /\ c \in Created
    /\ \A d \in Ids : run[d] # "none" /\ c # d => conversation[c].lock # conversation[d].lock
    /\ run[c] = "working" => Executable(c)

PlacementInd == PlacementTypeOK /\ PlacedRight /\ RunsApart

(* What a step does to conversations and runs.                             *)
PlacementStep ==
  \/ \E c \in Ids, sel \in Selection : CreateConversation(c, sel)
  \/ \E c \in Ids : ClaimRun(c) \/ EndRun(c)
  \/ Crash \/ Restart
  \/ UNCHANGED placement

(* A selection that is accepted leads where it may.                        *)
LEMMA AcceptedSelection ==
  ASSUME PlacementTypeOK, NEW c \in Ids, NEW sel \in Selection, Accepts(sel)
  PROVE  /\ Placed(c, sel) \in PlacedAt
         /\ policy # "agent" /\ sandbox # "e2b" => HostDirectory(sel) \in Dirs /\ LockOf(c, sel) = HostDirectory(sel)
<1>1. HostDirectory(sel) \in Dirs \cup {None}
  BY PlacementAssumption DEF HostDirectory, Selection
<1>2. policy # "agent" /\ sandbox # "e2b" => HostDirectory(sel) \in Dirs /\ sel.git # "plan"
  BY <1>1, PlacementAssumption DEF Accepts, HostDirectory, Usable, Selection, PlacementTypeOK, Policies
<1>3. policy # "agent" /\ sandbox # "e2b" => LockOf(c, sel) = HostDirectory(sel)
  BY <1>2 DEF LockOf
<1>4. LockOf(c, sel) \in Ids \cup Dirs \cup {AgentWorkspaceID}
  BY <1>2, <1>3 DEF LockOf
<1>5. QED
  BY <1>1, <1>2, <1>3, <1>4 DEF Placed, PlacedAt, PlacementTypeOK, Policies, Sandboxes

(* The types, and what is fixed of a conversation, survive every step.     *)
LEMMA PlacedStep ==
  ASSUME PlacementTypeOK, PlacedRight, PlacementStep
  PROVE  PlacementTypeOK' /\ PlacedRight'
<1>1. ASSUME NEW c \in Ids, NEW sel \in Selection, CreateConversation(c, sel)
      PROVE  PlacementTypeOK' /\ PlacedRight'
  <2>1. /\ conversation' = [conversation EXCEPT ![c] = Placed(c, sel)]
        /\ UNCHANGED <<serving, policy, sandbox, run>> /\ Accepts(sel)
    BY <1>1 DEF CreateConversation, settings
  <2>2. Placed(c, sel) \in PlacedAt
    BY <2>1, AcceptedSelection
  <2>3. PlacementTypeOK'
    BY <2>1, <2>2 DEF PlacementTypeOK
  <2>4. ASSUME NEW d \in Created'
        PROVE  IF conversation'[d].agent
               THEN conversation'[d].workspaceID = AgentWorkspaceID /\ conversation'[d].lock = AgentWorkspaceID
               ELSE /\ conversation'[d].workspaceID = d
                    /\ conversation'[d].env = "e2b" => conversation'[d].lock = d
                    /\ conversation'[d].env # "e2b" => conversation'[d].dir \in Dirs /\ conversation'[d].lock = conversation'[d].dir
    <3>1. CASE d = c
      <4>1. conversation'[d] = Placed(c, sel)
        BY <2>1, <3>1 DEF PlacementTypeOK
      <4>2. policy = "agent" => LockOf(c, sel) = AgentWorkspaceID
        BY DEF LockOf
      <4>3. policy # "agent" /\ sandbox = "e2b" => LockOf(c, sel) = c
        BY DEF LockOf
      <4>4. policy # "agent" /\ sandbox # "e2b" => HostDirectory(sel) \in Dirs /\ LockOf(c, sel) = HostDirectory(sel)
        BY <2>1, AcceptedSelection
      <4>a. conversation'[d].agent = (policy = "agent")
        <5>1. Placed(c, sel).agent = (policy = "agent")
          BY Zenon DEF Placed
        <5>2. QED
          BY <4>1, <5>1
      <4>5. /\ conversation'[d].workspaceID = IF policy = "agent" THEN AgentWorkspaceID ELSE c
            /\ conversation'[d].env = sandbox
            /\ conversation'[d].dir = HostDirectory(sel)
            /\ conversation'[d].lock = LockOf(c, sel)
        BY <4>1 DEF Placed
      <4>6. CASE policy = "agent"
        BY <4>2, <4>5, <4>6, <4>a
      <4>7. CASE policy # "agent"
        BY <3>1, <4>3, <4>4, <4>5, <4>7, <4>a
      <4>8. QED
        BY <4>6, <4>7
    <3>2. CASE d # c
      <4>1. conversation'[d] = conversation[d] /\ d \in Created
        BY <2>1, <2>4, <3>2 DEF PlacementTypeOK, Created
      <4>2. QED
        BY <4>1 DEF PlacedRight
    <3>3. QED
      BY <3>1, <3>2
  <2>5. QED
    BY <2>3, <2>4 DEF PlacedRight
<1>2. ASSUME NEW c \in Ids, ClaimRun(c) PROVE PlacementTypeOK' /\ PlacedRight'
  BY <1>2 DEF ClaimRun, settings, PlacementTypeOK, PlacedRight, Created
<1>3. ASSUME NEW c \in Ids, EndRun(c) PROVE PlacementTypeOK' /\ PlacedRight'
  BY <1>3 DEF EndRun, settings, PlacementTypeOK, PlacedRight, Created
<1>4. CASE Crash
  BY <1>4 DEF Crash, settings, PlacementTypeOK, PlacedRight, Created
<1>5. CASE Restart
  <2>1. policy' \in Policies /\ sandbox' \in Sandboxes
    BY <1>5, PlacementAssumption DEF Restart
  <2>2. QED
    BY <1>5, <2>1 DEF Restart, PlacementTypeOK, PlacedRight, Created
<1>6. CASE UNCHANGED placement
  BY <1>6 DEF placement, settings, PlacementTypeOK, PlacedRight, Created
<1>7. QED
  BY <1>1, <1>2, <1>3, <1>4, <1>5, <1>6 DEF PlacementStep

(* Claims keep runs of one lock apart, and settings change only when no    *)
(* run is left.                                                            *)
LEMMA RunsApartStep ==
  ASSUME PlacementInd, PlacementStep, PlacementTypeOK'
  PROVE  RunsApart'
<1>t. PlacementTypeOK /\ RunsApart
  BY DEF PlacementInd
<1>1. ASSUME NEW c \in Ids, NEW sel \in Selection, CreateConversation(c, sel) PROVE RunsApart'
  <2>1. /\ UNCHANGED <<serving, policy, sandbox, run>> /\ conversation[c] = None
        /\ \A d \in Ids : d # c => conversation'[d] = conversation[d]
    BY <1>1, <1>t DEF CreateConversation, settings, PlacementTypeOK
  <2>2. \A d \in Ids : run[d] # "none" => conversation'[d] = conversation[d] /\ conversation[d] # None
    BY <2>1, <1>t DEF RunsApart, Created
  <2>3. QED
    BY <2>1, <2>2, <1>t DEF RunsApart, Created, Executable
<1>2. ASSUME NEW c \in Ids, ClaimRun(c) PROVE RunsApart'
  <2>1. /\ UNCHANGED <<serving, policy, sandbox, conversation>>
        /\ serving /\ conversation[c] # None /\ MayClaim(c)
        /\ run'[c] = IF Executable(c) THEN "working" ELSE "refused"
        /\ \A d \in Ids : d # c => run'[d] = run[d]
    BY <1>2, <1>t DEF ClaimRun, settings, PlacementTypeOK
  <2>2. \A d \in Ids : Executable(d)' = Executable(d)
    BY <2>1 DEF Executable
  <2>3. QED
    BY <2>1, <2>2, <1>t DEF RunsApart, Created, MayClaim
<1>3. ASSUME NEW c \in Ids, EndRun(c) PROVE RunsApart'
  <2>1. /\ UNCHANGED <<serving, policy, sandbox, conversation>> /\ run'[c] = "none"
        /\ \A d \in Ids : d # c => run'[d] = run[d]
    BY <1>3, <1>t DEF EndRun, settings, PlacementTypeOK
  <2>2. QED
    BY <2>1, <1>t DEF RunsApart, Created, Executable
<1>4. CASE Crash
  BY <1>4 DEF Crash, RunsApart
<1>5. CASE Restart
  <2>1. \A c \in Ids : run[c] = "none"
    BY <1>5, <1>t DEF Restart, RunsApart
  <2>2. QED
    BY <1>5, <2>1 DEF Restart, RunsApart
<1>6. CASE UNCHANGED placement
  BY <1>6, <1>t DEF placement, settings, RunsApart, Created, Executable
<1>7. QED
  BY <1>1, <1>2, <1>3, <1>4, <1>5, <1>6 DEF PlacementStep

(* Conversations share a workspace only if it is the agent's, and then     *)
(* they share its lock.                                                    *)
LEMMA SharingLocks == PlacedRight => SharedWorkspaceSharesLock
<1> SUFFICES ASSUME PlacedRight, NEW c \in Created, NEW d \in Created,
                    conversation[c].workspaceID = conversation[d].workspaceID
             PROVE  conversation[c].lock = conversation[d].lock
  BY DEF SharedWorkspaceSharesLock
<1>1. c # AgentWorkspaceID /\ d # AgentWorkspaceID
  BY PlacementAssumption DEF Created
<1>2. CASE conversation[c].agent /\ conversation[d].agent
  BY <1>2 DEF PlacedRight
<1>3. CASE ~conversation[c].agent /\ ~conversation[d].agent
  <2>1. c = d
    BY <1>3 DEF PlacedRight
  <2>2. QED
    BY <2>1
<1>4. CASE conversation[c].agent /\ ~conversation[d].agent
  BY <1>1, <1>4 DEF PlacedRight
<1>5. CASE ~conversation[c].agent /\ conversation[d].agent
  BY <1>1, <1>5 DEF PlacedRight
<1>6. QED
  BY <1>2, <1>3, <1>4, <1>5

(* A host workspace that passed the checks is apart from the agent's.      *)
LEMMA UsableIsApart ==
  ASSUME NEW d \in Dirs, Usable(d)
  PROVE  ~Overlap(d, AgentDir) /\ d # AgentDir
<1>1. <<d, StateDir>> \notin Within /\ <<StateDir, d>> \notin Within
  BY DEF Usable, OutsideState, Overlap
<1>2. <<d, AgentDir>> \notin Within
  BY <1>1, PlacementAssumption
<1>3. <<AgentDir, d>> \notin Within
  BY <1>1, PlacementAssumption
<1>4. d # AgentDir
  BY <1>1, PlacementAssumption
<1>5. QED
  BY <1>2, <1>3, <1>4 DEF Overlap

(* Runs that have their locks for themselves have their directories for    *)
(* themselves.                                                             *)
LEMMA LocksGuardDirectories == PlacementInd => DirectoriesExclusive
<1> SUFFICES ASSUME PlacementInd, NEW c \in Ids, NEW d \in Ids, c # d, run[c] = "working", run[d] = "working"
             PROVE  /\ Place(c) # Place(d)
                    /\ Place(c) = <<"host", AgentDir>> /\ conversation[d].env = "seatbelt"
                         => ~Overlap(conversation[d].dir, AgentDir)
  BY DEF DirectoriesExclusive
<1>1. /\ c \in Created /\ d \in Created
      /\ conversation[c].lock # conversation[d].lock
      /\ Executable(c) /\ Executable(d)
  BY DEF PlacementInd, RunsApart
<1>2. conversation[c] \in PlacedAt /\ conversation[d] \in PlacedAt
  BY <1>1 DEF PlacementInd, PlacementTypeOK, Created
<1>3. conversation[c].env = sandbox /\ conversation[d].env = sandbox
  BY <1>1 DEF Executable
<1>4. CASE sandbox = "e2b"
  <2>1. Place(c) = <<"remote", conversation[c].workspaceID>> /\ Place(d) = <<"remote", conversation[d].workspaceID>>
    BY <1>3, <1>4 DEF Place
  <2>2. conversation[c].workspaceID # conversation[d].workspaceID
    BY <1>1, SharingLocks DEF PlacementInd, SharedWorkspaceSharesLock
  <2>3. QED
    BY <1>3, <1>4, <2>1, <2>2
<1>5. CASE sandbox # "e2b"
  <2> DEFINE dirOf(x) == IF conversation[x].agent THEN AgentDir ELSE conversation[x].dir
  <2>1. Place(c) = <<"host", dirOf(c)>> /\ Place(d) = <<"host", dirOf(d)>>
    BY <1>3, <1>5 DEF Place
  <2>2. ASSUME NEW x \in {c, d}, ~conversation[x].agent
        PROVE  /\ conversation[x].dir \in Dirs /\ conversation[x].lock = conversation[x].dir
               /\ ~Overlap(conversation[x].dir, AgentDir) /\ conversation[x].dir # AgentDir
    <3>1. conversation[x].dir \in Dirs /\ conversation[x].lock = conversation[x].dir
      BY <1>1, <1>3, <1>5, <2>2 DEF PlacementInd, PlacedRight
    <3>2. Usable(conversation[x].dir)
      BY <1>1, <3>1, PlacementAssumption DEF Executable
    <3>3. QED
      BY <3>1, <3>2, UsableIsApart
  <2>3. ASSUME NEW x \in {c, d}, conversation[x].agent PROVE conversation[x].lock = AgentWorkspaceID
    BY <1>1, <2>3 DEF PlacementInd, PlacedRight
  <2>4. dirOf(c) # dirOf(d)
    <3>1. CASE conversation[c].agent /\ conversation[d].agent
      BY <1>1, <2>3, <3>1
    <3>2. CASE ~conversation[c].agent /\ ~conversation[d].agent
      BY <1>1, <2>2, <3>2
    <3>3. CASE conversation[c].agent /\ ~conversation[d].agent
      BY <2>2, <3>3
    <3>4. CASE ~conversation[c].agent /\ conversation[d].agent
      BY <2>2, <3>4
    <3>5. QED
      BY <3>1, <3>2, <3>3, <3>4
  <2>5. Place(c) = <<"host", AgentDir>> => ~conversation[d].agent
    BY <2>1, <2>4
  <2>6. QED
    BY <2>1, <2>2, <2>4, <2>5
<1>6. QED
  BY <1>4, <1>5

(* A step of the composed system does one of these to the placement.       *)
LEMMA StepPlaces == [Next]_vars => PlacementStep
<1> SUFFICES ASSUME [Next]_vars PROVE PlacementStep
  OBVIOUS
<1>1. ASSUME NEW c \in Ids, NEW m \in Message, Claim(c, m) PROVE PlacementStep
  BY <1>1 DEF Claim, PlacementStep
<1>2. ASSUME NEW c \in Ids, NEW m \in Message, NEW outcome \in Outcomes, End(c, m, outcome) PROVE PlacementStep
  BY <1>2 DEF End, PlacementStep
<1>3. ASSUME NEW c \in Ids, NEW k \in Keys, SubmitElsewhere(c, k) PROVE PlacementStep
  BY <1>3 DEF SubmitElsewhere, PlacementStep
<1>4. CASE Die \/ Recover
  BY <1>4 DEF Die, Recover, PlacementStep
<1>5. ASSUME NEW i \in Clients, Command(i) PROVE PlacementStep
  <2>1. ASSUME NEW c \in Ids, NEW sel \in Selection, Create(i, c, sel) PROVE PlacementStep
    BY <2>1 DEF Create, PlacementStep
  <2>2. ASSUME NEW c \in Ids, View(i, c) PROVE PlacementStep
    BY <2>2 DEF View, PlacementStep
  <2>3. CASE OpenEvents(i) \/ Submit(i) \/ SubmitAgain(i) \/ Read(i) \/ Lost(i) \/ GoOn(i) \/ Return(i)
    BY <2>3 DEF OpenEvents, Submit, SubmitAgain, Read, Lost, GoOn, Return, PlacementStep
  <2>4. QED
    BY <1>5, <2>1, <2>2, <2>3 DEF Command
<1>6. CASE UNCHANGED vars
  BY <1>6 DEF vars, PlacementStep
<1>7. QED
  BY <1>1, <1>2, <1>3, <1>4, <1>5, <1>6 DEF Next, ServerStep

(* Nothing works in the first state.                                       *)
LEMMA PlacementInitially == Init => PlacementInd
<1> SUFFICES ASSUME Init PROVE PlacementInd
  OBVIOUS
<1>1. policy \in Policies /\ sandbox \in Sandboxes
  BY PlacementAssumption DEF Init, PlacementInit
<1>2. QED
  BY <1>1 DEF Init, PlacementInit, PlacementInd, PlacementTypeOK, PlacedRight, RunsApart, Created

(* The inductive invariant of the placement.                               *)
LEMMA PlacementInvariant == Spec => []PlacementInd
<1>1. PlacementInd /\ [Next]_vars => PlacementInd'
  BY StepPlaces, PlacedStep, RunsApartStep DEF PlacementInd
<1>2. QED
  BY <1>1, PlacementInitially, PTL DEF Spec

(* Wherever conversations were placed, under whatever settings, the locks  *)
(* CreateConversation gives keep two runs out of one directory, and those  *)
(* of one workspace agree: what the store takes for granted of its input.  *)
THEOREM DirectoriesApart == Spec => []PlacementInv
<1>1. PlacementInd => PlacementInv
  BY SharingLocks, LocksGuardDirectories DEF PlacementInd, PlacementInv
<1>2. QED
  BY <1>1, PlacementInvariant, PTL

-----------------------------------------------------------------------------
(* The client.                                                             *)

(* Of a command: the conversation it is in, what its View and its stream   *)
(* have covered of the log, and the answer its next text follows.          *)
Standing(i) ==
  /\ at[i] # "ready" \/ sent[i] > 0 => conv[i] \in Ids
  /\ at[i] \in {"viewed", "open", "waiting"} => seen[i] <= Len(log[conv[i]])
  /\ at[i] = "open" => cursor[i] = seen[i]
  /\ at[i] = "waiting" => cursor[i] <= Len(log[conv[i]])
  /\ sent[i] > 0 => Logged(conv[i], "answered", Previous(Msg(i)))

(* OutcomeAhead and ReturnsTrue, of one command.                           *)
Ahead(i) ==
  at[i] = "waiting" =>
    /\ Logged(conv[i], "accepted", Msg(i))
    /\ \A n \in DOMAIN log[conv[i]] :
         log[conv[i]][n].type \in Outcomes /\ log[conv[i]][n].msg = Msg(i) => n > cursor[i]

Truth(i) == at[i] \in Outcomes => Logged(conv[i], at[i], Msg(i))

(* Nothing happens to a message that was not accepted.                     *)
AcceptedFirst ==
  \A c \in Ids : \A n \in DOMAIN log[c] : Logged(c, "accepted", log[c][n].msg)

CommandInv(i) == Standing(i) /\ Ahead(i) /\ Truth(i)

SendInd == TypeOK /\ AcceptedFirst /\ TextsInTurn /\ \A i \in Clients : CommandInv(i)

(* An entry the server may write next.                                     *)
Due(c, e) ==
  /\ e \in Entry
  /\ e.type # "accepted" => Logged(c, "accepted", e.msg)
  /\ e.type = "accepted" /\ e.msg.text > 1 => Logged(c, "answered", Previous(e.msg))

(* What a step does to the logs.                                           *)
Grows == \A c \in Ids : log'[c] = log[c] \/ \E e \in Entry : Due(c, e) /\ log'[c] = Append(log[c], e)

(* Appending keeps every entry where it is.                                *)
LEMMA Kept ==
  ASSUME TypeOK, TypeOK', Grows, NEW c \in Ids
  PROVE  /\ Len(log[c]) \in Nat /\ Len(log'[c]) \in Nat /\ Len(log[c]) <= Len(log'[c])
         /\ DOMAIN log[c] = 1..Len(log[c]) /\ DOMAIN log'[c] = 1..Len(log'[c])
         /\ \A n \in DOMAIN log[c] : n \in DOMAIN log'[c] /\ log'[c][n] = log[c][n]
         /\ \A n \in DOMAIN log'[c] : n \notin DOMAIN log[c] => n = Len(log[c]) + 1 /\ Due(c, log'[c][n])
<1>1. log[c] \in Seq(Entry) /\ log'[c] \in Seq(Entry)
  BY DEF TypeOK
<1>2. CASE log'[c] = log[c]
  BY <1>1, <1>2
<1>3. ASSUME NEW e \in Entry, Due(c, e), log'[c] = Append(log[c], e)
      PROVE  /\ Len(log'[c]) = Len(log[c]) + 1
             /\ log'[c][Len(log[c]) + 1] = e
             /\ \A n \in 1..Len(log[c]) : log'[c][n] = log[c][n]
  BY <1>1, <1>3
<1>4. Len(log[c]) \in Nat /\ Len(log'[c]) \in Nat /\ DOMAIN log[c] = 1..Len(log[c]) /\ DOMAIN log'[c] = 1..Len(log'[c])
  BY <1>1
<1>5. ASSUME NEW e \in Entry, Due(c, e), log'[c] = Append(log[c], e)
      PROVE  /\ Len(log[c]) <= Len(log'[c])
             /\ \A n \in DOMAIN log[c] : n \in DOMAIN log'[c] /\ log'[c][n] = log[c][n]
             /\ \A n \in DOMAIN log'[c] : n \notin DOMAIN log[c] => n = Len(log[c]) + 1 /\ log'[c][n] = e
  BY <1>3, <1>4, <1>5
<1>6. QED
  BY <1>2, <1>4, <1>5 DEF Grows

(* Logged, in the next state, of a message of this one.                    *)
LoggedThen(c, type, m) == \E n \in DOMAIN log'[c] : log'[c][n] = [type |-> type, msg |-> m]

(* What was logged stays logged.                                           *)
LEMMA StaysLogged ==
  ASSUME TypeOK, TypeOK', Grows, NEW c \in Ids, NEW type, NEW m, Logged(c, type, m)
  PROVE  LoggedThen(c, type, m)
<1>1. PICK n \in DOMAIN log[c] : log[c][n] = [type |-> type, msg |-> m]
  BY DEF Logged
<1>2. n \in DOMAIN log'[c] /\ log'[c][n] = [type |-> type, msg |-> m]
  BY <1>1, Kept
<1>3. QED
  BY <1>2 DEF LoggedThen

(* The log stays in order.                                                 *)
LEMMA LogsInOrder ==
  ASSUME TypeOK, TypeOK', Grows, AcceptedFirst, TextsInTurn
  PROVE  AcceptedFirst' /\ TextsInTurn'
<1>1. ASSUME NEW c \in Ids, NEW n \in DOMAIN log'[c]
      PROVE  LoggedThen(c, "accepted", log'[c][n].msg)
  <2>1. CASE n \in DOMAIN log[c]
    <3>1. log'[c][n] = log[c][n]
      BY <2>1, Kept
    <3>2. Logged(c, "accepted", log[c][n].msg)
      BY <2>1 DEF AcceptedFirst
    <3>3. Logged(c, "accepted", log'[c][n].msg)
      BY <3>1, <3>2
    <3>4. QED
      BY <3>3, StaysLogged
  <2>2. CASE n \notin DOMAIN log[c]
    <3>1. Due(c, log'[c][n])
      BY <2>2, Kept
    <3>2. CASE log'[c][n].type = "accepted"
      <4>1. log'[c][n] = [type |-> "accepted", msg |-> log'[c][n].msg]
        BY <3>1, <3>2 DEF Due, Entry
      <4>2. QED
        BY <1>1, <4>1 DEF LoggedThen
    <3>3. CASE log'[c][n].type # "accepted"
      <4>1. Logged(c, "accepted", log'[c][n].msg)
        BY <3>1, <3>3 DEF Due
      <4>2. QED
        BY <4>1, StaysLogged
    <3>4. QED
      BY <3>2, <3>3
  <2>3. QED
    BY <2>1, <2>2
<1>2. ASSUME NEW c \in Ids, NEW n \in DOMAIN log'[c], log'[c][n].type = "accepted", log'[c][n].msg.text > 1
      PROVE  \E p \in 1..(n - 1) : log'[c][p] = [type |-> "answered", msg |-> Previous(log'[c][n].msg)]
  <2>1. CASE n \in DOMAIN log[c]
    <3>1. log'[c][n] = log[c][n]
      BY <2>1, Kept
    <3>2. PICK p \in 1..(n - 1) : log[c][p] = [type |-> "answered", msg |-> Previous(log[c][n].msg)]
      BY <1>2, <2>1, <3>1 DEF TextsInTurn
    <3>3. log'[c][p] = log[c][p]
      BY <2>1, <3>2, Kept
    <3>4. QED
      BY <3>1, <3>2, <3>3
  <2>2. CASE n \notin DOMAIN log[c]
    <3>1. Due(c, log'[c][n]) /\ n = Len(log[c]) + 1
      BY <2>2, Kept
    <3>2. PICK p \in DOMAIN log[c] : log[c][p] = [type |-> "answered", msg |-> Previous(log'[c][n].msg)]
      BY <1>2, <3>1 DEF Due, Logged
    <3>3. p \in 1..(n - 1) /\ log'[c][p] = log[c][p]
      BY <3>1, <3>2, Kept
    <3>4. QED
      BY <3>2, <3>3
  <2>3. QED
    BY <2>1, <2>2
<1>3. AcceptedFirst'
  BY <1>1 DEF AcceptedFirst, Logged, LoggedThen
<1>4. QED
  BY <1>2, <1>3 DEF TextsInTurn, Previous

(* A command that a step leaves alone keeps what it has: the log only      *)
(* grows behind it.                                                        *)
LEMMA Bystander ==
  ASSUME SendInd, TypeOK', Grows, NEW i \in Clients,
         at'[i] = at[i], conv'[i] = conv[i], sent'[i] = sent[i], seen'[i] = seen[i], cursor'[i] = cursor[i]
  PROVE  CommandInv(i)'
<1>t. TypeOK /\ CommandInv(i)
  BY DEF SendInd
<1>m. Msg(i)' = Msg(i)
  BY DEF Msg
<1>1. conv[i] \in Ids =>
        /\ Len(log[conv[i]]) \in Nat /\ Len(log'[conv[i]]) \in Nat /\ Len(log[conv[i]]) <= Len(log'[conv[i]])
        /\ \A type, m : Logged(conv[i], type, m) => LoggedThen(conv[i], type, m)
  BY <1>t, Kept, StaysLogged
<1>2. Standing(i)'
  <2>1. seen[i] \in Nat /\ cursor[i] \in Nat /\ sent[i] \in Nat
    BY <1>t, ClientAssumption DEF TypeOK
  <2>2. sent[i] > 0 => LoggedThen(conv[i], "answered", Previous(Msg(i)))
    BY <1>t, <1>1 DEF CommandInv, Standing
  <2>3. (sent[i] > 0 => Logged(conv[i], "answered", Previous(Msg(i))))'
    BY <2>2, <1>m DEF Logged, LoggedThen, Previous
  <2>4. QED
    BY <1>t, <1>1, <2>1, <2>3 DEF CommandInv, Standing
<1>3. Ahead(i)'
  <2> SUFFICES ASSUME at[i] = "waiting"
               PROVE  /\ LoggedThen(conv[i], "accepted", Msg(i))
                      /\ \A n \in DOMAIN log'[conv[i]] :
                           log'[conv[i]][n].type \in Outcomes /\ log'[conv[i]][n].msg = Msg(i) => n > cursor[i]
    BY <1>m DEF Ahead, Logged, LoggedThen
  <2>1. conv[i] \in Ids /\ cursor[i] <= Len(log[conv[i]]) /\ cursor[i] \in Nat
    BY <1>t DEF CommandInv, Standing, TypeOK
  <2>2. LoggedThen(conv[i], "accepted", Msg(i))
    BY <1>t, <1>1, <2>1 DEF CommandInv, Ahead
  <2>3. ASSUME NEW n \in DOMAIN log'[conv[i]],
               log'[conv[i]][n].type \in Outcomes, log'[conv[i]][n].msg = Msg(i)
        PROVE  n > cursor[i]
    <3>1. CASE n \in DOMAIN log[conv[i]]
      <4>1. log'[conv[i]][n] = log[conv[i]][n]
        BY <1>t, <2>1, <3>1, Kept
      <4>2. QED
        BY <1>t, <2>3, <3>1, <4>1 DEF CommandInv, Ahead
    <3>2. CASE n \notin DOMAIN log[conv[i]]
      <4>1. n = Len(log[conv[i]]) + 1
        BY <1>t, <2>1, <3>2, Kept
      <4>2. QED
        BY <1>1, <2>1, <4>1
    <3>3. QED
      BY <3>1, <3>2
  <2>4. QED
    BY <2>2, <2>3
<1>4. Truth(i)'
  <2>1. at[i] \in Outcomes => LoggedThen(conv[i], at[i], Msg(i))
    BY <1>t, <1>1 DEF CommandInv, Truth, Standing, Outcomes
  <2>2. QED
    BY <2>1, <1>m DEF Truth, Logged, LoggedThen
<1>5. QED
  BY <1>2, <1>3, <1>4 DEF CommandInv

(* One entry is written, to one conversation.                              *)
LEMMA RecordGrows ==
  ASSUME TypeOK, NEW c \in Ids, NEW type, NEW m, Record(c, type, m), Due(c, [type |-> type, msg |-> m])
  PROVE  Grows /\ log' \in [Ids -> Seq(Entry)]
<1>1. log \in [Ids -> Seq(Entry)] /\ [type |-> type, msg |-> m] \in Entry
  BY DEF TypeOK, Due
<1>2. log' = [log EXCEPT ![c] = Append(log[c], [type |-> type, msg |-> m])]
  BY DEF Record
<1>3. Append(log[c], [type |-> type, msg |-> m]) \in Seq(Entry)
  BY <1>1
<1>4. log' \in [Ids -> Seq(Entry)]
  BY <1>1, <1>2, <1>3
<1>5. log'[c] = Append(log[c], [type |-> type, msg |-> m]) /\ \A d \in Ids : d # c => log'[d] = log[d]
  BY <1>1, <1>2
<1>6. QED
  BY <1>1, <1>4, <1>5 DEF Grows

(* The steps of the server, and of other clients.                          *)
LEMMA ServerGrows ==
  ASSUME SendInd,
         \/ \E c \in Ids : ServerStep(c)
         \/ \E c \in Ids, k \in Keys : SubmitElsewhere(c, k)
         \/ Die \/ Recover
  PROVE  /\ Grows /\ log' \in [Ids -> Seq(Entry)]
         /\ UNCHANGED <<at, conv, sent, seen, cursor>>
         /\ stream' \in [Clients -> {"none", "open", "cut"}]
<1>t. TypeOK /\ AcceptedFirst
  BY DEF SendInd
<1>1. ASSUME NEW c \in Ids, NEW m \in Message, Claim(c, m)
      PROVE  Grows /\ log' \in [Ids -> Seq(Entry)]
  <2>1. Due(c, [type |-> "started", msg |-> m])
    BY <1>1 DEF Claim, Waiting, Due, Entry
  <2>2. QED
    BY <1>1, <1>t, <2>1, RecordGrows DEF Claim
<1>2. ASSUME NEW c \in Ids, NEW m \in Message, NEW outcome \in Outcomes, End(c, m, outcome)
      PROVE  Grows /\ log' \in [Ids -> Seq(Entry)]
  <2>1. Logged(c, "accepted", m)
    <3>1. PICK n \in DOMAIN log[c] : log[c][n] = [type |-> "started", msg |-> m]
      BY <1>2 DEF End, Open, Logged
    <3>2. QED
      BY <1>t, <3>1 DEF AcceptedFirst
  <2>2. Due(c, [type |-> outcome, msg |-> m])
    BY <2>1 DEF Due, Entry, Outcomes
  <2>3. QED
    BY <1>2, <1>t, <2>2, RecordGrows DEF End
<1>3. ASSUME NEW c \in Ids, NEW k \in Keys, SubmitElsewhere(c, k)
      PROVE  Grows /\ log' \in [Ids -> Seq(Entry)]
  <2>1. Due(c, [type |-> "accepted", msg |-> [key |-> k, text |-> 1]])
    BY ClientAssumption DEF Due, Entry, Message
  <2>2. Record(c, "accepted", [key |-> k, text |-> 1])
    BY <1>3 DEF SubmitElsewhere
  <2>3. QED
    BY <1>t, <2>1, <2>2, RecordGrows
<1>4. ASSUME Recover PROVE Grows /\ log' \in [Ids -> Seq(Entry)]
  <2> DEFINE lost(c) == [type |-> "failed", msg |-> CHOOSE m \in Recovered(c) : TRUE]
  <2>1. log' = [c \in Ids |-> IF Recovered(c) = {} THEN log[c] ELSE Append(log[c], lost(c))]
    BY <1>4 DEF Recover
  <2>2. ASSUME NEW c \in Ids, Recovered(c) # {} PROVE Due(c, lost(c)) /\ lost(c) \in Entry
    <3>1. PICK m \in Message : m = (CHOOSE x \in Recovered(c) : TRUE) /\ Open(c, m)
      BY <2>2 DEF Recovered
    <3>2. PICK n \in DOMAIN log[c] : log[c][n] = [type |-> "started", msg |-> m]
      BY <3>1 DEF Open, Logged
    <3>3. Logged(c, "accepted", m)
      BY <1>t, <3>2 DEF AcceptedFirst
    <3>4. QED
      BY <3>1, <3>3 DEF Due, Entry, Outcomes
  <2> HIDE DEF lost
  <2>3. log \in [Ids -> Seq(Entry)]
    BY <1>t DEF TypeOK
  <2>4. log' \in [Ids -> Seq(Entry)]
    BY <2>1, <2>2, <2>3
  <2>5. \A c \in Ids : log'[c] = IF Recovered(c) = {} THEN log[c] ELSE Append(log[c], lost(c))
    BY <2>1
  <2>6. Grows
    BY <2>2, <2>5 DEF Grows
  <2>7. QED
    BY <2>4, <2>6
<1>5. CASE Die
  BY <1>5, <1>t DEF Die, Grows, TypeOK
<1>6. Grows /\ log' \in [Ids -> Seq(Entry)]
  BY <1>1, <1>2, <1>3, <1>4, <1>5 DEF ServerStep
<1>7. UNCHANGED <<at, conv, sent, seen, cursor>>
  BY DEF ServerStep, Claim, End, SubmitElsewhere, Die, Recover, commands
<1>8. stream' \in [Clients -> {"none", "open", "cut"}]
  <2>1. CASE Die
    BY <2>1, <1>t DEF Die, TypeOK
  <2>2. CASE ~Die
    BY <2>2, <1>t DEF ServerStep, Claim, End, SubmitElsewhere, Recover, commands, TypeOK
  <2>3. QED
    BY <2>1, <2>2
<1>9. QED
  BY <1>6, <1>7, <1>8

(* The variables of the commands have their types, and only one command    *)
(* takes the step.                                                         *)
CommandTypes ==
  /\ at \in [Clients -> {"ready", "viewed", "open", "waiting"} \cup Outcomes]
  /\ conv \in [Clients -> Ids \cup {None}]
  /\ sent \in [Clients -> 0..(MaxTexts - 1)]
  /\ seen \in [Clients -> Nat] /\ cursor \in [Clients -> Nat]
  /\ stream \in [Clients -> {"none", "open", "cut"}]

Rests(j) ==
  at'[j] = at[j] /\ conv'[j] = conv[j] /\ sent'[j] = sent[j] /\ seen'[j] = seen[j] /\ cursor'[j] = cursor[j]

(* What Ended does to its command.                                         *)
LEMMA EndedSets ==
  ASSUME CommandTypes, NEW i \in Clients, NEW outcome \in Outcomes \cup {"ready"}, Ended(i, outcome)
  PROVE  /\ at'[i] = outcome /\ seen'[i] = 0 /\ cursor'[i] = 0
         /\ \A j \in Clients : j # i => at'[j] = at[j] /\ seen'[j] = seen[j] /\ cursor'[j] = cursor[j]
         /\ at' \in [Clients -> {"ready", "viewed", "open", "waiting"} \cup Outcomes]
         /\ seen' \in [Clients -> Nat] /\ cursor' \in [Clients -> Nat]
         /\ stream' \in [Clients -> {"none", "open", "cut"}]
BY DEF CommandTypes, Ended

(* A log that is left alone is a log that grows.                           *)
LEMMA LogRests ==
  ASSUME TypeOK, log' = log
  PROVE  Grows /\ log' \in [Ids -> Seq(Entry)]
BY DEF Grows, TypeOK

(* Opening a conversation: the View covers no more than there is.          *)
LEMMA OpensConversation ==
  ASSUME SendInd, NEW i \in Clients, NEW c \in Ids,
         (\E sel \in Selection : Create(i, c, sel)) \/ View(i, c)
  PROVE  /\ Grows /\ log' \in [Ids -> Seq(Entry)] /\ CommandTypes'
         /\ CommandInv(i)' /\ \A j \in Clients : j # i => Rests(j)
<1>t. TypeOK /\ CommandTypes /\ CommandInv(i)
  BY DEF SendInd, TypeOK, CommandTypes
<1>l. log[c] \in Seq(Entry) /\ Len(log[c]) \in Nat
  BY <1>t DEF TypeOK
<1>1. PICK k \in {0, Len(log[c])} :
        /\ at[i] = "ready" /\ (sent[i] = 0 \/ conv[i] = c)
        /\ at' = [at EXCEPT ![i] = "viewed"] /\ conv' = [conv EXCEPT ![i] = c] /\ seen' = [seen EXCEPT ![i] = k]
        /\ UNCHANGED <<log, sent, cursor, stream>>
  BY DEF Create, View
<1>2. Grows /\ log' \in [Ids -> Seq(Entry)]
  BY <1>1, <1>t, LogRests
<1>3. CommandTypes' /\ \A j \in Clients : j # i => Rests(j)
  BY <1>1, <1>t, <1>l DEF CommandTypes, Rests
<1>4. at'[i] = "viewed" /\ conv'[i] = c /\ seen'[i] = k /\ sent'[i] = sent[i] /\ log' = log /\ k <= Len(log[c])
  BY <1>1, <1>t, <1>l DEF CommandTypes
<1>5. (sent[i] > 0 => Logged(conv[i], "answered", Previous(Msg(i))))'
  <2>1. sent[i] > 0 => conv[i] = c /\ Logged(conv[i], "answered", Previous(Msg(i)))
    BY <1>1, <1>t, ClientAssumption DEF CommandInv, Standing, CommandTypes
  <2>2. Msg(i)' = Msg(i)
    BY <1>4 DEF Msg
  <2>3. QED
    BY <1>4, <2>1, <2>2 DEF Logged, Previous
<1>6. CommandInv(i)'
  BY <1>4, <1>5 DEF CommandInv, Standing, Ahead, Truth, Outcomes
<1>7. QED
  BY <1>2, <1>3, <1>6

(* The stream begins where the View ends.                                  *)
LEMMA OpensStream ==
  ASSUME SendInd, NEW i \in Clients, OpenEvents(i)
  PROVE  /\ Grows /\ log' \in [Ids -> Seq(Entry)] /\ CommandTypes'
         /\ CommandInv(i)' /\ \A j \in Clients : j # i => Rests(j)
<1>t. TypeOK /\ CommandTypes /\ CommandInv(i)
  BY DEF SendInd, TypeOK, CommandTypes
<1>1. /\ at[i] = "viewed" /\ at' = [at EXCEPT ![i] = "open"] /\ cursor' = [cursor EXCEPT ![i] = seen[i]]
      /\ stream' = [stream EXCEPT ![i] = "open"] /\ UNCHANGED <<log, conv, sent, seen>>
  BY DEF OpenEvents
<1>2. Grows /\ log' \in [Ids -> Seq(Entry)]
  BY <1>1, <1>t, LogRests
<1>3. CommandTypes' /\ \A j \in Clients : j # i => Rests(j)
  BY <1>1, <1>t DEF CommandTypes, Rests
<1>4. at'[i] = "open" /\ cursor'[i] = seen[i] /\ UNCHANGED <<log, conv, sent, seen>>
  BY <1>1, <1>t DEF CommandTypes
<1>5. (sent[i] > 0 => Logged(conv[i], "answered", Previous(Msg(i))))'
  BY <1>4, <1>t DEF CommandInv, Standing, Logged, Previous, Msg
<1>6. CommandInv(i)'
  BY <1>1, <1>4, <1>5, <1>t DEF CommandInv, Standing, Ahead, Truth, Outcomes
<1>7. QED
  BY <1>2, <1>3, <1>6

(* A new message: nothing of it is in the log yet, so its outcome is       *)
(* ahead; and it follows the answer to the text before.                    *)
LEMMA Submits ==
  ASSUME SendInd, NEW i \in Clients, Submit(i)
  PROVE  /\ Grows /\ log' \in [Ids -> Seq(Entry)] /\ CommandTypes'
         /\ (PlacementTypeOK' => CommandInv(i)') /\ \A j \in Clients : j # i => Rests(j)
<1>t. TypeOK /\ CommandTypes /\ CommandInv(i) /\ AcceptedFirst
  BY DEF SendInd, TypeOK, CommandTypes
<1>1. /\ at[i] = "open" /\ at' = [at EXCEPT ![i] = "waiting"] /\ UNCHANGED <<conv, sent, seen, cursor, stream>>
      /\ ~Logged(conv[i], "accepted", Msg(i)) /\ Record(conv[i], "accepted", Msg(i))
  BY DEF Submit
<1>c. conv[i] \in Ids
  BY <1>1, <1>t DEF CommandInv, Standing
<1>m. Msg(i) \in Message /\ Msg(i).text = sent[i] + 1 /\ sent[i] \in Nat /\ Msg(i)' = Msg(i)
  BY <1>1, <1>t, ClientAssumption DEF CommandTypes, Msg, Message
<1>d. Due(conv[i], [type |-> "accepted", msg |-> Msg(i)])
  BY <1>m, <1>t DEF Due, Entry, CommandInv, Standing
<1>2. Grows /\ log' \in [Ids -> Seq(Entry)]
  BY <1>1, <1>t, <1>c, <1>d, RecordGrows
<1>3. CommandTypes' /\ \A j \in Clients : j # i => Rests(j)
  BY <1>1, <1>t DEF CommandTypes, Rests
<1>4. at'[i] = "waiting" /\ conv'[i] = conv[i] /\ sent'[i] = sent[i] /\ seen'[i] = seen[i] /\ cursor'[i] = cursor[i]
  BY <1>1, <1>t DEF CommandTypes
<1>5. ASSUME PlacementTypeOK' PROVE CommandInv(i)'
  <2>t. TypeOK'
    BY <1>2, <1>3, <1>5 DEF TypeOK, CommandTypes
  <2>1. /\ Len(log[conv[i]]) \in Nat /\ Len(log'[conv[i]]) \in Nat /\ Len(log[conv[i]]) <= Len(log'[conv[i]])
        /\ \A type, m : Logged(conv[i], type, m) => LoggedThen(conv[i], type, m)
    BY <1>t, <2>t, <1>2, <1>c, Kept, StaysLogged
  <2>2. (sent[i] > 0 => Logged(conv[i], "answered", Previous(Msg(i))))'
    <3>1. sent[i] > 0 => LoggedThen(conv[i], "answered", Previous(Msg(i)))
      BY <1>t, <2>1 DEF CommandInv, Standing
    <3>2. QED
      BY <3>1, <1>4, <1>m DEF Logged, LoggedThen, Previous
  <2>3. Standing(i)'
    <3>1. seen[i] \in Nat /\ cursor[i] = seen[i] /\ seen[i] <= Len(log[conv[i]])
      BY <1>1, <1>t DEF CommandInv, Standing, CommandTypes
    <3>2. QED
      BY <1>4, <1>c, <2>1, <2>2, <3>1 DEF Standing
  <2>4. LoggedThen(conv[i], "accepted", Msg(i))
    <3>1. log'[conv[i]] = Append(log[conv[i]], [type |-> "accepted", msg |-> Msg(i)])
      BY <1>1, <1>c, <1>t DEF Record, TypeOK
    <3>2. log[conv[i]] \in Seq(Entry)
      BY <1>c, <1>t DEF TypeOK
    <3>3. Len(log[conv[i]]) + 1 \in DOMAIN log'[conv[i]]
      BY <3>1, <3>2
    <3>4. log'[conv[i]][Len(log[conv[i]]) + 1] = [type |-> "accepted", msg |-> Msg(i)]
      BY <3>1, <3>2
    <3>5. QED
      BY <3>3, <3>4 DEF LoggedThen
  <2>5. ASSUME NEW n \in DOMAIN log'[conv[i]],
               log'[conv[i]][n].type \in Outcomes, log'[conv[i]][n].msg = Msg(i)
        PROVE  n > cursor[i]
    <3>1. CASE n \in DOMAIN log[conv[i]]
      <4>1. log'[conv[i]][n] = log[conv[i]][n]
        BY <1>t, <2>t, <1>2, <1>c, <3>1, Kept
      <4>2. Logged(conv[i], "accepted", Msg(i))
        BY <1>t, <1>c, <2>5, <3>1, <4>1 DEF AcceptedFirst
      <4>3. QED
        BY <1>1, <4>2
    <3>2. CASE n \notin DOMAIN log[conv[i]]
      <4>1. n = Len(log[conv[i]]) + 1
        BY <1>t, <2>t, <1>2, <1>c, <3>2, Kept
      <4>2. cursor[i] \in Nat /\ cursor[i] <= Len(log[conv[i]])
        BY <1>1, <1>t DEF CommandInv, Standing, CommandTypes
      <4>3. QED
        BY <2>1, <4>1, <4>2
    <3>3. QED
      BY <3>1, <3>2
  <2>6. Ahead(i)'
    BY <1>4, <1>m, <2>4, <2>5 DEF Ahead, Logged, LoggedThen
  <2>7. QED
    BY <1>4, <2>3, <2>6 DEF CommandInv, Truth, Outcomes
<1>6. QED
  BY <1>2, <1>3, <1>5

(* A message that was accepted before: if the snapshot has no outcome of   *)
(* it, its outcome comes after the snapshot, where the stream began.       *)
LEMMA SubmitsAgain ==
  ASSUME SendInd, NEW i \in Clients, SubmitAgain(i)
  PROVE  /\ Grows /\ log' \in [Ids -> Seq(Entry)] /\ CommandTypes'
         /\ CommandInv(i)' /\ \A j \in Clients : j # i => Rests(j)
<1>t. TypeOK /\ CommandTypes /\ CommandInv(i)
  BY DEF SendInd, TypeOK, CommandTypes
<1>1. /\ at[i] = "open" /\ UNCHANGED <<log, conv, sent>>
      /\ Logged(conv[i], "accepted", Msg(i))
  BY DEF SubmitAgain
<1>2. Grows /\ log' \in [Ids -> Seq(Entry)]
  BY <1>1, <1>t, LogRests
<1>m. /\ Msg(i)' = Msg(i) /\ conv[i] \in Ids
      /\ (sent[i] > 0 => Logged(conv[i], "answered", Previous(Msg(i))))'
      /\ \A type : Logged(conv[i], type, Msg(i)) => Logged(conv[i], type, Msg(i))'
  BY <1>1, <1>t DEF CommandInv, Standing, Logged, Previous, Msg
<1>d. log[conv[i]] \in Seq(Entry) /\ DOMAIN log[conv[i]] = 1..Len(log[conv[i]]) /\ Len(log[conv[i]]) \in Nat
  BY <1>m, <1>t DEF TypeOK
<1>s. seen[i] \in Nat /\ seen[i] <= Len(log[conv[i]]) /\ cursor[i] = seen[i]
  BY <1>1, <1>t DEF CommandInv, Standing, CommandTypes
<1>3. CASE InSnapshot(i) = {} /\ at' = [at EXCEPT ![i] = "waiting"] /\ UNCHANGED <<seen, cursor, stream>>
  <2>1. CommandTypes' /\ \A j \in Clients : j # i => Rests(j)
    BY <1>1, <1>3, <1>t DEF CommandTypes, Rests
  <2>2. at'[i] = "waiting"
    BY <1>3, <1>t DEF CommandTypes
  <2>3. ASSUME NEW n \in DOMAIN log[conv[i]],
               log[conv[i]][n].type \in Outcomes, log[conv[i]][n].msg = Msg(i)
        PROVE  n > cursor[i]
    <3>e. log[conv[i]][n] \in Entry
      BY <1>d, <2>3
    <3>1. log[conv[i]][n] = [type |-> log[conv[i]][n].type, msg |-> Msg(i)]
      BY <2>3, <3>e DEF Entry
    <3>2. n \notin 1..seen[i]
      BY <1>3, <2>3, <3>1 DEF InSnapshot
    <3>3. QED
      BY <1>d, <1>s, <3>2
  <2>4. Ahead(i)'
    BY <1>1, <1>3, <1>m, <2>2, <2>3 DEF Ahead, Logged
  <2>5. Standing(i)'
    BY <1>1, <1>3, <1>m, <1>s, <1>d, <2>2 DEF Standing
  <2>6. QED
    BY <1>2, <2>1, <2>2, <2>4, <2>5 DEF CommandInv, Truth, Outcomes
<1>4. ASSUME NEW outcome \in InSnapshot(i), Ended(i, outcome)
      PROVE  CommandTypes' /\ CommandInv(i)' /\ \A j \in Clients : j # i => Rests(j)
  <2>1. outcome \in Outcomes /\ Logged(conv[i], outcome, Msg(i))
    <3>1. PICK n \in 1..seen[i] : log[conv[i]][n] = [type |-> outcome, msg |-> Msg(i)]
      BY DEF InSnapshot
    <3>2. n \in DOMAIN log[conv[i]]
      BY <1>d, <1>s, <3>1
    <3>3. QED
      BY <3>1, <3>2 DEF InSnapshot, Logged
  <2>2. CommandTypes' /\ at'[i] = outcome /\ \A j \in Clients : j # i => Rests(j)
    BY <1>1, <1>4, <1>t, <2>1, EndedSets DEF CommandTypes, Rests
  <2>3. Truth(i)'
    BY <1>1, <1>m, <2>1, <2>2 DEF Truth
  <2>4. outcome \notin {"viewed", "open", "waiting"}
    BY <2>1 DEF Outcomes
  <2>5. Standing(i)' /\ Ahead(i)'
    BY <1>1, <1>m, <2>2, <2>4 DEF Standing, Ahead
  <2>6. QED
    BY <2>2, <2>3, <2>5 DEF CommandInv
<1>5. QED
  BY <1>2, <1>3, <1>4 DEF SubmitAgain

(* One event: the outcome of the message ends the Send, and no other       *)
(* event passes it.                                                        *)
LEMMA Reads ==
  ASSUME SendInd, NEW i \in Clients, Read(i)
  PROVE  /\ Grows /\ log' \in [Ids -> Seq(Entry)] /\ CommandTypes'
         /\ CommandInv(i)' /\ \A j \in Clients : j # i => Rests(j)
<1>t. TypeOK /\ CommandTypes /\ CommandInv(i)
  BY DEF SendInd, TypeOK, CommandTypes
<1>1. at[i] = "waiting" /\ cursor[i] < Len(log[conv[i]]) /\ UNCHANGED <<log, conv, sent>>
  BY DEF Read
<1>2. Grows /\ log' \in [Ids -> Seq(Entry)]
  BY <1>1, <1>t, LogRests
<1>m. /\ Msg(i)' = Msg(i) /\ conv[i] \in Ids
      /\ (sent[i] > 0 => Logged(conv[i], "answered", Previous(Msg(i))))'
      /\ \A type : Logged(conv[i], type, Msg(i)) => Logged(conv[i], type, Msg(i))'
  BY <1>1, <1>t DEF CommandInv, Standing, Logged, Previous, Msg
<1>d. log[conv[i]] \in Seq(Entry) /\ DOMAIN log[conv[i]] = 1..Len(log[conv[i]]) /\ Len(log[conv[i]]) \in Nat
  BY <1>m, <1>t DEF TypeOK
<1>e. cursor[i] \in Nat /\ cursor[i] + 1 \in DOMAIN log[conv[i]] /\ NextEntry(i) \in Entry
  BY <1>1, <1>d, <1>t DEF CommandTypes, NextEntry
<1>3. CASE OwnEnd(i)
  <2>1. Ended(i, NextEntry(i).type) /\ NextEntry(i).type \in Outcomes
    BY <1>3 DEF Read, OwnEnd
  <2>2. Logged(conv[i], NextEntry(i).type, Msg(i))
    BY <1>3, <1>e DEF OwnEnd, Logged, NextEntry, Entry
  <2>3. CommandTypes' /\ at'[i] = NextEntry(i).type /\ \A j \in Clients : j # i => Rests(j)
    BY <1>1, <1>t, <2>1, EndedSets DEF CommandTypes, Rests
  <2>4. Truth(i)'
    BY <1>1, <1>m, <2>2, <2>3 DEF Truth
  <2>5. NextEntry(i).type \notin {"viewed", "open", "waiting"}
    BY <2>1 DEF Outcomes
  <2>6. Standing(i)' /\ Ahead(i)'
    BY <1>1, <1>m, <2>3, <2>5 DEF Standing, Ahead
  <2>7. QED
    BY <1>2, <2>3, <2>4, <2>6 DEF CommandInv
<1>4. CASE ~OwnEnd(i)
  <2>1. cursor' = [cursor EXCEPT ![i] = cursor[i] + 1] /\ UNCHANGED <<at, seen, stream>>
    BY <1>4 DEF Read
  <2>2. CommandTypes' /\ cursor'[i] = cursor[i] + 1 /\ \A j \in Clients : j # i => Rests(j)
    BY <1>1, <1>e, <1>t, <2>1 DEF CommandTypes, Rests
  <2>3. ASSUME NEW n \in DOMAIN log[conv[i]],
               log[conv[i]][n].type \in Outcomes, log[conv[i]][n].msg = Msg(i)
        PROVE  n > cursor[i] + 1
    <3>1. n > cursor[i]
      BY <1>1, <1>t, <2>3 DEF CommandInv, Ahead
    <3>2. n # cursor[i] + 1
      BY <1>4, <2>3 DEF OwnEnd, NextEntry
    <3>3. QED
      BY <1>d, <1>e, <3>1, <3>2
  <2>4. Logged(conv[i], "accepted", Msg(i))
    BY <1>1, <1>t DEF CommandInv, Ahead
  <2>5. Ahead(i)'
    BY <1>1, <1>m, <2>1, <2>2, <2>3, <2>4 DEF Ahead
  <2>6. Standing(i)'
    BY <1>1, <1>d, <1>e, <1>m, <1>t, <2>1, <2>2 DEF CommandInv, Standing
  <2>7. QED
    BY <1>1, <1>2, <2>1, <2>2, <2>5, <2>6 DEF CommandInv, Truth, Outcomes
<1>5. QED
  BY <1>3, <1>4

(* The end of a command, and its next text.                                *)
LEMMA Concludes ==
  ASSUME SendInd, NEW i \in Clients, Lost(i) \/ GoOn(i) \/ Return(i)
  PROVE  /\ Grows /\ log' \in [Ids -> Seq(Entry)] /\ CommandTypes'
         /\ CommandInv(i)' /\ \A j \in Clients : j # i => Rests(j)
<1>t. TypeOK /\ CommandTypes /\ CommandInv(i)
  BY DEF SendInd, TypeOK, CommandTypes
<1>1. log' = log
  BY DEF Lost, GoOn, Return
<1>2. Grows /\ log' \in [Ids -> Seq(Entry)]
  BY <1>1, <1>t, LogRests
<1>3. CASE Over(i)
  <2>1. Ended(i, "ready") /\ conv' = [conv EXCEPT ![i] = None] /\ sent' = [sent EXCEPT ![i] = 0]
    BY <1>3 DEF Over
  <2>2. CommandTypes' /\ at'[i] = "ready" /\ sent'[i] = 0 /\ \A j \in Clients : j # i => Rests(j)
    BY <1>t, <2>1, EndedSets, ClientAssumption DEF CommandTypes, Rests
  <2>3. CommandInv(i)'
    BY <2>2 DEF CommandInv, Standing, Ahead, Truth, Outcomes
  <2>4. QED
    BY <1>2, <2>2, <2>3
<1>4. CASE GoOn(i)
  <2>1. /\ at[i] = "answered" /\ sent[i] + 1 < MaxTexts /\ at' = [at EXCEPT ![i] = "ready"]
        /\ sent' = [sent EXCEPT ![i] = sent[i] + 1] /\ UNCHANGED <<conv, seen, cursor, stream>>
    BY <1>4 DEF GoOn
  <2>2. CommandTypes' /\ at'[i] = "ready" /\ sent'[i] = sent[i] + 1 /\ \A j \in Clients : j # i => Rests(j)
    BY <1>t, <2>1, ClientAssumption DEF CommandTypes, Rests
  <2>3. conv[i] \in Ids /\ Logged(conv[i], "answered", Msg(i))
    BY <1>t, <2>1 DEF CommandInv, Standing, Truth, Outcomes
  <2>4. Previous(Msg(i)') = Msg(i)
    BY <1>t, <2>2, ClientAssumption DEF Msg, Previous, CommandTypes
  <2>5. Logged(conv[i], "answered", Previous(Msg(i)))'
    BY <1>1, <2>1, <2>3, <2>4 DEF Logged, Previous
  <2>6. CommandInv(i)'
    BY <2>1, <2>2, <2>3, <2>5 DEF CommandInv, Standing, Ahead, Truth, Outcomes
  <2>7. QED
    BY <1>2, <2>2, <2>6
<1>5. QED
  BY <1>3, <1>4 DEF Lost, Return

(* No command and nothing logged.                                          *)
LEMMA SendInitially == Init => SendInd
<1> SUFFICES ASSUME Init PROVE SendInd
  OBVIOUS
<1>1. TypeOK
  <2>1. PlacementTypeOK
    BY PlacementInitially DEF PlacementInd
  <2>2. log \in [Ids -> Seq(Entry)]
    BY DEF Init
  <2>3. QED
    BY <2>1, <2>2, ClientAssumption DEF Init, TypeOK
<1>2. AcceptedFirst /\ TextsInTurn
  BY DEF Init, AcceptedFirst, TextsInTurn
<1>3. ASSUME NEW i \in Clients PROVE CommandInv(i)
  BY DEF Init, CommandInv, Standing, Ahead, Truth, Outcomes
<1>4. QED
  BY <1>1, <1>2, <1>3 DEF SendInd

(* Every step keeps the log in order and every command in its place.       *)
LEMMA SendStep == SendInd /\ PlacementTypeOK' /\ [Next]_vars => SendInd'
<1> SUFFICES ASSUME SendInd, PlacementTypeOK', [Next]_vars PROVE SendInd'
  OBVIOUS
<1>t. TypeOK /\ AcceptedFirst /\ TextsInTurn /\ CommandTypes
  BY DEF SendInd, TypeOK, CommandTypes
<1>1. ASSUME Grows, log' \in [Ids -> Seq(Entry)], CommandTypes', NEW I \in SUBSET Clients,
             \A i \in I : CommandInv(i)', \A j \in Clients : j \notin I => Rests(j)
      PROVE  SendInd'
  <2>1. TypeOK'
    BY <1>1 DEF TypeOK, CommandTypes
  <2>2. AcceptedFirst' /\ TextsInTurn'
    BY <1>1, <1>t, <2>1, LogsInOrder
  <2>3. ASSUME NEW j \in Clients PROVE CommandInv(j)'
    <3>1. CASE j \in I
      BY <1>1, <3>1
    <3>2. CASE j \notin I
      BY <1>1, <2>1, <3>2, Bystander DEF Rests
    <3>3. QED
      BY <3>1, <3>2
  <2>4. QED
    BY <2>1, <2>2, <2>3 DEF SendInd
<1>2. CASE \/ \E c \in Ids : ServerStep(c)
           \/ \E c \in Ids, k \in Keys : SubmitElsewhere(c, k)
           \/ Die \/ Recover
  <2>1. /\ Grows /\ log' \in [Ids -> Seq(Entry)]
        /\ UNCHANGED <<at, conv, sent, seen, cursor>>
        /\ stream' \in [Clients -> {"none", "open", "cut"}]
    BY <1>2, ServerGrows
  <2>2. CommandTypes' /\ \A j \in Clients : j \notin {} => Rests(j)
    BY <1>t, <2>1 DEF CommandTypes, Rests
  <2>3. Grows /\ log' \in [Ids -> Seq(Entry)]
    BY <2>1
  <2>4. {} \in SUBSET Clients /\ \A i \in {} : CommandInv(i)'
    OBVIOUS
  <2>5. QED
    BY <1>1, <2>2, <2>3, <2>4
<1>3. ASSUME NEW i \in Clients, Command(i) PROVE SendInd'
  <2>1. /\ Grows /\ log' \in [Ids -> Seq(Entry)] /\ CommandTypes'
        /\ CommandInv(i)' /\ \A j \in Clients : j # i => Rests(j)
    <3>1. ASSUME NEW c \in Ids, (\E sel \in Selection : Create(i, c, sel)) \/ View(i, c)
          PROVE  /\ Grows /\ log' \in [Ids -> Seq(Entry)] /\ CommandTypes'
                 /\ CommandInv(i)' /\ \A j \in Clients : j # i => Rests(j)
      BY <3>1, OpensConversation
    <3>2. QED
      BY <1>3, <3>1, OpensStream, Submits, SubmitsAgain, Reads, Concludes DEF Command
  <2>2. \A j \in {i} : CommandInv(j)'
    BY <2>1
  <2>r. {i} \in SUBSET Clients /\ \A j \in Clients : j \notin {i} => Rests(j)
    BY <2>1
  <2>3. QED
    BY <1>1, <2>1, <2>2, <2>r
<1>4. CASE UNCHANGED vars
  <2>1. UNCHANGED <<log, at, conv, sent, seen, cursor, stream>>
    BY <1>4 DEF vars, commands
  <2>2. Grows /\ log' \in [Ids -> Seq(Entry)]
    BY <1>t, <2>1, LogRests
  <2>3. CommandTypes' /\ \A j \in Clients : j \notin {} => Rests(j)
    BY <1>t, <2>1 DEF CommandTypes, Rests
  <2>4. {} \in SUBSET Clients /\ \A i \in {} : CommandInv(i)'
    OBVIOUS
  <2>5. QED
    BY <1>1, <2>2, <2>3, <2>4
<1>5. QED
  BY <1>2, <1>3, <1>4 DEF Next

(* The inductive invariant of the commands.                                *)
LEMMA SendInvariant == Spec => []SendInd
<1>1. PlacementInd => PlacementTypeOK
  BY DEF PlacementInd
<1>2. QED
  BY <1>1, SendInitially, SendStep, PlacementInvariant, PTL DEF Spec

(* However calls are lost and commands repeated, a Send that waits has not *)
(* passed what it waits for, what it returned is the outcome of its own    *)
(* message, and the texts of a key enter a conversation in turn.           *)
THEOREM SendsAreSound == Spec => []SendInv
<1>1. SendInd => SendInv
  BY DEF SendInd, SendInv, CommandInv, Ahead, Truth, OutcomeAhead, ReturnsTrue
<1>2. QED
  BY <1>1, SendInvariant, PTL
=============================================================================
