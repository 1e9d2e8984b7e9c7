----------------------------- MODULE RelaySwarm -----------------------------
(***************************************************************************)
(* The P2P forwarding tree the relay keeps for one large group             *)
(* (apps/relay/main.cpp, "P2P Swarm tree management").  Every handler runs *)
(* under g_mutex from its first lookup to its last write, so one handler   *)
(* is one action.  members and swarm_tree are two vectors that the code    *)
(* indexes with the same number; they are sequences here for that reason.  *)
(*                                                                         *)
(* Relay is the zeroed parent_addr (0.0.0.0:0): the node is fed by the     *)
(* relay itself.  Messages to clients are not modelled: what is checked is *)
(* the tree the relay would announce.                                      *)
(***************************************************************************)
EXTENDS Integers, Sequences, FiniteSets, SequencesExt, FiniteSetsExt

CONSTANTS
  Addrs,          \* client addresses
  Djs,            \* those that join with role DJ or Owner
  Relay,          \* the zero address
  FanOut,         \* kSwarmFanOut
  Threshold,      \* kSwarmThreshold
  MaxMembers,     \* bound: members of the group
  MaxDepth,       \* bound: depth stored in a node
  MaxReports      \* bound: client reports (LOST, FAIL, UNABLE, READY) handled

ASSUME SwarmAssumption ==
  /\ Relay \notin Addrs /\ Djs \subseteq Addrs
  /\ FanOut \in Nat \ {0}
  /\ Threshold \in Nat \ {0}
  /\ MaxMembers \in Nat /\ MaxDepth \in Nat /\ MaxReports \in Nat

VARIABLES
  members,        \* Group::members: sequence of [addr, dj]
  tree,           \* Group::swarm_tree: sequence of nodes
  active,         \* Group::swarm_active
  failedOver,     \* history: clients that PARENT_FAIL gave a parent since they joined
  reports         \* bounding counter, no state of the code

vars == <<members, tree, active, failedOver, reports>>

Member == [addr : Addrs, dj : BOOLEAN]
Node == [addr : Addrs, depth : 0..MaxDepth, parent : Addrs \cup {Relay},
         children : Seq(Addrs), capable : BOOLEAN, mediated : BOOLEAN]

-----------------------------------------------------------------------------
(* Helpers on the two vectors.                                             *)

\* Index of the first entry for address a, 0 when there is none.
IndexOf(s, a) ==
  LET at == {i \in DOMAIN s : s[i].addr = a}
  IN  IF at = {} THEN 0 ELSE Min(at)

Enlisted == {members[i].addr : i \in DOMAIN members}

\* What remove_if and erase keep of s, and of each prefix of it, when the
\* entries in gone are removed.
KeptUpTo(s, gone) ==
  LET kept[k \in 0..Len(s)] ==
        IF k = 0 THEN <<>>
        ELSE IF s[k] \in gone THEN kept[k - 1] ELSE Append(kept[k - 1], s[k])
  IN  kept

Erased(s, gone) == KeptUpTo(s, gone)[Len(s)]

\* Mutant: relay_capable is not looked at.
BestParentAnyone(t, skip) ==
  LET open == {i \in DOMAIN t \ skip : Len(t[i].children) < FanOut}
      top  == {i \in open : \A j \in open : t[i].depth <= t[j].depth}
  IN  IF open = {} THEN 0 ELSE Min(top)

\* The scan for the shallowest relay-capable node with room, skipping the
\* indices in skip; the first of equals wins, 0 when no node qualifies.
BestParent(t, skip) ==
  LET open == {i \in DOMAIN t \ skip :
                 t[i].capable /\ Len(t[i].children) < FanOut}
      top  == {i \in open : \A j \in open : t[i].depth <= t[j].depth}
  IN  IF open = {} THEN 0 ELSE Min(top)

\* Mutant: the index of the parent is stored for its address.
AttachIndex(t, i, p) ==
  IF p = 0
  THEN [t EXCEPT ![i].depth = 0, ![i].parent = Relay]
  ELSE [t EXCEPT ![i].depth = t[p].depth + 1, ![i].parent = p,
                 ![p].children = Append(@, t[i].addr)]

\* Put node i under p, or under the relay itself when there is no parent.
Attach(t, i, p) ==
  IF p = 0
  THEN [t EXCEPT ![i].depth = 0, ![i].parent = Relay]
  ELSE [t EXCEPT ![i].depth = t[p].depth + 1, ![i].parent = t[p].addr,
                 ![p].children = Append(@, t[i].addr)]

\* Move one orphan below the best parent at that moment.  barred is never
\* chosen: the node that gave its children up, or Relay.
MoveOrphan(t, o, barred) ==
  LET i == IndexOf(t, o)
  IN  IF i = 0 THEN t ELSE Attach(t, i, BestParent(t, {i, IndexOf(t, barred)}))

\* The tree after the first k orphans have been moved, in list order.
MovedUpTo(t, orphans, barred) ==
  LET moved[k \in 0..Len(orphans)] ==
        IF k = 0 THEN t ELSE MoveOrphan(moved[k - 1], orphans[k], barred)
  IN  moved

Reassign(t, orphans, barred) == MovedUpTo(t, orphans, barred)[Len(orphans)]

\* rebuild_swarm_tree above the threshold: the root is the first DJ, and the
\* queue of open parents places the others below it breadth-first, in member
\* order.  At(k) is the member placed k-th, Place its inverse, Above(k) the
\* place of its parent, KidsBelow(k) the number of its children.
RootOf(ms) ==
  LET djs == {i \in DOMAIN ms : ms[i].dj} IN IF djs = {} THEN 1 ELSE Min(djs)

At(k, root) == IF k = 1 THEN root ELSE IF k <= root THEN k - 1 ELSE k

Place(i, root) == IF i = root THEN 1 ELSE IF i < root THEN i + 1 ELSE i

Above(k) == ((k - 2) \div FanOut) + 1

KidsBelow(k, n) ==
  LET rest == n - ((k - 1) * FanOut + 1)
  IN  IF rest <= 0 THEN 0 ELSE IF rest < FanOut THEN rest ELSE FanOut

DepthOf(n) ==
  LET depth[k \in 1..n] == IF k = 1 THEN 0 ELSE depth[Above(k)] + 1 IN depth

Rebuilt(ms) ==
  LET root  == RootOf(ms)
      depth == DepthOf(Len(ms))
  IN  [i \in DOMAIN ms |->
         LET k == Place(i, root)
         IN  [addr     |-> ms[i].addr,
              depth    |-> depth[k],
              parent   |-> IF k = 1 THEN Relay ELSE ms[At(Above(k), root)].addr,
              children |-> [c \in 1..KidsBelow(k, Len(ms)) |->
                              ms[At((k - 1) * FanOut + 1 + c, root)].addr],
              capable  |-> TRUE,
              mediated |-> FALSE]]

\* rebuild_swarm_tree: the tree it leaves for the members it sees.
Rebuild(ms) ==
  IF Len(ms) <= Threshold THEN [tree |-> <<>>, active |-> FALSE]
  ELSE [tree |-> Rebuilt(ms), active |-> TRUE]

\* swarm_add_member, for the member just pushed at the end of ms.
AddMember(ms) ==
  LET node == [addr |-> Last(ms).addr, depth |-> 0, parent |-> Relay,
               children |-> <<>>, capable |-> TRUE, mediated |-> FALSE]
      n    == Len(ms)
  IN  IF ~active THEN Rebuild(ms)
      ELSE LET t == Append(tree, node)
           IN  [tree |-> Attach(t, n, BestParent(t, {n})), active |-> TRUE]

\* The first node that lists a forgets it.
Unlisted(t, a) ==
  LET listed == {i \in DOMAIN t : a \in Range(t[i].children)}
  IN  IF listed = {} THEN t
      ELSE [t EXCEPT ![Min(listed)].children = Erased(@, {a})]

\* Mutant: the node of the departed member stays.
RemoveMemberKeepsNode(sw, ms, a) ==
  LET r == IndexOf(sw.tree, a)
  IN  IF ~sw.active \/ r = 0 THEN sw
      ELSE IF Len(ms) <= Threshold THEN Rebuild(ms)
      ELSE [tree |-> Reassign(Unlisted(sw.tree, a), sw.tree[r].children, Relay),
            active |-> TRUE]

\* Mutant: the parent keeps the departed member in its child list.
RemoveMemberKeepsChild(sw, ms, a) ==
  LET r == IndexOf(sw.tree, a)
  IN  IF ~sw.active \/ r = 0 THEN sw
      ELSE IF Len(ms) <= Threshold THEN Rebuild(ms)
      ELSE [tree |-> Reassign(RemoveAt(sw.tree, r), sw.tree[r].children, Relay),
            active |-> TRUE]

\* swarm_remove_member: ms is Group::members as it still is, with a in it.
RemoveMember(sw, ms, a) ==
  LET r == IndexOf(sw.tree, a)
  IN  IF ~sw.active \/ r = 0 THEN sw
      ELSE IF Len(ms) <= Threshold THEN Rebuild(ms)
      ELSE [tree |-> Reassign(RemoveAt(Unlisted(sw.tree, a), r),
                              sw.tree[r].children, Relay),
            active |-> TRUE]

\* The swarm after the stale ones of the first k members have left it.
RemovedUpTo(sw, ms, stale) ==
  LET after[k \in 0..Len(ms)] ==
        IF k = 0 THEN sw
        ELSE IF ms[k].addr \in stale
             THEN RemoveMember(after[k - 1], ms, ms[k].addr)
             ELSE after[k - 1]
  IN  after

\* The members of ms whose addresses are in as.
OnesAt(ms, as) == {m \in Range(ms) : m.addr \in as}

-----------------------------------------------------------------------------
\* Every handler of a client report changes swarm_tree alone.
Reported ==
  /\ UNCHANGED <<members, active>>
  /\ reports < MaxReports /\ reports' = reports + 1

Init ==
  /\ members = <<>> /\ tree = <<>> /\ active = FALSE
  /\ failedOver = {} /\ reports = 0

\* handle_join of a client that is in no group.
Join(a) ==
  /\ a \notin Enlisted
  /\ Len(members) < MaxMembers
  /\ members' = Append(members, [addr |-> a, dj |-> a \in Djs])
  /\ LET sw == AddMember(members')
     IN  tree' = sw.tree /\ active' = sw.active
  /\ failedOver' = IF active THEN failedOver \ {a} ELSE {}
  /\ UNCHANGED reports

\* handle_join to another group: swarm_remove_member, then members.erase.
Leave(a) ==
  /\ a \in Enlisted
  /\ LET sw == RemoveMember([tree |-> tree, active |-> active], members, a)
     IN  tree' = sw.tree /\ active' = sw.active
  /\ members' = Erased(members, OnesAt(members, {a}))
  /\ UNCHANGED <<failedOver, reports>>

\* cleanup_stale: the stale members leave the tree one after the other while
\* members still holds all of them, then they are erased together.
Cleanup(stale) ==
  /\ stale # {} /\ stale \subseteq Enlisted
  /\ LET sw == RemovedUpTo([tree |-> tree, active |-> active], members, stale)
                 [Len(members)]
         left == Erased(members, OnesAt(members, stale))
     IN  /\ members' = left
         \* an emptied group is dissolved, and its tree with it
         /\ tree' = IF left = <<>> THEN <<>> ELSE sw.tree
         /\ active' = (left # <<>> /\ sw.active)
  /\ UNCHANGED <<failedOver, reports>>

\* handle_swarm_lost: from reports that lost stopped feeding it.
SwarmLost(from, lost) ==
  LET i == IndexOf(tree, from)
      t == [tree EXCEPT ![i].depth = 0, ![i].parent = Relay]
      p == BestParent(t, {i, IndexOf(t, lost)})
  IN  /\ active /\ i # 0
      /\ tree' = Attach(t, i, p)
      /\ UNCHANGED failedOver /\ Reported

\* handle_swarm_ready.
SwarmReady(from) ==
  /\ active /\ from \in Enlisted
  /\ tree' = [tree EXCEPT ![IndexOf(tree, from)].capable = TRUE]
  /\ UNCHANGED failedOver /\ Reported

\* handle_swarm_unable with reason symmetric_nat: the relay feeds the children.
SwarmMediated(from) ==
  LET i == IndexOf(tree, from)
      \* only the first node holding each listed address is updated
      kids == {IndexOf(tree, c) : c \in Range(tree[i].children)} \ {0}
  IN  /\ active /\ i # 0
      /\ tree' = [j \in DOMAIN tree |->
                    [tree[j] EXCEPT
                       !.capable  = @ \/ j = i,
                       !.mediated = @ \/ j = i,
                       !.parent   = IF j \in kids THEN Relay ELSE @]]
      /\ UNCHANGED failedOver /\ Reported

\* handle_swarm_unable with any other reason: leaf-only, children moved away.
SwarmUnable(from) ==
  LET i == IndexOf(tree, from)
      t == [tree EXCEPT ![i].capable = FALSE, ![i].mediated = FALSE,
                        ![i].children = <<>>]
  IN  /\ active /\ i # 0
      /\ tree' = Reassign(t, tree[i].children, from)
      /\ UNCHANGED failedOver /\ Reported

\* handle_parent_fail: indexes the tree with an index into members; the
\* address of the failed parent is received and never used.  The client is
\* told its new parent, whether that one forwards or not; the parent's child
\* list, and the parent, hear nothing of it.
ParentFail(from, failed) ==
  LET i    == IndexOf(members, from)
      room == {j \in DOMAIN members \ {i} : Len(tree[j].children) < FanOut}
  IN  /\ active /\ i # 0 /\ room # {}
      /\ tree' = [tree EXCEPT ![i].parent = tree[Min(room)].addr]
      /\ failedOver' = failedOver \cup {from}
      /\ Reported

\* Bound of the model: depths grow without limit once the tree has a cycle.
DepthBound == \A i \in DOMAIN tree : tree[i].depth <= MaxDepth

Next ==
  /\ \/ \E a \in Addrs : Join(a)
     \/ \E a \in Addrs : Leave(a)
     \/ \E stale \in SUBSET Addrs : Cleanup(stale)
     \/ \E a \in Addrs : SwarmReady(a)
     \/ \E a \in Addrs : SwarmMediated(a)
     \/ \E a \in Addrs : SwarmUnable(a)
     \/ \E a, b \in Addrs : a # b /\ SwarmLost(a, b)
     \/ \E a, b \in Addrs : a # b /\ ParentFail(a, b)
  /\ DepthBound'

Spec == Init /\ [][Next]_vars

-----------------------------------------------------------------------------
(* Properties.                                                             *)

\* Type invariant.
TypeOK ==
  /\ members \in Seq(Member)
  /\ tree \in Seq(Node)
  /\ active \in BOOLEAN
  /\ reports \in 0..MaxReports

\* PARENT_FAIL indexes swarm_tree with an index of members, and every join
\* writes swarm_tree[member_idx]: while the swarm is active the two vectors
\* must stay parallel through joins, moves and multi-member clean-ups.
TreeParallelsMembers ==
  IF active THEN /\ Len(tree) = Len(members)
                 /\ \A i \in DOMAIN tree : tree[i].addr = members[i].addr
            ELSE tree = <<>>

\* No node is ever asked to feed more than kSwarmFanOut clients, although
\* four handlers append to child lists.
FanOutRespected == \A i \in DOMAIN tree : Len(tree[i].children) <= FanOut

\* A group over the threshold is always a swarm: the relay never falls back
\* to feeding a large group itself.
LargeGroupIsSwarm == Len(members) > Threshold => active

\* A client is told to listen to another only if that one was told to feed
\* it: the child list of its parent names it, also after its parent left and
\* the orphans were moved in turn.  PARENT_FAIL alone breaks this.
ParentsFeed ==
  \A i \in DOMAIN tree :
    tree[i].parent # Relay /\ tree[i].addr \notin failedOver =>
      \E j \in DOMAIN tree : /\ tree[j].addr = tree[i].parent
                             /\ tree[i].addr \in Range(tree[j].children)

\* A client that declined to forward feeds nobody, whoever leaves, joins or
\* is reassigned afterwards: it keeps no child list, and nobody has it for a
\* parent but those whom PARENT_FAIL, which does not ask, sent there.
LeafOnlyFeedsNobody ==
  \A i \in DOMAIN tree : ~tree[i].capable =>
    /\ tree[i].children = <<>>
    /\ \A j \in DOMAIN tree :
         tree[j].parent = tree[i].addr => tree[j].addr \in failedOver

\* Nobody is its own parent or child, even when the only node with room for
\* an orphan is the orphan.
NoSelfForwarding ==
  \A i \in DOMAIN tree : /\ tree[i].parent # tree[i].addr
                         /\ tree[i].addr \notin Range(tree[i].children)

\* What the handlers that write parents and child lists must keep together:
\* no list over the fan-out, no large group without its tree, nobody pointed
\* at a parent that does not list it or that declined, nobody below itself.
ForwardingSound ==
  /\ FanOutRespected /\ LargeGroupIsSwarm /\ ParentsFeed
  /\ LeafOnlyFeedsNobody /\ NoSelfForwarding

\* The parent and child views of the tree agree and depths count the hops
\* from a node the relay feeds, so every node is fed, and fed once.
WellFormed ==
  \A i \in DOMAIN tree :
    LET feeders == {j \in DOMAIN tree : tree[i].addr \in Range(tree[j].children)}
    IN  /\ \A c \in Range(tree[i].children) : IndexOf(tree, c) # 0
        /\ IF tree[i].parent = Relay
           THEN tree[i].depth = 0 /\ feeders = {}
           ELSE /\ feeders = {IndexOf(tree, tree[i].parent)}
                /\ \A j \in feeders : tree[i].depth = tree[j].depth + 1

Childless(a) ==
  IndexOf(tree, a) # 0 => tree[IndexOf(tree, a)].children = <<>>

LocalChange == \E a \in Addrs : Join(a) \/ (Childless(a) /\ Leave(a))

\* A join, or the departure of a client that feeds nobody, never damages a
\* sound tree ("only the affected branch is modified").
LocalChangeKeepsShape == [][WellFormed /\ LocalChange => WellFormed']_vars

HasRoot == \E i \in DOMAIN tree : tree[i].depth = 0

\* docs/protocol.md, Failure Recovery: when the root disconnects "next
\* relay-capable member promoted to root".
RootReplaced ==
  [][active /\ active' /\ HasRoot /\ Len(members') < Len(members)
       => HasRoot']_vars
=============================================================================
