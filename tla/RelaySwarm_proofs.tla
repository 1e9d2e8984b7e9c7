------------------------- MODULE RelaySwarm_proofs -------------------------
(***************************************************************************)
(* Proofs about the forwarding tree.  The handlers are built from four     *)
(* loops, each a recursive function over an index (KeptUpTo, MovedUpTo,    *)
(* RemovedUpTo, DepthOf); Loops says that such a function exists and what  *)
(* it computes step by step, so an invariant of the loop body is one of    *)
(* the loop.                                                               *)
(***************************************************************************)
EXTENDS RelaySwarm, WellFoundedInduction, SequenceTheorems, TLAPS

-----------------------------------------------------------------------------
(* Numbers and loops.                                                      *)

\* A nonempty set of naturals has a least element.
LEMMA NatLeast ==
    ASSUME NEW T, T \subseteq Nat, T # {}
    PROVE  \E x \in T : \A y \in T : x <= y
<1>1. PICK x \in T : \A y \in T : ~ (<<y, x>> \in OpToRel(<, Nat))
  BY WFMin, NatLessThanWellFounded
<1>2. \A y \in T : <<y, x>> \in OpToRel(<, Nat) <=> y < x
  BY DEF OpToRel
<1>3. ASSUME NEW y \in T PROVE x <= y
  <2>1. ~ (y < x)
    BY <1>1, <1>2
  <2> QED
    BY <2>1
<1> QED
  BY <1>3

\* The minimum of a nonempty set of naturals is its least member.
LEMMA MinIsLeast ==
    ASSUME NEW T, T \subseteq Nat, T # {}
    PROVE  Min(T) \in T /\ \A y \in T : Min(T) <= y
BY NatLeast DEF Min

\* Induction, over a set instead of a predicate.
LEMMA SetInduction ==
    ASSUME NEW S, 0 \in S, \A k \in Nat : k \in S => k + 1 \in S
    PROVE  Nat \subseteq S
<1> SUFFICES ASSUME Nat \ S # {} PROVE FALSE
  OBVIOUS
<1>1. PICK x \in Nat \ S : \A y \in Nat \ S : x <= y
  BY NatLeast
<1>2. x # 0 /\ x - 1 \in Nat
  BY <1>1
<1>3. x - 1 \in S
  BY <1>1, <1>2
<1> QED
  BY <1>1, <1>2, <1>3

\* The same up to a bound.
LEMMA UpTo ==
    ASSUME NEW n \in Nat, NEW S, 0 \in S,
           \A k \in 1..n : k - 1 \in S => k \in S
    PROVE  0..n \subseteq S
<1> DEFINE M == {k \in Nat : k <= n => k \in S}
<1>1. 0 \in M
  OBVIOUS
<1>2. ASSUME NEW k \in Nat, k \in M PROVE k + 1 \in M
  <2>1. CASE k + 1 <= n
    <3>1. k + 1 \in 1..n /\ (k + 1) - 1 = k /\ k \in S
      BY <1>2, <2>1
    <3> QED
      BY <3>1
  <2> QED
    BY <2>1
<1>3. Nat \subseteq M
  <2> HIDE DEF M
  <2> QED
    BY <1>1, <1>2, SetInduction
<1> QED
  BY <1>3

\* f is the values init, step[init, 1], ... of a loop of n rounds.
Runs(f, n, init, step) ==
  f[0] = init /\ \A k \in 1..n : f[k] = step[<<f[k - 1], k>>]

\* A loop that starts in S and whose body stays in S computes a value of S
\* after every round.
LEMMA Loops ==
    ASSUME NEW S, NEW n \in Nat, NEW init \in S,
           NEW step \in [S \X (1..n) -> S]
    PROVE  \E f \in [0..n -> S] : Runs(f, n, init, step)
<1> USE DEF Runs
<1> DEFINE Ok(m) == \E f \in [0..m -> S] : Runs(f, m, init, step)
           M == {m \in Nat : Ok(m)}
<1>1. 0 \in M
  <2> DEFINE g == [k \in 0..0 |-> init]
  <2>1. g \in [0..0 -> S] /\ g[0] = init
    OBVIOUS
  <2>2. \A k \in 1..0 : g[k] = step[<<g[k - 1], k>>]
    OBVIOUS
  <2> HIDE DEF g
  <2> QED
    BY <2>1, <2>2
<1>2. ASSUME NEW m \in 1..n, m - 1 \in M PROVE m \in M
  <2>1. PICK f \in [0..(m - 1) -> S] :
          f[0] = init /\ \A k \in 1..(m - 1) : f[k] = step[<<f[k - 1], k>>]
    BY <1>2
  <2> DEFINE g == [k \in 0..m |-> IF k = m THEN step[<<f[m - 1], m>>] ELSE f[k]]
  <2>2. f[m - 1] \in S
    BY <2>1
  <2>3. step[<<f[m - 1], m>>] \in S
    BY <2>2
  <2>4. g \in [0..m -> S]
    BY <2>1, <2>3
  <2>5. g[0] = init
    BY <2>1
  <2>6. ASSUME NEW k \in 1..m PROVE g[k] = step[<<g[k - 1], k>>]
    <3>1. g[k - 1] = f[k - 1]
      OBVIOUS
    <3>2. CASE k = m
      <4>1. g[k] = step[<<f[m - 1], m>>]
        BY <3>2
      <4> QED
        BY <4>1, <3>1, <3>2
    <3>3. CASE k # m
      <4>1. g[k] = f[k] /\ k \in 1..(m - 1)
        BY <3>3
      <4> QED
        BY <2>1, <3>1, <4>1
    <3> QED
      BY <3>2, <3>3
  <2> HIDE DEF g
  <2> QED
    BY <2>4, <2>5, <2>6
<1>3. n \in M
  <2> HIDE DEF M
  <2> QED
    BY <1>1, <1>2, UpTo
<1> QED
  BY <1>3

-----------------------------------------------------------------------------
(* Erasing entries of a vector.                                            *)

\* What is kept of a prefix follows from what is kept of the one before.
LEMMA KeptSteps ==
    ASSUME NEW S, NEW s \in Seq(S), NEW gone
    PROVE  /\ KeptUpTo(s, gone) \in [0..Len(s) -> Seq(S)]
           /\ KeptUpTo(s, gone)[0] = <<>>
           /\ \A k \in 1..Len(s) :
                KeptUpTo(s, gone)[k] =
                  IF s[k] \in gone THEN KeptUpTo(s, gone)[k - 1]
                  ELSE Append(KeptUpTo(s, gone)[k - 1], s[k])
<1> DEFINE n == Len(s)
           none == <<>>
           R == Seq(S)
           after(q, k) == IF s[k] \in gone THEN q ELSE Append(q, s[k])
           body(f) == [k \in 0..n |-> IF k = 0 THEN none ELSE after(f[k - 1], k)]
           step == [x \in R \X (1..n) |-> after(x[1], x[2])]
           g == KeptUpTo(s, gone)
<1>1. none \in R /\ n \in Nat
  OBVIOUS
<1>2. ASSUME NEW q \in R, NEW k \in 1..n PROVE after(q, k) \in R
  OBVIOUS
<1>3. g = CHOOSE h : h = body(h)
  BY DEF KeptUpTo
<1> HIDE DEF n, R, after, g, none
<1>4. step \in [R \X (1..n) -> R]
  BY <1>2
<1>5. ASSUME NEW q \in R, NEW k \in 1..n PROVE step[<<q, k>>] = after(q, k)
  OBVIOUS
<1> HIDE DEF step
<1>6. PICK f \in [0..n -> R] : Runs(f, n, none, step)
  BY <1>1, <1>4, Loops, Zenon
<1>7. ASSUME NEW k \in 1..n PROVE f[k] = after(f[k - 1], k)
  <2>1. f[k - 1] \in R
    BY <1>1
  <2> QED
    BY <1>5, <1>6, <2>1 DEF Runs
<1>8. f = body(f)
  BY <1>6, <1>7 DEF Runs
<1>9. g = body(g)
  <2> HIDE DEF body
  <2> QED
    BY <1>3, <1>8
<1>10. g[0] = none /\ \A k \in 1..n : g[k] = after(g[k - 1], k)
  BY <1>1, <1>9
<1>11. g \in [0..n -> R]
  <2> DEFINE T == {k \in 0..n : g[k] \in R}
  <2>1. 0 \in T
    BY <1>1, <1>10
  <2>2. ASSUME NEW k \in 1..n, k - 1 \in T PROVE k \in T
    BY <1>2, <1>10, <2>2
  <2>3. 0..n \subseteq T
    <3> HIDE DEF T
    <3> QED
      BY <1>1, <2>1, <2>2, UpTo
  <2>4. g = [k \in 0..n |-> g[k]]
    <3>1. DOMAIN g = 0..n /\ \E h : g = [k \in 0..n |-> h[k]]
      BY <1>9
    <3> QED
      BY <3>1
  <2> QED
    BY <2>3, <2>4
<1> QED
  BY <1>10, <1>11 DEF g, n, R, after, none

\* What is kept of the first k entries: those of them that are not gone, in
\* no more places.
KeptWell(s, gone, k) ==
  LET q == KeptUpTo(s, gone)[k]
  IN  /\ Len(q) <= k
      /\ \A j \in DOMAIN q : q[j] \notin gone /\ \E i \in 1..k : q[j] = s[i]
      /\ \A i \in 1..k : s[i] \notin gone => \E j \in DOMAIN q : q[j] = s[i]

\* What remove_if has kept of every prefix is well.
LEMMA KeptIsWell ==
    ASSUME NEW S, NEW s \in Seq(S), NEW gone, NEW k \in 0..Len(s)
    PROVE  KeptWell(s, gone, k)
<1> DEFINE n == Len(s)
           g == KeptUpTo(s, gone)
           T == {i \in 0..n : KeptWell(s, gone, i)}
<1>1. n \in Nat
  OBVIOUS
<1>2. /\ g \in [0..n -> Seq(S)]
      /\ g[0] = <<>>
      /\ \A i \in 1..n : g[i] = IF s[i] \in gone THEN g[i - 1]
                                ELSE Append(g[i - 1], s[i])
  BY KeptSteps
<1> HIDE DEF g
<1>3. 0 \in T
  BY <1>1, <1>2 DEF KeptWell, g
<1>4. ASSUME NEW i \in 1..n, i - 1 \in T PROVE i \in T
  <2> DEFINE p == g[i - 1]
             q == g[i]
  <2>1. p \in Seq(S) /\ s[i] \in S /\ i \in Nat
    BY <1>2
  <2>2. /\ Len(p) <= i - 1
        /\ \A j \in DOMAIN p : p[j] \notin gone /\ \E h \in 1..(i - 1) : p[j] = s[h]
        /\ \A h \in 1..(i - 1) : s[h] \notin gone => \E j \in DOMAIN p : p[j] = s[h]
    BY <1>4 DEF KeptWell, g
  <2>3. CASE s[i] \in gone
    <3>1. q = p
      BY <1>2, <2>3
    <3> HIDE DEF p, q
    <3>2. \A h \in 1..i : h \in 1..(i - 1) \/ h = i
      BY <2>1
    <3>3. \A h \in 1..(i - 1) : h \in 1..i
      BY <2>1
    <3>4. Len(q) <= i
      BY <2>1, <2>2, <3>1
    <3>5. KeptWell(s, gone, i)
      BY <2>2, <2>3, <3>1, <3>2, <3>3, <3>4 DEF KeptWell, q, g
    <3> QED
      BY <3>5
  <2>4. CASE s[i] \notin gone
    <3>1. q = Append(p, s[i])
      BY <1>2, <2>4
    <3> HIDE DEF p, q
    <3>2. /\ Len(q) = Len(p) + 1 /\ q[Len(p) + 1] = s[i]
          /\ \A j \in 1..Len(p) : q[j] = p[j]
          /\ DOMAIN q = 1..(Len(p) + 1) /\ DOMAIN p = 1..Len(p)
          /\ Len(p) \in Nat
      BY <2>1, <3>1
    <3>3. ASSUME NEW j \in DOMAIN q
          PROVE  q[j] \notin gone /\ \E h \in 1..i : q[j] = s[h]
      <4>1. CASE j = Len(p) + 1
        BY <2>1, <2>4, <3>2, <4>1
      <4>2. CASE j \in 1..Len(p)
        BY <2>1, <2>2, <3>2, <4>2
      <4> QED
        BY <3>2, <4>1, <4>2
    <3>4. ASSUME NEW h \in 1..i, s[h] \notin gone
          PROVE  \E j \in DOMAIN q : q[j] = s[h]
      <4>1. CASE h = i
        BY <3>2, <4>1
      <4>2. CASE h \in 1..(i - 1)
        <5>1. PICK j \in DOMAIN p : p[j] = s[h]
          BY <2>2, <3>4, <4>2
        <5>2. j \in DOMAIN q /\ q[j] = s[h]
          BY <3>2, <5>1
        <5> QED
          BY <5>2
      <4> QED
        BY <2>1, <4>1, <4>2
    <3>5. Len(q) <= i
      BY <2>1, <2>2, <3>2
    <3>6. KeptWell(s, gone, i)
      BY <3>3, <3>4, <3>5 DEF KeptWell, q, g
    <3> QED
      BY <3>6
  <2> QED
    BY <2>3, <2>4
<1>5. 0..n \subseteq T
  <2> HIDE DEF T, n
  <2> QED
    BY <1>1, <1>3, <1>4, UpTo
<1> QED
  BY <1>5

\* Erased keeps the rest and nothing else.
LEMMA ErasedIsRest ==
    ASSUME NEW S, NEW s \in Seq(S), NEW gone
    PROVE  /\ Erased(s, gone) \in Seq(S)
           /\ Len(Erased(s, gone)) <= Len(s)
           /\ \A x : x \in Range(Erased(s, gone)) <=> x \in Range(s) /\ x \notin gone
<1>1. Len(s) \in Nat /\ DOMAIN s = 1..Len(s)
  OBVIOUS
<1>2. KeptWell(s, gone, Len(s))
  BY <1>1, KeptIsWell
<1>3. Erased(s, gone) \in Seq(S)
  BY <1>1, KeptSteps DEF Erased
<1> DEFINE q == Erased(s, gone)
<1>4. /\ Len(q) <= Len(s)
      /\ \A j \in DOMAIN q : q[j] \notin gone /\ \E i \in DOMAIN s : q[j] = s[i]
      /\ \A i \in DOMAIN s : s[i] \notin gone => \E j \in DOMAIN q : q[j] = s[i]
  BY <1>1, <1>2 DEF KeptWell, Erased
<1> HIDE DEF q
<1>5. \A x : x \in Range(q) <=> x \in Range(s) /\ x \notin gone
  BY <1>4 DEF Range
<1> QED
  BY <1>3, <1>4, <1>5 DEF q

-----------------------------------------------------------------------------
(* The tree, whatever depths it has.                                       *)

\* Node without the bound on depths.
AnyNode == [addr : Addrs, depth : Nat, parent : Addrs \cup {Relay},
            children : Seq(Addrs), capable : BOOLEAN, mediated : BOOLEAN]

\* No address twice.
Unique(s) == \A i, j \in DOMAIN s : s[i].addr = s[j].addr => i = j

\* What ForwardingSound asks of one node.
NodeSound(x) ==
  /\ Len(x.children) <= FanOut
  /\ ~x.capable => x.children = <<>>
  /\ x.parent # x.addr
  /\ x.addr \notin Range(x.children)

Trees == {t \in Seq(AnyNode) : Unique(t) /\ \A i \in DOMAIN t : NodeSound(t[i])}

\* The same clients in the same places.
SameNodes(t, u) ==
  /\ DOMAIN u = DOMAIN t
  /\ \A i \in DOMAIN t : u[i].addr = t[i].addr

\* A tree is a function from 1..n to nodes that are sound.
LEMMA TreesAre ==
    ASSUME NEW t, NEW n \in Nat, t \in [1..n -> AnyNode],
           Unique(t), \A i \in 1..n : NodeSound(t[i])
    PROVE  t \in Trees
<1>1. t \in Seq(AnyNode) /\ DOMAIN t = 1..n
  OBVIOUS
<1> QED
  BY <1>1 DEF Trees

\* What a tree of Trees offers to the proofs.
LEMMA TreesHave ==
    ASSUME NEW t \in Trees
    PROVE  /\ Len(t) \in Nat /\ DOMAIN t = 1..Len(t)
           /\ t \in [1..Len(t) -> AnyNode]
           /\ Unique(t)
           /\ \A i \in DOMAIN t : t[i] \in AnyNode /\ NodeSound(t[i])
<1>1. t \in Seq(AnyNode)
  BY DEF Trees
<1>2. Len(t) \in Nat /\ DOMAIN t = 1..Len(t) /\ t \in [1..Len(t) -> AnyNode]
  <2> HIDE DEF AnyNode
  <2> QED
    BY <1>1
<1> QED
  BY <1>2 DEF Trees

\* IndexOf finds the first entry of an address.
LEMMA IndexFinds ==
    ASSUME NEW S, NEW s \in Seq(S), NEW a
    PROVE  /\ IndexOf(s, a) = 0 <=> \A i \in DOMAIN s : s[i].addr # a
           /\ IndexOf(s, a) # 0 => /\ IndexOf(s, a) \in DOMAIN s
                                   /\ s[IndexOf(s, a)].addr = a
<1> DEFINE at == {i \in DOMAIN s : s[i].addr = a}
<1>1. at \subseteq Nat /\ 0 \notin at
  OBVIOUS
<1>2. IndexOf(s, a) = IF at = {} THEN 0 ELSE Min(at)
  BY DEF IndexOf
<1>3. at # {} => Min(at) \in at
  BY <1>1, MinIsLeast
<1> QED
  BY <1>1, <1>2, <1>3

\* BestParent finds nothing, or a capable node with room that is not skipped.
LEMMA BestParentFits ==
    ASSUME NEW t \in Trees, NEW skip
    PROVE  LET p == BestParent(t, skip)
           IN  p # 0 => /\ p \in DOMAIN t \ skip
                        /\ t[p].capable
                        /\ Len(t[p].children) < FanOut
<1> DEFINE open == {i \in DOMAIN t \ skip :
                      t[i].capable /\ Len(t[i].children) < FanOut}
           top == {i \in open : \A j \in open : t[i].depth <= t[j].depth}
           p == BestParent(t, skip)
<1>1. p = IF open = {} THEN 0 ELSE Min(top)
  BY DEF BestParent
<1>2. ASSUME open # {} PROVE top # {} /\ top \subseteq Nat
  <2> DEFINE depths == {t[i].depth : i \in open}
  <2>1. depths # {} /\ depths \subseteq Nat
    BY <1>2, TreesHave DEF AnyNode
  <2>2. PICK d \in depths : \A e \in depths : d <= e
    <3> HIDE DEF depths
    <3> QED
      BY <2>1, NatLeast
  <2>3. PICK i \in open : t[i].depth = d
    OBVIOUS
  <2>4. \A j \in open : t[j].depth \in depths
    OBVIOUS
  <2>5. i \in top
    BY <2>2, <2>3, <2>4
  <2>6. DOMAIN t \subseteq Nat
    BY TreesHave
  <2> QED
    BY <2>5, <2>6
<1>3. open # {} => Min(top) \in top
  <2> HIDE DEF top, open
  <2> QED
    BY <1>2, MinIsLeast
<1> QED
  BY <1>1, <1>3

\* v is the node x with another depth and parent.
Moved(v, x, d, p) ==
  /\ v.addr = x.addr /\ v.parent = p /\ v.depth = d
  /\ v.children = x.children /\ v.capable = x.capable
  /\ v \in AnyNode

\* The fields of a node after Attach has written two of them.
LEMMA MovedNode ==
    ASSUME NEW x \in AnyNode, NEW d \in Nat, NEW p \in Addrs \cup {Relay}
    PROVE  Moved([x EXCEPT !.depth = d, !.parent = p], x, d, p)
BY DEF AnyNode, Moved

\* Attaching below such a parent, or below the relay, keeps a tree a tree.
LEMMA AttachKeeps ==
    ASSUME NEW t \in Trees, NEW i \in DOMAIN t, NEW p,
           p # 0 => /\ p \in DOMAIN t \ {i}
                    /\ t[p].capable
                    /\ Len(t[p].children) < FanOut
    PROVE  Attach(t, i, p) \in Trees /\ SameNodes(t, Attach(t, i, p))
<1> DEFINE u == Attach(t, i, p)
           n == Len(t)
<1>1. /\ n \in Nat /\ DOMAIN t = 1..n
      /\ t \in [1..n -> AnyNode]
      /\ Unique(t)
      /\ \A j \in 1..n : t[j] \in AnyNode /\ NodeSound(t[j])
  BY TreesHave
<1> HIDE DEF n
<1>2. CASE p = 0
  <2>1. u = [t EXCEPT ![i].depth = 0, ![i].parent = Relay]
    BY <1>2 DEF Attach
  <2>2. ASSUME NEW j \in 1..n
        PROVE  u[j] \in AnyNode /\ NodeSound(u[j]) /\ u[j].addr = t[j].addr
    <3>1. t[j] \in AnyNode /\ NodeSound(t[j])
      BY <1>1
    <3>2. CASE j = i
      <4>1. u[j] = [t[j] EXCEPT !.depth = 0, !.parent = Relay]
        BY <1>1, <2>1, <3>2 DEF AnyNode
      <4>2. /\ u[j].addr = t[j].addr /\ u[j].parent = Relay
            /\ u[j].children = t[j].children /\ u[j].capable = t[j].capable
            /\ u[j] \in AnyNode
        <5>1. 0 \in Nat /\ Relay \in Addrs \cup {Relay}
          OBVIOUS
        <5>2. Moved(u[j], t[j], 0, Relay)
          <6> HIDE DEF u
          <6> QED
            BY <3>1, <4>1, <5>1, MovedNode, Zenon
        <5> QED
          BY <5>2 DEF Moved
      <4>3. t[j].addr \in Addrs
        BY <3>1 DEF AnyNode
      <4> QED
        BY <3>1, <4>2, <4>3, SwarmAssumption DEF NodeSound
    <3>3. CASE j # i
      BY <1>1, <2>1, <3>1, <3>3
    <3> QED
      BY <3>2, <3>3
  <2>3. u \in [1..n -> AnyNode]
    BY <1>1, <2>1, <2>2
  <2> QED
    BY <1>1, <2>2, <2>3, TreesAre DEF SameNodes, Unique
<1>3. CASE p # 0
  <2>1. u = [t EXCEPT ![i].depth = t[p].depth + 1, ![i].parent = t[p].addr,
                      ![p].children = Append(@, t[i].addr)]
    BY <1>3 DEF Attach
  <2>2. /\ p \in 1..n /\ p # i /\ t[p].capable /\ Len(t[p].children) < FanOut
        /\ t[p] \in AnyNode /\ NodeSound(t[p]) /\ t[i] \in AnyNode
    BY <1>1, <1>3
  <2>3. ASSUME NEW j \in 1..n
        PROVE  u[j] \in AnyNode /\ NodeSound(u[j]) /\ u[j].addr = t[j].addr
    <3>1. t[j] \in AnyNode /\ NodeSound(t[j])
      BY <1>1
    <3>2. CASE j = i
      <4>1. u[j] = [t[j] EXCEPT !.depth = t[p].depth + 1, !.parent = t[p].addr]
        BY <1>1, <2>1, <2>2, <3>2 DEF AnyNode
      <4>2. t[p].addr # t[i].addr
        BY <1>1, <2>2 DEF Unique
      <4>3. /\ u[j].addr = t[j].addr /\ u[j].parent = t[p].addr
            /\ u[j].children = t[j].children /\ u[j].capable = t[j].capable
            /\ u[j] \in AnyNode
        <5>1. t[p].depth + 1 \in Nat /\ t[p].addr \in Addrs
          BY <2>2 DEF AnyNode
        <5> HIDE DEF u
        <5> QED
          <6>1. Moved(u[j], t[j], t[p].depth + 1, t[p].addr)
            BY <3>1, <4>1, <5>1, MovedNode, Zenon
          <6> QED
            BY <6>1 DEF Moved
      <4> QED
        BY <3>1, <3>2, <4>2, <4>3 DEF NodeSound
    <3>3. CASE j = p
      <4>1. u[j] = [t[j] EXCEPT !.children = Append(t[j].children, t[i].addr)]
        BY <1>1, <2>1, <2>2, <3>3 DEF AnyNode
      <4>2. t[p].addr # t[i].addr
        BY <1>1, <2>2 DEF Unique
      <4> DEFINE c == t[j].children
                 d == Append(c, t[i].addr)
      <4>3. c \in Seq(Addrs) /\ t[i].addr \in Addrs /\ Len(c) < FanOut
        BY <2>2, <3>3 DEF AnyNode
      <4>4. d \in Seq(Addrs) /\ Len(d) <= FanOut
        <5> HIDE DEF c
        <5> QED
          BY <4>3, SwarmAssumption
      <4>5. t[j].addr \notin Range(d)
        <5>1. t[j].addr \notin Range(c) /\ t[j].addr # t[i].addr
          BY <3>1, <3>3, <4>2 DEF NodeSound
        <5> HIDE DEF c
        <5>2. /\ DOMAIN d = 1..(Len(c) + 1) /\ DOMAIN c = 1..Len(c)
              /\ d[Len(c) + 1] = t[i].addr
              /\ \A h \in 1..Len(c) : d[h] = c[h]
          BY <4>3
        <5>3. Range(d) \subseteq Range(c) \cup {t[i].addr}
          BY <4>3, <5>2 DEF Range
        <5> QED
          BY <5>1, <5>3
      <4> HIDE DEF d
      <4>6. /\ u[j].addr = t[j].addr /\ u[j].depth = t[j].depth
            /\ u[j].parent = t[j].parent /\ u[j].children = d
            /\ u[j].capable = t[j].capable /\ u[j].mediated = t[j].mediated
            /\ u[j] \in AnyNode
        BY <3>1, <4>1, <4>4 DEF AnyNode, d
      <4>7. u[j].capable
        BY <2>2, <3>3, <4>6
      <4> QED
        BY <3>1, <4>4, <4>5, <4>6, <4>7 DEF NodeSound
    <3>4. CASE j # i /\ j # p
      BY <1>1, <2>1, <2>2, <3>1, <3>4
    <3> QED
      BY <3>2, <3>3, <3>4
  <2>4. u \in [1..n -> AnyNode]
    BY <1>1, <2>1, <2>2, <2>3
  <2> QED
    BY <1>1, <2>3, <2>4, TreesAre DEF SameNodes, Unique
<1> QED
  BY <1>2, <1>3

-----------------------------------------------------------------------------
(* The loops over the tree.                                                *)

\* Moving one orphan keeps the tree sound and the clients in their places.
LEMMA MoveOrphanKeeps ==
    ASSUME NEW t \in Trees, NEW o, NEW barred
    PROVE  MoveOrphan(t, o, barred) \in Trees /\ SameNodes(t, MoveOrphan(t, o, barred))
<1> DEFINE i == IndexOf(t, o)
           skip == {i, IndexOf(t, barred)}
           p == BestParent(t, skip)
<1>1. i # 0 => i \in DOMAIN t
  <2>1. t \in Seq(AnyNode)
    BY DEF Trees
  <2> QED
    BY <2>1, IndexFinds
<1>2. p # 0 => /\ p \in DOMAIN t \ {i} /\ t[p].capable
               /\ Len(t[p].children) < FanOut
  <2>1. p # 0 => /\ p \in DOMAIN t \ skip /\ t[p].capable
                 /\ Len(t[p].children) < FanOut
    BY BestParentFits
  <2> HIDE DEF p
  <2> QED
    BY <2>1
<1>3. MoveOrphan(t, o, barred) = IF i = 0 THEN t ELSE Attach(t, i, p)
  BY DEF MoveOrphan
<1> HIDE DEF i, p, skip
<1>4. SameNodes(t, t)
  BY DEF SameNodes
<1>5. i # 0 => Attach(t, i, p) \in Trees /\ SameNodes(t, Attach(t, i, p))
  BY <1>1, <1>2, AttachKeeps
<1> QED
  BY <1>3, <1>4, <1>5

\* SameNodes is transitive.
LEMMA SameNodesTransitive ==
    ASSUME NEW t, NEW u, NEW v, SameNodes(t, u), SameNodes(u, v)
    PROVE  SameNodes(t, v)
BY DEF SameNodes

\* The orphans are moved one after the other, and each move keeps a tree a
\* tree, with its clients in their places.
LEMMA ReassignSteps ==
    ASSUME NEW t \in Trees, NEW orphans \in Seq(Addrs), NEW barred
    PROVE  LET g == MovedUpTo(t, orphans, barred)
           IN  /\ g[0] = t
               /\ \A k \in 1..Len(orphans) : g[k] = MoveOrphan(g[k - 1], orphans[k], barred)
               /\ \A k \in 0..Len(orphans) : g[k] \in Trees /\ SameNodes(t, g[k])
<1> DEFINE n == Len(orphans)
           R == {u \in Trees : SameNodes(t, u)}
           after(u, k) == MoveOrphan(u, orphans[k], barred)
           body(f) == [k \in 0..n |-> IF k = 0 THEN t ELSE after(f[k - 1], k)]
           step == [x \in R \X (1..n) |-> after(x[1], x[2])]
           g == MovedUpTo(t, orphans, barred)
<1>1. t \in R /\ n \in Nat
  BY DEF SameNodes
<1>2. ASSUME NEW u \in R, NEW k \in 1..n PROVE after(u, k) \in R
  BY MoveOrphanKeeps, SameNodesTransitive
<1>3. g = CHOOSE h : h = body(h)
  BY DEF MovedUpTo
<1>5. \A u \in R : u \in Trees /\ SameNodes(t, u)
  OBVIOUS
<1> HIDE DEF n, R, after, g
<1>6. step \in [R \X (1..n) -> R]
  BY <1>2
<1>7. ASSUME NEW u \in R, NEW k \in 1..n PROVE step[<<u, k>>] = after(u, k)
  OBVIOUS
<1> HIDE DEF step
<1>8. PICK f \in [0..n -> R] : Runs(f, n, t, step)
  BY <1>1, <1>6, Loops, Zenon
<1>9. ASSUME NEW k \in 1..n PROVE f[k] = after(f[k - 1], k)
  <2>1. f[k - 1] \in R
    BY <1>1
  <2> QED
    BY <1>7, <1>8, <2>1 DEF Runs
<1>10. f = body(f)
  BY <1>8, <1>9 DEF Runs
<1>11. g = body(g)
  <2> HIDE DEF body
  <2> QED
    BY <1>3, <1>10
<1>12. g[0] = t /\ \A k \in 1..n : g[k] = after(g[k - 1], k)
  BY <1>1, <1>11
<1>13. 0..n \subseteq {k \in 0..n : g[k] \in R}
  <2> DEFINE T == {k \in 0..n : g[k] \in R}
  <2>1. 0 \in T
    BY <1>1, <1>12
  <2>2. ASSUME NEW k \in 1..n, k - 1 \in T PROVE k \in T
    BY <1>2, <1>12, <2>2
  <2> HIDE DEF T
  <2> QED
    BY <1>1, <2>1, <2>2, UpTo DEF T
<1> QED
  BY <1>5, <1>12, <1>13 DEF g, n, after

\* Reassign keeps a tree a tree, with its clients in their places.
LEMMA ReassignKeeps ==
    ASSUME NEW t \in Trees, NEW orphans \in Seq(Addrs), NEW barred
    PROVE  /\ Reassign(t, orphans, barred) \in Trees
           /\ SameNodes(t, Reassign(t, orphans, barred))
<1>1. Len(orphans) \in 0..Len(orphans)
  OBVIOUS
<1> QED
  BY <1>1, ReassignSteps DEF Reassign

\* Forgetting an address keeps a tree a tree.
LEMMA UnlistedKeeps ==
    ASSUME NEW t \in Trees, NEW a
    PROVE  Unlisted(t, a) \in Trees /\ SameNodes(t, Unlisted(t, a))
<1> DEFINE listed == {i \in DOMAIN t : a \in Range(t[i].children)}
           m == Min(listed)
           u == Unlisted(t, a)
           n == Len(t)
<1>1. /\ n \in Nat /\ DOMAIN t = 1..n
      /\ t \in [1..n -> AnyNode]
      /\ Unique(t)
      /\ \A j \in 1..n : t[j] \in AnyNode /\ NodeSound(t[j])
  BY TreesHave
<1>2. CASE listed = {}
  BY <1>2 DEF Unlisted, SameNodes
<1>3. CASE listed # {}
  <2>1. u = [t EXCEPT ![m].children = Erased(t[m].children, {a})]
    BY <1>3 DEF Unlisted
  <2>2. m \in 1..n
    <3>1. listed \subseteq Nat /\ listed \subseteq 1..n
      BY <1>1
    <3> HIDE DEF listed
    <3> QED
      BY <1>3, <3>1, MinIsLeast
  <2> HIDE DEF m, n, u
  <2>3. ASSUME NEW j \in 1..n
        PROVE  u[j] \in AnyNode /\ NodeSound(u[j]) /\ u[j].addr = t[j].addr
    <3>1. t[j] \in AnyNode /\ NodeSound(t[j])
      BY <1>1
    <3>2. CASE j = m
      <4> DEFINE c == t[j].children
                 d == Erased(c, {a})
      <4>1. c \in Seq(Addrs)
        BY <3>1 DEF AnyNode
      <4> HIDE DEF c
      <4>2. d \in Seq(Addrs) /\ Len(d) <= Len(c) /\ Range(d) \subseteq Range(c)
        BY <4>1, ErasedIsRest
      <4> HIDE DEF d
      <4>3. u[j] = [t[j] EXCEPT !.children = d]
        BY <1>1, <2>1, <2>2, <3>2 DEF AnyNode, c, d
      <4>4. /\ u[j].addr = t[j].addr /\ u[j].parent = t[j].parent
            /\ u[j].children = d /\ u[j].capable = t[j].capable
            /\ u[j] \in AnyNode
        BY <3>1, <4>2, <4>3 DEF AnyNode
      <4>5. c = <<>> => d = <<>>
        BY <4>1, <4>2
      <4>6. Len(c) \in Nat /\ Len(d) \in Nat
        BY <4>1, <4>2
      <4>7. Len(d) <= FanOut
        BY <3>1, <4>2, <4>6, SwarmAssumption DEF NodeSound, c
      <4> QED
        BY <3>1, <4>2, <4>4, <4>5, <4>7 DEF NodeSound, c
    <3>3. CASE j # m
      BY <1>1, <2>1, <2>2, <3>1, <3>3
    <3> QED
      BY <3>2, <3>3
  <2>4. u \in [1..n -> AnyNode]
    BY <1>1, <2>1, <2>2, <2>3
  <2> QED
    BY <1>1, <2>3, <2>4, TreesAre DEF SameNodes, Unique, u
<1> QED
  BY <1>2, <1>3

\* Taking one node out keeps a tree a tree and moves the later ones up.
LEMMA RemoveAtKeeps ==
    ASSUME NEW t \in Trees, NEW r \in DOMAIN t
    PROVE  LET u == RemoveAt(t, r)
           IN  /\ u \in Trees /\ Len(u) = Len(t) - 1
               /\ \A j \in DOMAIN u : u[j] = IF j < r THEN t[j] ELSE t[j + 1]
<1> DEFINE u == RemoveAt(t, r)
           n == Len(t)
           S == AnyNode
<1>1. /\ n \in Nat /\ DOMAIN t = 1..n
      /\ t \in [1..n -> AnyNode]
      /\ Unique(t)
      /\ \A j \in 1..n : t[j] \in AnyNode /\ NodeSound(t[j])
  BY TreesHave
<1>2. t \in Seq(S)
  BY DEF Trees
<1> HIDE DEF S
<1>3. u = SubSeq(t, 1, r - 1) \o SubSeq(t, r + 1, n)
  BY DEF RemoveAt
<1>4. /\ DOMAIN u = 1..(n - 1) /\ Len(u) = n - 1
      /\ \A j \in 1..(n - 1) : u[j] = IF j < r THEN t[j] ELSE t[j + 1]
      /\ u \in Seq(S)
  <2> DEFINE p == SubSeq(t, 1, r - 1)
             q == SubSeq(t, r + 1, n)
  <2> HIDE DEF n
  <2>1. /\ p \in Seq(S) /\ Len(p) = r - 1
        /\ \A j \in 1..(r - 1) : p[j] = t[j]
    BY <1>1, <1>2 DEF n
  <2>2. /\ q \in Seq(S) /\ Len(q) = n - r
        /\ \A j \in 1..(n - r) : q[j] = t[r + j]
    BY <1>1, <1>2 DEF n
  <2> HIDE DEF p, q, u
  <2>3. u = p \o q
    BY <1>3 DEF p, q
  <2>4. u \in Seq(S) /\ Len(u) = n - 1 /\ DOMAIN u = 1..(n - 1)
    <3>1. u \in Seq(S) /\ Len(u) = Len(p) + Len(q)
      BY <2>1, <2>2, <2>3, ConcatProperties
    <3>2. (r - 1) + (n - r) = n - 1
      BY <1>1
    <3>3. DOMAIN u = 1..Len(u)
      BY <3>1
    <3> QED
      BY <2>1, <2>2, <3>1, <3>2, <3>3
  <2>5. ASSUME NEW j \in 1..(n - 1)
        PROVE  u[j] = IF j < r THEN t[j] ELSE t[j + 1]
    <3>1. CASE j < r
      BY <1>1, <2>1, <2>2, <2>3, <3>1
    <3>2. CASE ~(j < r)
      <4>1. u[j] = q[j - (r - 1)]
        BY <1>1, <2>1, <2>2, <2>3, <3>2
      <4>2. j - (r - 1) \in 1..(n - r) /\ r + (j - (r - 1)) = j + 1
        BY <1>1, <3>2
      <4> QED
        BY <2>2, <3>2, <4>1, <4>2
    <3> QED
      BY <3>1, <3>2
  <2> QED
    BY <2>4, <2>5 DEF u
<1> HIDE DEF u, n
<1>5. u \in [1..(n - 1) -> AnyNode] /\ n - 1 \in Nat
  <2>1. u = [j \in 1..(n - 1) |-> u[j]]
    BY <1>4
  <2>2. \A j \in 1..(n - 1) : u[j] \in AnyNode
    BY <1>1, <1>4
  <2> QED
    BY <1>1, <2>1, <2>2
<1>6. Unique(u)
  BY <1>1, <1>4 DEF Unique
<1>7. \A j \in 1..(n - 1) : NodeSound(u[j])
  BY <1>1, <1>4
<1> QED
  BY <1>4, <1>5, <1>6, <1>7, TreesAre DEF u, n

-----------------------------------------------------------------------------
(* The breadth-first tree.                                                 *)

\* Multiples of the fan-out keep their order, with a fan-out between them.
LEMMA Multiples ==
    ASSUME NEW x \in Nat, NEW y \in Nat, x < y
    PROVE  /\ x * FanOut \in Nat /\ y * FanOut \in Nat
           /\ x * FanOut + FanOut <= y * FanOut
<1>1. PICK z \in Nat : y = x + 1 + z
  <2>1. y - x - 1 \in Nat
    OBVIOUS
  <2> QED
    BY <2>1
<1>2. FanOut \in Nat
  BY SwarmAssumption
<1>3. y * FanOut = x * FanOut + FanOut + z * FanOut
  BY <1>1, <1>2
<1>4. z * FanOut \in Nat /\ x * FanOut \in Nat
  BY <1>2
<1> QED
  BY <1>2, <1>3, <1>4

\* The parent of place q is the k whose children include q.
LEMMA AboveIs ==
    ASSUME NEW q \in Nat, q >= 2
    PROVE  /\ Above(q) \in 1..(q - 1)
           /\ \A k \in Nat \ {0} :
                Above(q) = k <=> \E c \in 1..FanOut : q = (k - 1) * FanOut + 1 + c
<1> DEFINE d == (q - 2) \div FanOut
<1>1. FanOut \in Nat /\ FanOut >= 1
  BY SwarmAssumption
<1>2. d \in Nat /\ d * FanOut <= q - 2 /\ q - 2 < d * FanOut + FanOut
  BY <1>1
<1>3. Above(q) = d + 1
  BY DEF Above
<1> HIDE DEF d
<1>4. d * FanOut \in Nat /\ d <= d * FanOut
  BY <1>1, <1>2
<1>5. Above(q) \in 1..(q - 1)
  BY <1>2, <1>3, <1>4
<1>6. ASSUME NEW k \in Nat \ {0}
      PROVE  Above(q) = k <=> \E c \in 1..FanOut : q = (k - 1) * FanOut + 1 + c
  <2> DEFINE e == k - 1
             ef == e * FanOut
             df == d * FanOut
  <2>1. e \in Nat /\ ef \in Nat
    BY <1>1
  <2>2. ASSUME Above(q) = k PROVE \E c \in 1..FanOut : q = ef + 1 + c
    <3>1. e = d
      BY <1>2, <1>3, <2>2
    <3>2. q - 1 - df \in 1..FanOut /\ q = df + 1 + (q - 1 - df)
      BY <1>1, <1>2, <1>4
    <3> QED
      BY <3>1, <3>2
  <2>3. ASSUME NEW c \in 1..FanOut, q = ef + 1 + c PROVE Above(q) = k
    <3> HIDE DEF e
    <3>1. ef <= q - 2 /\ q - 2 < ef + FanOut
      BY <1>1, <2>1, <2>3
    <3>2. d < e => df + FanOut <= ef
      BY <1>2, <2>1, Multiples
    <3>3. e < d => ef + FanOut <= df
      BY <1>2, <2>1, Multiples
    <3> HIDE DEF ef, df
    <3>4. d = e
      BY <1>1, <1>2, <1>4, <2>1, <3>1, <3>2, <3>3 DEF df
    <3> QED
      BY <1>2, <1>3, <3>4 DEF e
  <2> QED
    BY <2>2, <2>3
<1> QED
  BY <1>5, <1>6

\* The children of place k are places behind it.
LEMMA KidsAre ==
    ASSUME NEW n \in Nat, NEW k \in Nat \ {0}
    PROVE  /\ KidsBelow(k, n) \in 0..FanOut
           /\ \A c \in 1..KidsBelow(k, n) :
                /\ (k - 1) * FanOut + 1 + c \in (k + 1)..n
                /\ Above((k - 1) * FanOut + 1 + c) = k
           /\ \A q \in 2..n : Above(q) = k =>
                \E c \in 1..KidsBelow(k, n) : q = (k - 1) * FanOut + 1 + c
<1> DEFINE base == (k - 1) * FanOut
           m == KidsBelow(k, n)
<1>1. FanOut \in Nat /\ FanOut >= 1
  BY SwarmAssumption
<1>2. base \in Nat /\ base >= k - 1
  BY <1>1
<1>3. m = IF n - (base + 1) <= 0 THEN 0
          ELSE IF n - (base + 1) < FanOut THEN n - (base + 1) ELSE FanOut
  BY DEF KidsBelow
<1> HIDE DEF base, m
<1>4. m \in 0..FanOut
  BY <1>1, <1>2, <1>3
<1>5. ASSUME NEW c \in 1..m
      PROVE  base + 1 + c \in (k + 1)..n /\ c \in 1..FanOut /\ base + 1 + c >= 2
  BY <1>1, <1>2, <1>3, <1>4
<1>6. ASSUME NEW c \in 1..m PROVE Above(base + 1 + c) = k
  <2>1. base + 1 + c \in Nat /\ base + 1 + c >= 2 /\ c \in 1..FanOut
    BY <1>2, <1>4, <1>5
  <2> QED
    BY <2>1, AboveIs DEF base
<1>7. ASSUME NEW q \in 2..n, Above(q) = k
      PROVE  \E c \in 1..m : q = base + 1 + c
  <2>1. PICK c \in 1..FanOut : q = base + 1 + c
    BY <1>7, AboveIs DEF base
  <2>2. c \in 1..m
    BY <1>1, <1>2, <1>3, <2>1
  <2> QED
    BY <2>1, <2>2
<1> QED
  BY <1>4, <1>5, <1>6, <1>7 DEF base, m

\* At and Place are each other's inverse.
LEMMA AtPlace ==
    ASSUME NEW n \in Nat, NEW root \in 1..n
    PROVE  /\ \A i \in 1..n : Place(i, root) \in 1..n /\ At(Place(i, root), root) = i
           /\ \A k \in 1..n : At(k, root) \in 1..n /\ Place(At(k, root), root) = k
BY DEF At, Place

\* DepthOf counts the steps to the root.
LEMMA DepthSteps ==
    ASSUME NEW n \in Nat
    PROVE  /\ DepthOf(n) \in [1..n -> Nat]
           /\ \A k \in 1..n :
                DepthOf(n)[k] = IF k = 1 THEN 0 ELSE DepthOf(n)[Above(k)] + 1
<1> DEFINE depth(f, k) == IF k = 1 THEN 0 ELSE f[Above(k)] + 1
           Ok(m) == \E f \in [1..m -> Nat] : \A k \in 1..m : f[k] = depth(f, k)
           M == {m \in 0..n : Ok(m)}
           body(f) == [k \in 1..n |-> depth(f, k)]
           g == DepthOf(n)
<1>1. \A k \in Nat : k >= 2 => Above(k) \in 1..(k - 1)
  BY AboveIs
<1>2. 0 \in M
  <2> DEFINE h == [k \in 1..0 |-> 0]
  <2>1. h \in [1..0 -> Nat] /\ \A k \in 1..0 : h[k] = depth(h, k)
    OBVIOUS
  <2>2. Ok(0)
    <3> HIDE DEF h, depth
    <3> QED
      BY <2>1
  <2> QED
    <3> HIDE DEF Ok
    <3> QED
      BY <2>2
<1>3. ASSUME NEW m \in 1..n, m - 1 \in M PROVE m \in M
  <2>1. PICK f \in [1..(m - 1) -> Nat] : \A k \in 1..(m - 1) : f[k] = depth(f, k)
    BY <1>3
  <2> DEFINE h == [k \in 1..m |-> IF k = m THEN depth(f, m) ELSE f[k]]
  <2>2. depth(f, m) \in Nat
    BY <1>1, <2>1
  <2>3. h \in [1..m -> Nat]
    BY <2>1, <2>2
  <2>4. ASSUME NEW k \in 1..m PROVE h[k] = depth(h, k)
    <3>1. k # 1 => Above(k) \in 1..(k - 1)
      BY <1>1
    <3>2. k # 1 => h[Above(k)] = f[Above(k)]
      BY <3>1
    <3>3. depth(h, k) = depth(f, k)
      BY <3>2
    <3>4. h[k] = depth(f, k)
      BY <2>1
    <3> QED
      BY <3>3, <3>4
  <2> HIDE DEF h
  <2> QED
    BY <2>3, <2>4
<1>4. n \in M
  <2> HIDE DEF M
  <2> QED
    BY <1>2, <1>3, UpTo
<1>5. PICK f \in [1..n -> Nat] : \A k \in 1..n : f[k] = depth(f, k)
  BY <1>4
<1>6. f = body(f)
  BY <1>5
<1>7. g = CHOOSE h : h = body(h)
  BY DEF DepthOf
<1> HIDE DEF g, depth
<1>8. g = body(g)
  <2> HIDE DEF body
  <2> QED
    BY <1>6, <1>7
<1>9. \A k \in 1..n : g[k] = depth(g, k)
  BY <1>8
<1>10. g \in [1..n -> Nat]
  <2> DEFINE T == {m \in 0..n : \A k \in 1..m : g[k] \in Nat}
  <2>1. 0 \in T
    OBVIOUS
  <2>2. ASSUME NEW m \in 1..n, m - 1 \in T PROVE m \in T
    <3>1. g[m] \in Nat
      <4>1. g[m] = depth(g, m)
        BY <1>9
      <4>2. m # 1 => Above(m) \in 1..(m - 1)
        BY <1>1
      <4> QED
        BY <2>2, <4>1, <4>2 DEF depth
    <3>2. \A k \in 1..m : k = m \/ k \in 1..(m - 1)
      OBVIOUS
    <3> QED
      BY <2>2, <3>1, <3>2
  <2>3. n \in T
    <3> HIDE DEF T
    <3>1. 0..n \subseteq T
      BY <2>1, <2>2, UpTo
    <3> QED
      BY <3>1
  <2>4. g = [k \in 1..n |-> g[k]]
    BY <1>8
  <2> QED
    BY <2>3, <2>4
<1> QED
  BY <1>9, <1>10 DEF g, depth

\* The members of a group: none twice.
Rosters == {ms \in Seq(Member) : Unique(ms)}

\* What a member list of Rosters offers to the proofs.
LEMMA RostersHave ==
    ASSUME NEW ms \in Rosters
    PROVE  /\ Len(ms) \in Nat /\ DOMAIN ms = 1..Len(ms)
           /\ Unique(ms)
           /\ \A i \in DOMAIN ms : ms[i] \in Member /\ ms[i].addr \in Addrs
<1>1. ms \in Seq(Member)
  BY DEF Rosters
<1>2. Len(ms) \in Nat /\ DOMAIN ms = 1..Len(ms) /\ \A i \in DOMAIN ms : ms[i] \in Member
  BY <1>1
<1> QED
  BY <1>2 DEF Rosters, Member

\* The root is one of the members.
LEMMA RootIsMember ==
    ASSUME NEW ms \in Rosters, Len(ms) >= 1
    PROVE  RootOf(ms) \in 1..Len(ms)
<1> DEFINE djs == {i \in DOMAIN ms : ms[i].dj}
<1>1. Len(ms) \in Nat /\ DOMAIN ms = 1..Len(ms)
  BY RostersHave
<1>2. djs \subseteq 1..Len(ms) /\ djs \subseteq Nat
  BY <1>1
<1>3. RootOf(ms) = IF djs = {} THEN 1 ELSE Min(djs)
  BY DEF RootOf
<1> HIDE DEF djs
<1>4. djs # {} => Min(djs) \in djs
  BY <1>2, MinIsLeast
<1>5. CASE djs = {}
  <2>1. RootOf(ms) = 1
    BY <1>3, <1>5
  <2> QED
    BY <1>1, <2>1
<1>6. CASE djs # {}
  <2>1. RootOf(ms) = Min(djs)
    BY <1>3, <1>6
  <2> QED
    BY <1>2, <1>4, <1>6, <2>1
<1> QED
  BY <1>5, <1>6

\* The fields of the node that member i gets.
BuiltNode(x, ms, i) ==
  LET root == RootOf(ms)
      n    == Len(ms)
      k    == Place(i, root)
  IN  /\ x.addr = ms[i].addr
      /\ x.depth = DepthOf(n)[k]
      /\ x.parent = IF k = 1 THEN Relay ELSE ms[At(Above(k), root)].addr
      /\ DOMAIN x.children = 1..KidsBelow(k, n)
      /\ \A c \in 1..KidsBelow(k, n) :
           x.children[c] = ms[At((k - 1) * FanOut + 1 + c, root)].addr
      /\ x.capable

\* rebuild_swarm_tree gives every member one node, and the tree is sound.
LEMMA RebuiltIsTree ==
    ASSUME NEW ms \in Rosters, Len(ms) >= 1
    PROVE  /\ Rebuilt(ms) \in Trees /\ SameNodes(ms, Rebuilt(ms))
           /\ \A i \in DOMAIN ms : BuiltNode(Rebuilt(ms)[i], ms, i)
<1> DEFINE root == RootOf(ms)
           n == Len(ms)
           kids(k) == [c \in 1..KidsBelow(k, n) |->
                         ms[At((k - 1) * FanOut + 1 + c, root)].addr]
           node(i) == LET k == Place(i, root)
                      IN  [addr     |-> ms[i].addr,
                           depth    |-> DepthOf(n)[k],
                           parent   |-> IF k = 1 THEN Relay
                                        ELSE ms[At(Above(k), root)].addr,
                           children |-> kids(k),
                           capable  |-> TRUE,
                           mediated |-> FALSE]
           u == Rebuilt(ms)
<1>1. /\ n \in Nat /\ n >= 1 /\ DOMAIN ms = 1..n /\ Unique(ms)
      /\ \A i \in 1..n : ms[i].addr \in Addrs
  BY RostersHave
<1>2. root \in 1..n
  BY RootIsMember
<1>3. u = [i \in 1..n |-> node(i)]
  BY <1>1 DEF Rebuilt
<1> HIDE DEF n, u, root
<1>4. /\ \A i \in 1..n : Place(i, root) \in 1..n /\ At(Place(i, root), root) = i
      /\ \A k \in 1..n : At(k, root) \in 1..n /\ Place(At(k, root), root) = k
  BY <1>1, <1>2, AtPlace
<1>5. ASSUME NEW i \in 1..n
      PROVE  /\ u[i] \in AnyNode /\ NodeSound(u[i])
             /\ u[i].addr = ms[i].addr /\ BuiltNode(u[i], ms, i)
  <2> DEFINE k == Place(i, root)
             base == (k - 1) * FanOut
             m == KidsBelow(k, n)
             up == IF k = 1 THEN Relay ELSE ms[At(Above(k), root)].addr
             x == node(i)
  <2>1. k \in 1..n /\ At(k, root) = i /\ u[i] = x
    BY <1>3, <1>4
  <2>2. x = [addr |-> ms[i].addr, depth |-> DepthOf(n)[k], parent |-> up,
             children |-> kids(k), capable |-> TRUE, mediated |-> FALSE]
    OBVIOUS
  <2>3. DOMAIN kids(k) = 1..m /\ \A c \in 1..m : kids(k)[c] = ms[At(base + 1 + c, root)].addr
    OBVIOUS
  <2> HIDE DEF k, x, up
  <2>4. /\ m \in 0..FanOut
        /\ \A c \in 1..m : base + 1 + c \in (k + 1)..n
    <3>1. k \in Nat \ {0}
      BY <1>1, <2>1
    <3>2. /\ KidsBelow(k, n) \in 0..FanOut
          /\ \A c \in 1..KidsBelow(k, n) : (k - 1) * FanOut + 1 + c \in (k + 1)..n
      BY <1>1, <3>1, KidsAre
    <3> QED
      BY <3>2
  <2>5. FanOut \in Nat
    BY SwarmAssumption
  <2> HIDE DEF base, m
  <2>6. ASSUME NEW c \in 1..m
        PROVE  kids(k)[c] \in Addrs /\ kids(k)[c] # ms[i].addr
    <3> DEFINE q == base + 1 + c
    <3>1. q \in (k + 1)..n
      BY <2>4
    <3> HIDE DEF q
    <3>2. q \in 1..n /\ q # k
      BY <1>1, <2>1, <3>1
    <3>3. At(q, root) \in 1..n /\ At(q, root) # i
      <4>1. Place(At(q, root), root) = q /\ Place(i, root) = k
        BY <1>4, <3>2 DEF k
      <4> QED
        BY <1>4, <3>2, <4>1
    <3>4. kids(k)[c] = ms[At(q, root)].addr
      BY <2>3 DEF q
    <3> QED
      BY <1>1, <3>3, <3>4 DEF Unique
  <2> HIDE DEF kids
  <2>7. kids(k) \in Seq(Addrs) /\ Len(kids(k)) = m
    <3>1. kids(k) = [c \in 1..m |-> kids(k)[c]]
      BY <2>3 DEF kids
    <3>2. kids(k) \in [1..m -> Addrs] /\ m \in Nat
      BY <2>4, <2>5, <2>6, <3>1
    <3> QED
      BY <3>2
  <2>8. k # 1 => Above(k) \in 1..n /\ Above(k) # k
    <3>1. k # 1 => k \in Nat /\ k >= 2
      BY <1>1, <2>1
    <3>2. k # 1 => Above(k) \in 1..(k - 1)
      BY <3>1, AboveIs
    <3> QED
      BY <1>1, <2>1, <3>2
  <2>9. k # 1 => At(Above(k), root) \in 1..n /\ At(Above(k), root) # i
    BY <1>4, <2>1, <2>8 DEF k
  <2>10. up \in Addrs \cup {Relay} /\ up # ms[i].addr
    <3>1. CASE k = 1
      BY <1>1, <3>1, SwarmAssumption DEF up
    <3>2. CASE k # 1
      <4>1. up = ms[At(Above(k), root)].addr
        BY <3>2 DEF up
      <4> QED
        BY <1>1, <2>9, <3>2, <4>1 DEF Unique
    <3> QED
      BY <3>1, <3>2
  <2>11. DepthOf(n)[k] \in Nat
    BY <1>1, <2>1, DepthSteps
  <2>12. x \in AnyNode
    BY <1>1, <2>2, <2>7, <2>10, <2>11 DEF AnyNode
  <2>13. /\ x.addr = ms[i].addr /\ x.parent = up /\ x.children = kids(k)
         /\ x.depth = DepthOf(n)[k] /\ x.capable
    BY <2>2
  <2>14. ms[i].addr \notin Range(kids(k))
    BY <2>3, <2>6 DEF Range
  <2>15. NodeSound(x)
    BY <2>4, <2>5, <2>7, <2>10, <2>13, <2>14 DEF NodeSound
  <2>16. BuiltNode(x, ms, i)
    <3>1. \A c \in 1..m : x.children[c] = ms[At((k - 1) * FanOut + 1 + c, root)].addr
      BY <2>3, <2>13 DEF base
    <3>2. x.parent = IF k = 1 THEN Relay ELSE ms[At(Above(k), root)].addr
      BY <2>13 DEF up
    <3>3. DOMAIN x.children = 1..m
      BY <2>3, <2>13
    <3> QED
      BY <2>13, <3>1, <3>2, <3>3 DEF BuiltNode, k, n, root, m
  <2> QED
    BY <2>1, <2>12, <2>13, <2>15, <2>16
<1>6. u \in [1..n -> AnyNode]
  BY <1>3, <1>5
<1>7. \A i \in 1..n : NodeSound(u[i]) /\ u[i].addr = ms[i].addr /\ BuiltNode(u[i], ms, i)
  BY <1>5
<1>8. Unique(u)
  BY <1>1, <1>6, <1>7 DEF Unique
<1>9. u \in Trees
  BY <1>1, <1>6, <1>7, <1>8, TreesAre
<1> QED
  BY <1>1, <1>6, <1>7, <1>9 DEF SameNodes, u

\* Two vectors with the same clients have the same length.
LEMMA SameLength ==
    ASSUME NEW t \in Trees, NEW ms \in Rosters, SameNodes(ms, t)
    PROVE  Len(t) = Len(ms)
<1> DEFINE n == Len(t)
           m == Len(ms)
<1>1. n \in Nat /\ m \in Nat /\ 1..n = 1..m
  BY TreesHave, RostersHave DEF SameNodes
<1> HIDE DEF n, m
<1> QED
  BY <1>1 DEF n, m

-----------------------------------------------------------------------------
(* Members that leave.                                                     *)

Swarms == [tree : Trees, active : BOOLEAN]

\* The empty tree is sound.
LEMMA EmptyTree == <<>> \in Trees
BY DEF Trees, Unique

\* Rebuilding gives a swarm for the members, or none for a small group.
LEMMA RebuildIs ==
    ASSUME NEW ms \in Rosters
    PROVE  /\ Rebuild(ms) \in Swarms
           /\ IF Len(ms) <= Threshold
              THEN Rebuild(ms).tree = <<>> /\ ~Rebuild(ms).active
              ELSE SameNodes(ms, Rebuild(ms).tree) /\ Rebuild(ms).active
<1>1. Len(ms) \in Nat /\ Threshold \in Nat /\ Threshold >= 1
  BY RostersHave, SwarmAssumption
<1>2. CASE Len(ms) <= Threshold
  <2>1. Rebuild(ms) = [tree |-> <<>>, active |-> FALSE]
    BY <1>2 DEF Rebuild
  <2> QED
    BY <1>2, <2>1, EmptyTree DEF Swarms
<1>3. CASE ~(Len(ms) <= Threshold)
  <2>1. Rebuild(ms) = [tree |-> Rebuilt(ms), active |-> TRUE]
    BY <1>3 DEF Rebuild
  <2>2. Rebuilt(ms) \in Trees /\ SameNodes(ms, Rebuilt(ms))
    BY <1>1, <1>3, RebuiltIsTree
  <2> QED
    BY <1>3, <2>1, <2>2 DEF Swarms
<1> QED
  BY <1>2, <1>3

\* u is t without its r-th client.
Without(u, t, r) ==
  /\ DOMAIN u = 1..(Len(t) - 1)
  /\ \A j \in DOMAIN u : u[j].addr = IF j < r THEN t[j].addr ELSE t[j + 1].addr

\* swarm_remove_member takes its client out of the tree, and only that one.
LEMMA RemoveMemberTakesOne ==
    ASSUME NEW sw \in Swarms, NEW ms \in Rosters, NEW r \in DOMAIN sw.tree,
           sw.active, Len(ms) > Threshold
    PROVE  LET left == RemoveMember(sw, ms, sw.tree[r].addr)
           IN  left \in Swarms /\ left.active /\ Without(left.tree, sw.tree, r)
<1> DEFINE t == sw.tree
           a == t[r].addr
           listless == Unlisted(t, a)
           cut == RemoveAt(listless, r)
           u == Reassign(cut, t[r].children, Relay)
           n == Len(t)
<1>1. t \in Trees /\ r \in DOMAIN t
  BY DEF Swarms
<1> HIDE DEF t
<1>2. /\ n \in Nat /\ DOMAIN t = 1..n /\ Unique(t) /\ t[r] \in AnyNode
      /\ t \in Seq(AnyNode)
  BY <1>1, TreesHave DEF Trees
<1>3. IndexOf(t, a) = r /\ r # 0
  <2>1. IndexOf(t, a) # 0
    BY <1>1, <1>2, IndexFinds
  <2>2. IndexOf(t, a) \in DOMAIN t /\ t[IndexOf(t, a)].addr = a
    BY <1>2, <2>1, IndexFinds
  <2> QED
    BY <1>1, <1>2, <2>2 DEF Unique
<1>4. RemoveMember(sw, ms, a) = [tree |-> u, active |-> TRUE]
  <2>1. ~(Len(ms) <= Threshold)
    BY RostersHave, SwarmAssumption
  <2> HIDE DEF u, a
  <2> QED
    BY <1>3, <2>1 DEF RemoveMember, u, cut, listless, t
<1>5. listless \in Trees /\ SameNodes(t, listless)
  BY <1>1, UnlistedKeeps
<1> HIDE DEF listless, a
<1>6. Len(listless) = n /\ DOMAIN listless = 1..n
  BY <1>2, <1>5, TreesHave DEF SameNodes
<1>7. /\ cut \in Trees /\ Len(cut) = n - 1
      /\ \A j \in DOMAIN cut : cut[j] = IF j < r THEN listless[j] ELSE listless[j + 1]
  BY <1>1, <1>2, <1>5, <1>6, RemoveAtKeeps
<1> HIDE DEF cut
<1>8. t[r].children \in Seq(Addrs)
  BY <1>2 DEF AnyNode
<1>9. u \in Trees /\ SameNodes(cut, u)
  BY <1>7, <1>8, ReassignKeeps
<1>10. DOMAIN cut = 1..(n - 1)
  BY <1>7, TreesHave
<1> HIDE DEF u
<1>11. ASSUME NEW j \in 1..(n - 1)
       PROVE  u[j].addr = IF j < r THEN t[j].addr ELSE t[j + 1].addr
  <2>1. u[j].addr = cut[j].addr
    BY <1>9, <1>10 DEF SameNodes
  <2>2. j \in 1..n /\ j + 1 \in 1..n
    BY <1>2
  <2>3. listless[j].addr = t[j].addr /\ listless[j + 1].addr = t[j + 1].addr
    BY <1>2, <1>5, <2>2 DEF SameNodes
  <2> QED
    BY <1>7, <1>10, <2>1, <2>3
<1>12. Without(u, t, r)
  BY <1>9, <1>10, <1>11 DEF Without, SameNodes
<1> QED
  BY <1>4, <1>9, <1>12 DEF Swarms, t, a

\* Whoever is removed, a swarm is left.
LEMMA RemoveMemberKeeps ==
    ASSUME NEW sw \in Swarms, NEW ms \in Rosters, NEW a
    PROVE  RemoveMember(sw, ms, a) \in Swarms
<1> DEFINE r == IndexOf(sw.tree, a)
<1>1. sw.tree \in Trees /\ sw.tree \in Seq(AnyNode)
  BY DEF Swarms, Trees
<1>2. r # 0 => r \in DOMAIN sw.tree /\ sw.tree[r].addr = a
  BY <1>1, IndexFinds
<1>3. CASE ~sw.active \/ r = 0
  BY <1>3 DEF RemoveMember
<1>4. CASE ~(~sw.active \/ r = 0) /\ Len(ms) <= Threshold
  <2>1. RemoveMember(sw, ms, a) = Rebuild(ms)
    BY <1>4 DEF RemoveMember
  <2> QED
    BY <2>1, RebuildIs
<1>5. CASE ~(~sw.active \/ r = 0) /\ ~(Len(ms) <= Threshold)
  <2>1. Len(ms) > Threshold
    BY <1>5, RostersHave, SwarmAssumption
  <2> HIDE DEF r
  <2> QED
    BY <1>2, <1>5, <2>1, RemoveMemberTakesOne
<1> QED
  BY <1>3, <1>4, <1>5

\* Erasing one entry of a vector without doubles moves the later ones up.
LEMMA ErasedOne ==
    ASSUME NEW ms \in Rosters, NEW r \in DOMAIN ms
    PROVE  LET left == Erased(ms, OnesAt(ms, {ms[r].addr}))
           IN  /\ left \in Rosters /\ Len(left) = Len(ms) - 1
               /\ Without(left, ms, r)
<1> DEFINE n == Len(ms)
           gone == OnesAt(ms, {ms[r].addr})
           g == KeptUpTo(ms, gone)
           Ok(k) == /\ DOMAIN g[k] = 1..(IF k < r THEN k ELSE k - 1)
                    /\ \A j \in DOMAIN g[k] : g[k][j] = IF j < r THEN ms[j] ELSE ms[j + 1]
           T == {k \in 0..n : Ok(k)}
           left == Erased(ms, gone)
<1>1. /\ n \in Nat /\ r \in 1..n /\ DOMAIN ms = 1..n /\ Unique(ms)
      /\ ms \in Seq(Member)
  BY RostersHave DEF Rosters
<1>2. \A k \in 1..n : ms[k] \in gone <=> k = r
  BY <1>1 DEF OnesAt, Unique, Range
<1> HIDE DEF gone, n
<1>3. /\ g \in [0..n -> Seq(Member)] /\ g[0] = <<>>
      /\ \A k \in 1..n : g[k] = IF ms[k] \in gone THEN g[k - 1] ELSE Append(g[k - 1], ms[k])
  BY <1>1, KeptSteps DEF n
<1>4. left = g[n]
  BY DEF Erased, n
<1> HIDE DEF g
<1>5. 0 \in T
  BY <1>1, <1>3
<1>6. ASSUME NEW k \in 1..n, k - 1 \in T PROVE k \in T
  <2> DEFINE p == g[k - 1]
             q == g[k]
  <2>1. p \in Seq(Member) /\ ms[k] \in Member
    BY <1>1, <1>3
  <2>2. /\ DOMAIN p = 1..(IF k - 1 < r THEN k - 1 ELSE k - 1 - 1)
        /\ \A j \in DOMAIN p : p[j] = IF j < r THEN ms[j] ELSE ms[j + 1]
    BY <1>6
  <2>3. CASE k = r
    <3>1. q = p
      BY <1>2, <1>3, <2>3
    <3> HIDE DEF p, q
    <3>2. Ok(k)
      BY <1>1, <2>2, <2>3, <3>1 DEF q
    <3> QED
      BY <3>2
  <2>4. CASE k # r
    <3>1. q = Append(p, ms[k])
      BY <1>2, <1>3, <2>4
    <3> HIDE DEF p, q
    <3>2. /\ DOMAIN p = 1..Len(p) /\ Len(p) \in Nat
          /\ DOMAIN q = 1..(Len(p) + 1) /\ q[Len(p) + 1] = ms[k]
          /\ \A j \in 1..Len(p) : q[j] = p[j]
      BY <2>1, <3>1
    <3>3. Len(p) = IF k < r THEN k - 1 ELSE k - 2
      BY <1>1, <2>2, <2>4, <3>2
    <3>4. DOMAIN q = 1..(IF k < r THEN k ELSE k - 1)
      BY <1>1, <2>4, <3>2, <3>3
    <3>5. ASSUME NEW j \in DOMAIN q PROVE q[j] = IF j < r THEN ms[j] ELSE ms[j + 1]
      <4>1. CASE j = Len(p) + 1
        BY <1>1, <2>4, <3>2, <3>3, <4>1
      <4>2. CASE j \in 1..Len(p)
        BY <2>2, <3>2, <4>2
      <4> QED
        BY <3>2, <3>5, <4>1, <4>2
    <3>6. Ok(k)
      BY <3>4, <3>5 DEF q
    <3> QED
      BY <3>6
  <2> QED
    BY <2>3, <2>4
<1>7. n \in T
  <2> HIDE DEF T
  <2>1. 0..n \subseteq T
    BY <1>1, <1>5, <1>6, UpTo
  <2> QED
    BY <1>1, <2>1
<1>8. /\ left \in Seq(Member) /\ DOMAIN left = 1..(n - 1)
      /\ \A j \in 1..(n - 1) : left[j] = IF j < r THEN ms[j] ELSE ms[j + 1]
  <2>1. left \in Seq(Member)
    BY <1>1, <1>3, <1>4
  <2>2. Ok(n) /\ ~(n < r)
    BY <1>1, <1>7
  <2> HIDE DEF left
  <2> QED
    BY <1>4, <2>1, <2>2
<1> HIDE DEF left
<1>9. Len(left) = n - 1
  BY <1>1, <1>8
<1>10. Unique(left)
  <2> DEFINE was(j) == IF j < r THEN j ELSE j + 1
  <2>1. \A j \in 1..(n - 1) : was(j) \in 1..n /\ left[j] = ms[was(j)]
    BY <1>1, <1>8
  <2>2. \A i, j \in 1..(n - 1) : was(i) = was(j) => i = j
    BY <1>1
  <2> HIDE DEF was
  <2>3. ASSUME NEW i \in 1..(n - 1), NEW j \in 1..(n - 1), left[i].addr = left[j].addr
        PROVE  i = j
    <3>1. ms[was(i)].addr = ms[was(j)].addr
      BY <2>1, <2>3
    <3>2. was(i) = was(j)
      BY <1>1, <2>1, <3>1 DEF Unique
    <3> QED
      BY <2>2, <3>2
  <2> QED
    BY <1>8, <2>3 DEF Unique
<1> QED
  BY <1>8, <1>9, <1>10 DEF Rosters, Without, left, n, gone

\* Erasing entries leaves none twice.
LEMMA ErasedUnique ==
    ASSUME NEW ms \in Rosters, NEW gone
    PROVE  Erased(ms, gone) \in Rosters
<1> DEFINE n == Len(ms)
           g == KeptUpTo(ms, gone)
           T == {k \in 0..n : Unique(g[k])}
<1>1. /\ n \in Nat /\ DOMAIN ms = 1..n /\ Unique(ms) /\ ms \in Seq(Member)
  BY RostersHave DEF Rosters
<1>2. /\ g \in [0..n -> Seq(Member)] /\ g[0] = <<>>
      /\ \A k \in 1..n : g[k] = IF ms[k] \in gone THEN g[k - 1] ELSE Append(g[k - 1], ms[k])
  BY <1>1, KeptSteps
<1>3. 0 \in T
  BY <1>1, <1>2 DEF Unique
<1>4. ASSUME NEW k \in 1..n, k - 1 \in T PROVE k \in T
  <2> DEFINE p == g[k - 1]
             q == g[k]
  <2>1. p \in Seq(Member) /\ Unique(p)
    BY <1>1, <1>2, <1>4
  <2>2. \A j \in DOMAIN p : \E i \in 1..(k - 1) : p[j] = ms[i]
    <3>1. KeptWell(ms, gone, k - 1)
      BY <1>1, KeptIsWell
    <3> QED
      BY <3>1 DEF KeptWell
  <2>3. q = p \/ q = Append(p, ms[k])
    BY <1>2
  <2> HIDE DEF p, q, g
  <2>4. CASE q = Append(p, ms[k])
    <3>1. /\ DOMAIN p = 1..Len(p) /\ Len(p) \in Nat
          /\ DOMAIN q = 1..(Len(p) + 1) /\ q[Len(p) + 1] = ms[k]
          /\ \A j \in 1..Len(p) : q[j] = p[j]
      BY <2>1, <2>4
    <3>2. \A j \in DOMAIN p : p[j].addr # ms[k].addr
      BY <1>1, <2>2 DEF Unique
    <3>3. ASSUME NEW i \in DOMAIN q, NEW j \in DOMAIN q, q[i].addr = q[j].addr
          PROVE  i = j
      <4>1. CASE i \in 1..Len(p) /\ j \in 1..Len(p)
        BY <2>1, <3>1, <3>3, <4>1 DEF Unique
      <4>2. CASE i = Len(p) + 1 \/ j = Len(p) + 1
        BY <3>1, <3>2, <3>3, <4>2
      <4> QED
        BY <3>1, <4>1, <4>2
    <3>4. Unique(q)
      BY <3>3 DEF Unique
    <3> QED
      BY <1>1, <3>4 DEF q
  <2> QED
    BY <2>1, <2>3, <2>4 DEF q
<1>5. n \in T
  <2> HIDE DEF T
  <2>1. 0..n \subseteq T
    BY <1>1, <1>3, <1>4, UpTo
  <2> QED
    BY <1>1, <2>1
<1>6. Erased(ms, gone) = g[n]
  BY DEF Erased
<1> QED
  BY <1>1, <1>2, <1>5, <1>6 DEF Rosters

\* The swarm and the roster after the first k members have been looked at:
\* the kept ones in front, the others still behind them.
CleanedTo(sw, ms, stale, k) ==
  LET now  == RemovedUpTo(sw, ms, stale)[k]
      kept == KeptUpTo(ms, OnesAt(ms, stale))[k]
  IN  /\ now \in Swarms
      /\ IF now.active
         THEN /\ DOMAIN now.tree = 1..(Len(kept) + (Len(ms) - k))
              /\ \A i \in 1..Len(kept) : now.tree[i].addr = kept[i].addr
              /\ \A i \in 1..(Len(ms) - k) :
                   now.tree[Len(kept) + i].addr = ms[k + i].addr
         ELSE now.tree = <<>>
      /\ sw.active /\ Len(ms) > Threshold => now.active

\* Every round of the loop in cleanup_stale is swarm_remove_member or nothing.
LEMMA RemovedSteps ==
    ASSUME NEW sw \in Swarms, NEW ms \in Rosters, NEW stale
    PROVE  /\ RemovedUpTo(sw, ms, stale) \in [0..Len(ms) -> Swarms]
           /\ RemovedUpTo(sw, ms, stale)[0] = sw
           /\ \A k \in 1..Len(ms) :
                RemovedUpTo(sw, ms, stale)[k] =
                  IF ms[k].addr \in stale
                  THEN RemoveMember(RemovedUpTo(sw, ms, stale)[k - 1], ms, ms[k].addr)
                  ELSE RemovedUpTo(sw, ms, stale)[k - 1]
<1> DEFINE n == Len(ms)
           R == Swarms
           after(w, k) == IF ms[k].addr \in stale
                          THEN RemoveMember(w, ms, ms[k].addr) ELSE w
           body(f) == [k \in 0..n |-> IF k = 0 THEN sw ELSE after(f[k - 1], k)]
           step == [x \in R \X (1..n) |-> after(x[1], x[2])]
           g == RemovedUpTo(sw, ms, stale)
<1>1. sw \in R /\ n \in Nat
  BY RostersHave
<1>2. ASSUME NEW w \in R, NEW k \in 1..n PROVE after(w, k) \in R
  BY RemoveMemberKeeps
<1>3. g = CHOOSE h : h = body(h)
  BY DEF RemovedUpTo
<1> HIDE DEF n, R, after, g
<1>4. step \in [R \X (1..n) -> R]
  BY <1>2
<1>5. ASSUME NEW w \in R, NEW k \in 1..n PROVE step[<<w, k>>] = after(w, k)
  OBVIOUS
<1> HIDE DEF step
<1>6. PICK f \in [0..n -> R] : Runs(f, n, sw, step)
  BY <1>1, <1>4, Loops, Zenon
<1>7. ASSUME NEW k \in 1..n PROVE f[k] = after(f[k - 1], k)
  <2>1. f[k - 1] \in R
    BY <1>1
  <2> QED
    BY <1>5, <1>6, <2>1 DEF Runs
<1>8. f = body(f)
  BY <1>6, <1>7 DEF Runs
<1>9. g = body(g)
  <2> HIDE DEF body
  <2> QED
    BY <1>3, <1>8
<1>10. g[0] = sw /\ \A k \in 1..n : g[k] = after(g[k - 1], k)
  BY <1>1, <1>9
<1>11. g \in [0..n -> R]
  <2> DEFINE T == {k \in 0..n : g[k] \in R}
  <2>1. 0 \in T
    BY <1>1, <1>10
  <2>2. ASSUME NEW k \in 1..n, k - 1 \in T PROVE k \in T
    BY <1>2, <1>10, <2>2
  <2>3. 0..n \subseteq T
    <3> HIDE DEF T
    <3> QED
      BY <1>1, <2>1, <2>2, UpTo
  <2>4. g = [k \in 0..n |-> g[k]]
    <3>1. DOMAIN g = 0..n /\ \E h : g = [k \in 0..n |-> h[k]]
      BY <1>9
    <3> QED
      BY <3>1
  <2> QED
    BY <2>3, <2>4
<1> QED
  BY <1>10, <1>11 DEF g, n, R, after

\* One round of the clean-up, on a member that is stale.
LEMMA CleansStale ==
    ASSUME NEW sw \in Swarms, NEW ms \in Rosters, NEW stale,
           NEW k \in 1..Len(ms), ms[k].addr \in stale,
           CleanedTo(sw, ms, stale, k - 1)
    PROVE  CleanedTo(sw, ms, stale, k)
<1> DEFINE n == Len(ms)
           was == RemovedUpTo(sw, ms, stale)[k - 1]
           now == RemovedUpTo(sw, ms, stale)[k]
           gone == OnesAt(ms, stale)
           p == KeptUpTo(ms, gone)[k - 1]
           q == KeptUpTo(ms, gone)[k]
           m == Len(p)
           t == was.tree
<1>1. /\ n \in Nat /\ DOMAIN ms = 1..n /\ Unique(ms) /\ ms \in Seq(Member)
      /\ k \in 1..n /\ k - 1 \in 0..n /\ Threshold \in Nat
  BY RostersHave, SwarmAssumption DEF Rosters
<1>2. ms[k] \in gone
  BY <1>1 DEF OnesAt, Range
<1>3. q = p /\ p \in Seq(Member) /\ m \in Nat
  BY <1>1, <1>2, KeptSteps
<1>4. now = RemoveMember(was, ms, ms[k].addr)
  BY RemovedSteps
<1>5. /\ was \in Swarms
      /\ IF was.active
         THEN /\ DOMAIN t = 1..(m + (n - (k - 1)))
              /\ \A i \in 1..m : t[i].addr = p[i].addr
              /\ \A i \in 1..(n - (k - 1)) : t[m + i].addr = ms[k - 1 + i].addr
         ELSE t = <<>>
      /\ sw.active /\ n > Threshold => was.active
  BY DEF CleanedTo
<1> HIDE DEF was, now, p, q, n
<1>6. CASE ~was.active
  <2>1. now = was
    BY <1>4, <1>6 DEF RemoveMember
  <2> QED
    BY <1>5, <1>6, <2>1 DEF CleanedTo, was, now, n, t
<1>7. CASE was.active /\ n <= Threshold
  <2> DEFINE r == IndexOf(t, ms[k].addr)
  <2>1. m + 1 \in DOMAIN t /\ t[m + 1].addr = ms[k].addr
    BY <1>1, <1>3, <1>5, <1>7
  <2>2. r # 0
    <3>1. t \in Seq(AnyNode)
      BY <1>5 DEF Swarms, Trees
    <3> QED
      BY <2>1, <3>1, IndexFinds
  <2>3. now = Rebuild(ms)
    BY <1>4, <1>7, <2>2 DEF RemoveMember, n
  <2>4. now.tree = <<>> /\ ~now.active /\ now \in Swarms
    BY <1>7, <2>3, RebuildIs DEF n
  <2>5. ~(n > Threshold)
    BY <1>1, <1>7
  <2> QED
    BY <2>4, <2>5 DEF CleanedTo, now, n
<1>8. CASE was.active /\ ~(n <= Threshold)
  <2> DEFINE r == m + 1
  <2>1. /\ DOMAIN t = 1..(m + (n - (k - 1)))
        /\ \A i \in 1..m : t[i].addr = p[i].addr
        /\ \A i \in 1..(n - (k - 1)) : t[m + i].addr = ms[k - 1 + i].addr
    BY <1>5, <1>8
  <2>2. r \in DOMAIN t /\ t[r].addr = ms[k].addr
    <3>1. 1 \in 1..(n - (k - 1)) /\ k - 1 + 1 = k /\ m + 1 \in 1..(m + (n - (k - 1)))
      BY <1>1, <1>3
    <3>2. t[m + 1].addr = ms[k - 1 + 1].addr
      BY <2>1, <3>1
    <3> QED
      BY <2>1, <3>1, <3>2
  <2>3. n > Threshold
    BY <1>1, <1>8
  <2>4. now \in Swarms /\ now.active /\ Without(now.tree, t, r)
    <3> HIDE DEF r
    <3> QED
      BY <1>4, <1>5, <1>8, <2>2, <2>3, RemoveMemberTakesOne DEF n
  <2>5. Len(t) = m + (n - (k - 1))
    <3>1. t \in Trees
      BY <1>5 DEF Swarms
    <3>2. DOMAIN t = 1..Len(t) /\ Len(t) \in Nat
      BY <3>1, TreesHave
    <3>3. m + (n - (k - 1)) \in Nat
      BY <1>1, <1>3
    <3> HIDE DEF t, m
    <3> QED
      BY <2>1, <3>2, <3>3
  <2> DEFINE u == now.tree
  <2>6. /\ DOMAIN u = 1..(m + (n - k))
        /\ \A j \in DOMAIN u : u[j].addr = IF j < m + 1 THEN t[j].addr ELSE t[j + 1].addr
    BY <1>1, <1>3, <2>4, <2>5 DEF Without
  <2> HIDE DEF u, t
  <2>7. ASSUME NEW i \in 1..m PROVE u[i].addr = p[i].addr
    <3>1. i \in 1..(m + (n - k)) /\ i < m + 1
      BY <1>1, <1>3
    <3>2. u[i].addr = t[i].addr
      BY <2>6, <3>1
    <3> QED
      BY <2>1, <3>2
  <2>8. ASSUME NEW i \in 1..(n - k) PROVE u[m + i].addr = ms[k + i].addr
    <3>1. u[m + i].addr = t[m + (i + 1)].addr
      BY <1>1, <1>3, <2>6
    <3>2. i + 1 \in 1..(n - (k - 1)) /\ k - 1 + (i + 1) = k + i
      BY <1>1
    <3>3. t[m + (i + 1)].addr = ms[k - 1 + (i + 1)].addr
      BY <2>1, <3>2
    <3> QED
      BY <3>1, <3>2, <3>3
  <2> QED
    BY <1>3, <2>4, <2>6, <2>7, <2>8 DEF CleanedTo, now, n, u, q
<1> QED
  BY <1>6, <1>7, <1>8

\* One round of the clean-up, on a member that stays.
LEMMA CleansFresh ==
    ASSUME NEW sw \in Swarms, NEW ms \in Rosters, NEW stale,
           NEW k \in 1..Len(ms), ms[k].addr \notin stale,
           CleanedTo(sw, ms, stale, k - 1)
    PROVE  CleanedTo(sw, ms, stale, k)
<1> DEFINE n == Len(ms)
           was == RemovedUpTo(sw, ms, stale)[k - 1]
           now == RemovedUpTo(sw, ms, stale)[k]
           gone == OnesAt(ms, stale)
           p == KeptUpTo(ms, gone)[k - 1]
           q == KeptUpTo(ms, gone)[k]
           m == Len(p)
           t == was.tree
<1>1. /\ n \in Nat /\ DOMAIN ms = 1..n /\ ms \in Seq(Member) /\ ms[k] \in Member
      /\ k \in 1..n /\ k - 1 \in 0..n
  BY RostersHave DEF Rosters
<1>2. ms[k] \notin gone
  BY <1>1 DEF OnesAt
<1>3. p \in Seq(Member) /\ q = Append(p, ms[k])
  <2>1. /\ KeptUpTo(ms, gone) \in [0..n -> Seq(Member)]
        /\ q = IF ms[k] \in gone THEN p ELSE Append(p, ms[k])
    BY <1>1, KeptSteps
  <2> HIDE DEF gone
  <2> QED
    BY <1>1, <1>2, <2>1
<1>4. now = was
  BY RemovedSteps
<1>5. /\ was \in Swarms
      /\ IF was.active
         THEN /\ DOMAIN t = 1..(m + (n - (k - 1)))
              /\ \A i \in 1..m : t[i].addr = p[i].addr
              /\ \A i \in 1..(n - (k - 1)) : t[m + i].addr = ms[k - 1 + i].addr
         ELSE t = <<>>
      /\ sw.active /\ n > Threshold => was.active
  BY DEF CleanedTo
<1> HIDE DEF was, now, p, q, n
<1>6. /\ m \in Nat /\ Len(q) = m + 1 /\ q[m + 1] = ms[k]
      /\ \A i \in 1..m : q[i] = p[i]
  BY <1>1, <1>3
<1> HIDE DEF m, t
<1>7. CASE was.active
  <2>1. DOMAIN t = 1..((m + 1) + (n - k))
    BY <1>1, <1>5, <1>6, <1>7
  <2>2. t[m + 1].addr = ms[k].addr
    <3>1. 1 \in 1..(n - (k - 1)) /\ k - 1 + 1 = k
      BY <1>1
    <3>2. t[m + 1].addr = ms[k - 1 + 1].addr
      BY <1>5, <1>7, <3>1
    <3> QED
      BY <3>1, <3>2
  <2>3. ASSUME NEW i \in 1..(m + 1) PROVE t[i].addr = q[i].addr
    BY <1>5, <1>6, <1>7, <2>2
  <2>4. ASSUME NEW i \in 1..(n - k) PROVE t[(m + 1) + i].addr = ms[k + i].addr
    <3>1. i + 1 \in 1..(n - (k - 1)) /\ k - 1 + (i + 1) = k + i /\ m + (i + 1) = (m + 1) + i
      BY <1>1, <1>6
    <3>2. t[m + (i + 1)].addr = ms[k - 1 + (i + 1)].addr
      BY <1>5, <1>7, <3>1
    <3> QED
      BY <3>1, <3>2
  <2> QED
    BY <1>4, <1>5, <1>6, <1>7, <2>1, <2>3, <2>4 DEF CleanedTo, now, n, q, t
<1>8. CASE ~was.active
  BY <1>4, <1>5, <1>8 DEF CleanedTo, now, n, t
<1> QED
  BY <1>7, <1>8

\* cleanup_stale leaves vectors that are parallel once members is erased too.
LEMMA CleanedIsParallel ==
    ASSUME NEW sw \in Swarms, NEW ms \in Rosters, NEW stale,
           IF sw.active THEN SameNodes(ms, sw.tree) ELSE sw.tree = <<>>
    PROVE  LET now  == RemovedUpTo(sw, ms, stale)[Len(ms)]
               left == Erased(ms, OnesAt(ms, stale))
           IN  /\ now \in Swarms /\ left \in Rosters /\ Len(left) <= Len(ms)
               /\ IF now.active THEN SameNodes(left, now.tree) ELSE now.tree = <<>>
               /\ sw.active /\ Len(ms) > Threshold => now.active
<1> DEFINE n == Len(ms)
           T == {k \in 0..n : CleanedTo(sw, ms, stale, k)}
           now == RemovedUpTo(sw, ms, stale)[n]
           left == Erased(ms, OnesAt(ms, stale))
<1>1. n \in Nat /\ DOMAIN ms = 1..n /\ Unique(ms) /\ ms \in Seq(Member)
  BY RostersHave DEF Rosters
<1>2. 0 \in T
  <2>1. RemovedUpTo(sw, ms, stale)[0] = sw
    BY RemovedSteps
  <2>2. KeptUpTo(ms, OnesAt(ms, stale))[0] = <<>>
    BY <1>1, KeptSteps
  <2>3. CleanedTo(sw, ms, stale, 0)
    BY <1>1, <2>1, <2>2 DEF CleanedTo, SameNodes
  <2> QED
    BY <1>1, <2>3
<1>3. ASSUME NEW k \in 1..n, k - 1 \in T PROVE k \in T
  BY <1>3, CleansStale, CleansFresh
<1>4. CleanedTo(sw, ms, stale, n)
  <2> HIDE DEF T, n
  <2>1. 0..n \subseteq T
    BY <1>1, <1>2, <1>3, UpTo
  <2> QED
    BY <1>1, <2>1 DEF T
<1>5. left = KeptUpTo(ms, OnesAt(ms, stale))[n]
  BY DEF Erased
<1>6. left \in Seq(Member) /\ Len(left) <= n
  BY <1>1, ErasedIsRest
<1>7. Unique(left)
  BY ErasedUnique DEF Rosters
<1>8. /\ now \in Swarms
      /\ IF now.active
         THEN /\ DOMAIN now.tree = 1..(Len(left) + (n - n))
              /\ \A i \in 1..Len(left) : now.tree[i].addr = left[i].addr
         ELSE now.tree = <<>>
      /\ sw.active /\ n > Threshold => now.active
  BY <1>4, <1>5 DEF CleanedTo
<1> HIDE DEF now, left, n
<1>9. now.active => SameNodes(left, now.tree)
  BY <1>1, <1>6, <1>8 DEF SameNodes
<1> QED
  BY <1>6, <1>7, <1>8, <1>9 DEF Rosters, now, left, n

-----------------------------------------------------------------------------
(* The inductive invariant.                                                *)

\* The tree is sound and parallel, in terms that every handler preserves on
\* its own: no client is listed twice, and soundness is a matter of one node.
SwarmInv ==
  /\ members \in Rosters
  /\ tree \in Trees
  /\ active \in BOOLEAN
  /\ reports \in 0..MaxReports
  /\ IF active THEN SameNodes(members, tree) ELSE tree = <<>>
  /\ LargeGroupIsSwarm

\* A client report leaves the clients of the tree in their places.
LEMMA ReportKeeps ==
    ASSUME SwarmInv, active, Reported, tree' \in Trees, SameNodes(tree, tree')
    PROVE  SwarmInv'
<1>1. members' = members /\ active' = active /\ reports' \in 0..MaxReports
  BY SwarmAssumption DEF Reported, SwarmInv
<1>2. SameNodes(members, tree')
  BY SameNodesTransitive DEF SwarmInv
<1>3. LargeGroupIsSwarm'
  BY <1>1, Zenon DEF SwarmInv, LargeGroupIsSwarm
<1> QED
  BY <1>1, <1>2, <1>3 DEF SwarmInv

\* A node with a client that is nowhere else can be pushed.
LEMMA PushedIsTree ==
    ASSUME NEW t \in Trees, NEW x \in AnyNode, NodeSound(x),
           \A i \in DOMAIN t : t[i].addr # x.addr
    PROVE  /\ Append(t, x) \in Trees
           /\ DOMAIN Append(t, x) = 1..(Len(t) + 1)
           /\ \A i \in DOMAIN t : Append(t, x)[i] = t[i]
           /\ Append(t, x)[Len(t) + 1] = x
<1> DEFINE u == Append(t, x)
           n == Len(t)
<1>1. /\ n \in Nat /\ DOMAIN t = 1..n /\ Unique(t) /\ t \in Seq(AnyNode)
      /\ \A i \in 1..n : NodeSound(t[i])
  BY TreesHave DEF Trees
<1>2. /\ u \in Seq(AnyNode) /\ DOMAIN u = 1..(n + 1) /\ u[n + 1] = x
      /\ \A i \in 1..n : u[i] = t[i]
  BY <1>1
<1> HIDE DEF u, n
<1>3. ASSUME NEW i \in 1..(n + 1), NEW j \in 1..(n + 1), u[i].addr = u[j].addr
      PROVE  i = j
  <2>1. CASE i \in 1..n /\ j \in 1..n
    BY <1>1, <1>2, <1>3, <2>1 DEF Unique
  <2>2. CASE i = n + 1 \/ j = n + 1
    BY <1>1, <1>2, <1>3, <2>2
  <2> QED
    BY <1>1, <2>1, <2>2
<1>4. ASSUME NEW i \in 1..(n + 1) PROVE NodeSound(u[i])
  BY <1>1, <1>2
<1>5. u \in Trees
  BY <1>2, <1>3, <1>4 DEF Trees, Unique
<1> QED
  BY <1>1, <1>2, <1>5 DEF u, n

\* i is the only node of t that tree does not have: it feeds nobody, and p is
\* a parent it can be given, or 0.
Pushed(t, i, p) ==
  /\ t \in Trees /\ i \in DOMAIN t /\ i \notin DOMAIN tree
  /\ DOMAIN t = DOMAIN tree \cup {i}
  /\ \A j \in DOMAIN tree : t[j] = tree[j]
  /\ t[i].children = <<>>
  /\ p # 0 => /\ p \in DOMAIN t \ {i} /\ t[p].capable
              /\ Len(t[p].children) < FanOut

\* A client that joins is added at the end of members; its node is pushed and
\* attached, or the tree is built if this client takes the group over the
\* threshold.
LEMMA JoinIs ==
    ASSUME SwarmInv, NEW a \in Addrs, Join(a)
    PROVE  /\ members' \in Rosters /\ reports' = reports
           /\ active => active' /\ \E t, i, p : /\ Pushed(t, i, p)
                                               /\ SameNodes(members', t)
                                               /\ tree' = Attach(t, i, p)
           /\ ~active => /\ tree' = Rebuild(members').tree
                         /\ active' = Rebuild(members').active
           /\ Len(members') \in Nat
<1> DEFINE m == [addr |-> a, dj |-> a \in Djs]
           ms == members'
           n == Len(members)
           sw == AddMember(ms)
<1>1. /\ n \in Nat /\ DOMAIN members = 1..n /\ Unique(members) /\ members \in Seq(Member)
      /\ \A i \in 1..n : members[i].addr # a
  BY RostersHave DEF SwarmInv, Rosters, Join, Enlisted
<1>2. m \in Member /\ m.addr = a
  BY DEF Member
<1>3. ms = Append(members, m) /\ reports' = reports
  BY DEF Join
<1>4. tree' = sw.tree /\ active' = sw.active
  BY DEF Join
<1> HIDE DEF m, n
<1>5. /\ ms \in Seq(Member) /\ DOMAIN ms = 1..(n + 1) /\ Len(ms) = n + 1
      /\ ms[n + 1] = m /\ \A i \in 1..n : ms[i] = members[i]
  BY <1>1, <1>2, <1>3 DEF n
<1> HIDE DEF sw, ms
<1>6. ms \in Rosters
  <2>1. ASSUME NEW i \in 1..(n + 1), NEW j \in 1..(n + 1), ms[i].addr = ms[j].addr
        PROVE  i = j
    <3>1. CASE i \in 1..n /\ j \in 1..n
      BY <1>1, <1>5, <2>1, <3>1 DEF Unique
    <3>2. CASE i = n + 1 \/ j = n + 1
      BY <1>1, <1>2, <1>5, <2>1, <3>2
    <3> QED
      BY <1>1, <3>1, <3>2
  <2> QED
    BY <1>5, <2>1 DEF Rosters, Unique
<1>7. CASE ~active
  <2>1. sw = Rebuild(ms)
    BY <1>7 DEF AddMember, sw
  <2> QED
    BY <1>1, <1>3, <1>4, <1>5, <1>6, <1>7, <2>1 DEF ms
<1>8. CASE active
  <2> DEFINE x == [addr |-> ms[n + 1].addr, depth |-> 0, parent |-> Relay,
                   children |-> <<>>, capable |-> TRUE, mediated |-> FALSE]
             t == Append(tree, x)
             p == BestParent(t, {n + 1})
             u == Attach(t, n + 1, p)
  <2>1. sw = [tree |-> u, active |-> TRUE]
    BY <1>5, <1>8 DEF AddMember, sw, Last
  <2>2. x \in AnyNode /\ x.addr = a /\ NodeSound(x)
    BY <1>2, <1>5, SwarmAssumption DEF AnyNode, NodeSound, Range
  <2>3. tree \in Trees /\ SameNodes(members, tree) /\ Len(tree) = n
    <3>1. tree \in Trees /\ SameNodes(members, tree)
      BY <1>8 DEF SwarmInv
    <3>2. DOMAIN tree = 1..Len(tree) /\ Len(tree) \in Nat
      BY <3>1, TreesHave
    <3> QED
      BY <1>1, <3>1, <3>2 DEF SameNodes
  <2> HIDE DEF x
  <2>4. \A i \in DOMAIN tree : tree[i].addr # x.addr
    BY <1>1, <2>2, <2>3 DEF SameNodes
  <2>5. /\ t \in Trees /\ DOMAIN t = 1..(n + 1)
        /\ \A i \in 1..n : t[i] = tree[i]
        /\ t[n + 1] = x
    BY <1>1, <2>2, <2>3, <2>4, PushedIsTree DEF SameNodes
  <2> HIDE DEF t
  <2>6. p # 0 => /\ p \in DOMAIN t \ {n + 1} /\ t[p].capable
                 /\ Len(t[p].children) < FanOut
    BY <2>5, BestParentFits
  <2> HIDE DEF p
  <2>7. n + 1 \in DOMAIN t
    BY <1>1, <2>5
  <2>8. SameNodes(ms, t)
    BY <1>1, <1>2, <1>5, <2>2, <2>3, <2>5 DEF SameNodes
  <2>9. sw.tree = u /\ sw.active = TRUE
    BY <2>1
  <2>10. Pushed(t, n + 1, p)
    <3>1. DOMAIN tree = 1..n /\ n + 1 \notin 1..n /\ 1..(n + 1) = 1..n \cup {n + 1}
      BY <1>1, <2>3 DEF SameNodes
    <3>2. x.children = <<>>
      BY DEF x
    <3> QED
      BY <2>5, <2>6, <2>7, <3>1, <3>2 DEF Pushed
  <2>11. \E y, i, q : Pushed(y, i, q) /\ SameNodes(members', y) /\ tree' = Attach(y, i, q)
    BY <1>4, <2>8, <2>9, <2>10 DEF ms
  <2>12. active' /\ Len(members') \in Nat /\ members' \in Rosters
    BY <1>1, <1>4, <1>5, <1>6, <2>9 DEF ms
  <2> QED
    BY <1>3, <1>8, <2>11, <2>12
<1> QED
  BY <1>7, <1>8 DEF SwarmInv

\* A join keeps the invariant, whether the tree exists, is built by it or is not.
LEMMA JoinKeeps ==
    ASSUME SwarmInv, NEW a \in Addrs, Join(a)
    PROVE  SwarmInv'
<1> DEFINE ms == members'
           sw == Rebuild(ms)
<1>1. ms \in Rosters /\ reports' = reports /\ Len(ms) \in Nat /\ Threshold \in Nat
  BY JoinIs, SwarmAssumption
<1> HIDE DEF ms
<1>2. CASE ~active
  <2>1. tree' = sw.tree /\ active' = sw.active
    BY <1>2, JoinIs DEF ms
  <2>2. /\ sw \in Swarms
        /\ IF Len(ms) <= Threshold THEN sw.tree = <<>> /\ ~sw.active
           ELSE SameNodes(ms, sw.tree) /\ sw.active
    BY <1>1, RebuildIs
  <2> HIDE DEF sw
  <2>3. sw.tree \in Trees /\ sw.active \in BOOLEAN
    BY <2>2 DEF Swarms
  <2>4. Len(ms) > Threshold => ~(Len(ms) <= Threshold)
    BY <1>1
  <2>5. /\ IF sw.active THEN SameNodes(ms, sw.tree) ELSE sw.tree = <<>>
        /\ Len(ms) > Threshold => sw.active
    BY <2>2, <2>4
  <2> QED
    BY <1>1, <2>1, <2>3, <2>5 DEF SwarmInv, LargeGroupIsSwarm, ms
<1>3. CASE active
  <2>1. PICK t, i, p : /\ Pushed(t, i, p) /\ SameNodes(ms, t)
                       /\ tree' = Attach(t, i, p)
    BY <1>3, JoinIs DEF ms
  <2>2. tree' \in Trees /\ SameNodes(t, tree')
    BY <2>1, AttachKeeps DEF Pushed
  <2>3. SameNodes(ms, tree')
    BY <2>1, <2>2, SameNodesTransitive
  <2>4. active' = TRUE
    BY <1>3, JoinIs
  <2> QED
    BY <1>1, <2>2, <2>3, <2>4 DEF SwarmInv, LargeGroupIsSwarm, ms
<1> QED
  BY <1>2, <1>3 DEF SwarmInv

\* A client that leaves goes out of both vectors at the same index.
LEMMA LeaveKeeps ==
    ASSUME SwarmInv, NEW a \in Addrs, Leave(a)
    PROVE  SwarmInv'
<1> DEFINE sw == [tree |-> tree, active |-> active]
           left == RemoveMember(sw, members, a)
           ms == Erased(members, OnesAt(members, {a}))
<1>1. /\ members' = ms /\ tree' = left.tree /\ active' = left.active
      /\ reports' = reports
  BY DEF Leave
<1>2. PICK r \in DOMAIN members : members[r].addr = a
  BY DEF Leave, Enlisted
<1>3. members \in Rosters /\ sw \in Swarms /\ sw.tree = tree /\ sw.active = active
  BY DEF SwarmInv, Swarms
<1>4. Len(members) \in Nat /\ DOMAIN members = 1..Len(members)
  BY <1>3, RostersHave
<1>5. ms \in Rosters /\ Len(ms) = Len(members) - 1 /\ Without(ms, members, r)
  BY <1>2, <1>3, ErasedOne
<1>6. left \in Swarms
  BY <1>3, RemoveMemberKeeps
<1>7. Threshold \in Nat
  BY SwarmAssumption
<1> HIDE DEF sw, left, ms
<1>8. left.tree \in Trees /\ left.active \in BOOLEAN
  BY <1>6 DEF Swarms
<1>9. CASE ~active
  <2>1. left = sw
    BY <1>3, <1>9 DEF RemoveMember, left
  <2>2. tree = <<>> /\ ~(Len(members) > Threshold)
    BY <1>9 DEF SwarmInv, LargeGroupIsSwarm
  <2>3. ~(Len(ms) > Threshold)
    BY <1>4, <1>5, <1>7, <2>2
  <2>4. ~left.active /\ left.tree = <<>>
    BY <1>3, <1>9, <2>1, <2>2
  <2> QED
    BY <1>1, <1>5, <1>8, <2>3, <2>4 DEF SwarmInv, LargeGroupIsSwarm
<1>10. CASE active
  <2>1. SameNodes(members, tree) /\ tree \in Trees
    BY <1>10 DEF SwarmInv
  <2>2. r \in DOMAIN sw.tree /\ sw.tree[r].addr = a /\ sw.active
    BY <1>2, <1>3, <1>10, <2>1 DEF SameNodes
  <2>3. CASE Len(members) > Threshold
    <3>1. left.active /\ Without(left.tree, tree, r)
      BY <1>3, <2>2, <2>3, RemoveMemberTakesOne DEF left
    <3>2. Len(tree) = Len(members)
      <4>1. DOMAIN tree = 1..Len(tree) /\ Len(tree) \in Nat
        BY <2>1, TreesHave
      <4> QED
        BY <1>4, <2>1, <4>1 DEF SameNodes
    <3>3. SameNodes(ms, left.tree)
      <4> DEFINE n == Len(members)
      <4>1. DOMAIN ms = 1..(n - 1) /\ DOMAIN left.tree = 1..(n - 1)
        BY <1>5, <3>1, <3>2 DEF Without
      <4>2. ASSUME NEW j \in 1..(n - 1) PROVE left.tree[j].addr = ms[j].addr
        <5>1. j \in 1..n /\ j + 1 \in 1..n
          BY <1>4
        <5>2. tree[j].addr = members[j].addr /\ tree[j + 1].addr = members[j + 1].addr
          BY <1>4, <2>1, <5>1 DEF SameNodes
        <5> HIDE DEF n
        <5> QED
          BY <1>5, <3>1, <4>1, <5>2 DEF Without
      <4> QED
        BY <4>1, <4>2 DEF SameNodes
    <3> QED
      BY <1>1, <1>5, <1>8, <3>1, <3>3 DEF SwarmInv, LargeGroupIsSwarm
  <2>4. CASE ~(Len(members) > Threshold)
    <3>1. Len(members) <= Threshold /\ ~(Len(ms) > Threshold)
      BY <1>4, <1>5, <1>7, <2>4
    <3>2. IndexOf(sw.tree, a) # 0
      <4>1. sw.tree \in Seq(AnyNode)
        BY <1>3, <2>1 DEF Trees
      <4> QED
        BY <2>2, <4>1, IndexFinds
    <3>3. left = Rebuild(members)
      BY <2>2, <3>1, <3>2 DEF RemoveMember, left
    <3>4. left.tree = <<>> /\ ~left.active
      BY <1>3, <3>1, <3>3, RebuildIs
    <3> QED
      BY <1>1, <1>5, <1>8, <3>1, <3>4 DEF SwarmInv, LargeGroupIsSwarm
  <2> QED
    BY <2>3, <2>4
<1> QED
  BY <1>9, <1>10 DEF SwarmInv

\* So do the clients of one clean-up, which are erased from members at the
\* end: until then the loop works on vectors that are not parallel.
LEMMA CleanupKeeps ==
    ASSUME SwarmInv, NEW stale, Cleanup(stale)
    PROVE  SwarmInv'
<1> DEFINE sw == [tree |-> tree, active |-> active]
           now == RemovedUpTo(sw, members, stale)[Len(members)]
           left == Erased(members, OnesAt(members, stale))
<1>1. /\ members' = left /\ reports' = reports
      /\ tree' = IF left = <<>> THEN <<>> ELSE now.tree
      /\ active' = (left # <<>> /\ now.active)
  BY DEF Cleanup
<1>2. /\ members \in Rosters /\ sw \in Swarms
      /\ IF sw.active THEN SameNodes(members, sw.tree) ELSE sw.tree = <<>>
      /\ sw.active = active
  BY DEF SwarmInv, Swarms
<1>3. /\ now \in Swarms /\ left \in Rosters /\ Len(left) <= Len(members)
      /\ IF now.active THEN SameNodes(left, now.tree) ELSE now.tree = <<>>
      /\ sw.active /\ Len(members) > Threshold => now.active
  <2> HIDE DEF sw
  <2> QED
    BY <1>2, CleanedIsParallel
<1>4. /\ Len(members) \in Nat /\ Len(left) \in Nat /\ Threshold \in Nat
      /\ Len(left) > Threshold => Len(members) > Threshold /\ left # <<>>
  <2>1. Len(members) \in Nat /\ Len(left) \in Nat /\ Threshold \in Nat
    BY <1>2, <1>3, RostersHave, SwarmAssumption
  <2>2. Len(<<>>) = 0
    OBVIOUS
  <2> HIDE DEF left
  <2> QED
    BY <1>3, <2>1, <2>2
<1> HIDE DEF now, left, sw
<1>5. now.tree \in Trees /\ now.active \in BOOLEAN
  BY <1>3 DEF Swarms
<1>6. Len(left) > Threshold => left # <<>> /\ now.active
  BY <1>2, <1>3, <1>4 DEF SwarmInv, LargeGroupIsSwarm
<1>7. CASE left = <<>>
  BY <1>1, <1>3, <1>6, <1>7, EmptyTree DEF SwarmInv, LargeGroupIsSwarm
<1>8. CASE left # <<>>
  <2>1. tree' = now.tree /\ active' = now.active
    BY <1>1, <1>5, <1>8
  <2> QED
    BY <1>1, <1>3, <1>5, <1>6, <2>1 DEF SwarmInv, LargeGroupIsSwarm
<1> QED
  BY <1>7, <1>8

\* Changing the parent, the permissions or the children of nodes so that each
\* stays sound and keeps its client makes a tree of the same clients.
LEMMA ChangedNodes ==
    ASSUME NEW t \in Trees, NEW u, DOMAIN u = DOMAIN t, u = [j \in DOMAIN u |-> u[j]],
           \A j \in DOMAIN t : /\ u[j] \in AnyNode /\ NodeSound(u[j])
                               /\ u[j].addr = t[j].addr
    PROVE  u \in Trees /\ SameNodes(t, u)
<1> DEFINE n == Len(t)
<1>1. n \in Nat /\ DOMAIN t = 1..n /\ Unique(t)
  BY TreesHave
<1> HIDE DEF n
<1>2. u \in [1..n -> AnyNode]
  BY <1>1
<1>3. Unique(u)
  BY <1>1 DEF Unique
<1> QED
  BY <1>1, <1>2, <1>3, TreesAre DEF SameNodes

\* SWARM_READY changes one flag of one node.
LEMMA ReadyKeeps ==
    ASSUME SwarmInv, NEW a \in Addrs, SwarmReady(a)
    PROVE  SwarmInv'
<1> DEFINE i == IndexOf(tree, a)
<1>1. active /\ Reported /\ tree' = [tree EXCEPT ![i].capable = TRUE]
  BY DEF SwarmReady
<1>2. tree \in Trees
  BY DEF SwarmInv
<1>3. \A j \in DOMAIN tree : tree[j] \in AnyNode /\ NodeSound(tree[j])
  BY <1>2, TreesHave
<1>4. ASSUME NEW j \in DOMAIN tree
      PROVE  /\ tree'[j] \in AnyNode /\ NodeSound(tree'[j])
             /\ tree'[j].addr = tree[j].addr
  <2>1. CASE j = i
    <3>1. tree'[j] = [tree[j] EXCEPT !.capable = TRUE]
      BY <1>1, <1>3, <2>1 DEF AnyNode
    <3>2. tree[j] \in AnyNode /\ NodeSound(tree[j])
      BY <1>3
    <3> QED
      BY <3>1, <3>2 DEF AnyNode, NodeSound
  <2>2. CASE j # i
    BY <1>1, <1>3, <2>2
  <2> QED
    BY <2>1, <2>2
<1>5. tree' \in Trees /\ SameNodes(tree, tree')
  BY <1>1, <1>2, <1>4, ChangedNodes
<1> QED
  BY <1>1, <1>5, ReportKeeps

\* Mediation sets flags and parents, never addresses or child lists.
LEMMA MediatedKeeps ==
    ASSUME SwarmInv, NEW a \in Addrs, SwarmMediated(a)
    PROVE  SwarmInv'
<1> DEFINE i == IndexOf(tree, a)
           kids == {IndexOf(tree, c) : c \in Range(tree[i].children)} \ {0}
<1>1. /\ active /\ Reported
      /\ tree' = [j \in DOMAIN tree |->
                    [tree[j] EXCEPT
                       !.capable  = @ \/ j = i,
                       !.mediated = @ \/ j = i,
                       !.parent   = IF j \in kids THEN Relay ELSE @]]
  BY DEF SwarmMediated
<1>2. tree \in Trees
  BY DEF SwarmInv
<1> HIDE DEF i, kids
<1>3. ASSUME NEW j \in DOMAIN tree
      PROVE  /\ tree'[j] \in AnyNode /\ NodeSound(tree'[j])
             /\ tree'[j].addr = tree[j].addr
  <2> DEFINE x == tree[j]
             y == tree'[j]
  <2>1. x \in AnyNode /\ NodeSound(x)
    BY <1>2, TreesHave
  <2>2. y = [x EXCEPT !.capable  = x.capable \/ j = i,
                      !.mediated = x.mediated \/ j = i,
                      !.parent   = IF j \in kids THEN Relay ELSE x.parent]
    BY <1>1
  <2> HIDE DEF x, y
  <2>3. /\ y \in AnyNode /\ y.addr = x.addr /\ y.children = x.children
        /\ y.parent = x.parent \/ y.parent = Relay
        /\ x.capable => y.capable
        /\ x.addr \in Addrs
    BY <2>1, <2>2 DEF AnyNode
  <2> QED
    BY <2>1, <2>3, SwarmAssumption DEF NodeSound, x, y
<1>4. tree' \in Trees /\ SameNodes(tree, tree')
  BY <1>1, <1>2, <1>3, ChangedNodes
<1> QED
  BY <1>1, <1>4, ReportKeeps

\* The children given up are moved one by one; the node that declined is barred.
LEMMA UnableKeeps ==
    ASSUME SwarmInv, NEW a \in Addrs, SwarmUnable(a)
    PROVE  SwarmInv'
<1> DEFINE i == IndexOf(tree, a)
           t == [tree EXCEPT ![i].capable = FALSE, ![i].mediated = FALSE,
                             ![i].children = <<>>]
<1>1. /\ active /\ Reported /\ i # 0
      /\ tree' = Reassign(t, tree[i].children, a)
  BY DEF SwarmUnable
<1>2. tree \in Trees /\ tree \in Seq(AnyNode)
  BY DEF SwarmInv, Trees
<1>3. i \in DOMAIN tree
  BY <1>1, <1>2, IndexFinds
<1> HIDE DEF i
<1>4. ASSUME NEW j \in DOMAIN tree
      PROVE  /\ t[j] \in AnyNode /\ NodeSound(t[j])
             /\ t[j].addr = tree[j].addr
  <2>1. tree[j] \in AnyNode /\ NodeSound(tree[j])
    BY <1>2, TreesHave
  <2>2. CASE j = i
    <3>1. t[j] = [tree[j] EXCEPT !.capable = FALSE, !.mediated = FALSE,
                                 !.children = <<>>]
      BY <2>1, <2>2 DEF AnyNode
    <3>2. /\ t[j] \in AnyNode /\ t[j].addr = tree[j].addr
          /\ t[j].parent = tree[j].parent /\ t[j].children = <<>>
      <4> DEFINE x == tree[j]
                 none == <<>>
      <4>1. none \in Seq(Addrs) /\ x \in AnyNode
        BY <2>1
      <4> HIDE DEF none, x
      <4>2. LET y == [x EXCEPT !.capable = FALSE, !.mediated = FALSE, !.children = none]
            IN  y \in AnyNode /\ y.addr = x.addr /\ y.parent = x.parent /\ y.children = none
        BY <4>1 DEF AnyNode
      <4> QED
        BY <3>1, <4>2 DEF none, x
    <3>3. Len(<<>>) <= FanOut /\ Range(<<>>) = {}
      BY SwarmAssumption DEF Range
    <3> QED
      BY <2>1, <3>2, <3>3 DEF NodeSound
  <2>3. CASE j # i
    BY <2>1, <2>3
  <2> QED
    BY <2>2, <2>3
<1>5. DOMAIN t = DOMAIN tree /\ t = [j \in DOMAIN t |-> t[j]]
  OBVIOUS
<1> HIDE DEF t
<1>6. t \in Trees /\ SameNodes(tree, t)
  BY <1>2, <1>4, <1>5, ChangedNodes
<1>7. tree[i].children \in Seq(Addrs)
  BY <1>2, <1>3, TreesHave DEF AnyNode
<1>8. tree' \in Trees /\ SameNodes(t, tree')
  BY <1>1, <1>6, <1>7, ReassignKeeps
<1> QED
  BY <1>1, <1>6, <1>8, SameNodesTransitive, ReportKeeps

\* The client that lost its feed is attached again as a new client would be.
LEMMA LostKeeps ==
    ASSUME SwarmInv, NEW a \in Addrs, NEW b \in Addrs, SwarmLost(a, b)
    PROVE  SwarmInv'
<1> DEFINE i == IndexOf(tree, a)
           t == [tree EXCEPT ![i].depth = 0, ![i].parent = Relay]
           skip == {i, IndexOf(t, b)}
           p == BestParent(t, skip)
<1>1. active /\ Reported /\ i # 0 /\ tree' = Attach(t, i, p)
  BY DEF SwarmLost
<1>2. tree \in Trees /\ tree \in Seq(AnyNode)
  BY DEF SwarmInv, Trees
<1>3. i \in DOMAIN tree
  BY <1>1, <1>2, IndexFinds
<1>4. t = Attach(tree, i, 0)
  BY DEF Attach
<1> HIDE DEF t, i
<1>5. t \in Trees /\ SameNodes(tree, t)
  BY <1>2, <1>3, <1>4, AttachKeeps
<1>6. p # 0 => /\ p \in DOMAIN t \ {i} /\ t[p].capable
               /\ Len(t[p].children) < FanOut
  <2>1. p # 0 => /\ p \in DOMAIN t \ skip /\ t[p].capable
                 /\ Len(t[p].children) < FanOut
    BY <1>5, BestParentFits
  <2> HIDE DEF p
  <2> QED
    BY <2>1
<1> HIDE DEF p
<1>7. i \in DOMAIN t
  BY <1>3, <1>5 DEF SameNodes
<1>8. tree' \in Trees /\ SameNodes(t, tree')
  BY <1>1, <1>5, <1>6, <1>7, AttachKeeps
<1> QED
  BY <1>1, <1>5, <1>8, SameNodesTransitive, ReportKeeps

\* PARENT_FAIL takes an index of members to the tree: the two are parallel.
LEMMA FailKeeps ==
    ASSUME SwarmInv, NEW a \in Addrs, NEW b \in Addrs, ParentFail(a, b)
    PROVE  SwarmInv'
<1> DEFINE i == IndexOf(members, a)
           room == {j \in DOMAIN members \ {i} : Len(tree[j].children) < FanOut}
           p == Min(room)
<1>1. /\ active /\ Reported /\ i # 0 /\ room # {}
      /\ tree' = [tree EXCEPT ![i].parent = tree[p].addr]
  BY DEF ParentFail
<1>2. /\ tree \in Trees /\ members \in Seq(Member) /\ members \in Rosters
      /\ SameNodes(members, tree)
  BY <1>1 DEF SwarmInv, Rosters
<1>3. i \in DOMAIN tree /\ p \in DOMAIN tree /\ p # i
  <2>1. i \in DOMAIN members
    BY <1>1, <1>2, IndexFinds
  <2>2. room \subseteq Nat
    BY <1>2, RostersHave
  <2>3. p \in room
    <3> HIDE DEF room
    <3> QED
      BY <1>1, <2>2, MinIsLeast
  <2> HIDE DEF p, i
  <2> QED
    BY <1>2, <2>1, <2>3 DEF SameNodes
<1> HIDE DEF i, p, room
<1>4. /\ Unique(tree)
      /\ \A j \in DOMAIN tree : tree[j] \in AnyNode /\ NodeSound(tree[j])
  BY <1>2, TreesHave
<1>5. tree[p].addr # tree[i].addr /\ tree[p].addr \in Addrs
  BY <1>3, <1>4 DEF Unique, AnyNode
<1>6. ASSUME NEW j \in DOMAIN tree
      PROVE  /\ tree'[j] \in AnyNode /\ NodeSound(tree'[j])
             /\ tree'[j].addr = tree[j].addr
  <2>1. tree[j] \in AnyNode /\ NodeSound(tree[j])
    BY <1>4
  <2>2. CASE j = i
    <3>1. tree'[j] = [tree[j] EXCEPT !.parent = tree[p].addr]
      BY <1>1, <2>1, <2>2 DEF AnyNode
    <3>2. /\ tree'[j] \in AnyNode /\ tree'[j].addr = tree[j].addr
          /\ tree'[j].parent = tree[p].addr
          /\ tree'[j].children = tree[j].children
          /\ tree'[j].capable = tree[j].capable
      BY <1>5, <2>1, <3>1 DEF AnyNode
    <3> QED
      BY <1>5, <2>1, <2>2, <3>2 DEF NodeSound
  <2>3. CASE j # i
    BY <1>1, <2>1, <2>3
  <2> QED
    BY <2>2, <2>3
<1>7. tree' \in Trees /\ SameNodes(tree, tree')
  BY <1>1, <1>2, <1>6, ChangedNodes
<1> QED
  BY <1>1, <1>7, ReportKeeps

\* The invariant is inductive.
THEOREM SwarmInvariant == Spec => [](SwarmInv /\ DepthBound)
<1>1. Init => SwarmInv /\ DepthBound
  <2> SUFFICES ASSUME Init PROVE SwarmInv /\ DepthBound
    OBVIOUS
  <2>1. members = <<>> /\ tree = <<>> /\ active = FALSE /\ reports = 0
    BY DEF Init
  <2>2. members \in Rosters
    BY <2>1 DEF Rosters, Unique
  <2>3. LargeGroupIsSwarm
    BY <2>1, SwarmAssumption DEF LargeGroupIsSwarm
  <2>4. 0 \in 0..MaxReports /\ DOMAIN <<>> = {}
    BY SwarmAssumption
  <2>5. DepthBound
    BY <2>1, <2>4 DEF DepthBound
  <2>6. tree \in Trees /\ active \in BOOLEAN /\ ~active /\ tree = <<>>
        /\ reports \in 0..MaxReports
    BY <2>1, <2>4, EmptyTree
  <2> QED
    BY <2>2, <2>3, <2>5, <2>6 DEF SwarmInv
<1>2. SwarmInv /\ DepthBound /\ [Next]_vars => (SwarmInv /\ DepthBound)'
  <2> SUFFICES ASSUME SwarmInv, DepthBound, [Next]_vars
               PROVE  SwarmInv' /\ DepthBound'
    OBVIOUS
  <2>1. ASSUME NEW a \in Addrs, Join(a) PROVE SwarmInv'
    BY <2>1, JoinKeeps
  <2>2. ASSUME NEW a \in Addrs, Leave(a) PROVE SwarmInv'
    BY <2>2, LeaveKeeps
  <2>3. ASSUME NEW stale \in SUBSET Addrs, Cleanup(stale) PROVE SwarmInv'
    BY <2>3, CleanupKeeps
  <2>4. ASSUME NEW a \in Addrs, SwarmReady(a) \/ SwarmMediated(a) \/ SwarmUnable(a)
        PROVE  SwarmInv'
    BY <2>4, ReadyKeeps, MediatedKeeps, UnableKeeps
  <2>5. ASSUME NEW a \in Addrs, NEW b \in Addrs, SwarmLost(a, b) \/ ParentFail(a, b)
        PROVE  SwarmInv'
    BY <2>5, LostKeeps, FailKeeps
  <2>6. CASE UNCHANGED vars
    BY <2>6, Zenon DEF vars, SwarmInv, DepthBound, LargeGroupIsSwarm
  <2>7. Next => DepthBound'
    BY DEF Next
  <2>8. UNCHANGED vars => DepthBound'
    BY DEF vars, DepthBound
  <2>9. SwarmInv'
    BY <2>1, <2>2, <2>3, <2>4, <2>5, <2>6 DEF Next
  <2> QED
    BY <2>7, <2>8, <2>9
<1> QED
  BY <1>1, <1>2, PTL DEF Spec

\* Members, nodes and flags have their types.
THEOREM SwarmTyped == Spec => []TypeOK
<1>1. SwarmInv /\ DepthBound => TypeOK
  <2> SUFFICES ASSUME SwarmInv, DepthBound PROVE TypeOK
    OBVIOUS
  <2>1. tree \in Trees
    BY DEF SwarmInv
  <2>2. Len(tree) \in Nat /\ DOMAIN tree = 1..Len(tree) /\ tree \in [1..Len(tree) -> AnyNode]
    BY <2>1, TreesHave
  <2>3. ASSUME NEW i \in 1..Len(tree) PROVE tree[i] \in Node
    <3>1. tree[i] \in AnyNode /\ tree[i].depth <= MaxDepth
      BY <2>2, <2>3 DEF DepthBound
    <3> QED
      BY <3>1, SwarmAssumption DEF AnyNode, Node
  <2>4. tree \in Seq(Node)
    <3>1. tree \in [1..Len(tree) -> Node]
      BY <2>2, <2>3
    <3> QED
      BY <2>2, <3>1
  <2> QED
    BY <2>4 DEF TypeOK, SwarmInv, Rosters
<1> QED
  BY <1>1, SwarmInvariant, PTL

\* swarm_tree and members stay parallel, through joins, moves and clean-ups
\* that remove several members while members still holds them.
THEOREM SwarmParallel == Spec => []TreeParallelsMembers
<1>1. SwarmInv => TreeParallelsMembers
  <2> SUFFICES ASSUME SwarmInv PROVE TreeParallelsMembers
    OBVIOUS
  <2>1. CASE active
    <3>1. SameNodes(members, tree) /\ tree \in Trees /\ members \in Rosters
      BY <2>1 DEF SwarmInv
    <3>2. /\ Len(tree) \in Nat /\ DOMAIN tree = 1..Len(tree)
          /\ Len(members) \in Nat /\ DOMAIN members = 1..Len(members)
      BY <3>1, TreesHave, RostersHave
    <3>3. Len(tree) = Len(members)
      BY <3>1, SameLength
    <3> QED
      BY <2>1, <3>1, <3>3 DEF SameNodes, TreeParallelsMembers
  <2>2. CASE ~active
    BY <2>2 DEF SwarmInv, TreeParallelsMembers
  <2> QED
    BY <2>1, <2>2
<1> QED
  BY <1>1, SwarmInvariant, PTL

-----------------------------------------------------------------------------
(* The shape of the tree.                                                  *)

\* What WellFormed asks of node i, without looking addresses up.
NodeShape(t, i) ==
  /\ \A c \in Range(t[i].children) : \E k \in DOMAIN t : t[k].addr = c
  /\ IF t[i].parent = Relay
     THEN t[i].depth = 0 /\ \A j \in DOMAIN t : t[i].addr \notin Range(t[j].children)
     ELSE \E j \in DOMAIN t :
            /\ t[j].addr = t[i].parent
            /\ \A k \in DOMAIN t : t[i].addr \in Range(t[k].children) <=> k = j
            /\ t[i].depth = t[j].depth + 1

Shape(t) == \A i \in DOMAIN t : NodeShape(t, i)

\* In a tree that lists no client twice the lookups find what they look for.
LEMMA WellFormedIsShape ==
    ASSUME tree \in Trees
    PROVE  WellFormed <=> Shape(tree)
<1>1. /\ Unique(tree) /\ DOMAIN tree = 1..Len(tree) /\ Len(tree) \in Nat
      /\ tree \in Seq(AnyNode)
  BY TreesHave DEF Trees
<1>2. ASSUME NEW c
      PROVE  IndexOf(tree, c) # 0 <=> \E k \in DOMAIN tree : tree[k].addr = c
  BY <1>1, IndexFinds
<1>3. ASSUME NEW c, NEW j \in DOMAIN tree, tree[j].addr = c
      PROVE  IndexOf(tree, c) = j
  <2>1. IndexOf(tree, c) # 0
    BY <1>2, <1>3
  <2>2. IndexOf(tree, c) \in DOMAIN tree /\ tree[IndexOf(tree, c)].addr = c
    BY <1>1, <2>1, IndexFinds
  <2> QED
    BY <1>1, <1>3, <2>2 DEF Unique
<1> DEFINE feeders(i) == {j \in DOMAIN tree : tree[i].addr \in Range(tree[j].children)}
           Good(i) ==
             /\ \A c \in Range(tree[i].children) : IndexOf(tree, c) # 0
             /\ IF tree[i].parent = Relay
                THEN tree[i].depth = 0 /\ feeders(i) = {}
                ELSE /\ feeders(i) = {IndexOf(tree, tree[i].parent)}
                     /\ \A j \in feeders(i) : tree[i].depth = tree[j].depth + 1
<1>4. WellFormed <=> \A i \in DOMAIN tree : Good(i)
  BY DEF WellFormed
<1>5. ASSUME NEW i \in DOMAIN tree PROVE Good(i) <=> NodeShape(tree, i)
  <2>1. (\A c \in Range(tree[i].children) : IndexOf(tree, c) # 0)
         <=> \A c \in Range(tree[i].children) : \E k \in DOMAIN tree : tree[k].addr = c
    BY <1>2
  <2>2. feeders(i) = {} <=> \A j \in DOMAIN tree : tree[i].addr \notin Range(tree[j].children)
    OBVIOUS
  <2>3. ASSUME feeders(i) = {IndexOf(tree, tree[i].parent)},
               \A j \in feeders(i) : tree[i].depth = tree[j].depth + 1
        PROVE  \E j \in DOMAIN tree :
                 /\ tree[j].addr = tree[i].parent
                 /\ \A k \in DOMAIN tree : tree[i].addr \in Range(tree[k].children) <=> k = j
                 /\ tree[i].depth = tree[j].depth + 1
    <3> DEFINE j == IndexOf(tree, tree[i].parent)
    <3>1. j \in feeders(i) /\ j \in DOMAIN tree
      BY <2>3
    <3>2. j # 0
      BY <1>1, <3>1
    <3>3. tree[j].addr = tree[i].parent
      BY <1>1, <3>2, IndexFinds
    <3> HIDE DEF j
    <3>4. \A k \in DOMAIN tree : tree[i].addr \in Range(tree[k].children) <=> k = j
      BY <2>3 DEF j
    <3> QED
      BY <2>3, <3>1, <3>3, <3>4
  <2>4. ASSUME NEW j \in DOMAIN tree, tree[j].addr = tree[i].parent,
               \A k \in DOMAIN tree : tree[i].addr \in Range(tree[k].children) <=> k = j,
               tree[i].depth = tree[j].depth + 1
        PROVE  /\ feeders(i) = {IndexOf(tree, tree[i].parent)}
               /\ \A k \in feeders(i) : tree[i].depth = tree[k].depth + 1
    <3>1. IndexOf(tree, tree[i].parent) = j
      BY <1>3, <2>4
    <3>2. feeders(i) = {j}
      BY <2>4
    <3> QED
      BY <2>4, <3>1, <3>2
  <2> HIDE DEF feeders
  <2> QED
    BY <2>1, <2>2, <2>3, <2>4 DEF NodeShape
<1> HIDE DEF Good
<1> QED
  BY <1>4, <1>5 DEF Shape

\* The fields a node has after Attach; depth and parent change at i only, a
\* child is added at p only.
LEMMA AttachIs ==
    ASSUME NEW t \in Trees, NEW i \in DOMAIN t, NEW p \in DOMAIN t \ {i}
    PROVE  LET u == Attach(t, i, p)
           IN  /\ DOMAIN u = DOMAIN t
               /\ u[i].parent = t[p].addr /\ u[i].depth = t[p].depth + 1
               /\ Range(u[p].children) = Range(t[p].children) \cup {t[i].addr}
               /\ \A j \in DOMAIN t :
                    /\ u[j].addr = t[j].addr
                    /\ j # i => u[j].parent = t[j].parent /\ u[j].depth = t[j].depth
                    /\ j # p => u[j].children = t[j].children
<1> DEFINE u == Attach(t, i, p)
           c == t[p].children
           d == Append(c, t[i].addr)
<1>1. \A j \in DOMAIN t : t[j] \in AnyNode
  BY TreesHave
<1>2. p # 0
  BY TreesHave
<1>3. u = [t EXCEPT ![i].depth = t[p].depth + 1, ![i].parent = t[p].addr,
                    ![p].children = d]
  BY <1>2 DEF Attach
<1>4. c \in Seq(Addrs) /\ t[i].addr \in Addrs
  BY <1>1 DEF AnyNode
<1>5. Range(d) = Range(c) \cup {t[i].addr}
  <2> HIDE DEF c
  <2>1. /\ DOMAIN d = 1..(Len(c) + 1) /\ DOMAIN c = 1..Len(c) /\ Len(c) \in Nat
        /\ d[Len(c) + 1] = t[i].addr
        /\ \A h \in 1..Len(c) : d[h] = c[h]
    BY <1>4
  <2> HIDE DEF d
  <2>2. \A h \in DOMAIN d : h \in DOMAIN c \/ h = Len(c) + 1
    BY <2>1
  <2>3. DOMAIN c \subseteq DOMAIN d /\ Len(c) + 1 \in DOMAIN d
    BY <2>1
  <2> QED
    BY <2>1, <2>2, <2>3 DEF Range
<1> HIDE DEF d
<1>6. DOMAIN u = DOMAIN t
  BY <1>3
<1>7. u[i].parent = t[p].addr /\ u[i].depth = t[p].depth + 1
  <2>1. u[i] = [t[i] EXCEPT !.depth = t[p].depth + 1, !.parent = t[p].addr]
    BY <1>1, <1>3 DEF AnyNode
  <2>2. t[i] \in AnyNode /\ t[p].depth + 1 \in Nat
        /\ t[p].addr \in Addrs \cup {Relay}
    BY <1>1 DEF AnyNode
  <2>3. Moved([t[i] EXCEPT !.depth = t[p].depth + 1, !.parent = t[p].addr],
              t[i], t[p].depth + 1, t[p].addr)
    BY <2>2, MovedNode
  <2> QED
    BY <2>1, <2>3 DEF Moved
<1>8. u[p].children = d
  BY <1>1, <1>3 DEF AnyNode
<1>9. ASSUME NEW j \in DOMAIN t
      PROVE  /\ u[j].addr = t[j].addr
             /\ j # i => u[j].parent = t[j].parent /\ u[j].depth = t[j].depth
             /\ j # p => u[j].children = t[j].children
  <2>1. CASE j = i
    BY <1>1, <1>3, <2>1 DEF AnyNode
  <2>2. CASE j = p
    BY <1>1, <1>3, <2>2 DEF AnyNode
  <2>3. CASE j # i /\ j # p
    BY <1>3, <2>3
  <2> QED
    BY <2>1, <2>2, <2>3
<1> QED
  BY <1>5, <1>6, <1>7, <1>8, <1>9 DEF c

\* Attaching a pushed node keeps the shape.
LEMMA PushKeepsShape ==
    ASSUME tree \in Trees, Shape(tree), NEW t, NEW i, NEW p, Pushed(t, i, p)
    PROVE  Shape(Attach(t, i, p))
<1> DEFINE u == Attach(t, i, p)
           S == DOMAIN tree
<1>1. /\ t \in Trees /\ i \in DOMAIN t /\ i \notin S /\ DOMAIN t = S \cup {i}
      /\ \A j \in S : t[j] = tree[j]
      /\ t[i].children = <<>> /\ Unique(t)
      /\ p # 0 => p \in S
  BY TreesHave DEF Pushed
<1>2. \A j \in S : t[j].addr # t[i].addr
  BY <1>1 DEF Unique
<1>3. Range(<<>>) = {}
  BY DEF Range
<1>4. \A j \in S : \A c \in Range(t[j].children) : \E k \in S : t[k].addr = c
  BY <1>1 DEF Shape, NodeShape
<1>5. \A j \in DOMAIN t : t[i].addr \notin Range(t[j].children)
  BY <1>1, <1>2, <1>3, <1>4
<1>6. \A j \in S : IF t[j].parent = Relay
         THEN t[j].depth = 0 /\ \A k \in S : t[j].addr \notin Range(t[k].children)
         ELSE \E k \in S :
                /\ t[k].addr = t[j].parent
                /\ \A h \in S : t[j].addr \in Range(t[h].children) <=> h = k
                /\ t[j].depth = t[k].depth + 1
  BY <1>1 DEF Shape, NodeShape
<1>7. CASE p = 0
  <2>1. u = [t EXCEPT ![i].depth = 0, ![i].parent = Relay]
    BY <1>7 DEF Attach
  <2>2. t[i] \in AnyNode
    BY <1>1, TreesHave
  <2>3. /\ DOMAIN u = DOMAIN t /\ \A j \in S : u[j] = t[j]
        /\ u[i].parent = Relay /\ u[i].depth = 0
        /\ u[i].addr = t[i].addr /\ u[i].children = <<>>
    BY <1>1, <2>1, <2>2 DEF AnyNode
  <2> HIDE DEF u, S
  <2>4. NodeShape(u, i)
    BY <1>1, <1>3, <1>5, <2>3 DEF NodeShape
  <2>5. ASSUME NEW j \in S PROVE NodeShape(u, j)
    <3>1. \A c \in Range(u[j].children) : \E k \in DOMAIN u : u[k].addr = c
      BY <1>1, <1>4, <2>3
    <3>2. CASE t[j].parent = Relay
      BY <1>1, <1>3, <1>6, <2>3, <3>1, <3>2 DEF NodeShape
    <3>3. CASE t[j].parent # Relay
      <4>1. PICK k \in S : /\ t[k].addr = t[j].parent
                           /\ \A h \in S : t[j].addr \in Range(t[h].children) <=> h = k
                           /\ t[j].depth = t[k].depth + 1
        BY <1>6, <3>3
      <4>2. \A h \in DOMAIN u : u[j].addr \in Range(u[h].children) <=> h = k
        BY <1>1, <1>3, <2>3, <4>1
      <4> QED
        BY <1>1, <2>3, <3>1, <3>3, <4>1, <4>2 DEF NodeShape
    <3> QED
      BY <3>2, <3>3
  <2> QED
    BY <1>1, <2>3, <2>4, <2>5 DEF Shape, u
<1>8. CASE p # 0
  <2>1. p \in DOMAIN t \ {i} /\ p \in S
    BY <1>1, <1>8
  <2>2. /\ DOMAIN u = DOMAIN t
        /\ u[i].parent = t[p].addr /\ u[i].depth = t[p].depth + 1
        /\ Range(u[p].children) = Range(t[p].children) \cup {t[i].addr}
        /\ \A j \in DOMAIN t :
             /\ u[j].addr = t[j].addr
             /\ j # i => u[j].parent = t[j].parent /\ u[j].depth = t[j].depth
             /\ j # p => u[j].children = t[j].children
    BY <1>1, <2>1, AttachIs
  <2> HIDE DEF u, S
  <2>3. \A j \in DOMAIN t : \A x : x # t[i].addr =>
          (x \in Range(u[j].children) <=> x \in Range(t[j].children))
    BY <2>2
  <2>4. t[p].addr # Relay
    BY <1>1, <2>1, TreesHave, SwarmAssumption DEF AnyNode
  <2>5. \A h \in DOMAIN u : u[i].addr \in Range(u[h].children) <=> h = p
    BY <1>1, <1>5, <2>1, <2>2
  <2>6. NodeShape(u, i)
    <3>1. u[i].children = <<>>
      BY <1>1, <2>1, <2>2
    <3> QED
      BY <1>3, <2>1, <2>2, <2>4, <2>5, <3>1 DEF NodeShape
  <2>7. ASSUME NEW j \in S PROVE NodeShape(u, j)
    <3>1. \A c \in Range(u[j].children) : \E k \in DOMAIN u : u[k].addr = c
      BY <1>1, <1>4, <2>2, <2>3
    <3>2. u[j].addr = t[j].addr /\ u[j].addr # t[i].addr /\ j # i
          /\ u[j].parent = t[j].parent /\ u[j].depth = t[j].depth
      BY <1>1, <1>2, <2>2
    <3>3. \A h \in DOMAIN t : u[j].addr \in Range(u[h].children)
                                <=> t[j].addr \in Range(t[h].children)
      BY <2>3, <3>2
    <3>4. t[j].addr \notin Range(t[i].children)
      BY <1>1, <1>3
    <3>5. CASE t[j].parent = Relay
      BY <1>1, <1>6, <2>2, <3>1, <3>2, <3>3, <3>4, <3>5 DEF NodeShape
    <3>6. CASE t[j].parent # Relay
      <4>1. PICK k \in S : /\ t[k].addr = t[j].parent
                           /\ \A h \in S : t[j].addr \in Range(t[h].children) <=> h = k
                           /\ t[j].depth = t[k].depth + 1
        BY <1>6, <3>6
      <4>2. \A h \in DOMAIN u : u[j].addr \in Range(u[h].children) <=> h = k
        BY <1>1, <2>2, <3>3, <3>4, <4>1
      <4>3. u[k].addr = u[j].parent /\ u[j].depth = u[k].depth + 1 /\ k \in DOMAIN u
        BY <1>1, <2>2, <3>2, <4>1
      <4> QED
        BY <3>1, <3>2, <3>6, <4>2, <4>3 DEF NodeShape
    <3> QED
      BY <3>5, <3>6
  <2> QED
    BY <1>1, <2>2, <2>6, <2>7 DEF Shape, u
<1> QED
  BY <1>7, <1>8

\* The breadth-first tree has the shape.
LEMMA RebuiltHasShape ==
    ASSUME NEW ms \in Rosters, Len(ms) >= 1
    PROVE  Shape(Rebuilt(ms))
<1> DEFINE u == Rebuilt(ms)
           n == Len(ms)
           root == RootOf(ms)
           place(i) == Place(i, root)
           at(k) == At(k, root)
           start(k) == (k - 1) * FanOut + 1
<1>1. /\ n \in Nat /\ n >= 1 /\ DOMAIN ms = 1..n /\ Unique(ms)
      /\ \A i \in 1..n : ms[i].addr \in Addrs
      /\ FanOut \in Nat /\ FanOut >= 1
  BY RostersHave, SwarmAssumption
<1>2. root \in 1..n
  BY RootIsMember
<1>3. DOMAIN u = 1..n /\ \A i \in 1..n : BuiltNode(u[i], ms, i)
  BY <1>1, RebuiltIsTree DEF SameNodes
<1> HIDE DEF u, root, n
<1>4. /\ \A i \in 1..n : place(i) \in 1..n /\ at(place(i)) = i
      /\ \A k \in 1..n : at(k) \in 1..n /\ place(at(k)) = k
  BY <1>1, <1>2, AtPlace
<1> HIDE DEF place, at
<1>5. ASSUME NEW i \in 1..n
      PROVE  /\ u[i].addr = ms[i].addr
             /\ u[i].depth = DepthOf(n)[place(i)]
             /\ u[i].parent = IF place(i) = 1 THEN Relay ELSE ms[at(Above(place(i)))].addr
             /\ DOMAIN u[i].children = 1..KidsBelow(place(i), n)
             /\ \A c \in 1..KidsBelow(place(i), n) :
                  u[i].children[c] = ms[at(start(place(i)) + c)].addr
  BY <1>3 DEF BuiltNode, place, at, n, root
<1>6. ASSUME NEW k \in 1..n
      PROVE  /\ \A c \in 1..KidsBelow(k, n) :
                  start(k) + c \in (k + 1)..n /\ Above(start(k) + c) = k
             /\ \A q \in 2..n : Above(q) = k =>
                  \E c \in 1..KidsBelow(k, n) : q = start(k) + c
  <2>1. k \in Nat \ {0}
    BY <1>1
  <2>2. /\ \A c \in 1..KidsBelow(k, n) :
             /\ (k - 1) * FanOut + 1 + c \in (k + 1)..n
             /\ Above((k - 1) * FanOut + 1 + c) = k
        /\ \A q \in 2..n : Above(q) = k =>
             \E c \in 1..KidsBelow(k, n) : q = (k - 1) * FanOut + 1 + c
    BY <1>1, <2>1, KidsAre
  <2> QED
    BY <2>2
<1> HIDE DEF start
\* node j lists node i exactly when i is placed below j
<1>7. ASSUME NEW i \in 1..n, NEW j \in 1..n
      PROVE  u[i].addr \in Range(u[j].children)
               <=> place(i) # 1 /\ Above(place(i)) = place(j)
  <2>1. ASSUME u[i].addr \in Range(u[j].children)
        PROVE  place(i) # 1 /\ Above(place(i)) = place(j)
    <3>1. PICK c \in DOMAIN u[j].children : u[j].children[c] = u[i].addr
      BY <2>1 DEF Range
    <3>2. /\ c \in 1..KidsBelow(place(j), n)
          /\ ms[at(start(place(j)) + c)].addr = ms[i].addr
      BY <1>5, <3>1
    <3> DEFINE q == start(place(j)) + c
    <3>3. q \in (place(j) + 1)..n /\ Above(q) = place(j) /\ place(j) \in 1..n
      BY <1>4, <1>6, <3>2
    <3> HIDE DEF q
    <3>4. q \in 1..n /\ q # 1
      BY <1>1, <3>3
    <3>5. at(q) = i
      BY <1>1, <1>4, <3>2, <3>4 DEF Unique, q
    <3>6. place(i) = q
      BY <1>4, <3>4, <3>5
    <3> QED
      BY <3>3, <3>4, <3>6
  <2>2. ASSUME place(i) # 1, Above(place(i)) = place(j)
        PROVE  u[i].addr \in Range(u[j].children)
    <3>1. place(i) \in 2..n /\ place(j) \in 1..n
      BY <1>1, <1>4, <2>2
    <3>2. PICK c \in 1..KidsBelow(place(j), n) : place(i) = start(place(j)) + c
      BY <1>6, <2>2, <3>1
    <3>3. u[j].children[c] = ms[at(place(i))].addr
      BY <1>5, <3>2
    <3>4. u[j].children[c] = u[i].addr
      BY <1>4, <1>5, <3>3
    <3> QED
      BY <1>5, <3>4 DEF Range
  <2> QED
    BY <2>1, <2>2
<1>8. ASSUME NEW i \in 1..n PROVE NodeShape(u, i)
  <2>1. place(i) \in 1..n
    BY <1>4
  <2>2. ASSUME NEW x \in Range(u[i].children) PROVE \E k \in DOMAIN u : u[k].addr = x
    <3>1. PICK c \in DOMAIN u[i].children : u[i].children[c] = x
      BY <2>2 DEF Range
    <3>2. /\ c \in 1..KidsBelow(place(i), n)
          /\ x = ms[at(start(place(i)) + c)].addr
      BY <1>5, <3>1
    <3>3. start(place(i)) + c \in 1..n
      <4>1. start(place(i)) + c \in (place(i) + 1)..n
        BY <1>6, <2>1, <3>2
      <4> QED
        BY <1>1, <2>1, <4>1
    <3>4. at(start(place(i)) + c) \in 1..n
      BY <1>4, <3>3
    <3> QED
      BY <1>3, <1>5, <3>2, <3>4
  <2>3. CASE place(i) = 1
    <3>1. u[i].parent = Relay /\ u[i].depth = DepthOf(n)[1]
      BY <1>5, <2>3
    <3>2. DepthOf(n)[1] = 0
      <4>1. 1 \in 1..n
        BY <1>1
      <4>2. \A k \in 1..n : DepthOf(n)[k] = IF k = 1 THEN 0 ELSE DepthOf(n)[Above(k)] + 1
        BY <1>1, DepthSteps
      <4> QED
        BY <4>1, <4>2
    <3>3. \A j \in DOMAIN u : u[i].addr \notin Range(u[j].children)
      BY <1>3, <1>7, <2>3
    <3> QED
      BY <2>2, <3>1, <3>2, <3>3 DEF NodeShape
  <2>4. CASE place(i) # 1
    <3> DEFINE k == place(i)
               j == at(Above(k))
    <3>1. k \in Nat /\ k >= 2
      BY <1>1, <2>1, <2>4
    <3>2. Above(k) \in 1..(k - 1)
      BY <3>1, AboveIs
    <3>3. Above(k) \in 1..n
      BY <1>1, <2>1, <3>2
    <3>4. j \in 1..n /\ place(j) = Above(k)
      BY <1>4, <3>3
    <3>5. u[i].parent = ms[j].addr /\ u[j].addr = ms[j].addr
      BY <1>5, <2>4, <3>4
    <3>6. u[i].depth = u[j].depth + 1
      <4>1. DepthOf(n)[k] = DepthOf(n)[Above(k)] + 1
        BY <1>1, <2>1, <2>4, DepthSteps
      <4> QED
        BY <1>5, <3>4, <4>1
    <3> HIDE DEF j
    <3>7. \A h \in DOMAIN u : u[i].addr \in Range(u[h].children) <=> h = j
      <4>1. ASSUME NEW h \in 1..n
            PROVE  u[i].addr \in Range(u[h].children) <=> h = j
        <5>1. u[i].addr \in Range(u[h].children) <=> place(j) = place(h)
          BY <1>7, <2>4, <3>4
        <5>2. place(j) = place(h) => h = j
          BY <1>4, <3>4
        <5> QED
          BY <5>1, <5>2
      <4> QED
        BY <1>3, <4>1
    <3>8. u[i].parent # Relay
      BY <1>1, <3>4, <3>5, SwarmAssumption
    <3> QED
      BY <1>3, <2>2, <3>4, <3>5, <3>6, <3>7, <3>8 DEF NodeShape
  <2> QED
    BY <2>3, <2>4
<1> QED
  BY <1>3, <1>8 DEF Shape, u

\* In a tree with the shape, forgetting a client takes it out of every list.
LEMMA UnlistedIs ==
    ASSUME NEW t \in Trees, Shape(t), NEW r \in DOMAIN t
    PROVE  LET u == Unlisted(t, t[r].addr)
           IN  \A j \in DOMAIN t :
                 /\ u[j].addr = t[j].addr /\ u[j].parent = t[j].parent
                 /\ u[j].depth = t[j].depth
                 /\ Range(u[j].children) = Range(t[j].children) \ {t[r].addr}
<1> DEFINE a == t[r].addr
           listed == {i \in DOMAIN t : a \in Range(t[i].children)}
           m == Min(listed)
           u == Unlisted(t, a)
<1>1. \A j \in DOMAIN t : t[j] \in AnyNode
  BY TreesHave
<1>2. ASSUME NEW i \in listed, NEW j \in listed PROVE i = j
  <2>1. NodeShape(t, r)
    BY DEF Shape
  <2> QED
    BY <2>1 DEF NodeShape
<1> HIDE DEF a
<1>3. CASE listed = {}
  <2>1. u = t
    BY <1>3 DEF Unlisted
  <2>2. \A j \in DOMAIN t : a \notin Range(t[j].children)
    BY <1>3
  <2> HIDE DEF u
  <2> QED
    BY <2>1, <2>2 DEF a, u
<1>4. CASE listed # {}
  <2> DEFINE c == t[m].children
             d == Erased(c, {a})
  <2>1. u = [t EXCEPT ![m].children = d]
    BY <1>4 DEF Unlisted
  <2>2. m \in listed /\ m \in DOMAIN t
    <3>1. listed \subseteq Nat /\ listed \subseteq DOMAIN t
      BY TreesHave
    <3> HIDE DEF listed
    <3> QED
      BY <1>4, <3>1, MinIsLeast
  <2>3. \A j \in DOMAIN t \ {m} : a \notin Range(t[j].children)
    BY <1>2, <2>2
  <2>4. c \in Seq(Addrs)
    BY <1>1, <2>2 DEF AnyNode
  <2> HIDE DEF m, c
  <2>5. Range(d) = Range(c) \ {a}
    BY <2>4, ErasedIsRest
  <2> HIDE DEF d
  <2>6. /\ u[m].addr = t[m].addr /\ u[m].parent = t[m].parent
        /\ u[m].depth = t[m].depth /\ u[m].children = d
    BY <1>1, <2>1, <2>2 DEF AnyNode
  <2>7. \A j \in DOMAIN t \ {m} : u[j] = t[j]
    BY <2>1
  <2> HIDE DEF u
  <2>8. ASSUME NEW j \in DOMAIN t
        PROVE  /\ u[j].addr = t[j].addr /\ u[j].parent = t[j].parent
               /\ u[j].depth = t[j].depth
               /\ Range(u[j].children) = Range(t[j].children) \ {a}
    <3>1. CASE j = m
      BY <2>5, <2>6, <3>1 DEF c
    <3>2. CASE j # m
      BY <2>3, <2>7, <3>2
    <3> QED
      BY <3>1, <3>2
  <2> QED
    BY <2>8 DEF a, u
<1> QED
  BY <1>3, <1>4

\* Taking out a client that feeds nobody keeps the shape.
LEMMA CutKeepsShape ==
    ASSUME NEW t \in Trees, Shape(t), NEW r \in DOMAIN t, t[r].children = <<>>
    PROVE  Shape(RemoveAt(Unlisted(t, t[r].addr), r))
<1> DEFINE a == t[r].addr
           n == Len(t)
           listless == Unlisted(t, a)
           u == RemoveAt(listless, r)
           was(j) == IF j < r THEN j ELSE j + 1
           now(j) == IF j < r THEN j ELSE j - 1
<1>1. n \in Nat /\ DOMAIN t = 1..n /\ Unique(t) /\ r \in 1..n
  BY TreesHave
<1>2. listless \in Trees /\ SameNodes(t, listless)
  BY UnlistedKeeps
<1>3. \A j \in DOMAIN t :
        /\ listless[j].addr = t[j].addr /\ listless[j].parent = t[j].parent
        /\ listless[j].depth = t[j].depth
        /\ Range(listless[j].children) = Range(t[j].children) \ {a}
  BY UnlistedIs, Zenon
<1> HIDE DEF listless, a
<1>4. DOMAIN listless = 1..n /\ Len(listless) = n
  BY <1>1, <1>2, TreesHave DEF SameNodes
<1>5. /\ u \in Trees /\ Len(u) = n - 1
      /\ \A j \in DOMAIN u : u[j] = IF j < r THEN listless[j] ELSE listless[j + 1]
  BY <1>1, <1>2, <1>4, RemoveAtKeeps
<1>6. DOMAIN u = 1..(n - 1)
  BY <1>5, TreesHave
<1> HIDE DEF u, n
<1>7. ASSUME NEW j \in DOMAIN u
      PROVE  /\ was(j) \in 1..n /\ was(j) # r /\ now(was(j)) = j
             /\ u[j].addr = t[was(j)].addr /\ u[j].parent = t[was(j)].parent
             /\ u[j].depth = t[was(j)].depth
             /\ Range(u[j].children) = Range(t[was(j)].children) \ {a}
  <2>1. was(j) \in 1..n /\ was(j) # r /\ now(was(j)) = j
    BY <1>1, <1>6
  <2>2. u[j] = listless[was(j)]
    BY <1>5
  <2> HIDE DEF was, now
  <2> QED
    BY <1>1, <1>3, <2>1, <2>2
<1>8. ASSUME NEW i \in 1..n, i # r
      PROVE  now(i) \in DOMAIN u /\ was(now(i)) = i
  BY <1>1, <1>6, <1>8
<1> HIDE DEF was, now
<1>9. \A i \in 1..n : NodeShape(t, i)
  BY <1>1 DEF Shape
<1>10. Range(t[r].children) = {}
  BY DEF Range
<1>11. ASSUME NEW j \in DOMAIN u PROVE NodeShape(u, j)
  <2> DEFINE i == was(j)
  <2>1. /\ i \in 1..n /\ i # r /\ NodeShape(t, i) /\ t[i].addr # a
    BY <1>1, <1>7, <1>9 DEF Unique, a
  <2>2. /\ u[j].addr = t[i].addr /\ u[j].parent = t[i].parent
        /\ u[j].depth = t[i].depth
        /\ Range(u[j].children) = Range(t[i].children) \ {a}
    BY <1>7
  <2> HIDE DEF i
  <2>3. ASSUME NEW c \in Range(u[j].children) PROVE \E k \in DOMAIN u : u[k].addr = c
    <3>1. c \in Range(t[i].children) /\ c # a
      BY <2>2
    <3>2. PICK h \in 1..n : t[h].addr = c
      BY <1>1, <2>1, <3>1 DEF NodeShape
    <3>3. h # r
      BY <3>1, <3>2 DEF a
    <3>4. now(h) \in DOMAIN u /\ u[now(h)].addr = c
      BY <1>7, <1>8, <3>2, <3>3
    <3> QED
      BY <3>4
  <2>4. \A h \in DOMAIN u : t[i].addr \in Range(u[h].children)
                              <=> t[i].addr \in Range(t[was(h)].children)
    BY <1>7, <2>1
  <2>5. CASE t[i].parent = Relay
    <3>1. t[i].depth = 0 /\ \A h \in 1..n : t[i].addr \notin Range(t[h].children)
      BY <1>1, <2>1, <2>5 DEF NodeShape
    <3>2. \A h \in DOMAIN u : u[j].addr \notin Range(u[h].children)
      BY <1>7, <2>2, <2>4, <3>1
    <3> QED
      BY <2>2, <2>3, <2>5, <3>1, <3>2 DEF NodeShape
  <2>6. CASE t[i].parent # Relay
    <3>1. PICK k \in 1..n :
            /\ t[k].addr = t[i].parent
            /\ \A h \in 1..n : t[i].addr \in Range(t[h].children) <=> h = k
            /\ t[i].depth = t[k].depth + 1
      BY <1>1, <2>1, <2>6 DEF NodeShape
    <3>2. k # r
      BY <1>1, <1>10, <3>1
    <3> DEFINE p == now(k)
    <3>3. p \in DOMAIN u /\ was(p) = k
      BY <1>8, <3>2
    <3> HIDE DEF p
    <3>4. u[p].addr = u[j].parent /\ u[j].depth = u[p].depth + 1
      BY <1>7, <2>2, <3>1, <3>3
    <3>5. ASSUME NEW h \in DOMAIN u
          PROVE  u[j].addr \in Range(u[h].children) <=> h = p
      <4>1. u[j].addr \in Range(u[h].children) <=> was(h) = k
        BY <1>7, <2>2, <2>4, <3>1
      <4>2. was(h) = k => h = p
        BY <1>7, <3>3
      <4> QED
        BY <3>3, <4>1, <4>2
    <3> QED
      BY <2>2, <2>3, <2>6, <3>3, <3>4, <3>5 DEF NodeShape
  <2> QED
    BY <2>5, <2>6
<1> QED
  BY <1>11 DEF Shape, u, listless, a

\* There is nothing to reassign for a client that feeds nobody.
LEMMA ReassignNone ==
    ASSUME NEW t, NEW barred
    PROVE  Reassign(t, <<>>, barred) = t
<1> DEFINE body(f) == [k \in 0..0 |->
                         IF k = 0 THEN t ELSE MoveOrphan(f[k - 1], <<>>[k], barred)]
           g == MovedUpTo(t, <<>>, barred)
           f == [k \in 0..0 |-> t]
<1>1. Len(<<>>) = 0
  OBVIOUS
<1>2. g = CHOOSE h : h = body(h)
  BY <1>1 DEF MovedUpTo
<1>3. f = body(f)
  OBVIOUS
<1> HIDE DEF g, f
<1>4. g = body(g)
  <2> HIDE DEF body
  <2> QED
    BY <1>2, <1>3
<1>5. g[0] = t
  BY <1>4
<1> QED
  BY <1>1, <1>5 DEF Reassign, g

\* The empty tree, of a group at or below the threshold, has the shape.
LEMMA EmptyHasShape == Shape(<<>>)
BY DEF Shape

\* A join keeps the shape, also when it is the join that builds the tree.
LEMMA JoinKeepsShape ==
    ASSUME SwarmInv, WellFormed, NEW a \in Addrs, Join(a)
    PROVE  Shape(tree')
<1>1. tree \in Trees /\ Shape(tree)
  BY WellFormedIsShape DEF SwarmInv
<1>2. CASE active
  <2>1. PICK t, i, p : Pushed(t, i, p) /\ tree' = Attach(t, i, p)
    BY <1>2, JoinIs
  <2> QED
    BY <1>1, <2>1, PushKeepsShape
<1>3. CASE ~active
  <2> DEFINE ms == members'
  <2>1. ms \in Rosters /\ tree' = Rebuild(ms).tree /\ Len(ms) \in Nat
    BY <1>3, JoinIs
  <2> HIDE DEF ms
  <2>2. CASE Len(ms) <= Threshold
    <3>1. tree' = <<>>
      BY <2>1, <2>2 DEF Rebuild
    <3> QED
      BY <3>1, EmptyHasShape
  <2>3. CASE ~(Len(ms) <= Threshold)
    <3>1. tree' = Rebuilt(ms)
      BY <2>1, <2>3 DEF Rebuild
    <3>2. Len(ms) >= 1
      BY <2>1, <2>3, SwarmAssumption
    <3> QED
      BY <2>1, <3>1, <3>2, RebuiltHasShape
  <2> QED
    BY <2>2, <2>3
<1> QED
  BY <1>2, <1>3 DEF SwarmInv

\* So does the departure of a client that feeds nobody.
LEMMA LeaveKeepsShape ==
    ASSUME SwarmInv, WellFormed, NEW a \in Addrs, Childless(a), Leave(a)
    PROVE  Shape(tree')
<1> DEFINE sw == [tree |-> tree, active |-> active]
           r == IndexOf(tree, a)
<1>1. tree \in Trees /\ Shape(tree) /\ tree \in Seq(AnyNode)
  BY WellFormedIsShape DEF SwarmInv, Trees
<1>2. tree' = RemoveMember(sw, members, a).tree
  BY DEF Leave
<1>3. sw.tree = tree /\ sw.active = active
  OBVIOUS
<1> HIDE DEF sw
<1>4. CASE ~active \/ r = 0
  <2>1. RemoveMember(sw, members, a) = sw
    BY <1>3, <1>4 DEF RemoveMember
  <2> QED
    BY <1>1, <1>2, <1>3, <2>1
<1>5. CASE ~(~active \/ r = 0) /\ Len(members) <= Threshold
  <2>1. RemoveMember(sw, members, a) = Rebuild(members)
    BY <1>3, <1>5 DEF RemoveMember
  <2>2. Rebuild(members).tree = <<>>
    BY <1>5 DEF Rebuild
  <2> QED
    BY <1>2, <2>1, <2>2, EmptyHasShape
<1>6. CASE ~(~active \/ r = 0) /\ ~(Len(members) <= Threshold)
  <2>1. r \in DOMAIN tree /\ tree[r].addr = a /\ tree[r].children = <<>>
    BY <1>1, <1>6, IndexFinds DEF Childless
  <2> DEFINE u == RemoveAt(Unlisted(tree, a), r)
  <2>2. RemoveMember(sw, members, a) =
          [tree |-> Reassign(u, tree[r].children, Relay), active |-> TRUE]
    BY <1>3, <1>6 DEF RemoveMember
  <2>3. Shape(u)
    <3> HIDE DEF r
    <3> QED
      BY <1>1, <2>1, CutKeepsShape
  <2> HIDE DEF u, r
  <2>4. Reassign(u, tree[r].children, Relay) = u
    BY <2>1, ReassignNone
  <2> QED
    BY <1>2, <2>2, <2>3, <2>4
<1> QED
  BY <1>4, <1>5, <1>6

\* A join, the one that builds the tree included, or the departure of a
\* client that feeds nobody leaves a tree in which parents and children agree
\* and every depth is one more than that of the parent.
THEOREM SwarmKeepsShape == Spec => LocalChangeKeepsShape
<1>1. SwarmInv => (WellFormed <=> Shape(tree))
  BY WellFormedIsShape DEF SwarmInv
<1>2. ASSUME SwarmInv, WellFormed, LocalChange PROVE Shape(tree)'
  <2>1. Shape(tree')
    BY <1>2, JoinKeepsShape, LeaveKeepsShape DEF LocalChange
  <2> QED
    BY <2>1 DEF Shape, NodeShape
<1>3. SwarmInv /\ SwarmInv' => [WellFormed /\ LocalChange => WellFormed']_vars
  <2>1. SwarmInv' => (WellFormed' <=> Shape(tree)')
    BY <1>1, PTL
  <2> QED
    BY <1>2, <2>1
<1> QED
  BY <1>3, SwarmInvariant, PTL DEF LocalChangeKeepsShape

-----------------------------------------------------------------------------
(* Who is fed.                                                             *)

\* The parent of node i, if it has one, lists it.
Fed(t, i) ==
  t[i].parent # Relay =>
    \E j \in DOMAIN t : /\ t[j].addr = t[i].parent
                        /\ t[i].addr \in Range(t[j].children)

\* Every node is fed, but for those with addresses in ex.
AllFed(t, ex) == \A i \in DOMAIN t : t[i].addr \notin ex => Fed(t, i)

\* u has the clients of t, and feeds those that t feeds.
FeedsOn(t, u) ==
  /\ SameNodes(t, u)
  /\ \A i \in DOMAIN t : Fed(t, i) => Fed(u, i)

\* Attaching a node feeds it and takes nothing from the others.
LEMMA AttachFeeds ==
    ASSUME NEW t \in Trees, NEW i \in DOMAIN t, NEW p,
           p # 0 => p \in DOMAIN t \ {i}
    PROVE  LET u == Attach(t, i, p)
           IN  /\ DOMAIN u = DOMAIN t
               /\ \A j \in DOMAIN t : u[j].addr = t[j].addr
               /\ Fed(u, i)
               /\ \A j \in DOMAIN t : Fed(t, j) => Fed(u, j)
<1> DEFINE u == Attach(t, i, p)
<1>1. \A j \in DOMAIN t : t[j] \in AnyNode
  BY TreesHave
<1>2. CASE p = 0
  <2>1. u = [t EXCEPT ![i].depth = 0, ![i].parent = Relay]
    BY <1>2 DEF Attach
  <2>2. /\ DOMAIN u = DOMAIN t /\ u[i].parent = Relay
        /\ \A j \in DOMAIN t : /\ u[j].addr = t[j].addr
                               /\ u[j].children = t[j].children
                               /\ j # i => u[j].parent = t[j].parent
    <3>1. u[i] = [t[i] EXCEPT !.depth = 0, !.parent = Relay]
      BY <1>1, <2>1 DEF AnyNode
    <3>2. Moved([t[i] EXCEPT !.depth = 0, !.parent = Relay], t[i], 0, Relay)
      BY <1>1, MovedNode
    <3>3. \A j \in DOMAIN t \ {i} : u[j] = t[j]
      BY <2>1
    <3>4. DOMAIN u = DOMAIN t
      BY <2>1
    <3> HIDE DEF u
    <3> QED
      BY <3>1, <3>2, <3>3, <3>4 DEF Moved
  <2> HIDE DEF u
  <2> QED
    BY <2>2 DEF Fed, u
<1>3. CASE p # 0
  <2>1. /\ DOMAIN u = DOMAIN t
        /\ u[i].parent = t[p].addr
        /\ Range(u[p].children) = Range(t[p].children) \cup {t[i].addr}
        /\ \A j \in DOMAIN t :
             /\ u[j].addr = t[j].addr
             /\ j # i => u[j].parent = t[j].parent
             /\ j # p => u[j].children = t[j].children
    <3>1. p \in DOMAIN t \ {i}
      BY <1>3
    <3>2. /\ DOMAIN u = DOMAIN t
          /\ u[i].parent = t[p].addr /\ u[i].depth = t[p].depth + 1
          /\ Range(u[p].children) = Range(t[p].children) \cup {t[i].addr}
          /\ \A j \in DOMAIN t :
               /\ u[j].addr = t[j].addr
               /\ j # i => u[j].parent = t[j].parent /\ u[j].depth = t[j].depth
               /\ j # p => u[j].children = t[j].children
      BY <3>1, AttachIs
    <3> HIDE DEF u
    <3> QED
      BY <3>2
  <2> HIDE DEF u
  <2>2. Fed(u, i)
    BY <1>3, <2>1 DEF Fed
  <2>3. ASSUME NEW j \in DOMAIN t, Fed(t, j), j # i, u[j].parent # Relay
        PROVE  \E h \in DOMAIN u : /\ u[h].addr = u[j].parent
                                   /\ u[j].addr \in Range(u[h].children)
    <3>1. PICK h \in DOMAIN t : /\ t[h].addr = t[j].parent
                                /\ t[j].addr \in Range(t[h].children)
      BY <2>1, <2>3 DEF Fed
    <3>2. Range(t[h].children) \subseteq Range(u[h].children)
      BY <2>1
    <3> QED
      BY <2>1, <2>3, <3>1, <3>2
  <2>4. \A j \in DOMAIN t : Fed(t, j) => Fed(u, j)
    BY <2>2, <2>3 DEF Fed
  <2> QED
    BY <2>1, <2>2, <2>4 DEF u
<1> QED
  BY <1>2, <1>3

\* So does moving an orphan.
LEMMA MoveOrphanFeeds ==
    ASSUME NEW t \in Trees, NEW o, NEW barred
    PROVE  LET u == MoveOrphan(t, o, barred)
           IN  /\ FeedsOn(t, u)
               /\ \A j \in DOMAIN t : t[j].addr = o => Fed(u, j)
<1> DEFINE i == IndexOf(t, o)
           skip == {i, IndexOf(t, barred)}
           p == BestParent(t, skip)
<1>1. /\ i = 0 <=> \A j \in DOMAIN t : t[j].addr # o
      /\ i # 0 => i \in DOMAIN t /\ t[i].addr = o
  <2>1. t \in Seq(AnyNode)
    BY DEF Trees
  <2> QED
    BY <2>1, IndexFinds
<1>2. p # 0 => p \in DOMAIN t \ {i}
  <2>1. p # 0 => p \in DOMAIN t \ skip
    BY BestParentFits
  <2> HIDE DEF p
  <2> QED
    BY <2>1
<1>3. MoveOrphan(t, o, barred) = IF i = 0 THEN t ELSE Attach(t, i, p)
  BY DEF MoveOrphan
<1> HIDE DEF i, p, skip
<1>4. CASE i = 0
  BY <1>1, <1>3, <1>4 DEF FeedsOn, SameNodes
<1>5. CASE i # 0
  <2> DEFINE u == Attach(t, i, p)
  <2>1. /\ DOMAIN u = DOMAIN t
        /\ \A j \in DOMAIN t : u[j].addr = t[j].addr
        /\ Fed(u, i)
        /\ \A j \in DOMAIN t : Fed(t, j) => Fed(u, j)
    BY <1>1, <1>2, <1>5, AttachFeeds
  <2>2. \A j \in DOMAIN t : t[j].addr = o => j = i
    BY <1>1, <1>5, TreesHave DEF Unique
  <2> HIDE DEF u
  <2> QED
    BY <1>3, <1>5, <2>1, <2>2 DEF FeedsOn, SameNodes, u
<1> QED
  BY <1>4, <1>5

\* Once all orphans are moved, all of them are fed.
LEMMA ReassignFeeds ==
    ASSUME NEW t \in Trees, NEW orphans \in Seq(Addrs), NEW barred, NEW ex,
           AllFed(t, ex \cup Range(orphans))
    PROVE  AllFed(Reassign(t, orphans, barred), ex)
<1> DEFINE n == Len(orphans)
           g == MovedUpTo(t, orphans, barred)
           Ok(k) == /\ FeedsOn(t, g[k])
                    /\ \A h \in 1..k : \A j \in DOMAIN t :
                         t[j].addr = orphans[h] => Fed(g[k], j)
           T == {k \in 0..n : Ok(k)}
<1>1. /\ n \in Nat /\ g[0] = t
      /\ \A k \in 1..n : g[k] = MoveOrphan(g[k - 1], orphans[k], barred)
      /\ \A k \in 0..n : g[k] \in Trees /\ SameNodes(t, g[k])
  BY ReassignSteps
<1>2. Reassign(t, orphans, barred) = g[n]
  BY DEF Reassign
<1> HIDE DEF g, n
<1>3. 0 \in T
  BY <1>1 DEF FeedsOn, SameNodes
<1>4. ASSUME NEW k \in 1..n, k - 1 \in T PROVE k \in T
  <2> DEFINE v == g[k - 1]
             u == g[k]
  <2>1. v \in Trees /\ u = MoveOrphan(v, orphans[k], barred) /\ SameNodes(t, v) /\ Ok(k - 1)
    BY <1>1, <1>4
  <2>2. /\ FeedsOn(v, u)
        /\ \A j \in DOMAIN v : v[j].addr = orphans[k] => Fed(u, j)
    <3> HIDE DEF v, u
    <3> QED
      BY <2>1, MoveOrphanFeeds
  <2>3. \A h \in 1..k : h = k \/ h \in 1..(k - 1)
    OBVIOUS
  <2> HIDE DEF v, u
  <2>4. FeedsOn(t, v) /\ \A h \in 1..(k - 1) : \A j \in DOMAIN t :
                           t[j].addr = orphans[h] => Fed(v, j)
    BY <2>1 DEF v
  <2>5. FeedsOn(t, u)
    BY <2>2, <2>4 DEF FeedsOn, SameNodes
  <2>6. \A h \in 1..k : \A j \in DOMAIN t : t[j].addr = orphans[h] => Fed(u, j)
    BY <2>1, <2>2, <2>3, <2>4 DEF FeedsOn, SameNodes
  <2> QED
    BY <2>5, <2>6 DEF u
<1>5. Ok(n)
  <2> HIDE DEF T
  <2>1. 0..n \subseteq T
    BY <1>1, <1>3, <1>4, UpTo
  <2> QED
    BY <1>1, <2>1 DEF T
<1>6. ASSUME NEW j \in DOMAIN g[n], g[n][j].addr \notin ex PROVE Fed(g[n], j)
  <2>1. j \in DOMAIN t /\ t[j].addr \notin ex
    BY <1>5, <1>6 DEF FeedsOn, SameNodes
  <2>2. CASE t[j].addr \in Range(orphans)
    <3>1. PICK h \in 1..n : orphans[h] = t[j].addr
      BY <2>2 DEF Range, n
    <3> QED
      BY <1>5, <2>1, <3>1
  <2>3. CASE t[j].addr \notin Range(orphans)
    BY <1>5, <2>1, <2>3 DEF AllFed, FeedsOn
  <2> QED
    BY <2>2, <2>3
<1> QED
  BY <1>2, <1>6 DEF AllFed

\* Forgetting an address touches no other entry of a child list.
LEMMA UnlistedLeaves ==
    ASSUME NEW t \in Trees, NEW a
    PROVE  LET u == Unlisted(t, a)
           IN  \A j \in DOMAIN t :
                 /\ u[j].parent = t[j].parent
                 /\ Range(t[j].children) \ {a} \subseteq Range(u[j].children)
<1> DEFINE listed == {i \in DOMAIN t : a \in Range(t[i].children)}
           m == Min(listed)
           u == Unlisted(t, a)
<1>1. \A j \in DOMAIN t : t[j] \in AnyNode
  BY TreesHave
<1>2. CASE listed = {}
  BY <1>2 DEF Unlisted
<1>3. CASE listed # {}
  <2> DEFINE c == t[m].children
             d == Erased(c, {a})
  <2>1. u = [t EXCEPT ![m].children = d]
    BY <1>3 DEF Unlisted
  <2>2. m \in DOMAIN t
    <3>1. listed \subseteq Nat /\ listed \subseteq DOMAIN t
      BY TreesHave
    <3> HIDE DEF listed
    <3> QED
      BY <1>3, <3>1, MinIsLeast
  <2>3. c \in Seq(Addrs)
    BY <1>1, <2>2 DEF AnyNode
  <2> HIDE DEF m, c
  <2>4. Range(d) = Range(c) \ {a}
    BY <2>3, ErasedIsRest
  <2> HIDE DEF d
  <2>5. u[m].parent = t[m].parent /\ u[m].children = d
    BY <1>1, <2>1, <2>2 DEF AnyNode
  <2>6. \A j \in DOMAIN t \ {m} : u[j] = t[j]
    BY <2>1
  <2> HIDE DEF u
  <2>7. ASSUME NEW j \in DOMAIN t
        PROVE  /\ u[j].parent = t[j].parent
               /\ Range(t[j].children) \ {a} \subseteq Range(u[j].children)
    <3>1. CASE j = m
      BY <2>4, <2>5, <3>1 DEF c
    <3>2. CASE j # m
      BY <2>6, <3>2
    <3> QED
      BY <3>1, <3>2
  <2> QED
    BY <2>7 DEF u
<1> QED
  BY <1>2, <1>3

\* Taking a client out leaves everyone fed but its own children.
LEMMA CutFeeds ==
    ASSUME NEW t \in Trees, NEW r \in DOMAIN t, NEW ex, AllFed(t, ex)
    PROVE  LET u == RemoveAt(Unlisted(t, t[r].addr), r)
           IN  u \in Trees /\ AllFed(u, ex \cup Range(t[r].children))
<1> DEFINE a == t[r].addr
           n == Len(t)
           listless == Unlisted(t, a)
           u == RemoveAt(listless, r)
           was(j) == IF j < r THEN j ELSE j + 1
           now(j) == IF j < r THEN j ELSE j - 1
<1>1. n \in Nat /\ DOMAIN t = 1..n /\ Unique(t) /\ r \in 1..n
  BY TreesHave
<1>2. listless \in Trees /\ SameNodes(t, listless)
  BY UnlistedKeeps
<1>3. \A j \in DOMAIN t :
        /\ listless[j].parent = t[j].parent
        /\ Range(t[j].children) \ {a} \subseteq Range(listless[j].children)
  BY UnlistedLeaves, Zenon
<1> HIDE DEF listless, a
<1>4. DOMAIN listless = 1..n /\ Len(listless) = n
  BY <1>1, <1>2, TreesHave DEF SameNodes
<1>5. /\ u \in Trees /\ Len(u) = n - 1
      /\ \A j \in DOMAIN u : u[j] = IF j < r THEN listless[j] ELSE listless[j + 1]
  BY <1>1, <1>2, <1>4, RemoveAtKeeps
<1>6. DOMAIN u = 1..(n - 1)
  BY <1>5, TreesHave
<1> HIDE DEF u, n
<1>7. ASSUME NEW j \in DOMAIN u
      PROVE  /\ was(j) \in 1..n /\ was(j) # r /\ now(was(j)) = j
             /\ u[j] = listless[was(j)]
  BY <1>1, <1>5, <1>6
<1>8. ASSUME NEW i \in 1..n, i # r
      PROVE  now(i) \in DOMAIN u /\ was(now(i)) = i
  BY <1>1, <1>6, <1>8
<1> HIDE DEF was, now
<1>9. ASSUME NEW j \in DOMAIN u, u[j].addr \notin ex \cup Range(t[r].children),
             u[j].parent # Relay
      PROVE  \E h \in DOMAIN u : /\ u[h].addr = u[j].parent
                                 /\ u[j].addr \in Range(u[h].children)
  <2> DEFINE i == was(j)
  <2>1. i \in 1..n /\ i # r /\ u[j].addr = t[i].addr /\ u[j].parent = t[i].parent
    BY <1>1, <1>2, <1>3, <1>7 DEF SameNodes
  <2> HIDE DEF i
  <2>2. PICK k \in 1..n : /\ t[k].addr = t[i].parent
                          /\ t[i].addr \in Range(t[k].children)
    BY <1>1, <1>9, <2>1 DEF AllFed, Fed
  <2>3. k # r /\ t[i].addr # a
    BY <1>1, <1>9, <2>1, <2>2 DEF Unique, a
  <2> DEFINE h == now(k)
  <2>4. h \in DOMAIN u /\ u[h] = listless[k]
    BY <1>7, <1>8, <2>3
  <2> HIDE DEF h
  <2>5. listless[k].addr = t[k].addr /\ t[i].addr \in Range(listless[k].children)
    BY <1>1, <1>2, <1>3, <2>2, <2>3 DEF SameNodes
  <2> QED
    BY <2>1, <2>2, <2>4, <2>5
<1>10. AllFed(u, ex \cup Range(t[r].children))
  BY <1>9 DEF AllFed, Fed
<1> QED
  BY <1>5, <1>10 DEF u, listless, a

\* swarm_remove_member moves exactly those whom the departed client fed.
LEMMA RemoveMemberFeeds ==
    ASSUME NEW sw \in Swarms, NEW ms \in Rosters, NEW a, NEW ex,
           AllFed(sw.tree, ex)
    PROVE  AllFed(RemoveMember(sw, ms, a).tree, ex)
<1> DEFINE t == sw.tree
           r == IndexOf(t, a)
<1>1. t \in Trees /\ t \in Seq(AnyNode)
  BY DEF Swarms, Trees
<1>2. r # 0 => r \in DOMAIN t /\ t[r].addr = a
  BY <1>1, IndexFinds
<1>3. CASE ~sw.active \/ r = 0
  BY <1>3 DEF RemoveMember
<1>4. CASE ~(~sw.active \/ r = 0) /\ Len(ms) <= Threshold
  <2>1. RemoveMember(sw, ms, a) = Rebuild(ms)
    BY <1>4 DEF RemoveMember
  <2>2. Rebuild(ms).tree = <<>>
    BY <1>4 DEF Rebuild
  <2> QED
    BY <2>1, <2>2 DEF AllFed
<1>5. CASE ~(~sw.active \/ r = 0) /\ ~(Len(ms) <= Threshold)
  <2> DEFINE u == RemoveAt(Unlisted(t, a), r)
             w == Reassign(u, t[r].children, Relay)
  <2>1. RemoveMember(sw, ms, a) = [tree |-> w, active |-> TRUE]
    BY <1>5 DEF RemoveMember
  <2> HIDE DEF r, t
  <2>2. u \in Trees /\ AllFed(u, ex \cup Range(t[r].children))
    BY <1>1, <1>2, <1>5, CutFeeds DEF t
  <2>3. t[r].children \in Seq(Addrs)
    BY <1>1, <1>2, <1>5, TreesHave DEF AnyNode
  <2> HIDE DEF u
  <2>4. AllFed(w, ex)
    BY <2>2, <2>3, ReassignFeeds
  <2> QED
    BY <2>1, <2>4
<1> QED
  BY <1>3, <1>4, <1>5

\* So does the loop of cleanup_stale.
LEMMA CleanedFeeds ==
    ASSUME NEW sw \in Swarms, NEW ms \in Rosters, NEW stale, NEW ex,
           AllFed(sw.tree, ex)
    PROVE  AllFed(RemovedUpTo(sw, ms, stale)[Len(ms)].tree, ex)
<1> DEFINE n == Len(ms)
           g == RemovedUpTo(sw, ms, stale)
           T == {k \in 0..n : AllFed(g[k].tree, ex)}
<1>1. n \in Nat
  BY RostersHave
<1>2. /\ g \in [0..n -> Swarms] /\ g[0] = sw
      /\ \A k \in 1..n : g[k] = IF ms[k].addr \in stale
                                THEN RemoveMember(g[k - 1], ms, ms[k].addr)
                                ELSE g[k - 1]
  BY RemovedSteps
<1> HIDE DEF g, n
<1>3. 0 \in T
  BY <1>1, <1>2
<1>4. ASSUME NEW k \in 1..n, k - 1 \in T PROVE k \in T
  <2>1. g[k - 1] \in Swarms /\ AllFed(g[k - 1].tree, ex)
    BY <1>1, <1>2, <1>4
  <2>2. AllFed(RemoveMember(g[k - 1], ms, ms[k].addr).tree, ex)
    BY <2>1, RemoveMemberFeeds
  <2> QED
    BY <1>2, <2>1, <2>2
<1>5. n \in T
  <2> HIDE DEF T
  <2>1. 0..n \subseteq T
    BY <1>1, <1>3, <1>4, UpTo
  <2> QED
    BY <1>1, <2>1
<1> QED
  BY <1>5 DEF g, n

\* Everyone is fed but the clients whose parent PARENT_FAIL chose.
FedInv == AllFed(tree, failedOver)

\* The client that joins is fed, also when its join builds the tree.
LEMMA JoinFeeds ==
    ASSUME SwarmInv, FedInv, NEW a \in Addrs, Join(a)
    PROVE  FedInv'
<1> DEFINE ms == members'
<1>1. CASE active
  <2>1. PICK t, i, p : /\ Pushed(t, i, p) /\ SameNodes(ms, t)
                       /\ tree' = Attach(t, i, p)
    BY <1>1, JoinIs
  <2>2. /\ t \in Trees /\ i \in DOMAIN t /\ i \notin DOMAIN tree
        /\ DOMAIN t = DOMAIN tree \cup {i}
        /\ \A j \in DOMAIN tree : t[j] = tree[j]
        /\ p # 0 => p \in DOMAIN t \ {i}
    BY <2>1 DEF Pushed
  <2>3. /\ DOMAIN tree' = DOMAIN t
        /\ \A j \in DOMAIN t : tree'[j].addr = t[j].addr
        /\ Fed(tree', i)
        /\ \A j \in DOMAIN t : Fed(t, j) => Fed(tree', j)
    BY <2>1, <2>2, AttachFeeds
  <2>4. failedOver' = failedOver \ {a}
    BY <1>1 DEF Join
  <2>5. \A j \in DOMAIN tree : t[j].addr # a
    <3>1. \A j \in DOMAIN members : members[j].addr # a
      BY DEF Join, Enlisted
    <3> QED
      BY <1>1, <2>2, <3>1 DEF SwarmInv, SameNodes
  <2>6. ASSUME NEW j \in DOMAIN tree, t[j].addr \notin failedOver PROVE Fed(t, j)
    BY <2>2, <2>6 DEF FedInv, AllFed, Fed
  <2>7. AllFed(tree', failedOver')
    BY <2>2, <2>3, <2>4, <2>5, <2>6 DEF AllFed
  <2> QED
    BY <2>7 DEF FedInv, AllFed, Fed
<1>2. CASE ~active
  <2>1. ms \in Rosters /\ tree' = Rebuild(ms).tree /\ Len(ms) \in Nat
    BY <1>2, JoinIs
  <2> HIDE DEF ms
  <2>2. Shape(tree')
    <3>1. CASE Len(ms) <= Threshold
      <4>1. tree' = <<>>
        BY <2>1, <3>1 DEF Rebuild
      <4> QED
        BY <4>1, EmptyHasShape
    <3>2. CASE ~(Len(ms) <= Threshold)
      <4>1. tree' = Rebuilt(ms)
        BY <2>1, <3>2 DEF Rebuild
      <4>2. Len(ms) >= 1
        BY <2>1, <3>2, SwarmAssumption
      <4> QED
        BY <2>1, <4>1, <4>2, RebuiltHasShape
    <3> QED
      BY <3>1, <3>2
  <2>3. AllFed(tree', failedOver')
    BY <2>2 DEF AllFed, Fed, Shape, NodeShape
  <2> QED
    BY <2>3 DEF FedInv, AllFed, Fed
<1> QED
  BY <1>1, <1>2 DEF SwarmInv

\* Those that a departed client fed are fed by others, one client at a time.
LEMMA LeaveFeeds ==
    ASSUME SwarmInv, FedInv, NEW a \in Addrs, Leave(a)
    PROVE  FedInv'
<1> DEFINE sw == [tree |-> tree, active |-> active]
<1>1. sw \in Swarms /\ members \in Rosters /\ AllFed(sw.tree, failedOver)
  BY DEF SwarmInv, Swarms, FedInv
<1>2. tree' = RemoveMember(sw, members, a).tree /\ failedOver' = failedOver
  BY DEF Leave
<1> HIDE DEF sw
<1>3. AllFed(tree', failedOver')
  BY <1>1, <1>2, RemoveMemberFeeds
<1> QED
  BY <1>3 DEF FedInv, AllFed, Fed

\* Or several at a time.
LEMMA CleanupFeeds ==
    ASSUME SwarmInv, FedInv, NEW stale, Cleanup(stale)
    PROVE  FedInv'
<1> DEFINE sw == [tree |-> tree, active |-> active]
           now == RemovedUpTo(sw, members, stale)[Len(members)]
           left == Erased(members, OnesAt(members, stale))
<1>1. sw \in Swarms /\ members \in Rosters /\ AllFed(sw.tree, failedOver)
  BY DEF SwarmInv, Swarms, FedInv
<1>2. tree' = (IF left = <<>> THEN <<>> ELSE now.tree) /\ failedOver' = failedOver
  BY DEF Cleanup
<1>3. AllFed(now.tree, failedOver)
  <2> HIDE DEF sw
  <2> QED
    BY <1>1, CleanedFeeds
<1> HIDE DEF sw, now, left
<1>4. AllFed(<<>>, failedOver)
  BY DEF AllFed
<1>5. AllFed(tree', failedOver')
  BY <1>2, <1>3, <1>4
<1> QED
  BY <1>5 DEF FedInv, AllFed, Fed

\* Flags say nothing about who feeds whom, and mediation hands clients to the
\* relay.
LEMMA FlagsFeed ==
    ASSUME SwarmInv, FedInv, NEW a \in Addrs, SwarmReady(a) \/ SwarmMediated(a)
    PROVE  FedInv'
<1>1. \A j \in DOMAIN tree : tree[j] \in AnyNode
  BY TreesHave DEF SwarmInv
<1>2. failedOver' = failedOver
  BY DEF SwarmReady, SwarmMediated
<1>3. /\ DOMAIN tree' = DOMAIN tree
      /\ \A j \in DOMAIN tree : /\ tree'[j].addr = tree[j].addr
                                /\ tree'[j].children = tree[j].children
                                /\ tree'[j].parent \in {tree[j].parent, Relay}
  <2>1. CASE SwarmReady(a)
    <3> DEFINE i == IndexOf(tree, a)
    <3>1. tree' = [tree EXCEPT ![i].capable = TRUE]
      BY <2>1 DEF SwarmReady
    <3> HIDE DEF i
    <3> QED
      BY <1>1, <3>1 DEF AnyNode
  <2>2. CASE SwarmMediated(a)
    <3> DEFINE i == IndexOf(tree, a)
               kids == {IndexOf(tree, c) : c \in Range(tree[i].children)} \ {0}
    <3>1. tree' = [j \in DOMAIN tree |->
                     [tree[j] EXCEPT
                        !.capable  = @ \/ j = i,
                        !.mediated = @ \/ j = i,
                        !.parent   = IF j \in kids THEN Relay ELSE @]]
      BY <2>2 DEF SwarmMediated
    <3> HIDE DEF i, kids
    <3> QED
      BY <1>1, <3>1 DEF AnyNode
  <2> QED
    BY <2>1, <2>2
<1>4. AllFed(tree', failedOver')
  BY <1>2, <1>3 DEF FedInv, AllFed, Fed
<1> QED
  BY <1>4 DEF FedInv, AllFed, Fed

\* A client that declines gives up exactly those that are moved next.
LEMMA UnableFeeds ==
    ASSUME SwarmInv, FedInv, NEW a \in Addrs, SwarmUnable(a)
    PROVE  FedInv'
<1> DEFINE i == IndexOf(tree, a)
           t == [tree EXCEPT ![i].capable = FALSE, ![i].mediated = FALSE,
                             ![i].children = <<>>]
           orphans == tree[i].children
<1>1. /\ i # 0 /\ tree' = Reassign(t, orphans, a) /\ failedOver' = failedOver
  BY DEF SwarmUnable
<1>2. /\ tree \in Trees /\ tree \in Seq(AnyNode)
      /\ \A j \in DOMAIN tree : tree[j] \in AnyNode /\ NodeSound(tree[j])
  BY TreesHave DEF SwarmInv, Trees
<1>3. i \in DOMAIN tree
  BY <1>1, <1>2, IndexFinds
<1> HIDE DEF i
<1>4. /\ t[i].addr = tree[i].addr /\ t[i].parent = tree[i].parent
      /\ t[i].children = <<>> /\ t[i] \in AnyNode
  <2> DEFINE x == tree[i]
             none == <<>>
  <2>1. none \in Seq(Addrs) /\ x \in AnyNode
    BY <1>2, <1>3
  <2>2. t[i] = [x EXCEPT !.capable = FALSE, !.mediated = FALSE, !.children = none]
    BY <1>3, <2>1 DEF AnyNode
  <2> HIDE DEF none, x, t
  <2>3. /\ t[i] \in AnyNode /\ t[i].addr = x.addr /\ t[i].parent = x.parent
        /\ t[i].children = none
    BY <2>1, <2>2 DEF AnyNode
  <2> QED
    BY <2>3 DEF x, none
<1>5. /\ DOMAIN t = DOMAIN tree /\ t = [j \in DOMAIN t |-> t[j]]
      /\ \A j \in DOMAIN tree : j # i => t[j] = tree[j]
  OBVIOUS
<1> HIDE DEF t
<1>6. t \in Trees
  <2>1. Len(<<>>) <= FanOut /\ Range(<<>>) = {}
    BY SwarmAssumption DEF Range
  <2>2. NodeSound(t[i])
    BY <1>2, <1>3, <1>4, <2>1 DEF NodeSound
  <2>3. \A j \in DOMAIN tree : /\ t[j] \in AnyNode /\ NodeSound(t[j])
                               /\ t[j].addr = tree[j].addr
    BY <1>2, <1>4, <1>5, <2>2
  <2> QED
    BY <1>2, <1>5, <2>3, ChangedNodes
<1>7. ASSUME NEW j \in DOMAIN t, t[j].addr \notin failedOver \cup Range(orphans)
      PROVE  Fed(t, j)
  <2>1. t[j].addr = tree[j].addr /\ t[j].parent = tree[j].parent /\ Fed(tree, j)
    BY <1>4, <1>5, <1>7 DEF FedInv, AllFed
  <2>2. ASSUME t[j].parent # Relay
        PROVE  \E h \in DOMAIN t : /\ t[h].addr = t[j].parent
                                   /\ t[j].addr \in Range(t[h].children)
    <3>1. PICK h \in DOMAIN tree : /\ tree[h].addr = tree[j].parent
                                   /\ tree[j].addr \in Range(tree[h].children)
      BY <2>1, <2>2 DEF Fed
    <3>2. h # i
      BY <1>7, <2>1, <3>1
    <3> QED
      BY <1>5, <2>1, <3>1, <3>2
  <2> QED
    BY <2>2 DEF Fed
<1>8. orphans \in Seq(Addrs)
  BY <1>2, <1>3 DEF AnyNode
<1> HIDE DEF orphans
<1>9. AllFed(t, failedOver \cup Range(orphans))
  BY <1>7 DEF AllFed
<1>10. AllFed(tree', failedOver')
  BY <1>1, <1>6, <1>8, <1>9, ReassignFeeds
<1> QED
  BY <1>10 DEF FedInv, AllFed, Fed

\* A client that lost its feed is attached twice: to the relay, then below
\* its new parent.
LEMMA LostFeeds ==
    ASSUME SwarmInv, FedInv, NEW a \in Addrs, NEW b \in Addrs, SwarmLost(a, b)
    PROVE  FedInv'
<1> DEFINE i == IndexOf(tree, a)
           t == [tree EXCEPT ![i].depth = 0, ![i].parent = Relay]
           skip == {i, IndexOf(t, b)}
           p == BestParent(t, skip)
<1>1. i # 0 /\ tree' = Attach(t, i, p) /\ failedOver' = failedOver
  BY DEF SwarmLost
<1>2. tree \in Trees /\ tree \in Seq(AnyNode)
  BY DEF SwarmInv, Trees
<1>3. i \in DOMAIN tree
  BY <1>1, <1>2, IndexFinds
<1>4. t = Attach(tree, i, 0)
  BY DEF Attach
<1> HIDE DEF t, i
<1>5. /\ t \in Trees /\ DOMAIN t = DOMAIN tree
      /\ \A j \in DOMAIN tree : t[j].addr = tree[j].addr
      /\ \A j \in DOMAIN tree : Fed(tree, j) => Fed(t, j)
  BY <1>2, <1>3, <1>4, AttachKeeps, AttachFeeds
<1>6. p # 0 => p \in DOMAIN t \ {i}
  <2>1. p # 0 => p \in DOMAIN t \ skip
    BY <1>5, BestParentFits
  <2> HIDE DEF p
  <2> QED
    BY <2>1
<1> HIDE DEF p
<1>7. /\ DOMAIN tree' = DOMAIN t
      /\ \A j \in DOMAIN t : tree'[j].addr = t[j].addr
      /\ \A j \in DOMAIN t : Fed(t, j) => Fed(tree', j)
  BY <1>1, <1>3, <1>5, <1>6, AttachFeeds
<1>8. AllFed(tree', failedOver')
  BY <1>1, <1>5, <1>7 DEF FedInv, AllFed
<1> QED
  BY <1>8 DEF FedInv, AllFed, Fed

\* PARENT_FAIL changes one parent, and notes whose.
LEMMA FailFeeds ==
    ASSUME SwarmInv, FedInv, NEW a \in Addrs, NEW b \in Addrs, ParentFail(a, b)
    PROVE  FedInv'
<1> DEFINE i == IndexOf(members, a)
           room == {j \in DOMAIN members \ {i} : Len(tree[j].children) < FanOut}
           p == Min(room)
<1>1. /\ active /\ i # 0 /\ failedOver' = failedOver \cup {a}
      /\ tree' = [tree EXCEPT ![i].parent = tree[p].addr]
  BY DEF ParentFail
<1>2. members \in Seq(Member) /\ SameNodes(members, tree) /\ tree \in Trees
  BY <1>1 DEF SwarmInv, Rosters
<1>3. i \in DOMAIN tree /\ tree[i].addr = a
  <2>1. i \in DOMAIN members /\ members[i].addr = a
    BY <1>1, <1>2, IndexFinds
  <2> QED
    BY <1>2, <2>1 DEF SameNodes
<1> HIDE DEF i, p, room
<1>4. \A j \in DOMAIN tree : tree[j] \in AnyNode
  BY <1>2, TreesHave
<1>5. /\ DOMAIN tree' = DOMAIN tree
      /\ \A j \in DOMAIN tree : /\ tree'[j].addr = tree[j].addr
                                /\ tree'[j].children = tree[j].children
                                /\ j # i => tree'[j].parent = tree[j].parent
  BY <1>1, <1>4 DEF AnyNode
<1>6. AllFed(tree', failedOver')
  BY <1>1, <1>3, <1>5 DEF FedInv, AllFed, Fed
<1> QED
  BY <1>6 DEF FedInv, AllFed, Fed

\* No fan-out is exceeded, no large group is fed by the relay alone, nobody
\* is fed by itself; and whoever listens to another client is fed by it,
\* unless PARENT_FAIL sent it there.
THEOREM SwarmForwardsSoundly == Spec => []ForwardingSound
<1>1. Init => FedInv
  BY DEF Init, FedInv, AllFed
<1>2. SwarmInv /\ FedInv /\ [Next]_vars => FedInv'
  <2> SUFFICES ASSUME SwarmInv, FedInv, [Next]_vars PROVE FedInv'
    OBVIOUS
  <2>1. ASSUME NEW a \in Addrs, Join(a) \/ Leave(a) PROVE FedInv'
    BY <2>1, JoinFeeds, LeaveFeeds
  <2>2. ASSUME NEW stale \in SUBSET Addrs, Cleanup(stale) PROVE FedInv'
    BY <2>2, CleanupFeeds
  <2>3. ASSUME NEW a \in Addrs, SwarmReady(a) \/ SwarmMediated(a) \/ SwarmUnable(a)
        PROVE  FedInv'
    BY <2>3, FlagsFeed, UnableFeeds
  <2>4. ASSUME NEW a \in Addrs, NEW b \in Addrs, SwarmLost(a, b) \/ ParentFail(a, b)
        PROVE  FedInv'
    BY <2>4, LostFeeds, FailFeeds
  <2>5. CASE UNCHANGED vars
    BY <2>5, Zenon DEF vars, FedInv, AllFed, Fed
  <2> QED
    BY <2>1, <2>2, <2>3, <2>4, <2>5 DEF Next
<1>3. SwarmInv /\ FedInv => ForwardingSound
  <2> SUFFICES ASSUME SwarmInv, FedInv PROVE ForwardingSound
    OBVIOUS
  <2>1. tree \in Trees /\ LargeGroupIsSwarm
    BY DEF SwarmInv
  <2>2. Unique(tree) /\ \A i \in DOMAIN tree : tree[i] \in AnyNode /\ NodeSound(tree[i])
    BY <2>1, TreesHave
  <2>3. FanOutRespected /\ NoSelfForwarding
    BY <2>2 DEF FanOutRespected, NoSelfForwarding, NodeSound
  <2>4. ParentsFeed
    BY DEF ParentsFeed, FedInv, AllFed, Fed
  <2>5. ASSUME NEW i \in DOMAIN tree, ~tree[i].capable
        PROVE  /\ tree[i].children = <<>>
               /\ \A j \in DOMAIN tree :
                    tree[j].parent = tree[i].addr => tree[j].addr \in failedOver
    <3>1. tree[i].children = <<>>
      BY <2>2, <2>5 DEF NodeSound
    <3>2. ASSUME NEW j \in DOMAIN tree, tree[j].parent = tree[i].addr,
                 tree[j].addr \notin failedOver
          PROVE  FALSE
      <4>1. tree[j].parent # Relay
        BY <2>2, <3>2, SwarmAssumption DEF AnyNode
      <4>2. PICK k \in DOMAIN tree : /\ tree[k].addr = tree[j].parent
                                     /\ tree[j].addr \in Range(tree[k].children)
        BY <2>4, <3>2, <4>1 DEF ParentsFeed
      <4>3. k = i
        BY <2>2, <3>2, <4>2 DEF Unique
      <4> QED
        BY <3>1, <4>2, <4>3 DEF Range
    <3> QED
      BY <3>1, <3>2
  <2>6. LeafOnlyFeedsNobody
    BY <2>5 DEF LeafOnlyFeedsNobody
  <2> QED
    BY <2>1, <2>3, <2>4, <2>6 DEF ForwardingSound
<1> QED
  BY <1>1, <1>2, <1>3, SwarmInvariant, PTL DEF Spec
=============================================================================
