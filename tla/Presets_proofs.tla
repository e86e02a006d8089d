--------------------------- MODULE Presets_proofs ---------------------------
(* Theorems about Presets for any presets, commands, agents and failures.   *)
EXTENDS Presets, FiniteSetTheorems, SequenceTheorems, WellFoundedInduction, TLAPS

-----------------------------------------------------------------------------
(* Sequences *)

LEMMA Smallest ==
  ASSUME NEW X \in SUBSET Nat, X # {}
  PROVE  \E x \in X : \A y \in X : x <= y
<1>1. \E x \in X : \A y \in X : ~ (<<y, x>> \in OpToRel(<, Nat))
  BY NatLessThanWellFounded, WFMin
<1>2. PICK x \in X : \A y \in X : ~ (<<y, x>> \in OpToRel(<, Nat))
  BY <1>1
<1>3. ASSUME NEW y \in X PROVE x <= y
  <2>1. ~ (<<y, x>> \in {ss \in Nat \X Nat : ss[1] < ss[2]})
    BY <1>2 DEF OpToRel
  <2>2. ~ (y < x)
    BY <2>1
  <2> QED BY <2>2
<1> QED BY <1>3

\* The enumeration of a finite set has its elements.
LEMMA SetToSeqIn ==
  ASSUME NEW X, IsFiniteSet(X)
  PROVE  SetToSeq(X) \in Seq(X) /\ Range(SetToSeq(X)) = X
<1>1. Cardinality(X) \in Nat /\ ExistsBijection(1 .. Cardinality(X), X)
  BY FS_CardinalityType
<1> DEFINE D == 1 .. Cardinality(X)
           e == SetToSeq(X)
<1>2. \E b \in [D -> X] : IsInjective(b)
  BY <1>1 DEF ExistsBijection, Bijection, Injection
<1>3. e \in [D -> X] /\ IsInjective(e)
  <2>1. e = CHOOSE b \in [D -> X] : IsInjective(b)
    BY DEF SetToSeq
  <2> HIDE DEF D, e
  <2> QED BY <1>2, <2>1
<1>4. e \in Seq(X)
  BY <1>1, <1>3
<1>5. Range(e) = X
  <2>1. e \in Injection(D, X)
    BY <1>3 DEF Injection
  <2>2. IsFiniteSet(D) /\ Cardinality(D) = Cardinality(X)
    BY <1>1, FS_Interval
  <2>3. e \in Surjection(D, X)
    BY <2>1, <2>2, FS_Injection
  <2> QED BY <1>3, <2>3 DEF Surjection, Range
<1> QED BY <1>4, <1>5

\* What holds of every part and goes over to a concatenation holds of the whole.
LEMMA FlattenIn ==
  ASSUME NEW G, <<>> \in G, \A s, t \in G : s \o t \in G, NEW ss \in Seq(G)
  PROVE  FlattenSeq(ss) \in G
<1>1. CASE ss = <<>>
  BY <1>1 DEF FlattenSeq
<1>2. CASE ss # <<>>
  <2>1. Len(ss) \in Nat \ {0} /\ \A i \in 1 .. Len(ss) : ss[i] \in G
    BY <1>2, EmptySeq, ElementOfSeq
  <2> DEFINE D == 1 .. Len(ss)
             F(h, i) == IF i = 1 THEN ss[i] ELSE h[i - 1] \o ss[i]
             f == CHOOSE h : h = [i \in D |-> F(h, i)]
  <2>2. FlattenSeq(ss) = f[Len(ss)]
    BY <2>1 DEF FlattenSeq
  <2> DEFINE Upto(n) == \E h : h = [i \in 1 .. n |-> F(h, i)]
             without == {n \in D : ~ Upto(n)}
  <2>3. without = {}
    <3> SUFFICES ASSUME without # {} PROVE FALSE
      OBVIOUS
    <3>0. without \in SUBSET Nat
      <4> HIDE DEF Upto
      <4> QED BY <2>1
    <3>1. PICK n \in without : \A k \in without : n <= k
      <4> HIDE DEF without
      <4> QED BY <3>0, Smallest
    <3>2. n # 1
      <4>1. [i \in 1 .. 1 |-> ss[1]] = [i \in 1 .. 1 |-> F([k \in 1 .. 1 |-> ss[1]], i)]
        OBVIOUS
      <4> QED BY <4>1
    <3>3. n \in D /\ n - 1 \in D /\ n - 1 \notin without
      <4> HIDE DEF Upto
      <4> QED BY <2>1, <3>1, <3>2
    <3>4. PICK g : g = [i \in 1 .. n - 1 |-> F(g, i)]
      BY <3>3
    <3>4a. \A i \in 1 .. n - 1 : g[i] = F(g, i)
      BY <3>4
    <3> DEFINE h == [i \in 1 .. n |-> IF i = n THEN g[n - 1] \o ss[n] ELSE g[i]]
    <3>5. \A i \in 1 .. n : h[i] = F(h, i)
      <4> TAKE i \in 1 .. n
      <4>1. n \in Nat /\ n > 1
        BY <2>1, <3>2, <3>3
      <4>2. CASE i = n
        <5>0. n \in 1 .. n /\ n - 1 \in 1 .. n /\ n - 1 # n
          BY <4>1
        <5>1. h[n] = g[n - 1] \o ss[n]
          BY <5>0
        <5>2. h[n - 1] = g[n - 1]
          BY <5>0
        <5> QED BY <3>2, <4>2, <5>1, <5>2
      <4>3. CASE i < n
        <5>1. i \in 1 .. n - 1
          BY <4>1, <4>3
        <5>0. h[i] = g[i] /\ g[i] = F(g, i)
          BY <4>1, <4>3, <5>1, <3>4a
        <5>2. i # 1 => h[i - 1] = g[i - 1]
          BY <4>1, <4>3
        <5> QED BY <5>0, <5>2
      <4> QED BY <4>1, <4>2, <4>3
    <3>6. h = [i \in 1 .. n |-> F(h, i)]
      <4> DEFINE k == [i \in 1 .. n |-> F(h, i)]
      <4>1. k = [i \in 1 .. n |-> h[i]]
        BY <3>5
      <4> QED BY <4>1
    <3>7. Upto(n)
      BY <3>6
    <3> QED BY <3>1, <3>7
  <2>4. Upto(Len(ss))
    <3> HIDE DEF Upto
    <3> QED BY <2>1, <2>3
  <2>5. f = [i \in D |-> F(f, i)]
    BY <2>4
  <2>6. \A i \in D : f[i] = F(f, i)
    <3> HIDE DEF f
    <3> QED BY <2>5
  <2> HIDE DEF f
  <2> DEFINE outside == {i \in D : f[i] \notin G}
  <2>7. outside = {}
    <3> SUFFICES ASSUME outside # {} PROVE FALSE
      OBVIOUS
    <3>0. outside \in SUBSET Nat
      BY <2>1
    <3>1. PICK n \in outside : \A k \in outside : n <= k
      <4> HIDE DEF outside
      <4> QED BY <3>0, Smallest
    <3>2. n \in Nat \ {0} /\ n \in D
      BY <2>1
    <3>3. n = 1 \/ (n - 1 \in D /\ f[n - 1] \in G)
      BY <2>1, <3>1, <3>2
    <3> QED BY <2>1, <2>6, <3>2, <3>3
  <2> QED BY <2>1, <2>2, <2>7
<1> QED BY <1>1, <1>2

-----------------------------------------------------------------------------
(* The stack *)

Ranks == \A p \in Presets : reg[p].prio \in Nat
Sortable(S) == \E s \in SetToSeqs(S) : InOrder(s)

LEMMA PrecedesOrders ==
  ASSUME Ranks, NEW p \in Presets, NEW q \in Presets, NEW r \in Presets
  PROVE  /\ Precedes(p, q) /\ Precedes(q, r) => Precedes(p, r)
         /\ p # q /\ ~ Precedes(p, q) => Precedes(q, p)
<1>1. {p, q, r} \subseteq Nat /\ {reg[p].prio, reg[q].prio, reg[r].prio} \subseteq Nat
  BY PresetsAssumption DEF Ranks
<1> QED BY <1>1 DEF Precedes

\* One more preset finds its place in a sorted list.
LEMMA InsertSorted ==
  ASSUME Ranks, NEW S \in SUBSET Presets, NEW p \in S, Sortable(S \ {p})
  PROVE  Sortable(S)
<1> DEFINE n == Cardinality(S)
<1>1. IsFiniteSet(S) /\ n \in Nat \ {0} /\ Cardinality(S \ {p}) = n - 1
  <2>1. IsFiniteSet(S)
    BY PresetsAssumption, FS_Subset
  <2>2. n \in Nat /\ Cardinality(S \ {p}) = n - 1
    BY <2>1, FS_CardinalityType, FS_RemoveElement
  <2>3. n # 0
    BY <2>1, FS_EmptySet
  <2> QED BY <2>1, <2>2, <2>3
<1>2. PICK s \in SetToSeqs(S \ {p}) : InOrder(s)
  BY DEF Sortable
<1> HIDE DEF n
<1>3. /\ s \in [1 .. n - 1 -> S \ {p}]
      /\ \A i, j \in 1 .. n - 1 : i # j => s[i] # s[j]
  BY <1>1 DEF SetToSeqs
<1> DEFINE places == {i \in 1 .. n : i = n \/ Precedes(p, s[i])}
<1>4. places \in SUBSET Nat /\ n \in places
  BY <1>1
<1>5. PICK k \in places : \A i \in places : k <= i
  <2> HIDE DEF places
  <2> QED BY <1>4, Smallest
<1>6. k \in 1 .. n /\ (k = n \/ Precedes(p, s[k])) /\ \A i \in 1 .. k - 1 : ~ Precedes(p, s[i])
  <2>1. k \in 1 .. n /\ (k = n \/ Precedes(p, s[k]))
    OBVIOUS
  <2>2. ASSUME NEW i \in 1 .. k - 1 PROVE ~ Precedes(p, s[i])
    <3>1. i \in 1 .. n /\ ~ (k <= i)
      BY <2>1, <1>1
    <3>2. i \notin places
      <4> HIDE DEF places
      <4> QED BY <3>1, <1>5
    <3> QED BY <3>1, <3>2
  <2> QED BY <2>1, <2>2
<1> HIDE DEF places
<1> DEFINE t == [i \in 1 .. n |-> IF i < k THEN s[i] ELSE IF i = k THEN p ELSE s[i - 1]]
<1>7. /\ \A i \in 1 .. n : i < k => i \in 1 .. n - 1 /\ i \in 1 .. k - 1 /\ t[i] = s[i]
      /\ \A i \in 1 .. n : i > k => i - 1 \in 1 .. n - 1 /\ i - 1 >= k /\ t[i] = s[i - 1]
      /\ t[k] = p
  BY <1>1, <1>6
<1>8. t \in SetToSeqs(S)
  <2>1. \A i \in 1 .. n : t[i] \in S
    <3> HIDE DEF t
    <3> TAKE i \in 1 .. n
    <3>1. i < k \/ i = k \/ i > k
      BY <1>1, <1>6
    <3> QED BY <3>1, <1>3, <1>7
  <2>2. t \in [1 .. n -> S]
    BY <2>1
  <2>3. ASSUME NEW i \in 1 .. n, NEW j \in 1 .. n, i # j PROVE t[i] # t[j]
    <3> HIDE DEF t
    <3>1. (i < k \/ i = k \/ i > k) /\ (j < k \/ j = k \/ j > k) /\ i \in Nat /\ j \in Nat
      BY <1>1, <1>6
    <3>2. \A m \in 1 .. n - 1 : s[m] # p
      BY <1>3
    <3>3. CASE i = k \/ j = k
      BY <3>1, <3>2, <3>3, <1>7, <2>3
    <3>4. CASE (i < k /\ j < k) \/ (i > k /\ j > k)
      BY <3>1, <3>4, <1>3, <1>7, <2>3
    <3>5. CASE (i < k /\ j > k) \/ (i > k /\ j < k)
      BY <3>1, <3>5, <1>1, <1>3, <1>6, <1>7
    <3> QED BY <3>1, <3>3, <3>4, <3>5
  <2> HIDE DEF t
  <2> QED BY <2>2, <2>3 DEF SetToSeqs, n
<1>9. InOrder(t)
  <2> SUFFICES ASSUME NEW i \in 1 .. n, NEW j \in 1 .. n, i < j PROVE Precedes(t[i], t[j])
    BY DEF InOrder
  <2> HIDE DEF t
  <2>0. Ranks /\ p \in Presets /\ \A m \in 1 .. n - 1 : s[m] \in Presets /\ s[m] # p
    BY <1>3
  <2>1. (i < k \/ i = k \/ i > k) /\ (j < k \/ j = k \/ j > k) /\ i \in Nat /\ j \in Nat /\ k \in Nat
    BY <1>1, <1>6
  <2>2. \A x, y \in 1 .. n - 1 : x < y => Precedes(s[x], s[y])
    BY <1>2, <1>3 DEF InOrder
  <2>3. \A m \in 1 .. n - 1 : m >= k => Precedes(p, s[m])
    <3> TAKE m \in 1 .. n - 1
    <3> HAVE m >= k
    <3>1. k \in 1 .. n - 1 /\ Precedes(p, s[k])
      BY <1>1, <1>6
    <3>2. m = k \/ Precedes(s[k], s[m])
      BY <3>1, <2>2
    <3> QED BY <3>1, <3>2, <2>0, PrecedesOrders
  <2>4. \A m \in 1 .. k - 1 : m \in 1 .. n - 1 => Precedes(s[m], p)
    <3> TAKE m \in 1 .. k - 1
    <3> HAVE m \in 1 .. n - 1
    <3>1. ~ Precedes(p, s[m])
      BY <1>6
    <3> QED BY <3>1, <2>0, PrecedesOrders
  <2>5. CASE i < k /\ j < k
    BY <2>5, <1>7, <2>2
  <2>6. CASE i < k /\ j = k
    BY <2>6, <1>7, <2>4
  <2>7. CASE i < k /\ j > k
    <3>1. Precedes(s[i], p) /\ Precedes(p, s[j - 1])
      BY <2>7, <1>7, <2>3, <2>4
    <3>2. s[i] \in Presets /\ s[j - 1] \in Presets
      BY <2>7, <1>7, <2>0
    <3>3. Precedes(s[i], s[j - 1])
      BY <3>1, <3>2, <2>0, PrecedesOrders
    <3> QED BY <3>3, <2>7, <1>7
  <2>8. CASE i = k /\ j > k
    BY <2>8, <1>7, <2>3
  <2>9. CASE i > k /\ j > k
    BY <2>9, <2>1, <1>7, <2>2
  <2> QED BY <2>1, <2>5, <2>6, <2>7, <2>8, <2>9
<1> QED BY <1>8, <1>9 DEF Sortable

LEMMA SortedExists ==
  ASSUME Ranks, NEW S \in SUBSET Presets
  PROVE  Sortable(S)
<1> DEFINE Bad(n) == \E T \in SUBSET Presets : Cardinality(T) = n /\ ~ Sortable(T)
           bad == {n \in Nat : Bad(n)}
<1>1. ASSUME bad # {} PROVE FALSE
  <2>1. PICK n \in bad : \A m \in bad : n <= m
    <3>1. bad \in SUBSET Nat
      OBVIOUS
    <3> HIDE DEF bad
    <3> QED BY <1>1, <3>1, Smallest
  <2>2. PICK T \in SUBSET Presets : Cardinality(T) = n /\ ~ Sortable(T)
    OBVIOUS
  <2>3. IsFiniteSet(T) /\ n \in Nat
    BY PresetsAssumption, FS_Subset
  <2>4. T # {}
    <3>1. <<>> \in SetToSeqs({}) /\ InOrder(<<>>)
      BY FS_EmptySet DEF SetToSeqs, InOrder
    <3> QED BY <2>2, <3>1 DEF Sortable
  <2>5. PICK p \in T : TRUE
    BY <2>4
  <2>6. n # 0 /\ Cardinality(T \ {p}) = n - 1
    BY <2>2, <2>3, <2>4, FS_EmptySet, FS_RemoveElement
  <2>7. n - 1 \notin bad
    <3> HIDE DEF bad
    <3> QED BY <2>1, <2>3, <2>6
  <2>8. Sortable(T \ {p})
    BY <2>3, <2>6, <2>7
  <2> QED BY <2>2, <2>8, InsertSorted
<1>2. Cardinality(S) \in Nat
  BY PresetsAssumption, FS_Subset, FS_CardinalityType
<1> QED BY <1>1, <1>2

LEMMA SortedIn ==
  ASSUME Ranks, NEW S \in SUBSET Presets
  PROVE  Sorted(S) \in Seq(S)
<1>1. Sorted(S) \in SetToSeqs(S)
  BY SortedExists DEF Sorted, Sortable
<1>2. Cardinality(S) \in Nat
  BY PresetsAssumption, FS_Subset, FS_CardinalityType
<1> QED BY <1>1, <1>2 DEF SetToSeqs

\* The order depends on the priorities of the presets alone.
LEMMA SortedSame ==
  ASSUME NEW S, \A p \in S : reg'[p].prio = reg[p].prio
  PROVE  Sorted(S)' = Sorted(S)
<1>1. \A s \in SetToSeqs(S) : InOrder(s)' <=> InOrder(s)
  <2> SUFFICES ASSUME NEW s \in SetToSeqs(S) PROVE InOrder(s)' <=> InOrder(s)
    OBVIOUS
  <2>1. \A i \in DOMAIN s : s[i] \in S
    BY DEF SetToSeqs
  <2> QED BY <2>1 DEF InOrder, Precedes
<1>2. {s \in SetToSeqs(S) : InOrder(s)'} = {s \in SetToSeqs(S) : InOrder(s)}
  BY <1>1
<1> QED BY <1>1 DEF Sorted

-----------------------------------------------------------------------------
(* The inductive invariant *)

PackageOps == [do : {"copy", "record", "rmdir", "forget", "clear"}, id : Presets]
EnterOps == [do : {"enter"}, id : Presets, prio : Priorities]
WriteOps == [do : {"write"}, id : Presets, name : Commands]
AgentOps == [do : {"teardown", "setup", "activate", "enlist"}, agent : Agents]
LeaveOps == [do : {"leave"}, agent : Agents, next : Agents \cup {NoAgent}]
DropOps == [do : {"drop"}, id : Presets, agent : Agents]
DeleteOps == [do : {"delete"}, agent : Agents, name : Commands]
ReconcileOps ==
  [do : {"reconcile"}, name : Commands, at : SUBSET (Agents \cup {NoAgent})]
Operations ==
  PackageOps \cup EnterOps \cup WriteOps \cup AgentOps \cup LeaveOps \cup DropOps
  \cup DeleteOps \cup ReconcileOps

Typed ==
  /\ TypeOK /\ todo \in Seq(Operations)
  /\ job.op = "none" => job = NoJob /\ todo = <<>> /\ made = {}

\* What may come before an operation of kind d in a list.
Leaving == {"teardown", "delete", "drop"}
Prior(d) ==
  CASE d = "teardown" -> {}
    [] d \in {"delete", "drop", "leave"} -> Leaving
    [] d \in {"rmdir", "clear"} -> {"delete"}
    [] d = "forget" -> {"delete", "rmdir", "clear"}
    [] d = "setup" -> Leaving \cup {"leave"}
    [] d \in {"activate", "enlist"} -> Leaving \cup {"leave", "setup"}
    [] d = "copy" -> {"delete", "rmdir", "forget", "reconcile"}
    [] d = "enter" -> {"delete", "rmdir", "forget", "reconcile", "copy"}
Free == {"write", "record", "reconcile"}

Ordered(s) ==
  \A j \in 1 .. Len(s) : s[j].do \notin Free =>
    \A i \in 1 .. j - 1 : s[i].do \in Prior(s[j].do)

\* A registration writes the files of one preset and then records them.
Blocks(s) ==
  \A i \in 1 .. Len(s) : s[i].do = "write" =>
    /\ i + 1 \in 1 .. Len(s) /\ s[i + 1].do \in {"write", "record"}
    /\ s[i + 1].id = s[i].id
InHand ==
  made # {} =>
    /\ todo # <<>> /\ todo[1].do \in {"write", "record"} /\ active \in Agents
    /\ \A c \in made : <<active, c>> \in stale

\* An operation o of preset p that the list has before position j.
Earlier(s, j, o, p) == \E i \in 1 .. j - 1 : s[i].do = o /\ s[i].id = p

\* A preset has an entry when its files are recorded, and none when it gets one.
Recording(s) ==
  \A j \in 1 .. Len(s) : s[j].do = "record" =>
    \/ reg[s[j].id].there /\ ~ Earlier(s, j, "forget", s[j].id)
    \/ Earlier(s, j, "enter", s[j].id)
Entering(s) ==
  \A j \in 1 .. Len(s) : s[j].do = "enter" =>
    reg[s[j].id] = NoEntry \/ Earlier(s, j, "forget", s[j].id)

\* Unless a command has failed, a preset loses an entry when its files are gone.
Of(a, c, p) == out[a][c] # NoFile /\ Owner(a, c) = p
Deleted(s, j, a, c) ==
  \E i \in 1 .. j - 1 : s[i].do = "delete" /\ s[i].agent = a /\ s[i].name = c
Gone(s, j, a, c) == Of(a, c, s[j].id) => <<a, c>> \in lost \/ Deleted(s, j, a, c)
Dropping(s) ==
  \A j \in 1 .. Len(s) : s[j].do = "drop" => \A c \in Commands : Gone(s, j, s[j].agent, c)
Forgetting(s) ==
  \A j \in 1 .. Len(s) : s[j].do = "forget" =>
    \A a \in Agents, c \in Commands : Gone(s, j, a, c)
Tracked ==
  \A a \in Agents, c \in Commands : Stray(a, c) =>
    <<a, c>> \in lost \/ (a = active /\ c \in made /\ Owner(a, c) = todo[1].id)
Owned ==
  /\ NothingOrphaned
  /\ how = "ok" => Tracked /\ Dropping(todo) /\ Forgetting(todo)

\* A file is right unless it is in doubt.
Right(a, c) == Layers(c) # <<>> => <<a, c>> \in stale \/ out[a][c] = Resolve(c)
Claims == \A a \in agents, c \in Commands : Right(a, c)
Doubted(p) == \A a \in Agents, c \in Provides[p] : <<a, c>> \in stale

\* What an operation changes is in doubt.
Doubtful(o) ==
  /\ o.do = "delete" => <<o.agent, o.name>> \in stale
  /\ o.do = "teardown" => \A c \in Commands : <<o.agent, c>> \in stale
  /\ o.do = "write" => \A a \in job.at \cap Agents : <<a, o.name>> \in stale
  /\ o.do \in {"write", "record"} => job.op # "add" \/ Doubted(o.id)
  /\ o.do \in {"copy", "enter", "clear"} => Doubted(o.id)
  /\ o.do \in {"rmdir", "forget"} => Doubted(o.id) \/ dir[o.id] # "whole"
  /\ o.do = "setup" => o.agent \notin agents /\ \A c \in Offered : <<o.agent, c>> \in stale
Doubts == \A o \in Range(todo) : Doubtful(o)

\* The agent that files are written for is one the command puts in order.
Turns == {"activate", "leave"}
Turned(s) ==
  \A j \in 1 .. Len(s) : s[j].do = "write" =>
    \/ \E i \in 1 .. j - 1 : s[i].do = "activate" /\ s[i].agent \in job.at
    \/ /\ \E i \in 1 .. j - 1 : s[i].do = "leave" /\ s[i].next \in job.at
                                /\ s[i].agent = active
       /\ \A i \in 1 .. j - 1 : s[i].do # "activate"
    \/ active \in job.at /\ \A i \in 1 .. j - 1 : s[i].do \notin Turns

\* An agent that arrives has been set up.
Ready(a) == \A c \in Commands : Right(a, c)
Arrival(s) ==
  \A j \in 1 .. Len(s) : s[j].do \in {"activate", "enlist"} =>
    \/ j = 1 /\ Ready(s[j].agent)
    \/ \E i \in 1 .. j - 1 : s[i].do = "setup" /\ s[i].agent = s[j].agent

\* Unless a command has failed, what it puts in order is reconciled at the end.
Calm(o, c) ==
  \/ o.do \in {"reconcile", "record"}
  \/ o.do \in {"copy", "enter"} /\ c \notin Provides[o.id]
  \/ o.do = "write" /\ o.name # c
Coming(s, a, c) ==
  \E i \in 1 .. Len(s) :
    /\ s[i].do = "reconcile" /\ s[i].name = c /\ a \in s[i].at
    /\ \A j \in i + 1 .. Len(s) : Calm(s[j], c)
Settled(a, c) ==
  /\ \A i \in 1 .. Len(todo) : Calm(todo[i], c)
  /\ a \in agents /\ Layers(c) # <<>> => out[a][c] = Resolve(c)
Settling ==
  how = "ok" => \A a \in job.at \cap Agents, c \in job.names :
                  Coming(todo, a, c) \/ Settled(a, c)

Planned == Ordered(todo) /\ Blocks(todo) /\ InHand /\ Recording(todo) /\ Entering(todo)
Stacked == Claims /\ Doubts /\ Turned(todo) /\ Arrival(todo) /\ Settling
IInv == Typed /\ Planned /\ Owned /\ Stacked

-----------------------------------------------------------------------------
(* Types of the stack and of the operations *)

Content == Seq(Presets \cup {Core})

LEMMA RanksHold ==
  ASSUME TypeOK
  PROVE  Ranks
<1> SUFFICES ASSUME NEW p \in Presets PROVE reg[p].prio \in Nat
  BY DEF Ranks
<1>1. reg[p] \in Entry \/ reg[p] = NoEntry
  BY DEF TypeOK
<1>2. reg[p] \in Entry => reg[p].prio \in Priorities
  BY DEF Entry
<1>3. Priorities \subseteq Nat
  BY BoundsAssumption
<1>4. NoEntry.prio = 0
  BY DEF NoEntry
<1>5. CASE reg[p] = NoEntry
  BY <1>4, <1>5
<1>6. CASE reg[p] \in Entry
  BY <1>2, <1>3, <1>6
<1> QED BY <1>1, <1>5, <1>6

LEMMA LayersIn ==
  ASSUME TypeOK, NEW c
  PROVE  /\ Layers(c) \in Seq({p \in Enabled : c \in Provides[p]} \cup {Core})
         /\ c \notin Offered => Layers(c) = CoreFile(c)
<1> DEFINE S == {p \in Enabled : c \in Provides[p]}
<1>1. S \in SUBSET Presets /\ (c \notin Offered => S = {})
  BY DEF Enabled, Offered
<1>2. Layers(c) = Sorted(S) \o CoreFile(c)
  BY DEF Layers
<1> HIDE DEF S
<1>3. Sorted(S) \in Seq(S)
  BY <1>1, RanksHold, SortedIn
<1>3a. CoreFile(c) \in Seq(S \cup {Core}) /\ CoreFile(c) \in Seq({Core})
  <2>1. <<Core>> \in Seq(S \cup {Core}) /\ <<Core>> \in Seq({Core})
    OBVIOUS
  <2>2. <<>> \in Seq(S \cup {Core}) /\ <<>> \in Seq({Core})
    BY EmptySeq
  <2>3. CoreFile(c) = <<Core>> \/ CoreFile(c) = <<>>
    BY DEF CoreFile, NoFile
  <2> QED BY <2>1, <2>2, <2>3
<1>4. Sorted(S) \in Seq(S \cup {Core})
  BY <1>3, SeqMonotonic
<1>5. Layers(c) \in Seq(S \cup {Core})
  BY <1>2, <1>3a, <1>4, ConcatProperties
<1>6. S = {} => Layers(c) = CoreFile(c)
  <2> HAVE S = {}
  <2>1. Sorted(S) = <<>>
    BY <1>3, EmptySeq, ElementOfSeq
  <2> QED BY <1>2, <1>3a, <2>1, ConcatEmptySeq
<1> QED BY <1>1, <1>5, <1>6 DEF S

LEMMA ResolveIn ==
  ASSUME TypeOK, NEW c
  PROVE  /\ Resolve(c) \in Content
         /\ Layers(c) # <<>> => Head(Layers(c)) \in Enabled \cup {Core}
         /\ Resolve(c) # <<>> => Layers(c) # <<>> /\ Head(Resolve(c)) = Head(Layers(c))
<1> DEFINE L == Layers(c)
           replacing == {i \in DOMAIN L : Replaces(L[i], c)}
           n == CHOOSE i \in replacing : \A j \in replacing : i <= j
           T == {p \in Enabled : c \in Provides[p]} \cup {Core}
<1>1. L \in Seq(T) /\ T \subseteq Presets \cup {Core} /\ T \subseteq Enabled \cup {Core}
  BY LayersIn DEF Enabled
<1>2. Resolve(c) = IF replacing = {} THEN NoFile ELSE SubSeq(L, 1, n)
  BY DEF Resolve
<1> HIDE DEF L, T
<1>3. L \in Content /\ Len(L) \in Nat /\ DOMAIN L = 1 .. Len(L)
  BY <1>1, SeqMonotonic, LenProperties DEF Content
<1>4. L # <<>> => Head(L) \in Enabled \cup {Core}
  BY <1>1, HeadTailProperties
<1>5. CASE replacing = {}
  BY <1>2, <1>4, <1>5, EmptySeq DEF NoFile, Content, L
<1>6. CASE replacing # {}
  <2>1. n \in replacing
    <3>1. replacing \in SUBSET Nat
      BY <1>3
    <3> HIDE DEF replacing
    <3>2. \E i \in replacing : \A j \in replacing : i <= j
      BY <3>1, <1>6, Smallest
    <3> QED BY <3>2
  <2>2. n \in 1 .. Len(L)
    BY <2>1, <1>3
  <2> HIDE DEF n, replacing
  <2>3. Resolve(c) = SubSeq(L, 1, n)
    BY <1>2, <1>6
  <2>4. /\ Resolve(c) \in Content /\ Len(Resolve(c)) = n /\ Resolve(c)[1] = L[1]
    <3>1. \A i \in 1 .. n : L[i] \in Presets \cup {Core}
      BY <1>3, <2>2, ElementOfSeq DEF Content
    <3>2. n \in Int /\ 1 \in Int /\ 1 \in 1 .. n - 1 + 1 /\ 1 <= n /\ n - 1 + 1 = n
      BY <1>3, <2>2
    <3>3. /\ SubSeq(L, 1, n) \in Seq(Presets \cup {Core})
          /\ Len(SubSeq(L, 1, n)) = IF 1 <= n THEN n - 1 + 1 ELSE 0
          /\ \A i \in 1 .. n - 1 + 1 : SubSeq(L, 1, n)[i] = L[1 + i - 1]
      BY <3>1, <3>2, SubSeqProperties
    <3>4. SubSeq(L, 1, n)[1] = L[1 + 1 - 1]
      BY <3>2, <3>3
    <3> QED BY <2>3, <3>2, <3>3, <3>4 DEF Content
  <2>5. L # <<>> /\ Resolve(c) # <<>>
    BY <1>3, <2>2, <2>4
  <2>6. Head(Resolve(c)) = Resolve(c)[1] /\ Head(L) = L[1]
    BY <1>3, <2>4, <2>5 DEF Content
  <2> QED BY <1>4, <2>4, <2>5, <2>6 DEF L
<1> QED BY <1>5, <1>6

LEMMA ResolveCore ==
  ASSUME TypeOK, NEW c, c \notin Offered, Layers(c) # <<>>
  PROVE  c \in Base /\ Resolve(c) = <<Core>>
<1>1. c \in Base /\ Layers(c) = <<Core>>
  BY LayersIn DEF CoreFile, NoFile
<1>2. {i \in DOMAIN Layers(c) : Replaces(Layers(c)[i], c)} = {1}
  BY <1>1 DEF Replaces
<1>3. (CHOOSE i \in {1} : \A j \in {1} : i <= j) = 1
  OBVIOUS
<1>4. Resolve(c) = SubSeq(<<Core>>, 1, 1)
  BY <1>1, <1>2, <1>3 DEF Resolve
<1>5. SubSeq(<<Core>>, 1, 1) = <<Core>>
  BY SubSeqFull, <<Core>> \in Seq({Core}), Len(<<Core>>) = 1
<1> QED BY <1>1, <1>4, <1>5

\* What is found under a name depends on the presets that provide it.
LEMMA LayersSame ==
  ASSUME NEW c,
         \A p \in Presets : c \in Provides[p] =>
           /\ p \in Enabled' <=> p \in Enabled
           /\ p \in Enabled => reg'[p].prio = reg[p].prio
  PROVE  Layers(c)' = Layers(c) /\ Resolve(c)' = Resolve(c)
<1> DEFINE E == {p \in Enabled : c \in Provides[p]}
<1>1. PICK X : X = E
  OBVIOUS
<1>2. E' = X
  BY <1>1 DEF Enabled
<1>3. \A p \in X : reg'[p].prio = reg[p].prio
  BY <1>1 DEF Enabled
<1>4. Sorted(X)' = Sorted(X)
  BY <1>3, SortedSame
<1>5. Sorted(E) = Sorted(X)
  BY <1>1
<1>6. Sorted(E)' = Sorted(X)'
  BY <1>2 DEF Sorted
<1>7. Layers(c)' = Layers(c)
  BY <1>4, <1>5, <1>6 DEF Layers
<1>8. Resolve(c)' = Resolve(c)
  BY <1>7 DEF Resolve, Replaces
<1> QED BY <1>7, <1>8

-----------------------------------------------------------------------------
(* What an operation changes *)

LEMMA OpFacts ==
  ASSUME NEW o \in Operations
  PROVE  /\ o.do \in {"copy", "record", "rmdir", "forget", "clear", "enter", "write", "drop"}
                => o.id \in Presets
         /\ o.do = "enter" => o.prio \in Priorities
         /\ o.do \in {"write", "delete", "reconcile"} => o.name \in Commands
         /\ o.do \in {"teardown", "setup", "activate", "enlist", "leave", "drop", "delete"}
                => o.agent \in Agents
         /\ o.do = "leave" => o.next \in Agents \cup {NoAgent}
         /\ o.do = "reconcile" => o.at \in SUBSET (Agents \cup {NoAgent})
<1>1. \/ o \in PackageOps \/ o \in EnterOps \/ o \in WriteOps \/ o \in AgentOps
      \/ o \in LeaveOps \/ o \in DropOps \/ o \in DeleteOps \/ o \in ReconcileOps
  BY DEF Operations
<1>2. o \in PackageOps => o.do \in {"copy", "record", "rmdir", "forget", "clear"} /\ o.id \in Presets
  BY DEF PackageOps
<1>3. o \in EnterOps => o.do = "enter" /\ o.id \in Presets /\ o.prio \in Priorities
  BY DEF EnterOps
<1>4. o \in WriteOps => o.do = "write" /\ o.id \in Presets /\ o.name \in Commands
  BY DEF WriteOps
<1>5. o \in AgentOps => o.do \in {"teardown", "setup", "activate", "enlist"} /\ o.agent \in Agents
  BY DEF AgentOps
<1>6. o \in LeaveOps => o.do = "leave" /\ o.agent \in Agents /\ o.next \in Agents \cup {NoAgent}
  BY DEF LeaveOps
<1>7. o \in DropOps => o.do = "drop" /\ o.id \in Presets /\ o.agent \in Agents
  BY DEF DropOps
<1>8. o \in DeleteOps => o.do = "delete" /\ o.agent \in Agents /\ o.name \in Commands
  BY DEF DeleteOps
<1>9. o \in ReconcileOps =>
        o.do = "reconcile" /\ o.name \in Commands /\ o.at \in SUBSET (Agents \cup {NoAgent})
  BY DEF ReconcileOps
<1>10. CASE o \in PackageOps
  BY <1>2, <1>10
<1>11. CASE o \in EnterOps
  BY <1>3, <1>11
<1>12. CASE o \in WriteOps
  BY <1>4, <1>12
<1>13. CASE o \in AgentOps
  BY <1>5, <1>13
<1>14. CASE o \in LeaveOps
  BY <1>6, <1>14
<1>15. CASE o \in DropOps
  BY <1>7, <1>15
<1>16. CASE o \in DeleteOps
  BY <1>8, <1>16
<1>17. CASE o \in ReconcileOps
  BY <1>9, <1>17
<1> QED BY <1>1, <1>10, <1>11, <1>12, <1>13, <1>14, <1>15, <1>16, <1>17

RegTyped == reg \in [Presets -> Entry \cup {NoEntry}]
DirTyped == dir \in [Presets -> {"none", "torn", "whole"}]
OutTyped == out \in [Agents -> [Commands -> Content]]
WhoTyped == agents \subseteq Agents /\ active \in Agents \cup {NoAgent}
Stores == RegTyped /\ DirTyped /\ OutTyped /\ WhoTyped

LEMMA StoresOfType ==
  /\ TypeOK => Stores
  /\ /\ Stores /\ job.names \subseteq Commands /\ job.at \subseteq Agents \cup {NoAgent}
     /\ made \subseteq Commands /\ how \in {"ok", "warned", "failed", "dead"}
     /\ (stale \cup lost) \subseteq Agents \X Commands
     /\ count \in [commands : 0..MaxCommands, faults : 0..MaxFaults]
     => TypeOK
BY DEF TypeOK, Stores, RegTyped, DirTyped, OutTyped, WhoTyped, Content

\* Which parts of the project an operation can touch.
SameWho(o) ==
  o.do \notin {"leave", "activate", "enlist"} => agents' = agents /\ active' = active
SameEntries(o) ==
  \A p \in Presets : o.do \notin {"enter", "forget"} \/ o.id # p =>
    reg'[p].there = reg[p].there /\ reg'[p].on = reg[p].on /\ reg'[p].prio = reg[p].prio
SamePackages(o) ==
  \A p \in Presets :
    \/ dir'[p] = dir[p] \/ (o.do = "copy" /\ o.id = p)
    \/ o.do \in {"rmdir", "clear"} /\ o.id = p /\ dir'[p] # "whole"
Writes(o, a, c) ==
  \/ o.do = "write" /\ a = active /\ c = o.name
  \/ o.do = "delete" /\ a = o.agent /\ c = o.name /\ out'[a][c] = NoFile
  \/ o.do = "teardown" /\ a = o.agent /\ out'[a][c] = NoFile
  \/ o.do = "setup" /\ a = o.agent /\ c \in Base /\ out'[a][c] = <<Core>>
  \/ o.do = "reconcile" /\ a \in o.at /\ c = o.name /\ out'[a][c] = Resolve(c)
FilesChange(o) ==
  \A a \in Agents, c \in Commands : out'[a][c] = out[a][c] \/ Writes(o, a, c)
Limited(o) ==
  SameWho(o) /\ SameEntries(o) /\ SamePackages(o) /\ FilesChange(o)

LEMMA RenderedIn ==
  ASSUME TypeOK, NEW p \in Presets, NEW c
  PROVE  /\ Rendered(p, c) \in Content
         /\ Rendered(p, c) # NoFile => Head(Rendered(p, c)) = p
<1>1. <<p>> \in Content /\ Head(<<p>>) = p
  BY DEF Content
<1> QED BY <1>1, ResolveIn DEF Rendered, NoFile

LEMMA PutFacts ==
  ASSUME OutTyped, NEW at, NEW names, NEW content \in Content, Put(at, names, content)
  PROVE  /\ OutTyped'
         /\ \A a \in Agents, c \in Commands :
              out'[a][c] = IF a \in at /\ c \in names THEN content ELSE out[a][c]
BY DEF OutTyped, Put

\* r is the registry where p knows of the names for the agents `at` too.
TracksIn(r, p, at, names) ==
  /\ r \in [Presets -> Entry \cup {NoEntry}]
  /\ \A q \in Presets : q # p => r[q] = reg[q]
  /\ r[p].there = reg[p].there /\ r[p].on = reg[p].on /\ r[p].prio = reg[p].prio
  /\ \A a \in Agents : r[p].cmds[a] = reg[p].cmds[a] \cup IF a \in at THEN names ELSE {}

LEMMA TracksFacts ==
  ASSUME RegTyped, NEW p \in Presets, reg[p].there, NEW at, NEW names \in SUBSET Commands
  PROVE  TracksIn(Tracks(p, at, names), p, at, names)
<1>1. reg[p] \in Entry
  BY DEF RegTyped, NoEntry
<1> DEFINE cmds == [a \in Agents |-> reg[p].cmds[a] \cup IF a \in at THEN names ELSE {}]
           e == [reg[p] EXCEPT !.cmds = cmds]
<1>2. cmds \in [Agents -> SUBSET Commands]
  BY <1>1 DEF Entry
<1>3. e \in Entry /\ e.there = reg[p].there /\ e.on = reg[p].on /\ e.prio = reg[p].prio /\ e.cmds = cmds
  <2> HIDE DEF cmds
  <2> QED BY <1>1, <1>2 DEF Entry
<1>4. Tracks(p, at, names) = [reg EXCEPT ![p] = e]
  BY DEF Tracks
<1>5. Tracks(p, at, names)[p] = e /\ \A q \in Presets : q # p => Tracks(p, at, names)[q] = reg[q]
  <2> HIDE DEF e
  <2> QED BY <1>4 DEF RegTyped
<1>6. Tracks(p, at, names) \in [Presets -> Entry \cup {NoEntry}]
  <2> HIDE DEF e
  <2> QED BY <1>3, <1>4 DEF RegTyped
<1>7. \A a \in Agents : e.cmds[a] = reg[p].cmds[a] \cup IF a \in at THEN names ELSE {}
  <2>1. e.cmds = cmds
    BY <1>3
  <2> HIDE DEF e
  <2> QED BY <2>1
<1> HIDE DEF e, cmds
<1> QED BY <1>3, <1>5, <1>6, <1>7 DEF TracksIn

LEMMA OwnsFacts ==
  ASSUME TypeOK, NEW c \in Commands, NEW at, NEW r, r = Owns(c, at, Resolve(c))
  PROVE  /\ r \in [Presets -> Entry \cup {NoEntry}]
         /\ \A q \in Presets :
              /\ r[q].there = reg[q].there /\ r[q].on = reg[q].on /\ r[q].prio = reg[q].prio
              /\ ~ reg[q].there => r[q] = reg[q]
              /\ \A a \in Agents : reg[q].cmds[a] \subseteq r[q].cmds[a]
         /\ Resolve(c) # NoFile /\ Head(Resolve(c)) # Core =>
              /\ Head(Resolve(c)) \in Presets
              /\ \A a \in at \cap Agents : c \in r[Head(Resolve(c))].cmds[a]
<1> DEFINE p == Head(Resolve(c))
           wins == Resolve(c) # NoFile /\ p # Core
<1>1. RegTyped
  BY StoresOfType DEF Stores
<1>2. r = IF wins THEN Tracks(p, at, {c}) ELSE reg
  BY DEF Owns
<1>3. wins => p \in Presets /\ reg[p].there
  BY ResolveIn DEF NoFile, Enabled
<1> HIDE DEF p, wins
<1>4. CASE ~ wins
  BY <1>1, <1>2, <1>4 DEF RegTyped, wins, p
<1>5. CASE wins
  <2>1. p \in Presets /\ reg[p].there /\ r = Tracks(p, at, {c}) /\ {c} \in SUBSET Commands
    BY <1>2, <1>3, <1>5
  <2>2. /\ r \in [Presets -> Entry \cup {NoEntry}]
        /\ \A q \in Presets : q # p => r[q] = reg[q]
        /\ r[p].there = reg[p].there /\ r[p].on = reg[p].on /\ r[p].prio = reg[p].prio
        /\ \A a \in Agents : r[p].cmds[a] = reg[p].cmds[a] \cup IF a \in at THEN {c} ELSE {}
    <3>1. TracksIn(r, p, at, {c})
      BY <1>1, <2>1, TracksFacts
    <3> QED BY <3>1 DEF TracksIn
  <2>3. \A q \in Presets :
          /\ r[q].there = reg[q].there /\ r[q].on = reg[q].on /\ r[q].prio = reg[q].prio
          /\ ~ reg[q].there => r[q] = reg[q]
    BY <2>1, <2>2
  <2>4. \A q \in Presets, a \in Agents : reg[q].cmds[a] \subseteq r[q].cmds[a]
    BY <2>2
  <2>5. \A a \in at \cap Agents : c \in r[p].cmds[a]
    BY <2>2
  <2> QED BY <2>1, <2>2, <2>3, <2>4, <2>5 DEF p
<1> QED BY <1>4, <1>5

\* What the operations do, one by one.
LEMMA EffectFacts ==
  ASSUME TypeOK, NEW o \in Operations, Effect(o), o.do = "record" => reg[o.id].there
  PROVE  Stores' /\ Limited(o) /\ made' \in SUBSET Commands
<1>0. Stores /\ RegTyped /\ DirTyped /\ OutTyped /\ WhoTyped /\ made \in SUBSET Commands
  BY StoresOfType DEF Stores, TypeOK
<1> USE DEF Stores
<1>1. CASE o.do = "copy"
  <2>1. /\ dir' = [dir EXCEPT ![o.id] = "whole"] /\ made' = {}
        /\ UNCHANGED <<reg, out, agents, active>>
    BY <1>1 DEF Effect
  <2>2. DirTyped'
    BY <1>0, <1>1, <2>1, OpFacts DEF DirTyped
  <2>3. RegTyped' /\ OutTyped' /\ WhoTyped'
    BY <1>0, <2>1 DEF RegTyped, OutTyped, WhoTyped
  <2>4. SamePackages(o)
    BY <1>0, <1>1, <2>1 DEF SamePackages, DirTyped
  <2>5. SameWho(o) /\ SameEntries(o) /\ FilesChange(o)
    BY <2>1 DEF SameWho, SameEntries, FilesChange
  <2> QED BY <2>1, <2>2, <2>3, <2>4, <2>5 DEF Limited
<1>2. CASE o.do = "enter"
  <2>1. /\ reg' = [reg EXCEPT ![o.id] = [there |-> TRUE, on |-> TRUE, prio |-> o.prio,
                                         cmds |-> Nowhere]]
        /\ UNCHANGED <<dir, out, agents, active, made>>
    BY <1>2 DEF Effect
  <2> DEFINE e == [there |-> TRUE, on |-> TRUE, prio |-> o.prio, cmds |-> Nowhere]
  <2>2. e \in Entry
    BY <1>2, OpFacts DEF Entry, Nowhere
  <2>3. RegTyped'
    <3> HIDE DEF e
    <3>1. reg' = [reg EXCEPT ![o.id] = e]
      BY <2>1 DEF e
    <3> QED BY <1>0, <2>2, <3>1 DEF RegTyped
  <2>4. DirTyped' /\ OutTyped' /\ WhoTyped'
    BY <1>0, <2>1 DEF DirTyped, OutTyped, WhoTyped
  <2>5. SameEntries(o)
    BY <1>0, <1>2, <2>1 DEF SameEntries, RegTyped
  <2>6. SameWho(o) /\ SamePackages(o) /\ FilesChange(o)
    BY <2>1 DEF SameWho, SamePackages, FilesChange
  <2> QED BY <1>0, <2>1, <2>3, <2>4, <2>5, <2>6 DEF Limited
<1>3. CASE o.do = "write"
  <2>1. PICK at : /\ Put(at, {o.name}, Rendered(o.id, o.name)) /\ at \subseteq {active} \cap Agents
                  /\ made' = IF at = {} THEN made ELSE made \cup {o.name}
    BY <1>3 DEF Effect, HaveDirectory
  <2>2. UNCHANGED <<reg, dir, agents, active>>
    BY <1>3 DEF Effect
  <2>3. o.id \in Presets /\ o.name \in Commands
    BY <1>3, OpFacts
  <2>4. Rendered(o.id, o.name) \in Content
    BY <2>3, RenderedIn
  <2>5. /\ OutTyped'
        /\ \A a \in Agents, c \in Commands :
             out'[a][c] = IF a \in at /\ c \in {o.name} THEN Rendered(o.id, o.name) ELSE out[a][c]
    BY <1>0, <2>1, <2>4, PutFacts
  <2>6. FilesChange(o)
    BY <1>3, <2>1, <2>5 DEF FilesChange, Writes
  <2>7. RegTyped' /\ DirTyped' /\ WhoTyped'
    BY <1>0, <2>2 DEF RegTyped, DirTyped, WhoTyped
  <2>8. SameWho(o) /\ SameEntries(o) /\ SamePackages(o)
    BY <2>2 DEF SameWho, SameEntries, SamePackages
  <2>9. made' \in SUBSET Commands
    BY <1>0, <2>1, <2>3
  <2> QED BY <2>5, <2>6, <2>7, <2>8, <2>9 DEF Limited
<1>4. CASE o.do = "record"
  <2>1. reg' = Tracks(o.id, {active}, made) /\ made' = {} /\ UNCHANGED <<dir, out, agents, active>>
    BY <1>4 DEF Effect
  <2>2. o.id \in Presets /\ reg[o.id].there
    BY <1>4, OpFacts
  <2>3. /\ reg' \in [Presets -> Entry \cup {NoEntry}]
        /\ \A q \in Presets : q # o.id => reg'[q] = reg[q]
        /\ reg'[o.id].there = reg[o.id].there /\ reg'[o.id].on = reg[o.id].on
        /\ reg'[o.id].prio = reg[o.id].prio
    <3>1. TracksIn(reg', o.id, {active}, made)
      BY <1>0, <2>1, <2>2, TracksFacts
    <3> QED BY <3>1 DEF TracksIn
  <2>4. SameEntries(o)
    BY <2>3 DEF SameEntries
  <2>5. RegTyped' /\ DirTyped' /\ OutTyped' /\ WhoTyped'
    BY <1>0, <2>1, <2>3 DEF RegTyped, DirTyped, OutTyped, WhoTyped
  <2>6. SameWho(o) /\ SamePackages(o) /\ FilesChange(o)
    BY <2>1 DEF SameWho, SamePackages, FilesChange
  <2> QED BY <2>1, <2>4, <2>5, <2>6 DEF Limited
<1>5. CASE o.do = "delete"
  <2>1. Put({o.agent}, {o.name}, NoFile) /\ UNCHANGED <<reg, dir, agents, active, made>>
    BY <1>5 DEF Effect
  <2>2. NoFile \in Content
    BY EmptySeq DEF NoFile, Content
  <2>3. /\ OutTyped'
        /\ \A a \in Agents, c \in Commands :
             out'[a][c] = IF a \in {o.agent} /\ c \in {o.name} THEN NoFile ELSE out[a][c]
    BY <1>0, <2>1, <2>2, PutFacts
  <2>4. FilesChange(o)
    BY <1>5, <2>3 DEF FilesChange, Writes
  <2>5. RegTyped' /\ DirTyped' /\ WhoTyped'
    BY <1>0, <2>1 DEF RegTyped, DirTyped, WhoTyped
  <2>6. SameWho(o) /\ SameEntries(o) /\ SamePackages(o)
    BY <2>1 DEF SameWho, SameEntries, SamePackages
  <2> QED BY <1>0, <2>1, <2>3, <2>4, <2>5, <2>6 DEF Limited
<1>6. CASE o.do = "drop"
  <2>1. reg' = [reg EXCEPT ![o.id].cmds[o.agent] = {}] /\ UNCHANGED <<dir, out, agents, active, made>>
    BY <1>6 DEF Effect
  <2>2. o.id \in Presets /\ o.agent \in Agents
    BY <1>6, OpFacts
  <2> DEFINE e == [reg[o.id] EXCEPT !.cmds = [@ EXCEPT ![o.agent] = {}]]
  <2>3. reg' = [reg EXCEPT ![o.id] = e]
    BY <2>1
  <2>4. reg[o.id] \in Entry \/ reg[o.id] = NoEntry
    BY <1>0, <2>2 DEF RegTyped
  <2>5. /\ e \in Entry \cup {NoEntry} /\ e.there = reg[o.id].there
        /\ e.on = reg[o.id].on /\ e.prio = reg[o.id].prio
    <3>1. CASE reg[o.id] \in Entry
      <4>1. [reg[o.id].cmds EXCEPT ![o.agent] = {}] \in [Agents -> SUBSET Commands]
        BY <3>1 DEF Entry
      <4> QED BY <3>1, <4>1 DEF Entry
    <3>2. CASE reg[o.id] = NoEntry
      <4>1. [Nowhere EXCEPT ![o.agent] = {}] = Nowhere
        BY DEF Nowhere
      <4>2. e = NoEntry
        <5>1. e = [NoEntry EXCEPT !.cmds = [NoEntry.cmds EXCEPT ![o.agent] = {}]]
          BY <3>2
        <5>2. NoEntry.cmds = Nowhere
          BY DEF NoEntry
        <5>3. NoEntry \in [there : BOOLEAN, on : BOOLEAN, prio : Nat, cmds : {Nowhere}]
          BY DEF NoEntry
        <5>4. [NoEntry EXCEPT !.cmds = Nowhere] = NoEntry
          BY <5>2, <5>3
        <5> QED BY <5>1, <5>2, <5>4, <4>1
      <4> QED BY <3>2, <4>2
    <3> QED BY <2>4, <3>1, <3>2
  <2> HIDE DEF e
  <2>6. SameEntries(o)
    BY <1>0, <2>2, <2>3, <2>5 DEF SameEntries, RegTyped
  <2>7. RegTyped'
    BY <1>0, <2>2, <2>3, <2>5 DEF RegTyped
  <2>8. DirTyped' /\ OutTyped' /\ WhoTyped'
    BY <1>0, <2>1 DEF DirTyped, OutTyped, WhoTyped
  <2>9. SameWho(o) /\ SamePackages(o) /\ FilesChange(o)
    BY <2>1 DEF SameWho, SamePackages, FilesChange
  <2> QED BY <1>0, <2>1, <2>6, <2>7, <2>8, <2>9 DEF Limited
<1>7. CASE o.do \in {"rmdir", "clear"}
  <2>1. dir' = [dir EXCEPT ![o.id] = "none"] /\ UNCHANGED <<reg, out, agents, active, made>>
    BY <1>7 DEF Effect
  <2>2. DirTyped'
    BY <1>0, <2>1 DEF DirTyped
  <2>3. RegTyped' /\ OutTyped' /\ WhoTyped'
    BY <1>0, <2>1 DEF RegTyped, OutTyped, WhoTyped
  <2>4. SamePackages(o)
    BY <1>0, <1>7, <2>1 DEF SamePackages, DirTyped
  <2>5. SameWho(o) /\ SameEntries(o) /\ FilesChange(o)
    BY <2>1 DEF SameWho, SameEntries, FilesChange
  <2> QED BY <1>0, <2>1, <2>2, <2>3, <2>4, <2>5 DEF Limited
<1>8. CASE o.do = "forget"
  <2>1. reg' = [reg EXCEPT ![o.id] = NoEntry] /\ UNCHANGED <<dir, out, agents, active, made>>
    BY <1>8 DEF Effect
  <2>2. RegTyped'
    BY <1>0, <2>1 DEF RegTyped
  <2>3. DirTyped' /\ OutTyped' /\ WhoTyped'
    BY <1>0, <2>1 DEF DirTyped, OutTyped, WhoTyped
  <2>4. SameEntries(o)
    BY <1>0, <1>8, <2>1 DEF SameEntries, RegTyped
  <2>5. SameWho(o) /\ SamePackages(o) /\ FilesChange(o)
    BY <2>1 DEF SameWho, SamePackages, FilesChange
  <2> QED BY <1>0, <2>1, <2>2, <2>3, <2>4, <2>5 DEF Limited
<1>9. CASE o.do = "reconcile"
  <2>0. UNCHANGED <<dir, agents, active, made>>
    BY <1>9 DEF Effect
  <2>1. DirTyped' /\ WhoTyped' /\ SameWho(o) /\ SamePackages(o)
    BY <1>0, <2>0 DEF DirTyped, WhoTyped, SameWho, SamePackages
  <2>2. CASE Layers(o.name) = <<>>
    <3>1. UNCHANGED <<reg, out>>
      BY <1>9, <2>2 DEF Effect
    <3>2. RegTyped' /\ OutTyped'
      BY <1>0, <3>1 DEF RegTyped, OutTyped
    <3>3. SameEntries(o) /\ FilesChange(o)
      BY <3>1 DEF SameEntries, FilesChange
    <3> QED BY <1>0, <2>0, <2>1, <3>2, <3>3 DEF Limited
  <2>3. CASE Layers(o.name) # <<>>
    <3>1. PICK at : /\ Put(at, {o.name}, Resolve(o.name)) /\ at \subseteq o.at \cap Agents
                    /\ reg' = Owns(o.name, at, Resolve(o.name))
      BY <1>9, <2>3 DEF Effect, HaveDirectory
    <3>2. o.name \in Commands /\ Resolve(o.name) \in Content
      BY <1>9, OpFacts, ResolveIn
    <3>3. /\ OutTyped'
          /\ \A a \in Agents, c \in Commands :
               out'[a][c] = IF a \in at /\ c \in {o.name} THEN Resolve(o.name) ELSE out[a][c]
      BY <1>0, <3>1, <3>2, PutFacts
    <3>4. FilesChange(o)
      BY <1>9, <3>1, <3>3 DEF FilesChange, Writes
    <3>5. /\ reg' \in [Presets -> Entry \cup {NoEntry}]
          /\ \A q \in Presets : reg'[q].there = reg[q].there /\ reg'[q].on = reg[q].on
                                /\ reg'[q].prio = reg[q].prio
      BY <3>1, <3>2, OwnsFacts
    <3>6. RegTyped' /\ SameEntries(o)
      BY <3>5 DEF RegTyped, SameEntries
    <3> QED BY <1>0, <2>0, <2>1, <3>3, <3>4, <3>6 DEF Limited
  <2> QED BY <2>2, <2>3
<1>10. CASE o.do = "teardown"
  <2>1. PICK gone \in SUBSET Commands : Put({o.agent}, gone, NoFile)
    BY <1>10 DEF Effect
  <2>2. UNCHANGED <<reg, dir, agents, active, made>>
    BY <1>10 DEF Effect
  <2>3. NoFile \in Content
    BY EmptySeq DEF NoFile, Content
  <2>4. /\ OutTyped'
        /\ \A a \in Agents, c \in Commands :
             out'[a][c] = IF a \in {o.agent} /\ c \in gone THEN NoFile ELSE out[a][c]
    BY <1>0, <2>1, <2>3, PutFacts
  <2>5. FilesChange(o)
    BY <1>10, <2>4 DEF FilesChange, Writes
  <2>6. RegTyped' /\ DirTyped' /\ WhoTyped'
    BY <1>0, <2>2 DEF RegTyped, DirTyped, WhoTyped
  <2>7. SameWho(o) /\ SameEntries(o) /\ SamePackages(o)
    BY <2>2 DEF SameWho, SameEntries, SamePackages
  <2> QED BY <1>0, <2>2, <2>4, <2>5, <2>6, <2>7 DEF Limited
<1>11. CASE o.do = "setup"
  <2>1. Put({o.agent}, Base, <<Core>>) /\ UNCHANGED <<reg, dir, agents, active, made>>
    BY <1>11 DEF Effect
  <2>2. <<Core>> \in Content
    BY DEF Content
  <2>3. /\ OutTyped'
        /\ \A a \in Agents, c \in Commands :
             out'[a][c] = IF a \in {o.agent} /\ c \in Base THEN <<Core>> ELSE out[a][c]
    BY <1>0, <2>1, <2>2, PutFacts
  <2>4. FilesChange(o)
    BY <1>11, <2>3 DEF FilesChange, Writes
  <2>5. RegTyped' /\ DirTyped' /\ WhoTyped'
    BY <1>0, <2>1 DEF RegTyped, DirTyped, WhoTyped
  <2>6. SameWho(o) /\ SameEntries(o) /\ SamePackages(o)
    BY <2>1 DEF SameWho, SameEntries, SamePackages
  <2> QED BY <1>0, <2>1, <2>3, <2>4, <2>5, <2>6 DEF Limited
<1>12. CASE o.do \in {"leave", "activate", "enlist"}
  <2>1. UNCHANGED <<reg, dir, out, made>>
    BY <1>12 DEF Effect
  <2>2. WhoTyped'
    BY <1>0, <1>12, OpFacts DEF Effect, WhoTyped
  <2>3. RegTyped' /\ DirTyped' /\ OutTyped'
    BY <1>0, <2>1 DEF RegTyped, DirTyped, OutTyped
  <2>4. SameWho(o) /\ SameEntries(o) /\ SamePackages(o) /\ FilesChange(o)
    BY <1>12, <2>1 DEF SameWho, SameEntries, SamePackages, FilesChange
  <2> QED BY <1>0, <2>1, <2>2, <2>3, <2>4 DEF Limited
<1>13. \/ o.do \in {"copy", "enter", "write", "record", "delete", "drop", "rmdir", "clear"}
       \/ o.do \in {"forget", "reconcile", "teardown", "setup", "leave", "activate", "enlist"}
  BY DEF Effect
<1> QED BY <1>1, <1>2, <1>3, <1>4, <1>5, <1>6, <1>7, <1>8, <1>9, <1>10, <1>11, <1>12, <1>13

LEMMA PartlyFacts ==
  ASSUME TypeOK, NEW o \in Operations, Partly(o)
  PROVE  Stores' /\ Limited(o) /\ UNCHANGED <<reg, agents, active>>
<1>0. Stores /\ RegTyped /\ DirTyped /\ OutTyped /\ WhoTyped
  BY StoresOfType DEF Stores
<1>1. UNCHANGED <<reg, agents, active>>
  BY DEF Partly
<1>2. RegTyped' /\ WhoTyped' /\ SameWho(o) /\ SameEntries(o)
  BY <1>0, <1>1 DEF RegTyped, WhoTyped, SameWho, SameEntries
<1>3. CASE UNCHANGED <<dir, out>>
  <2>1. DirTyped' /\ OutTyped'
    BY <1>0, <1>3 DEF DirTyped, OutTyped
  <2>2. SamePackages(o) /\ FilesChange(o)
    BY <1>3 DEF SamePackages, FilesChange
  <2> QED BY <1>1, <1>2, <2>1, <2>2 DEF Stores, Limited
<1>4. CASE o.do \in {"copy", "rmdir", "clear"} /\ dir' = [dir EXCEPT ![o.id] = "torn"] /\ out' = out
  <2>1. DirTyped' /\ OutTyped'
    BY <1>0, <1>4 DEF DirTyped, OutTyped
  <2>2. SamePackages(o) /\ FilesChange(o)
    BY <1>0, <1>4 DEF SamePackages, FilesChange, DirTyped
  <2> QED BY <1>1, <1>2, <2>1, <2>2 DEF Stores, Limited
<1>5. CASE /\ o.do = "reconcile" /\ dir' = dir
           /\ \E at \in SUBSET (o.at \cap Agents) : Put(at, {o.name}, Resolve(o.name))
  <2>1. PICK at \in SUBSET (o.at \cap Agents) : Put(at, {o.name}, Resolve(o.name))
    BY <1>5
  <2>2. Resolve(o.name) \in Content
    BY ResolveIn
  <2>3. /\ OutTyped'
        /\ \A a \in Agents, c \in Commands :
             out'[a][c] = IF a \in at /\ c \in {o.name} THEN Resolve(o.name) ELSE out[a][c]
    BY <1>0, <2>1, <2>2, PutFacts
  <2>4. DirTyped' /\ SamePackages(o)
    BY <1>0, <1>5 DEF DirTyped, SamePackages
  <2>5. FilesChange(o)
    BY <1>5, <2>3 DEF FilesChange, Writes
  <2> QED BY <1>1, <1>2, <2>3, <2>4, <2>5 DEF Stores, Limited
<1> QED BY <1>3, <1>4, <1>5 DEF Partly

-----------------------------------------------------------------------------
(* Going on in the list *)

\* t is what is left of s after n operations.
IsRest(t, s, n) == Len(t) = Len(s) - n /\ \A i \in 1 .. Len(s) - n : t[i] = s[i + n]

LEMMA OrderedRest ==
  ASSUME NEW s \in Seq(Operations), NEW t \in Seq(Operations), NEW n \in 0 .. Len(s),
         IsRest(t, s, n)
  PROVE  (Ordered(s) => Ordered(t)) /\ (Blocks(s) => Blocks(t))
<1>1. Len(s) \in Nat /\ n \in Nat /\ Len(t) = Len(s) - n
  BY DEF IsRest
<1>2. \A i \in 1 .. Len(t) : t[i] = s[i + n] /\ i + n \in 1 .. Len(s)
  BY <1>1 DEF IsRest
<1>3. ASSUME Ordered(s) PROVE Ordered(t)
  <2> SUFFICES ASSUME NEW j \in 1 .. Len(t), t[j].do \notin Free, NEW i \in 1 .. j - 1
               PROVE  t[i].do \in Prior(t[j].do)
    BY DEF Ordered
  <2>1. i \in 1 .. Len(t) /\ i + n \in 1 .. (j + n) - 1
    BY <1>1
  <2> QED BY <1>2, <1>3, <2>1 DEF Ordered
<1>4. ASSUME Blocks(s) PROVE Blocks(t)
  <2> SUFFICES ASSUME NEW i \in 1 .. Len(t), t[i].do = "write"
               PROVE  /\ i + 1 \in 1 .. Len(t) /\ t[i + 1].do \in {"write", "record"}
                      /\ t[i + 1].id = t[i].id
    BY DEF Blocks
  <2>1. /\ (i + n) + 1 \in 1 .. Len(s) /\ s[(i + n) + 1].do \in {"write", "record"}
        /\ s[(i + n) + 1].id = s[i + n].id
    BY <1>2, <1>4 DEF Blocks
  <2>2. i + 1 \in 1 .. Len(t) /\ (i + n) + 1 = (i + 1) + n
    BY <1>1, <2>1
  <2> QED BY <1>2, <2>1, <2>2
<1> QED BY <1>3, <1>4

LEMMA FromFacts ==
  ASSUME NEW s \in Seq(Operations), NEW K
  PROVE  /\ From(s, K) \in Seq(Operations)
         /\ \E n \in 0 .. Len(s) : /\ IsRest(From(s, K), s, n)
                                   /\ \A i \in 1 .. n : s[i].do \in K
                                   /\ n < Len(s) => s[n + 1].do \notin K
<1> DEFINE others == {i \in DOMAIN s : s[i].do \notin K}
<1>0. DOMAIN s = 1 .. Len(s) /\ Len(s) \in Nat
  BY LenProperties
<1>1. CASE others = {}
  <2>1. From(s, K) = <<>>
    BY <1>1 DEF From
  <2>2. \A i \in 1 .. Len(s) : s[i].do \in K
    BY <1>0, <1>1
  <2>3. IsRest(<<>>, s, Len(s))
    BY <1>0 DEF IsRest
  <2> QED BY <1>0, <2>1, <2>2, <2>3, EmptySeq
<1>2. CASE others # {}
  <2>1. others \in SUBSET Nat
    BY <1>0
  <2>2. PICK m \in others : \A j \in others : m <= j
    <3> HIDE DEF others
    <3> QED BY <2>1, <1>2, Smallest
  <2> DEFINE k == CHOOSE i \in others : \A j \in others : i <= j
  <2>3. k \in others /\ \A j \in others : k <= j
    <3> HIDE DEF others
    <3> QED BY <2>2
  <2>4. From(s, K) = SubSeq(s, k, Len(s))
    BY <1>2 DEF From
  <2> HIDE DEF k
  <2>5. k \in 1 .. Len(s) /\ s[k].do \notin K
    BY <1>0, <2>3
  <2>6. \A i \in 1 .. k - 1 : s[i].do \in K
    <3> TAKE i \in 1 .. k - 1
    <3>1. i \in DOMAIN s /\ ~ (k <= i)
      BY <1>0, <2>5
    <3>2. i \notin others
      <4> HIDE DEF others
      <4> QED BY <3>1, <2>3
    <3> QED BY <3>1, <3>2
  <2>7. \A i \in k .. Len(s) : s[i] \in Operations
    BY <1>0, <2>5, ElementOfSeq
  <2>8. /\ SubSeq(s, k, Len(s)) \in Seq(Operations)
        /\ Len(SubSeq(s, k, Len(s))) = Len(s) - k + 1
        /\ \A i \in 1 .. Len(s) - k + 1 : SubSeq(s, k, Len(s))[i] = s[k + i - 1]
    BY <1>0, <2>5, <2>7, SubSeqProperties
  <2>9. k - 1 \in 0 .. Len(s) /\ (k - 1) + 1 = k
    BY <1>0, <2>5
  <2>10. IsRest(From(s, K), s, k - 1)
    <3>1. Len(s) - (k - 1) = Len(s) - k + 1 /\ \A i \in 1 .. Len(s) - (k - 1) : i + (k - 1) = k + i - 1
      BY <1>0, <2>5
    <3> QED BY <2>4, <2>8, <3>1 DEF IsRest
  <2> QED BY <2>4, <2>5, <2>6, <2>8, <2>9, <2>10
<1> QED BY <1>1, <1>2

LEMMA HeadFacts ==
  ASSUME NEW s \in Seq(Operations), s # <<>>
  PROVE  /\ Head(s) = s[1] /\ s[1] \in Operations /\ 1 \in 1 .. Len(s) /\ Len(s) \in Nat
         /\ Tail(s) \in Seq(Operations) /\ IsRest(Tail(s), s, 1)
<1>1. Len(s) \in Nat \ {0}
  BY EmptySeq
<1>2. 1 \in 1 .. Len(s) /\ s[1] \in Operations
  BY <1>1, ElementOfSeq
<1>3. Tail(s) \in Seq(Operations) /\ Len(Tail(s)) = Len(s) - 1
      /\ \A i \in 1 .. Len(Tail(s)) : Tail(s)[i] = s[i + 1]
  BY HeadTailProperties
<1>4. Head(s) = s[1]
  OBVIOUS
<1> QED BY <1>1, <1>2, <1>3, <1>4 DEF IsRest

\* The command goes on after n operations: the first was performed, or it failed and
\* the rest of the n are skipped, none of which others depend on.
Quiet == {"write", "record", "reconcile", "delete", "drop", "clear"}
Moves(n) ==
  /\ n \in 1 .. Len(todo) /\ todo' \in Seq(Operations) /\ IsRest(todo', todo, n)
  /\ n = 1 \/ (made' = {} /\ \A i \in 1 .. n : todo[i].do \in Quiet)
  /\ Stores' /\ Limited(todo[1]) /\ todo[1] \in Operations
  /\ UNCHANGED <<job, stale, lost>>
EntriesMove ==
  /\ todo[1].do = "enter" => reg'[todo[1].id].there
  /\ \A p \in Presets :
       (reg[p] = NoEntry /\ ~ (todo[1].do = "enter" /\ todo[1].id = p))
         \/ (todo[1].do = "forget" /\ todo[1].id = p) => reg'[p] = NoEntry
AgentsMove ==
  /\ todo[1].do = "leave" =>
       /\ agents' \subseteq agents
       /\ active' = IF active = todo[1].agent THEN todo[1].next ELSE active
  /\ todo[1].do \in {"activate", "enlist"} => agents' = agents \cup {todo[1].agent}
  /\ todo[1].do = "activate" => active' = todo[1].agent
  /\ todo[1].do = "enlist" => active' = active
SetUp ==
  todo[1].do = "setup" => \A c \in Base : out'[todo[1].agent][c] = <<Core>>
MadeMoves ==
  /\ made' \in SUBSET Commands
  /\ made' # {} => /\ todo[1].do = "write" /\ active \in Agents
                   /\ \A c \in made' : <<active, c>> \in stale

LEMMA PerformMoves ==
  ASSUME IInv, Perform
  PROVE  Moves(1) /\ EntriesMove /\ AgentsMove /\ SetUp /\ MadeMoves
<1> DEFINE o == todo[1]
<1>1. TypeOK /\ todo \in Seq(Operations) /\ todo # <<>> /\ made \in SUBSET Commands
  BY DEF IInv, Typed, Perform, TypeOK
<1>2. /\ o = Head(todo) /\ o \in Operations /\ 1 \in 1 .. Len(todo) /\ Effect(o)
      /\ todo' \in Seq(Operations) /\ IsRest(todo', todo, 1)
  BY <1>1, HeadFacts DEF Perform
<1>3. o.do = "record" => reg[o.id].there
  BY <1>2 DEF IInv, Planned, Recording, Earlier
<1>4. Stores' /\ Limited(o) /\ made' \in SUBSET Commands
  BY <1>1, <1>2, <1>3, EffectFacts
<1>5. Moves(1)
  BY <1>2, <1>4 DEF Moves, Perform
<1>6. RegTyped /\ o \in Operations
  BY <1>1, <1>2, StoresOfType DEF Stores
<1>7. EntriesMove
  <2>1. CASE o.do = "enter"
    <3>1. reg' = [reg EXCEPT ![o.id] = [there |-> TRUE, on |-> TRUE, prio |-> o.prio,
                                        cmds |-> Nowhere]]
      BY <1>2, <2>1 DEF Effect
    <3>2. o.id \in Presets
      BY <1>6, <2>1, OpFacts
    <3> QED BY <1>6, <2>1, <3>1, <3>2 DEF EntriesMove, RegTyped
  <2>2. CASE o.do = "forget"
    <3>1. reg' = [reg EXCEPT ![o.id] = NoEntry]
      BY <1>2, <2>2 DEF Effect
    <3> QED BY <1>6, <2>2, <3>1 DEF EntriesMove, RegTyped
  <2>3. CASE o.do = "record"
    <3>1. reg' = Tracks(o.id, {active}, made) /\ o.id \in Presets /\ reg[o.id].there
      BY <1>2, <1>3, <1>6, <2>3, OpFacts DEF Effect
    <3>2. TracksIn(reg', o.id, {active}, made)
      BY <1>1, <1>6, <3>1, TracksFacts
    <3>3. reg[o.id] # NoEntry
      BY <3>1 DEF NoEntry
    <3> QED BY <2>3, <3>2, <3>3 DEF EntriesMove, TracksIn
  <2>4. CASE o.do = "drop"
    <3>1. reg' = [reg EXCEPT ![o.id].cmds[o.agent] = {}] /\ o.id \in Presets /\ o.agent \in Agents
      BY <1>2, <1>6, <2>4, OpFacts DEF Effect
    <3>2. NoEntry \in [there : BOOLEAN, on : BOOLEAN, prio : Nat, cmds : {Nowhere}]
      BY DEF NoEntry
    <3>3. NoEntry.cmds = Nowhere /\ [NoEntry EXCEPT !.cmds = Nowhere] = NoEntry
      BY <3>2
    <3>4. [Nowhere EXCEPT ![o.agent] = {}] = Nowhere
      BY DEF Nowhere
    <3>5. reg[o.id] = NoEntry => [reg[o.id] EXCEPT !.cmds = [@ EXCEPT ![o.agent] = {}]] = NoEntry
      BY <3>3, <3>4
    <3>6. reg' = [reg EXCEPT ![o.id] = [reg[o.id] EXCEPT !.cmds = [@ EXCEPT ![o.agent] = {}]]]
      BY <3>1
    <3> QED BY <1>6, <2>4, <3>1, <3>5, <3>6 DEF EntriesMove, RegTyped
  <2>5. CASE o.do = "reconcile"
    <3>1. \/ reg' = reg
          \/ \E at : reg' = Owns(o.name, at, Resolve(o.name))
      BY <1>2, <2>5 DEF Effect
    <3>2. o.name \in Commands
      BY <1>6, <2>5, OpFacts
    <3>3. \A p \in Presets : ~ reg[p].there => reg'[p] = reg[p]
      BY <1>1, <3>1, <3>2, OwnsFacts
    <3>4. \A p \in Presets : reg[p] = NoEntry => ~ reg[p].there
      BY DEF NoEntry
    <3> QED BY <2>5, <3>3, <3>4 DEF EntriesMove
  <2>6. CASE o.do \notin {"enter", "forget", "record", "drop", "reconcile"}
    <3>1. reg' = reg
      BY <1>2, <2>6 DEF Effect
    <3> QED BY <2>6, <3>1 DEF EntriesMove
  <2> QED BY <2>1, <2>2, <2>3, <2>4, <2>5, <2>6
<1>8. AgentsMove
  BY <1>2 DEF AgentsMove, Effect
<1>9. SetUp
  <2> SUFFICES ASSUME o.do = "setup" PROVE \A c \in Base : out'[o.agent][c] = <<Core>>
    BY DEF SetUp
  <2>1. Put({o.agent}, Base, <<Core>>) /\ o.agent \in Agents
    BY <1>2, OpFacts DEF Effect
  <2>2. OutTyped /\ <<Core>> \in Content
    BY <1>1, StoresOfType DEF Stores, Content
  <2>3. \A a \in Agents, c \in Commands :
          out'[a][c] = IF a \in {o.agent} /\ c \in Base THEN <<Core>> ELSE out[a][c]
    BY <2>1, <2>2, PutFacts
  <2> QED BY <2>1, <2>3, ProvidesAssumption
<1>10. MadeMoves
  <2>1. CASE o.do = "write"
    <3>1. PICK at : /\ at \subseteq {active} \cap Agents
                    /\ made' = IF at = {} THEN made ELSE made \cup {o.name}
      BY <1>2, <2>1 DEF Effect, HaveDirectory
    <3>2. active \in job.at
      BY <1>2, <2>1 DEF IInv, Stacked, Turned
    <3>3. Doubtful(o)
      BY <1>1, <1>2 DEF IInv, Stacked, Doubts, Range
    <3>4. active \in Agents => <<active, o.name>> \in stale
      BY <2>1, <3>2, <3>3 DEF Doubtful
    <3>5. made # {} => active \in Agents /\ \A c \in made : <<active, c>> \in stale
      BY DEF IInv, Planned, InHand
    <3> QED BY <1>4, <2>1, <3>1, <3>4, <3>5 DEF MadeMoves
  <2>2. CASE o.do # "write"
    <3>1. o.do # "record" => made = {}
      BY <2>2 DEF IInv, Planned, InHand
    <3>2. made' = {}
      BY <1>2, <2>2, <3>1 DEF Effect
    <3> QED BY <3>2 DEF MadeMoves
  <2> QED BY <2>1, <2>2
<1> QED BY <1>5, <1>7, <1>8, <1>9, <1>10

\* The command ends here, or cleans up.
Stops ==
  /\ todo' = <<>> /\ made' = {} /\ Stores' /\ UNCHANGED <<job, stale, lost>>
  /\ (todo # <<>> /\ Limited(todo[1]) /\ UNCHANGED <<reg, agents, active>>)
     \/ UNCHANGED <<reg, dir, out, agents, active>>
Cleans ==
  /\ todo # <<>> /\ todo[1].do \in {"write", "record"} /\ job.op = "add"
  /\ made' = {} /\ Stores' /\ Limited(todo[1]) /\ UNCHANGED <<job, stale, lost, reg, agents, active>>
  /\ LET Op(c) == [do |-> "delete", agent |-> active, name |-> c]
     IN  todo' = (IF todo[1].do = "record" THEN Each(made, Op) ELSE <<>>)
                 \o <<PackageOp("clear", todo[1].id), PackageOp("forget", todo[1].id)>>

LEMMA FailsMoves ==
  ASSUME IInv, Fails
  PROVE  /\ how' \in {"warned", "failed"}
         /\ \/ \E n \in 1 .. Len(todo) : Moves(n) /\ EntriesMove /\ AgentsMove /\ SetUp /\ MadeMoves
            \/ Stops
            \/ Cleans
<1> DEFINE o == todo[1]
<1>1. TypeOK /\ todo \in Seq(Operations) /\ todo # <<>>
  BY DEF IInv, Typed, Fails
<1>2. /\ o = Head(todo) /\ o \in Operations /\ 1 \in 1 .. Len(todo) /\ Len(todo) \in Nat
      /\ Tail(todo) \in Seq(Operations) /\ IsRest(Tail(todo), todo, 1)
  BY <1>1, HeadFacts
<1>3. Partly(o) /\ Raises(o) /\ UNCHANGED <<job, stale, lost>>
  BY <1>2 DEF Fails
<1>4. Stores' /\ Limited(o) /\ UNCHANGED <<reg, agents, active>>
  BY <1>1, <1>2, <1>3, PartlyFacts
<1>5. how' \in {"warned", "failed"}
  BY <1>3 DEF Raises, RollsBack, Ends
<1>6. o.do \notin {"write", "record"} => made = {}
  BY DEF IInv, Planned, InHand
<1>7. ASSUME o.do \in Quiet PROVE EntriesMove /\ AgentsMove /\ SetUp
  BY <1>4, <1>7 DEF EntriesMove, AgentsMove, SetUp, Quiet
<1>8. ASSUME made' = {} PROVE MadeMoves
  BY <1>8 DEF MadeMoves
<1>9. ASSUME NEW n \in 1 .. Len(todo), todo' \in Seq(Operations), IsRest(todo', todo, n),
             \A i \in 1 .. n : todo[i].do \in Quiet, made' = {}
      PROVE  Moves(n) /\ EntriesMove /\ AgentsMove /\ SetUp /\ MadeMoves
  <2>1. o.do \in Quiet
    BY <1>9
  <2> QED BY <1>2, <1>3, <1>4, <1>7, <1>8, <1>9, <2>1 DEF Moves
<1>10. ASSUME NEW K \in SUBSET Quiet, o.do \in K, todo' = From(todo, K), made' = {}
       PROVE  \E n \in 1 .. Len(todo) : Moves(n) /\ EntriesMove /\ AgentsMove /\ SetUp /\ MadeMoves
  <2>1. PICK n \in 0 .. Len(todo) : /\ IsRest(From(todo, K), todo, n)
                                    /\ \A i \in 1 .. n : todo[i].do \in K
                                    /\ n < Len(todo) => todo[n + 1].do \notin K
    BY <1>1, FromFacts
  <2>2. n # 0
    <3> SUFFICES ASSUME n = 0 PROVE FALSE
      OBVIOUS
    <3>1. n < Len(todo) /\ n + 1 = 1
      BY <1>2
    <3> QED BY <1>10, <2>1, <3>1
  <2>3. n \in 1 .. Len(todo)
    BY <1>2, <2>2
  <2>3a. \A i \in 1 .. n : todo[i].do \in Quiet
    BY <1>10, <2>1
  <2>4. todo' \in Seq(Operations) /\ IsRest(todo', todo, n)
    BY <1>1, <1>10, <2>1, FromFacts
  <2>5. Moves(n) /\ EntriesMove /\ AgentsMove /\ SetUp /\ MadeMoves
    BY <1>9, <1>10, <2>3, <2>3a, <2>4
  <2> QED BY <2>3, <2>5
<1>11. CASE o.do = "reconcile"
  <2>1. todo' = From(todo, {"reconcile"}) /\ made' = {}
    BY <1>3, <1>6, <1>11 DEF Raises
  <2>2. {"reconcile"} \in SUBSET Quiet
    BY DEF Quiet
  <2> QED BY <1>5, <1>10, <1>11, <2>1, <2>2
<1>12. CASE o.do \in {"write", "record"} /\ job.op = "add"
  <2>1. RollsBack(o) /\ made' = {}
    BY <1>3, <1>12 DEF Raises
  <2>2. Cleans
    BY <1>1, <1>3, <1>4, <1>12, <2>1 DEF Cleans, RollsBack
  <2> QED BY <1>5, <2>2
<1>13. CASE o.do = "record" /\ job.op # "add"
  <2>1. todo' = Tail(todo) /\ made' = {}
    BY <1>3, <1>13 DEF Raises
  <2>2. \A i \in 1 .. 1 : todo[i].do \in Quiet
    BY <1>13 DEF Quiet
  <2> QED BY <1>2, <1>5, <1>9, <2>1, <2>2
<1>14. CASE o.do = "write" /\ job.op # "add"
  <2>1. todo' = Tail(From(todo, {"write"})) /\ made' = {}
    BY <1>3, <1>14 DEF Raises
  <2> DEFINE t == From(todo, {"write"})
  <2>2. PICK n \in 0 .. Len(todo) : /\ IsRest(t, todo, n)
                                    /\ \A i \in 1 .. n : todo[i].do \in {"write"}
                                    /\ n < Len(todo) => todo[n + 1].do \notin {"write"}
    BY <1>1, FromFacts
  <2>3. t \in Seq(Operations)
    BY <1>1, FromFacts
  <2>4. n # 0
    <3> SUFFICES ASSUME n = 0 PROVE FALSE
      OBVIOUS
    <3>1. n < Len(todo) /\ n + 1 = 1
      BY <1>2
    <3> QED BY <1>14, <2>2, <3>1
  <2>5a. n \in 1 .. Len(todo) /\ n \in 1 .. n /\ n \in Nat
    BY <1>2, <2>4
  <2>5. todo[n].do = "write" /\ n \in 1 .. Len(todo)
    BY <2>2, <2>5a
  <2>6. n + 1 \in 1 .. Len(todo) /\ todo[n + 1].do \in {"write", "record"}
    BY <2>5 DEF IInv, Planned, Blocks
  <2> HIDE DEF t
  <2>7. Len(t) = Len(todo) - n /\ t # <<>>
    <3>1. Len(t) = Len(todo) - n
      BY <2>2 DEF IsRest
    <3>2. Len(t) # 0
      BY <1>2, <2>5a, <2>6, <3>1
    <3> QED BY <3>1, <3>2, EmptySeq
  <2>8. Tail(t) \in Seq(Operations) /\ IsRest(Tail(t), t, 1) /\ Len(t) \in Nat
    BY <2>3, <2>7, HeadFacts
  <2>9. IsRest(Tail(t), todo, n + 1)
    <3>0. Len(Tail(t)) = Len(t) - 1
      BY <2>8 DEF IsRest
    <3>1. Len(Tail(t)) = Len(todo) - (n + 1)
      BY <1>2, <2>5a, <2>7, <3>0
    <3>2. ASSUME NEW i \in 1 .. Len(todo) - (n + 1) PROVE Tail(t)[i] = todo[i + (n + 1)]
      <4>1. i \in 1 .. Len(t) - 1 /\ i + 1 \in 1 .. Len(todo) - n /\ (i + 1) + n = i + (n + 1)
        BY <1>2, <2>7
      <4>2. Tail(t)[i] = t[i + 1] /\ t[i + 1] = todo[(i + 1) + n]
        BY <2>2, <2>8, <4>1 DEF IsRest
      <4> QED BY <4>1, <4>2
    <3> QED BY <3>1, <3>2 DEF IsRest
  <2>10. \A i \in 1 .. n + 1 : todo[i].do \in Quiet
    <3> TAKE i \in 1 .. n + 1
    <3>1. i \in 1 .. n \/ i = n + 1
      BY <2>5a
    <3>2. i \in 1 .. n => todo[i].do \in Quiet
      BY <2>2 DEF Quiet
    <3>3. todo[n + 1].do \in Quiet
      BY <2>6 DEF Quiet
    <3> QED BY <3>1, <3>2, <3>3
  <2>11. todo' \in Seq(Operations) /\ IsRest(todo', todo, n + 1)
    BY <2>1, <2>8, <2>9 DEF t
  <2>12. Moves(n + 1) /\ EntriesMove /\ AgentsMove /\ SetUp /\ MadeMoves
    BY <1>9, <2>1, <2>6, <2>10, <2>11
  <2> QED BY <1>5, <2>6, <2>12
<1>15. CASE o.do \in {"delete", "drop"}
  <2>1. made' = {}
    BY <1>3, <1>6, <1>15 DEF Raises
  <2>2. CASE job.op \in {"add", "remove"}
    <3>1. todo' = <<>>
      BY <1>3, <1>15, <2>2 DEF Raises, Ends
    <3> QED BY <1>1, <1>3, <1>4, <1>5, <2>1, <3>1 DEF Stops
  <2>3. CASE job.op \notin {"add", "remove"}
    <3>1. todo' = From(todo, {"delete", "drop"})
      BY <1>3, <1>15, <2>3 DEF Raises
    <3>2. {"delete", "drop"} \in SUBSET Quiet
      BY DEF Quiet
    <3> QED BY <1>5, <1>10, <1>15, <2>1, <3>1, <3>2
  <2> QED BY <2>2, <2>3
<1>16. CASE o.do \in {"copy", "enter", "rmdir", "forget"}
  <2>1. made' = {} /\ todo' = <<>>
    BY <1>3, <1>6, <1>16 DEF Raises, Ends
  <2> QED BY <1>1, <1>3, <1>4, <1>5, <2>1 DEF Stops
<1>17. CASE o.do = "clear"
  <2>1. made' = {} /\ todo' = Tail(todo)
    BY <1>3, <1>6, <1>17 DEF Raises
  <2>2. \A i \in 1 .. 1 : todo[i].do \in Quiet
    BY <1>17 DEF Quiet
  <2> QED BY <1>2, <1>5, <1>9, <2>1, <2>2
<1> QED BY <1>3, <1>11, <1>12, <1>13, <1>14, <1>15, <1>16, <1>17 DEF Raises

-----------------------------------------------------------------------------
(* The order of a list *)

LEMMA PriorFacts ==
  /\ Prior("teardown") = {}
  /\ Prior("delete") = Leaving /\ Prior("drop") = Leaving /\ Prior("leave") = Leaving
  /\ Prior("rmdir") = {"delete"} /\ Prior("clear") = {"delete"}
  /\ Prior("forget") = {"delete", "rmdir", "clear"}
  /\ Prior("setup") = {"teardown", "delete", "drop", "leave"}
  /\ Prior("activate") = {"teardown", "delete", "drop", "leave", "setup"}
  /\ Prior("enlist") = {"teardown", "delete", "drop", "leave", "setup"}
  /\ Prior("copy") = {"delete", "rmdir", "forget", "reconcile"}
  /\ Prior("enter") = {"delete", "rmdir", "forget", "reconcile", "copy"}
<1>1. Prior("teardown") = {}
  BY DEF Prior
<1>2. Prior("delete") = Leaving /\ Prior("drop") = Leaving /\ Prior("leave") = Leaving
  BY DEF Prior
<1>3. Prior("rmdir") = {"delete"} /\ Prior("clear") = {"delete"}
  BY DEF Prior
<1>4. Prior("forget") = {"delete", "rmdir", "clear"}
  BY DEF Prior
<1>5. Prior("setup") = Leaving \cup {"leave"}
  BY DEF Prior
<1>6. /\ Prior("activate") = Leaving \cup {"leave", "setup"}
      /\ Prior("enlist") = Leaving \cup {"leave", "setup"}
  BY DEF Prior
<1>7. Prior("copy") = {"delete", "rmdir", "forget", "reconcile"}
  BY DEF Prior
<1>8. Prior("enter") = {"delete", "rmdir", "forget", "reconcile", "copy"}
  BY DEF Prior
<1>9. /\ Leaving \cup {"leave"} = {"teardown", "delete", "drop", "leave"}
      /\ Leaving \cup {"leave", "setup"} = {"teardown", "delete", "drop", "leave", "setup"}
  BY DEF Leaving
<1> QED BY <1>1, <1>2, <1>3, <1>4, <1>5, <1>6, <1>7, <1>8, <1>9

\* The places in what is left of the list.
Places(n) ==
  /\ n \in Nat /\ Len(todo) \in Nat /\ n >= 1 /\ 1 \in 1 .. Len(todo)
  /\ Len(todo') = Len(todo) - n
  /\ \A j \in 1 .. Len(todo') : /\ todo'[j] = todo[j + n] /\ j + n \in 1 .. Len(todo)
                                /\ 1 \in 1 .. (j + n) - 1 /\ todo'[j] \in Operations
  /\ \A j \in 1 .. Len(todo') : \A i \in 1 .. j - 1 :
       todo'[i] = todo[i + n] /\ i + n \in 1 .. (j + n) - 1 /\ i \in 1 .. Len(todo')
  /\ \A j \in 1 .. Len(todo') : \A i \in 1 .. (j + n) - 1 :
       i \in 1 .. n \/ (i - n \in 1 .. j - 1 /\ todo'[i - n] = todo[i])
  /\ \A i \in 1 .. n : i = 1 \/ todo[i].do \in Quiet
  /\ todo[1].do \in Quiet \/ n = 1

LEMMA MovePlaces ==
  ASSUME todo \in Seq(Operations), NEW n, Moves(n)
  PROVE  Places(n)
<1>1. n \in Nat /\ Len(todo) \in Nat /\ n >= 1 /\ 1 \in 1 .. Len(todo) /\ n <= Len(todo)
  BY LenProperties DEF Moves
<1>2. Len(todo') = Len(todo) - n /\ \A j \in 1 .. Len(todo) - n : todo'[j] = todo[j + n]
  BY DEF Moves, IsRest
<1>3. \A j \in 1 .. Len(todo') : /\ todo'[j] = todo[j + n] /\ j + n \in 1 .. Len(todo)
                                 /\ 1 \in 1 .. (j + n) - 1
  BY <1>1, <1>2
<1>4. \A j \in 1 .. Len(todo') : todo'[j] \in Operations
  BY ElementOfSeq DEF Moves
<1>5. \A j \in 1 .. Len(todo') : \A i \in 1 .. j - 1 :
        todo'[i] = todo[i + n] /\ i + n \in 1 .. (j + n) - 1 /\ i \in 1 .. Len(todo')
  BY <1>1, <1>2
<1>6. \A j \in 1 .. Len(todo') : \A i \in 1 .. (j + n) - 1 :
        i \in 1 .. n \/ (i - n \in 1 .. j - 1 /\ todo'[i - n] = todo[i])
  <2> TAKE j \in 1 .. Len(todo')
  <2> TAKE i \in 1 .. (j + n) - 1
  <2>1. CASE i <= n
    BY <1>1, <2>1
  <2>2. CASE i > n
    <3>1. i - n \in 1 .. j - 1 /\ i - n \in 1 .. Len(todo) - n /\ (i - n) + n = i
      BY <1>1, <1>2, <2>2
    <3> QED BY <1>2, <3>1
  <2> QED BY <1>1, <2>1, <2>2
<1>7. (\A i \in 1 .. n : i = 1 \/ todo[i].do \in Quiet) /\ (todo[1].do \in Quiet \/ n = 1)
  <2>1. n = 1 \/ \A i \in 1 .. n : todo[i].do \in Quiet
    BY DEF Moves
  <2> QED BY <1>1, <2>1
<1> QED BY <1>1, <1>2, <1>3, <1>4, <1>5, <1>6, <1>7 DEF Places

LEMMA MovesPlanned ==
  ASSUME IInv, NEW n, Moves(n), EntriesMove, MadeMoves
  PROVE  Planned'
<1>0. todo \in Seq(Operations)
  BY DEF IInv, Typed
<1>0p. Places(n)
  BY <1>0, MovePlaces
<1>0n. n \in Nat /\ Len(todo) \in Nat /\ n >= 1
  BY <1>0p DEF Places
<1>1. Ordered(todo') /\ Blocks(todo') /\ n \in 0 .. Len(todo)
  <2>0. n \in 1 .. Len(todo)
    BY DEF Moves
  <2>1. todo' \in Seq(Operations) /\ IsRest(todo', todo, n) /\ n \in 0 .. Len(todo)
    BY <1>0n, <2>0 DEF Moves
  <2>2. Ordered(todo) /\ Blocks(todo)
    BY DEF IInv, Planned
  <2> QED BY <1>0, <2>1, <2>2, OrderedRest
<1>2. \A j \in 1 .. Len(todo') : \A o, p :
        Earlier(todo, j + n, o, p) =>
          \/ Earlier(todo', j, o, p)
          \/ todo[1].do = o /\ todo[1].id = p
          \/ o \in Quiet
  <2> SUFFICES ASSUME NEW j \in 1 .. Len(todo'), NEW o, NEW p, Earlier(todo, j + n, o, p),
                      o \notin Quiet
               PROVE  Earlier(todo', j, o, p) \/ (todo[1].do = o /\ todo[1].id = p)
    OBVIOUS
  <2>1. PICK i \in 1 .. (j + n) - 1 : todo[i].do = o /\ todo[i].id = p
    BY DEF Earlier
  <2>2. i \in 1 .. n => i = 1
    BY <1>0p, <2>1 DEF Places
  <2>3. i \in 1 .. n \/ (i - n \in 1 .. j - 1 /\ todo'[i - n] = todo[i])
    BY <1>0p DEF Places
  <2> QED BY <2>1, <2>2, <2>3 DEF Earlier
<1>3. \A j \in 1 .. Len(todo') : \A o, p :
        Earlier(todo', j, o, p) => Earlier(todo, j + n, o, p)
  <2> SUFFICES ASSUME NEW j \in 1 .. Len(todo'), NEW o, NEW p, Earlier(todo', j, o, p)
               PROVE  Earlier(todo, j + n, o, p)
    OBVIOUS
  <2>1. PICK i \in 1 .. j - 1 : todo'[i].do = o /\ todo'[i].id = p
    BY DEF Earlier
  <2>2. todo'[i] = todo[i + n] /\ i + n \in 1 .. (j + n) - 1
    BY <1>0p DEF Places
  <2> QED BY <2>1, <2>2 DEF Earlier
<1>4. Limited(todo[1])
  BY DEF Moves
<1>5. \A j \in 1 .. Len(todo') : todo'[j].do \notin Free => todo[1].do \in Prior(todo'[j].do)
  <2> SUFFICES ASSUME NEW j \in 1 .. Len(todo'), todo'[j].do \notin Free
               PROVE  todo[1].do \in Prior(todo'[j].do)
    OBVIOUS
  <2>1. todo'[j] = todo[j + n] /\ j + n \in 1 .. Len(todo) /\ 1 \in 1 .. (j + n) - 1
    BY <1>0p DEF Places
  <2> QED BY <2>1 DEF IInv, Planned, Ordered
<1>6. Recording(todo)'
  <2> SUFFICES ASSUME NEW j \in 1 .. Len(todo'), todo'[j].do = "record"
               PROVE  \/ reg'[todo'[j].id].there /\ ~ Earlier(todo', j, "forget", todo'[j].id)
                      \/ Earlier(todo', j, "enter", todo'[j].id)
    BY DEF Recording, Earlier
  <2> DEFINE p == todo'[j].id
  <2>a. /\ todo'[j] = todo[j + n] /\ j + n \in 1 .. Len(todo)
        /\ 1 \in 1 .. (j + n) - 1 /\ todo'[j] \in Operations
    BY <1>0p DEF Places
  <2>0. p \in Presets
    BY <2>a, OpFacts
  <2>1. \/ reg[p].there /\ ~ Earlier(todo, j + n, "forget", p)
        \/ Earlier(todo, j + n, "enter", p)
    BY <2>a DEF IInv, Planned, Recording
  <2>2. CASE reg[p].there /\ ~ Earlier(todo, j + n, "forget", p)
    <3>1. ~ (todo[1].do = "forget" /\ todo[1].id = p)
      BY <2>a, <2>2 DEF Earlier
    <3>2. reg'[p].there
      BY <1>4, <2>0, <2>2, <3>1 DEF Limited, SameEntries, EntriesMove
    <3> QED BY <1>3, <2>2, <3>2
  <2>3. CASE Earlier(todo, j + n, "enter", p)
    <3>1. Earlier(todo', j, "enter", p) \/ (todo[1].do = "enter" /\ todo[1].id = p)
      BY <1>2, <2>3 DEF Quiet
    <3>2. ASSUME todo[1].do = "enter", todo[1].id = p
          PROVE  reg'[p].there /\ ~ Earlier(todo', j, "forget", p)
      <4>1. reg'[p].there
        BY <3>2 DEF EntriesMove
      <4>2. ASSUME Earlier(todo', j, "forget", p) PROVE FALSE
        <5>1. PICK i \in 1 .. j - 1 : todo'[i].do = "forget"
          BY <4>2 DEF Earlier
        <5>2. "enter" \in Prior("forget")
          BY <1>5, <3>2, <5>1 DEF Free
        <5> QED BY <5>2, PriorFacts
      <4> QED BY <4>1, <4>2
    <3> QED BY <3>1, <3>2
  <2> QED BY <2>1, <2>2, <2>3
<1>7. Entering(todo)'
  <2> SUFFICES ASSUME NEW j \in 1 .. Len(todo'), todo'[j].do = "enter"
               PROVE  reg'[todo'[j].id] = NoEntry \/ Earlier(todo', j, "forget", todo'[j].id)
    BY DEF Entering, Earlier
  <2> DEFINE p == todo'[j].id
  <2>a. /\ todo'[j] = todo[j + n] /\ j + n \in 1 .. Len(todo)
        /\ 1 \in 1 .. (j + n) - 1 /\ todo'[j] \in Operations
    BY <1>0p DEF Places
  <2>0. p \in Presets
    BY <2>a, OpFacts
  <2>1. reg[p] = NoEntry \/ Earlier(todo, j + n, "forget", p)
    BY <2>a DEF IInv, Planned, Entering
  <2>2. todo[1].do # "enter"
    <3>1. todo[1].do \in Prior("enter")
      BY <1>5 DEF Free
    <3> QED BY <3>1, PriorFacts
  <2>3. Earlier(todo, j + n, "forget", p) =>
          Earlier(todo', j, "forget", p) \/ (todo[1].do = "forget" /\ todo[1].id = p)
    BY <1>2 DEF Quiet
  <2> QED BY <2>0, <2>1, <2>2, <2>3 DEF EntriesMove
<1>8. InHand'
  <2> SUFFICES ASSUME made' # {}
               PROVE  /\ todo' # <<>> /\ todo'[1].do \in {"write", "record"} /\ active' \in Agents
                      /\ \A c \in made' : <<active', c>> \in stale'
    BY DEF InHand
  <2>1. todo[1].do = "write" /\ active \in Agents /\ \A c \in made' : <<active, c>> \in stale
    BY DEF MadeMoves
  <2>2. active' = active /\ stale' = stale
    BY <1>4, <2>1 DEF Limited, SameWho, Moves
  <2>3. n = 1
    BY DEF Moves
  <2>4. 1 + 1 \in 1 .. Len(todo) /\ todo[1 + 1].do \in {"write", "record"}
    <3>1. 1 \in 1 .. Len(todo)
      BY <1>0p DEF Places
    <3> QED BY <2>1, <3>1 DEF IInv, Planned, Blocks
  <2>5. 1 \in 1 .. Len(todo') /\ todo'[1] = todo[1 + 1]
    <3>1. Len(todo') = Len(todo) - 1 /\ \A j \in 1 .. Len(todo') : todo'[j] = todo[j + n]
      BY <1>0p, <2>3 DEF Places
    <3>2. 1 \in 1 .. Len(todo')
      BY <1>0n, <2>4, <3>1
    <3> QED BY <2>3, <3>1, <3>2
  <2>6. todo' # <<>>
    BY <2>5
  <2> QED BY <2>1, <2>2, <2>4, <2>5, <2>6
<1> QED BY <1>1, <1>6, <1>7, <1>8 DEF Planned

-----------------------------------------------------------------------------
(* What is in doubt, and what is right *)

\* What an operation changes in the stack is in doubt.
LEMMA StackKept ==
  ASSUME TypeOK, NEW o \in Operations, Limited(o), Doubtful(o), NEW c \in Commands
  PROVE  \/ Layers(c)' = Layers(c) /\ Resolve(c)' = Resolve(c)
         \/ \A a \in Agents : <<a, c>> \in stale
<1> SUFFICES ASSUME ~ \A a \in Agents : <<a, c>> \in stale
             PROVE  \A p \in Presets : c \in Provides[p] =>
                      /\ p \in Enabled' <=> p \in Enabled
                      /\ p \in Enabled => reg'[p].prio = reg[p].prio
  BY LayersSame
<1> TAKE p \in Presets
<1> HAVE c \in Provides[p]
<1>1. ~ Doubted(p)
  BY DEF Doubted
<1>2. /\ reg'[p].there = reg[p].there /\ reg'[p].on = reg[p].on /\ reg'[p].prio = reg[p].prio
      \/ (o.do \in {"enter", "forget"} /\ o.id = p)
  BY DEF Limited, SameEntries
<1>3. \/ dir'[p] = dir[p] \/ (o.do = "copy" /\ o.id = p)
      \/ o.do \in {"rmdir", "clear"} /\ o.id = p /\ dir'[p] # "whole"
  BY DEF Limited, SamePackages
<1>4. o.id = p =>
        /\ o.do \notin {"copy", "enter", "clear"}
        /\ o.do \in {"rmdir", "forget"} => dir[p] # "whole"
  BY <1>1 DEF Doubtful
<1>5. CASE o.do = "forget" /\ o.id = p
  <2>1. dir[p] # "whole" /\ dir'[p] = dir[p]
    BY <1>3, <1>4, <1>5
  <2> QED BY <2>1 DEF Enabled
<1>6. CASE ~ (o.do = "forget" /\ o.id = p)
  <2>1. reg'[p].there = reg[p].there /\ reg'[p].on = reg[p].on /\ reg'[p].prio = reg[p].prio
    BY <1>2, <1>4, <1>6
  <2>2. dir'[p] = "whole" <=> dir[p] = "whole"
    BY <1>3, <1>4
  <2> QED BY <2>1, <2>2 DEF Enabled
<1> QED BY <1>5, <1>6

\* Operations on files alone leave the stack as it is.
LEMMA StackStays ==
  ASSUME NEW o, Limited(o), o.do \notin {"copy", "enter", "rmdir", "clear", "forget"}
  PROVE  /\ Enabled' = Enabled /\ Offered' = Offered
         /\ \A c : Layers(c)' = Layers(c) /\ Resolve(c)' = Resolve(c)
<1>1. \A p \in Presets : /\ reg'[p].there = reg[p].there /\ reg'[p].on = reg[p].on
                         /\ reg'[p].prio = reg[p].prio /\ dir'[p] = dir[p]
  BY DEF Limited, SameEntries, SamePackages
<1>2. Enabled' = Enabled
  BY <1>1 DEF Enabled
<1>3. Offered' = Offered
  BY <1>2 DEF Offered
<1>4. \A p \in Presets : (p \in Enabled' <=> p \in Enabled) /\ reg'[p].prio = reg[p].prio
  BY <1>1, <1>2
<1>5. ASSUME NEW c PROVE Layers(c)' = Layers(c) /\ Resolve(c)' = Resolve(c)
  BY <1>4, LayersSame
<1> QED BY <1>2, <1>3, <1>5

LEMMA ClaimsKept ==
  ASSUME TypeOK, NEW o \in Operations, Limited(o), Doubtful(o), Claims, stale' = stale,
         agents' \subseteq Agents,
         o.do = "write" => active \in job.at,
         \A a \in agents' \ agents : o.do \in {"activate", "enlist"} /\ Ready(a)
  PROVE  Claims'
<1> SUFFICES ASSUME NEW a \in agents', NEW c \in Commands, Layers(c)' # <<>>, <<a, c>> \notin stale
             PROVE  out'[a][c] = Resolve(c)'
  BY DEF Claims, Right
<1>1. Layers(c)' = Layers(c) /\ Resolve(c)' = Resolve(c)
  BY StackKept
<1>2. Right(a, c)
  BY DEF Claims, Ready
<1>3. out[a][c] = Resolve(c)
  BY <1>1, <1>2 DEF Right
<1>4. out'[a][c] = out[a][c] \/ Writes(o, a, c)
  BY DEF Limited, FilesChange
<1>5. Writes(o, a, c) => out'[a][c] = Resolve(c)
  <2>1. o.do # "delete" \/ a # o.agent \/ c # o.name
    BY DEF Doubtful
  <2>2. o.do # "teardown" \/ a # o.agent
    BY DEF Doubtful
  <2>3. o.do # "write" \/ a # active \/ c # o.name
    BY DEF Doubtful
  <2>4. o.do # "setup" \/ a # o.agent
    <3>1. o.do = "setup" => o.agent \notin agents
      BY DEF Doubtful
    <3> QED BY <3>1
  <2> QED BY <2>1, <2>2, <2>3, <2>4 DEF Writes
<1> QED BY <1>1, <1>3, <1>4, <1>5

LEMMA RangeFacts ==
  ASSUME NEW s \in Seq(Operations)
  PROVE  \A o : o \in Range(s) <=> \E j \in 1 .. Len(s) : o = s[j]
<1>1. DOMAIN s = 1 .. Len(s)
  BY LenProperties
<1> QED BY <1>1 DEF Range

\* Who may come to be active or installed, and what precedes what.
LEMMA MovesStacked ==
  ASSUME IInv, NEW n, Moves(n), AgentsMove, SetUp
  PROVE  Claims' /\ Doubts' /\ Turned(todo)' /\ Arrival(todo)'
<1> DEFINE o == todo[1]
<1>0. TypeOK /\ todo \in Seq(Operations) /\ Claims /\ Ordered(todo)
  BY DEF IInv, Typed, Stacked, Planned
<1>1. Places(n)
  BY <1>0, MovePlaces
<1>2. o \in Operations /\ Limited(o) /\ stale' = stale /\ job' = job /\ todo' \in Seq(Operations)
  BY DEF Moves
<1>3. 1 \in 1 .. Len(todo) /\ o \in Range(todo)
  BY <1>0, <1>1, RangeFacts DEF Places
<1>4. Doubtful(o)
  BY <1>3 DEF IInv, Stacked, Doubts
<1>5. \A j \in 1 .. Len(todo') : todo'[j].do \notin Free => o.do \in Prior(todo'[j].do)
  <2> SUFFICES ASSUME NEW j \in 1 .. Len(todo'), todo'[j].do \notin Free
               PROVE  o.do \in Prior(todo'[j].do)
    OBVIOUS
  <2>1. todo'[j] = todo[j + n] /\ j + n \in 1 .. Len(todo) /\ 1 \in 1 .. (j + n) - 1
    BY <1>1 DEF Places
  <2> QED BY <1>0, <2>1 DEF Ordered
<1>5a. agents' \subseteq Agents
  BY DEF Moves, Stores, WhoTyped
<1>6. Claims'
  <2>1. o.do = "write" => active \in job.at
    BY <1>3 DEF IInv, Stacked, Turned
  <2>2. \A a \in agents' \ agents : o.do \in {"activate", "enlist"} /\ Ready(a)
    <3> TAKE a \in agents' \ agents
    <3>1. o.do \in {"leave", "activate", "enlist"}
      BY <1>2 DEF Limited, SameWho
    <3>2. o.do \in {"activate", "enlist"} /\ a = o.agent
      BY <3>1 DEF AgentsMove
    <3>3. \A i \in 1 .. 1 - 1 : FALSE
      OBVIOUS
    <3>4. Arrival(todo)
      BY DEF IInv, Stacked
    <3>5. Ready(o.agent)
      BY <1>3, <3>2, <3>3, <3>4 DEF Arrival
    <3> QED BY <3>2, <3>5
  <2> QED BY <1>0, <1>2, <1>4, <1>5a, <2>1, <2>2, ClaimsKept
<1>7. Doubts'
  <2> SUFFICES ASSUME NEW q \in Range(todo') PROVE Doubtful(q)'
    BY DEF Doubts
  <2>a. PICK j \in 1 .. Len(todo') : q = todo'[j]
    BY <1>2, RangeFacts
  <2>1. q = todo[j + n] /\ j + n \in 1 .. Len(todo)
    BY <1>1, <2>a DEF Places
  <2>2. Doubtful(q)
    BY <1>0, <2>1, RangeFacts DEF IInv, Stacked, Doubts
  <2>2a. q \in Operations
    BY <1>1, <2>a DEF Places
  <2>3. q.do \in {"rmdir", "forget"} => Doubted(q.id) \/ dir'[q.id] # "whole"
    <3> HAVE q.do \in {"rmdir", "forget"}
    <3>1. o.do # "copy"
      BY <1>5, <2>a, PriorFacts DEF Free
    <3>2. dir'[q.id] = dir[q.id] \/ dir'[q.id] # "whole"
      BY <1>2, <2>2a, <3>1, OpFacts DEF Limited, SamePackages
    <3> QED BY <2>2, <3>2 DEF Doubtful
  <2>4. q.do = "setup" => q.agent \notin agents' /\ \A c \in Offered' : <<q.agent, c>> \in stale
    <3> HAVE q.do = "setup"
    <3>1. o.do \in {"teardown", "delete", "drop", "leave"}
      BY <1>5, <2>a, PriorFacts DEF Free
    <3>2. agents' \subseteq agents
      BY <1>2, <3>1 DEF Limited, SameWho, AgentsMove
    <3>3. Offered' = Offered
      BY <1>2, <3>1, StackStays
    <3> QED BY <2>2, <3>2, <3>3 DEF Doubtful
  <2>5. q.do = "delete" => <<q.agent, q.name>> \in stale
    BY <2>2 DEF Doubtful
  <2>6. q.do = "teardown" => \A c \in Commands : <<q.agent, c>> \in stale
    BY <2>2 DEF Doubtful
  <2>7. q.do = "write" => \A a \in job.at \cap Agents : <<a, q.name>> \in stale
    BY <2>2 DEF Doubtful
  <2>8. q.do \in {"write", "record"} => job.op # "add" \/ Doubted(q.id)
    BY <2>2 DEF Doubtful
  <2>9. q.do \in {"copy", "enter", "clear"} => Doubted(q.id)
    BY <2>2 DEF Doubtful
  <2>10. \A p : Doubted(p)' <=> Doubted(p)
    BY <1>2 DEF Doubted
  <2> QED BY <1>2, <2>3, <2>4, <2>5, <2>6, <2>7, <2>8, <2>9, <2>10 DEF Doubtful
<1>8. Turned(todo)'
  <2> SUFFICES ASSUME NEW j \in 1 .. Len(todo'), todo'[j].do = "write"
               PROVE  \/ \E i \in 1 .. j - 1 : todo'[i].do = "activate" /\ todo'[i].agent \in job.at
                      \/ /\ \E i \in 1 .. j - 1 : todo'[i].do = "leave" /\ todo'[i].next \in job.at
                                                  /\ todo'[i].agent = active'
                         /\ \A i \in 1 .. j - 1 : todo'[i].do # "activate"
                      \/ active' \in job.at /\ \A i \in 1 .. j - 1 : todo'[i].do \notin Turns
    BY <1>2 DEF Turned
  <2>1. todo'[j] = todo[j + n] /\ j + n \in 1 .. Len(todo) /\ 1 \in 1 .. (j + n) - 1
    BY <1>1 DEF Places
  <2>2. \A i \in 1 .. j - 1 : todo'[i] = todo[i + n] /\ i + n \in 1 .. (j + n) - 1 /\ i \in 1 .. Len(todo')
    BY <1>1 DEF Places
  <2>3. \A i \in 1 .. (j + n) - 1 :
          i \in 1 .. n \/ (i - n \in 1 .. j - 1 /\ todo'[i - n] = todo[i])
    BY <1>1 DEF Places
  <2>3a. \A i \in 1 .. n : i = 1 \/ todo[i].do \notin Turns
    BY <1>1 DEF Places, Quiet, Turns
  <2>4. \A i \in 1 .. j - 1 : todo'[i].do \in Turns => o.do \in Prior(todo'[i].do)
    BY <1>5, <2>2 DEF Turns, Free
  <2>5. o.do \in Turns => \A i \in 1 .. j - 1 : todo'[i].do # "leave"
    BY <2>4, PriorFacts DEF Turns, Leaving
  <2>6. o.do = "activate" => \A i \in 1 .. j - 1 : todo'[i].do \notin Turns
    BY <2>4, PriorFacts DEF Turns, Leaving
  <2>7. \/ \E i \in 1 .. (j + n) - 1 : todo[i].do = "activate" /\ todo[i].agent \in job.at
        \/ /\ \E i \in 1 .. (j + n) - 1 : todo[i].do = "leave" /\ todo[i].next \in job.at
                                          /\ todo[i].agent = active
           /\ \A i \in 1 .. (j + n) - 1 : todo[i].do # "activate"
        \/ active \in job.at /\ \A i \in 1 .. (j + n) - 1 : todo[i].do \notin Turns
    BY <2>1 DEF IInv, Stacked, Turned
  <2>8. CASE \E i \in 1 .. (j + n) - 1 : todo[i].do = "activate" /\ todo[i].agent \in job.at
    <3>1. PICK i \in 1 .. (j + n) - 1 : todo[i].do = "activate" /\ todo[i].agent \in job.at
      BY <2>8
    <3>2. CASE i \in 1 .. n
      <4>1. o.do = "activate" /\ o.agent \in job.at
        BY <2>3a, <3>1, <3>2 DEF Turns
      <4>2. active' \in job.at
        BY <4>1 DEF AgentsMove
      <4> QED BY <2>6, <4>1, <4>2
    <3>3. CASE i \notin 1 .. n
      BY <2>3, <3>1, <3>3
    <3> QED BY <3>2, <3>3
  <2>9. CASE /\ \E i \in 1 .. (j + n) - 1 : todo[i].do = "leave" /\ todo[i].next \in job.at
                                            /\ todo[i].agent = active
             /\ \A i \in 1 .. (j + n) - 1 : todo[i].do # "activate"
    <3>1. PICK i \in 1 .. (j + n) - 1 : todo[i].do = "leave" /\ todo[i].next \in job.at
                                        /\ todo[i].agent = active
      BY <2>9
    <3>2. \A k \in 1 .. j - 1 : todo'[k].do # "activate"
      BY <2>2, <2>9
    <3>3. CASE i \in 1 .. n
      <4>1. o.do = "leave" /\ o.next \in job.at /\ o.agent = active
        BY <2>3a, <3>1, <3>3 DEF Turns
      <4>2. active' \in job.at
        BY <4>1 DEF AgentsMove
      <4> QED BY <2>5, <3>2, <4>1, <4>2 DEF Turns
    <3>4. CASE i \notin 1 .. n
      <4>1. i - n \in 1 .. j - 1 /\ todo'[i - n] = todo[i]
        BY <2>3, <3>4
      <4>2. o.do \in Leaving
        BY <2>4, <3>1, <4>1, PriorFacts DEF Turns
      <4>3. active' = active
        BY <1>2, <4>2 DEF Leaving, Limited, SameWho
      <4> QED BY <3>1, <3>2, <4>1, <4>3
    <3> QED BY <3>3, <3>4
  <2>10. CASE active \in job.at /\ \A i \in 1 .. (j + n) - 1 : todo[i].do \notin Turns
    <3>1. o.do \notin Turns
      BY <2>1, <2>10
    <3>2. active' = active
      BY <1>2, <3>1 DEF Turns, Limited, SameWho, AgentsMove
    <3> QED BY <2>2, <2>10, <3>2
  <2> QED BY <2>7, <2>8, <2>9, <2>10
<1>9. Arrival(todo)'
  <2> SUFFICES ASSUME NEW j \in 1 .. Len(todo'), todo'[j].do \in {"activate", "enlist"}
               PROVE  \/ j = 1 /\ Ready(todo[j].agent)'
                      \/ \E i \in 1 .. j - 1 : todo'[i].do = "setup" /\ todo'[i].agent = todo'[j].agent
    BY DEF Arrival, Ready, Right
  <2>a. PICK a : a = todo'[j].agent
    OBVIOUS
  <2>1. /\ todo'[j] = todo[j + n] /\ j + n \in 1 .. Len(todo) /\ 1 \in 1 .. (j + n) - 1
        /\ todo'[j] \in Operations
    BY <1>1 DEF Places
  <2>2. j + n # 1
    BY <2>1
  <2>3. PICK i \in 1 .. (j + n) - 1 : todo[i].do = "setup" /\ todo[i].agent = a
    BY <2>1, <2>2, <2>a DEF IInv, Stacked, Arrival
  <2>4. CASE i \notin 1 .. n
    <3>1. i - n \in 1 .. j - 1 /\ todo'[i - n] = todo[i]
      BY <1>1, <2>4 DEF Places
    <3> QED BY <2>a, <2>3, <3>1
  <2>5. CASE i \in 1 .. n
    <3>1. o.do = "setup" /\ o.agent = a
      BY <1>1, <2>3, <2>5 DEF Places, Quiet
    <3>2. j = 1
      <4> SUFFICES ASSUME j # 1 PROVE FALSE
        OBVIOUS
      <4>1. 1 \in 1 .. j - 1 /\ 1 \in 1 .. Len(todo')
        OBVIOUS
      <4>2. todo'[1] = todo[1 + n] /\ 1 + n \in 1 .. (j + n) - 1
        BY <1>1, <4>1 DEF Places
      <4>3. todo'[1].do \in {"teardown", "delete", "drop", "leave", "setup"}
        <5>1. todo[1 + n].do \in Prior(todo'[j].do)
          BY <1>0, <2>1, <4>2 DEF Ordered, Free
        <5> QED BY <4>2, <5>1, PriorFacts
      <4>4. "setup" \in Prior(todo'[1].do)
        BY <1>5, <3>1, <4>1, <4>3 DEF Free
      <4> QED BY <4>3, <4>4, PriorFacts DEF Leaving
    <3>3. Ready(a)'
      <4> SUFFICES ASSUME NEW c \in Commands, Layers(c)' # <<>>, <<a, c>> \notin stale
                   PROVE  out'[a][c] = Resolve(c)'
        BY <1>2 DEF Ready, Right
      <4>1. Layers(c)' = Layers(c) /\ Resolve(c)' = Resolve(c)
        BY <1>2, <3>1, StackStays
      <4>2. c \notin Offered
        BY <1>4, <3>1 DEF Doubtful
      <4>3. c \in Base /\ Resolve(c) = <<Core>>
        BY <1>0, <4>1, <4>2, ResolveCore
      <4> QED BY <3>1, <4>1, <4>3 DEF SetUp
    <3>4. Ready(todo[j].agent)'
      BY <2>a, <3>3 DEF Ready, Right
    <3> QED BY <3>2, <3>4
  <2> QED BY <2>4, <2>5
<1> QED BY <1>6, <1>7, <1>8, <1>9

-----------------------------------------------------------------------------
(* A failed command ends or cleans up *)

\* One operation for each element of a set.
Lists(e, X, f, T) ==
  /\ e \in Seq(T) /\ Len(e) \in Nat
  /\ \A i \in 1 .. Len(e) : \E x \in X : e[i] = f[x]
  /\ \A x \in X : \E i \in 1 .. Len(e) : e[i] = f[x]
Listed(X, f) == [i \in 1 .. Len(SetToSeq(X)) |-> f[SetToSeq(X)[i]]]

LEMMA EachFacts ==
  ASSUME NEW X, IsFiniteSet(X), NEW T, NEW f \in [X -> T]
  PROVE  Lists(Listed(X, f), X, f, T)
<1> DEFINE s == SetToSeq(X)
           e == Listed(X, f)
<1>1. s \in Seq(X) /\ Range(s) = X
  BY SetToSeqIn
<1> HIDE DEF s
<1>2. Len(s) \in Nat /\ DOMAIN s = 1 .. Len(s) /\ \A i \in 1 .. Len(s) : s[i] \in X
  BY <1>1, LenProperties, ElementOfSeq
<1>3. e = [i \in 1 .. Len(s) |-> f[s[i]]]
  BY DEF s, Listed
<1> HIDE DEF e
<1>4. e \in [1 .. Len(s) -> T]
  BY <1>2, <1>3
<1>5. e \in Seq(T) /\ Len(e) = Len(s)
  BY <1>2, <1>3, <1>4
<1>6. \A i \in 1 .. Len(e) : \E x \in X : e[i] = f[x]
  BY <1>2, <1>3, <1>5
<1>7. \A x \in X : \E i \in 1 .. Len(e) : e[i] = f[x]
  <2> TAKE x \in X
  <2>1. PICK i \in 1 .. Len(s) : s[i] = x
    BY <1>1, <1>2 DEF Range
  <2> QED BY <1>3, <1>5, <2>1
<1>8. Lists(e, X, f, T)
  BY <1>2, <1>5, <1>6, <1>7 DEF Lists
<1> QED BY <1>8 DEF e

\* The places in a concatenation.
Joins(u, s, t) ==
  /\ u \in Seq(Operations) /\ Len(u) = Len(s) + Len(t) /\ Len(s) \in Nat /\ Len(t) \in Nat
  /\ \A j \in 1 .. Len(s) : u[j] = s[j] /\ j \in 1 .. Len(u)
  /\ \A j \in 1 .. Len(t) : u[j + Len(s)] = t[j] /\ j + Len(s) \in 1 .. Len(u)
  /\ \A j \in 1 .. Len(u) :
       j \in 1 .. Len(s) \/ (j - Len(s) \in 1 .. Len(t) /\ (j - Len(s)) + Len(s) = j)

LEMMA JoinFacts ==
  ASSUME NEW s \in Seq(Operations), NEW t \in Seq(Operations)
  PROVE  Joins(s \o t, s, t)
<1>1. /\ s \o t \in Seq(Operations) /\ Len(s \o t) = Len(s) + Len(t)
      /\ \A i \in 1 .. Len(s) + Len(t) : (s \o t)[i] = IF i <= Len(s) THEN s[i] ELSE t[i - Len(s)]
  BY ConcatProperties
<1>2. Len(s) \in Nat /\ Len(t) \in Nat
  BY LenProperties
<1> DEFINE u == s \o t
<1> HIDE DEF u
<1>3. /\ u \in Seq(Operations) /\ Len(u) = Len(s) + Len(t)
      /\ \A i \in 1 .. Len(s) + Len(t) : u[i] = IF i <= Len(s) THEN s[i] ELSE t[i - Len(s)]
  BY <1>1 DEF u
<1>4. \A j \in 1 .. Len(s) : u[j] = s[j] /\ j \in 1 .. Len(u)
  BY <1>2, <1>3
<1>5. \A j \in 1 .. Len(t) : u[j + Len(s)] = t[j] /\ j + Len(s) \in 1 .. Len(u)
  <2> TAKE j \in 1 .. Len(t)
  <2>1. j + Len(s) \in 1 .. Len(s) + Len(t) /\ ~ (j + Len(s) <= Len(s)) /\ (j + Len(s)) - Len(s) = j
    BY <1>2
  <2> QED BY <1>3, <2>1
<1>6. \A j \in 1 .. Len(u) :
        j \in 1 .. Len(s) \/ (j - Len(s) \in 1 .. Len(t) /\ (j - Len(s)) + Len(s) = j)
  BY <1>2, <1>3
<1>7. Joins(u, s, t)
  BY <1>2, <1>3, <1>4, <1>5, <1>6 DEF Joins
<1> QED BY <1>7 DEF u

LEMMA TypesNext ==
  /\ Stores' /\ job'.names \subseteq Commands /\ job'.at \subseteq Agents \cup {NoAgent}
  /\ made' \subseteq Commands /\ how' \in {"ok", "warned", "failed", "dead"}
  /\ (stale' \cup lost') \subseteq Agents \X Commands
  /\ count' \in [commands : 0..MaxCommands, faults : 0..MaxFaults]
  => TypeOK'
BY DEF TypeOK, Stores, RegTyped, DirTyped, OutTyped, WhoTyped, Content

LEMMA CountsUp ==
  ASSUME TypeOK, Fault
  PROVE  count' \in [commands : 0..MaxCommands, faults : 0..MaxFaults]
<1>1. count \in [commands : 0..MaxCommands, faults : 0..MaxFaults] /\ count.faults < MaxFaults
  BY DEF TypeOK, Fault
<1>2. count.faults + 1 \in 0 .. MaxFaults
  BY <1>1, BoundsAssumption
<1> QED BY <1>1, <1>2 DEF Fault

LEMMA StopsHold ==
  ASSUME IInv, Stops, Fault, how' \in {"warned", "failed", "dead"}, job.op # "none"
  PROVE  IInv'
<1>1. TypeOK /\ todo' = <<>> /\ made' = {} /\ Stores' /\ UNCHANGED <<job, stale, lost>>
  BY DEF IInv, Typed, Stops
<1>2. count' \in [commands : 0..MaxCommands, faults : 0..MaxFaults]
  BY <1>1, CountsUp
<1>3. Typed'
  <2>1. TypeOK'
    BY <1>1, <1>2, TypesNext DEF TypeOK
  <2>2. todo' \in Seq(Operations)
    BY <1>1, EmptySeq
  <2> QED BY <1>1, <2>1, <2>2 DEF Typed
<1>4. Len(todo') = 0 /\ 1 .. Len(todo') = {}
  BY <1>1
<1>5. Planned'
  BY <1>1, <1>4 DEF Planned, Ordered, Blocks, InHand, Recording, Entering
<1>6. Owned'
  BY <1>1 DEF Owned, NothingOrphaned
<1>7. Claims'
  <2>1. CASE UNCHANGED <<reg, dir, out, agents, active>>
    <3>1. \A c : Layers(c)' = Layers(c) /\ Resolve(c)' = Resolve(c)
      BY <2>1 DEF Layers, Enabled, Sorted, InOrder, Precedes, Resolve, Replaces
    <3> QED BY <1>1, <2>1, <3>1 DEF IInv, Stacked, Claims, Right
  <2>2. CASE todo # <<>> /\ Limited(todo[1]) /\ UNCHANGED <<reg, agents, active>>
    <3>1. todo[1] \in Operations /\ 1 \in 1 .. Len(todo) /\ todo \in Seq(Operations)
      BY <2>2, HeadFacts DEF IInv, Typed
    <3>2. todo[1] \in Range(todo)
      BY <3>1, RangeFacts
    <3>3. Doubtful(todo[1]) /\ Claims
      BY <3>2 DEF IInv, Stacked, Doubts
    <3>4. todo[1].do = "write" => active \in job.at
      BY <3>1 DEF IInv, Stacked, Turned
    <3>5. agents' \subseteq Agents /\ agents' \ agents = {}
      BY <1>1, <2>2 DEF TypeOK
    <3> QED BY <1>1, <2>2, <3>1, <3>3, <3>4, <3>5, ClaimsKept
  <2> QED BY <2>1, <2>2 DEF Stops
<1>8. Stacked'
  BY <1>1, <1>4, <1>7 DEF Stacked, Doubts, Range, Turned, Arrival, Settling
<1> QED BY <1>3, <1>5, <1>6, <1>8 DEF IInv

\* What a clean-up consists of, d deletions for preset p.
Cleaning(s, d, p) ==
  /\ s \in Seq(Operations) /\ d \in Nat /\ Len(s) = d + 2
  /\ \A i \in 1 .. d : s[i].do = "delete" /\ s[i].agent = active /\ s[i].name \in made
  /\ s[d + 1].do = "clear" /\ s[d + 1].id = p /\ s[d + 2].do = "forget" /\ s[d + 2].id = p
  /\ \A i \in 1 .. Len(s) : i \in 1 .. d \/ i = d + 1 \/ i = d + 2

LEMMA CleansFacts ==
  ASSUME IInv, Cleans
  PROVE  \E d : Cleaning(todo', d, todo[1].id)
<1> DEFINE p == todo[1].id
           Op(c) == [do |-> "delete", agent |-> active, name |-> c]
           D == IF todo[1].do = "record" THEN Each(made, Op) ELSE <<>>
           E == <<PackageOp("clear", p), PackageOp("forget", p)>>
<1>0. TypeOK /\ todo \in Seq(Operations) /\ todo # <<>> /\ made \in SUBSET Commands
  BY DEF IInv, Typed, Cleans, TypeOK
<1>1. todo' = D \o E /\ todo[1].do \in {"write", "record"}
  BY DEF Cleans
<1>2. p \in Presets
  <2>1. todo[1] \in Operations
    BY <1>0, HeadFacts
  <2> QED BY <1>1, <2>1, OpFacts
<1>3. made # {} => active \in Agents
  BY DEF IInv, Planned, InHand
<1>4. /\ D \in Seq(Operations)
      /\ \A i \in 1 .. Len(D) : D[i].do = "delete" /\ D[i].agent = active /\ D[i].name \in made
  <2>1. <<>> \in Seq(Operations) /\ 1 .. Len(<<>>) = {}
    BY EmptySeq
  <2>2. Each(made, Op) \in Seq(Operations)
        /\ \A i \in 1 .. Len(Each(made, Op)) :
             /\ Each(made, Op)[i].do = "delete" /\ Each(made, Op)[i].agent = active
             /\ Each(made, Op)[i].name \in made
    <3> DEFINE f == [c \in made |-> Op(c)]
               e == Listed(made, f)
    <3>1. IsFiniteSet(made) /\ made \in SUBSET Commands
      BY <1>0, ProvidesAssumption, FS_Subset
    <3>2. SetToSeq(made) \in Seq(made)
      BY <3>1, SetToSeqIn
    <3>3. \A i \in 1 .. Len(SetToSeq(made)) : SetToSeq(made)[i] \in made
      BY <3>2, ElementOfSeq
    <3>4. Each(made, Op) = e
      BY <3>3 DEF Each, Listed
    <3>5. \A c \in made : Op(c) \in Operations
      BY <1>0, <1>3 DEF Operations, DeleteOps
    <3>6. f \in [made -> Operations]
      BY <3>5
    <3>7. \A c \in made : f[c].do = "delete" /\ f[c].agent = active /\ f[c].name = c
      OBVIOUS
    <3> HIDE DEF f
    <3>8. Lists(e, made, f, Operations)
      BY <3>1, <3>6, EachFacts
    <3> HIDE DEF e
    <3>9. e \in Seq(Operations) /\ \A i \in 1 .. Len(e) : \E x \in made : e[i] = f[x]
      BY <3>8 DEF Lists
    <3>10. \A i \in 1 .. Len(e) : e[i].do = "delete" /\ e[i].agent = active /\ e[i].name \in made
      BY <3>7, <3>9
    <3> HIDE DEF Op
    <3> QED BY <3>4, <3>9, <3>10
  <2> QED BY <2>1, <2>2
<1>5. /\ E \in Seq(Operations) /\ Len(E) = 2
      /\ E[1].do = "clear" /\ E[1].id = p /\ E[2].do = "forget" /\ E[2].id = p
  <2>1. PackageOp("clear", p) \in Operations /\ PackageOp("forget", p) \in Operations
    BY <1>2 DEF PackageOp, Operations, PackageOps
  <2>2. /\ PackageOp("clear", p).do = "clear" /\ PackageOp("clear", p).id = p
        /\ PackageOp("forget", p).do = "forget" /\ PackageOp("forget", p).id = p
    BY DEF PackageOp
  <2> QED BY <2>1, <2>2
<1> HIDE DEF D, E, p
<1>6. Joins(todo', D, E)
  BY <1>1, <1>4, <1>5, JoinFacts
<1>7. Len(D) \in Nat /\ todo' \in Seq(Operations) /\ Len(todo') = Len(D) + 2
  BY <1>5, <1>6 DEF Joins
<1>8. \A i \in 1 .. Len(D) : todo'[i] = D[i]
  BY <1>6 DEF Joins
<1>9. todo'[Len(D) + 1] = E[1] /\ todo'[Len(D) + 2] = E[2]
  <2>1. \A j \in 1 .. 2 : todo'[j + Len(D)] = E[j]
    BY <1>5, <1>6 DEF Joins
  <2>2. 1 \in 1 .. 2 /\ 2 \in 1 .. 2 /\ 1 + Len(D) = Len(D) + 1 /\ 2 + Len(D) = Len(D) + 2
    BY <1>7
  <2> QED BY <2>1, <2>2
<1>10. \A i \in 1 .. Len(todo') : i \in 1 .. Len(D) \/ i = Len(D) + 1 \/ i = Len(D) + 2
  BY <1>7
<1>11. Cleaning(todo', Len(D), p)
  BY <1>4, <1>5, <1>7, <1>8, <1>9, <1>10 DEF Cleaning
<1> QED BY <1>11 DEF p

LEMMA CleansHold ==
  ASSUME IInv, Cleans, Fault, how' \in {"warned", "failed", "dead"}
  PROVE  IInv'
<1>0. /\ TypeOK /\ todo' \in Seq(Operations) /\ made' = {} /\ Stores'
      /\ UNCHANGED <<job, stale, lost, reg, agents, active>> /\ job.op = "add"
      /\ todo \in Seq(Operations) /\ todo # <<>> /\ made \in SUBSET Commands
      /\ todo[1].do \in {"write", "record"} /\ Limited(todo[1])
  BY CleansFacts DEF IInv, Typed, Cleans, TypeOK, Cleaning
<1>1. todo[1] \in Operations /\ 1 \in 1 .. Len(todo) /\ todo[1] \in Range(todo)
  BY <1>0, HeadFacts, RangeFacts
<1>2. Doubtful(todo[1]) /\ Claims
  BY <1>1 DEF IInv, Stacked, Doubts
<1>3. Doubted(todo[1].id)
  BY <1>0, <1>2 DEF Doubtful
<1>4. PICK d : Cleaning(todo', d, todo[1].id)
  BY CleansFacts
<1>5. /\ d \in Nat /\ Len(todo') = d + 2
      /\ \A i \in 1 .. d : todo'[i].do = "delete" /\ todo'[i].agent = active /\ todo'[i].name \in made
      /\ todo'[d + 1].do = "clear" /\ todo'[d + 1].id = todo[1].id
      /\ todo'[d + 2].do = "forget" /\ todo'[d + 2].id = todo[1].id
      /\ \A i \in 1 .. Len(todo') : i \in 1 .. d \/ i = d + 1 \/ i = d + 2
  BY <1>4 DEF Cleaning
<1>6. \A i \in 1 .. Len(todo') : todo'[i].do \in {"delete", "clear", "forget"}
  BY <1>5
<1>7. Typed'
  <2>1. count' \in [commands : 0..MaxCommands, faults : 0..MaxFaults]
    BY <1>0, CountsUp
  <2>2. TypeOK'
    BY <1>0, <2>1, TypesNext DEF TypeOK
  <2> QED BY <1>0, <2>2 DEF Typed
<1>8. Planned'
  <2>1. Ordered(todo')
    <3> SUFFICES ASSUME NEW j \in 1 .. Len(todo'), NEW i \in 1 .. j - 1
                 PROVE  todo'[i].do \in Prior(todo'[j].do)
      BY DEF Ordered
    <3>1. i \in 1 .. Len(todo')
      BY <1>5
    <3>2. CASE j \in 1 .. d
      <4>1. i \in 1 .. d
        BY <1>5, <3>2
      <4> QED BY <1>5, <3>2, <4>1, PriorFacts DEF Leaving
    <3>3. CASE j = d + 1
      <4>1. i \in 1 .. d
        BY <1>5, <3>3
      <4> QED BY <1>5, <3>3, <4>1, PriorFacts
    <3>4. CASE j = d + 2
      <4>1. i \in 1 .. d \/ i = d + 1
        BY <1>5, <3>4
      <4> QED BY <1>5, <3>4, <4>1, PriorFacts
    <3> QED BY <1>5, <3>2, <3>3, <3>4
  <2>2. Blocks(todo') /\ InHand' /\ Recording(todo)' /\ Entering(todo)'
    BY <1>0, <1>6 DEF Blocks, InHand, Recording, Entering
  <2> QED BY <2>1, <2>2 DEF Planned, Ordered, Blocks
<1>9. Owned'
  BY <1>0 DEF Owned, NothingOrphaned
<1>10. Claims'
  <2>1. todo[1].do = "write" => active \in job.at
    BY <1>1 DEF IInv, Stacked, Turned
  <2>2. agents' \subseteq Agents /\ agents' \ agents = {}
    BY <1>0 DEF TypeOK
  <2> QED BY <1>0, <1>1, <1>2, <2>1, <2>2, ClaimsKept
<1>11. Doubts'
  <2> SUFFICES ASSUME NEW q \in Range(todo') PROVE Doubtful(q)'
    BY DEF Doubts
  <2>1. PICK j \in 1 .. Len(todo') : q = todo'[j]
    BY <1>0, RangeFacts
  <2>2. q.do = "delete" => <<q.agent, q.name>> \in stale
    <3> HAVE q.do = "delete"
    <3>1. j \in 1 .. d
      BY <1>5, <2>1
    <3>2. q.agent = active /\ q.name \in made
      BY <1>5, <2>1, <3>1
    <3> QED BY <3>2 DEF IInv, Planned, InHand
  <2>3. q.do # "delete" => q.do \in {"clear", "forget"} /\ q.id = todo[1].id
    BY <1>5, <2>1
  <2>5. q.do = "delete" => Doubtful(q)'
    BY <1>0, <2>2 DEF Doubtful
  <2>6. q.do # "delete" => Doubted(q.id)'
    BY <1>0, <1>3, <2>3 DEF Doubted
  <2>7. q.do # "delete" => Doubtful(q)'
    BY <2>3, <2>6 DEF Doubtful
  <2> QED BY <2>5, <2>7
<1>12. Turned(todo)' /\ Arrival(todo)' /\ Settling'
  <2>1. how' # "ok"
    OBVIOUS
  <2> QED BY <1>6, <2>1 DEF Turned, Arrival, Settling
<1> QED BY <1>7, <1>8, <1>9, <1>10, <1>11, <1>12 DEF IInv, Stacked

-----------------------------------------------------------------------------
(* Presets know of their files while a command goes well *)

\* A file that has stayed what it is, with an owner that forgets nothing.
LEMMA StraySame ==
  ASSUME NEW a \in Agents, NEW c \in Commands, Stray(a, c)', out'[a][c] = out[a][c],
         c \in reg[Owner(a, c)].cmds[a] => c \in reg'[Owner(a, c)].cmds[a]
  PROVE  Stray(a, c) /\ Owner(a, c)' = Owner(a, c)
<1>1. Owner(a, c)' = Owner(a, c)
  BY DEF Owner
<1>2. out'[a][c] # NoFile /\ Owner(a, c)' # Core /\ c \notin reg'[Owner(a, c)].cmds[a]
  BY <1>1 DEF Stray
<1> QED BY <1>1, <1>2 DEF Stray

LEMMA OwnerIn ==
  ASSUME TypeOK, NEW a \in Agents, NEW c \in Commands, out[a][c] # NoFile
  PROVE  Owner(a, c) \in Presets \cup {Core}
<1>1. out[a][c] \in Seq(Presets \cup {Core})
  BY DEF TypeOK
<1> QED BY <1>1, HeadTailProperties DEF Owner, NoFile

\* What the entries lose.
Forgets(o, p, a) ==
  \/ o.do = "drop" /\ o.id = p /\ o.agent = a
  \/ o.do = "forget" /\ o.id = p

LEMMA EntriesKeep ==
  ASSUME IInv, Perform, NEW p \in Presets, NEW a \in Agents, ~ Forgets(todo[1], p, a)
  PROVE  reg[p].cmds[a] \subseteq reg'[p].cmds[a]
<1> DEFINE o == todo[1]
<1>1. TypeOK /\ todo \in Seq(Operations) /\ todo # <<>> /\ made \in SUBSET Commands
  BY DEF IInv, Typed, Perform, TypeOK
<1>2. o \in Operations /\ Effect(o) /\ 1 \in 1 .. Len(todo)
  BY <1>1, HeadFacts DEF Perform
<1>3. RegTyped
  BY <1>1, StoresOfType DEF Stores
<1> HIDE DEF o
<1>4. CASE o.do = "enter"
  <2>1. reg[o.id] = NoEntry
    BY <1>2, <1>4 DEF o, IInv, Planned, Entering, Earlier
  <2>2. reg' = [reg EXCEPT ![o.id] = [there |-> TRUE, on |-> TRUE, prio |-> o.prio,
                                      cmds |-> Nowhere]]
    BY <1>2, <1>4 DEF Effect
  <2>3. CASE p = o.id
    <3>1. reg[p].cmds[a] = {}
      BY <2>1, <2>3 DEF NoEntry, Nowhere
    <3> QED BY <3>1
  <2>4. CASE p # o.id
    BY <1>3, <2>2, <2>4 DEF RegTyped
  <2> QED BY <2>3, <2>4
<1>5. CASE o.do = "record"
  <2>1. reg' = Tracks(o.id, {active}, made) /\ o.id \in Presets
    BY <1>2, <1>5, OpFacts DEF Effect
  <2>2. reg[o.id].there
    BY <1>2, <1>5 DEF o, IInv, Planned, Recording, Earlier
  <2>3. TracksIn(reg', o.id, {active}, made)
    BY <1>1, <1>3, <2>1, <2>2, TracksFacts
  <2> QED BY <2>3 DEF TracksIn
<1>6. CASE o.do = "drop"
  <2>1. reg' = [reg EXCEPT ![o.id] = [reg[o.id] EXCEPT !.cmds = [@ EXCEPT ![o.agent] = {}]]]
    BY <1>2, <1>6 DEF Effect
  <2>2. CASE p # o.id
    BY <1>3, <2>1, <2>2 DEF RegTyped
  <2>3. CASE p = o.id
    <3>1. a # o.agent
      BY <1>6, <2>3 DEF Forgets, o
    <3>2. reg[p] \in Entry \/ reg[p] = NoEntry
      BY <1>3 DEF RegTyped
    <3>3. reg[p].cmds \in [Agents -> SUBSET Commands]
      <4>1. reg[p] \in Entry => reg[p].cmds \in [Agents -> SUBSET Commands]
        BY DEF Entry
      <4>2. NoEntry.cmds = Nowhere /\ Nowhere \in [Agents -> SUBSET Commands]
        BY DEF NoEntry, Nowhere
      <4> QED BY <3>2, <4>1, <4>2
    <3>4. reg'[p] = [reg[p] EXCEPT !.cmds = [reg[p].cmds EXCEPT ![o.agent] = {}]]
      BY <1>3, <2>1, <2>3 DEF RegTyped
    <3>5. reg'[p].cmds = [reg[p].cmds EXCEPT ![o.agent] = {}]
      <4>1. CASE reg[p] \in Entry
        BY <3>4, <4>1 DEF Entry
      <4>2. CASE reg[p] = NoEntry
        <5>1. NoEntry \in [there : BOOLEAN, on : BOOLEAN, prio : Nat, cmds : {Nowhere}]
          BY DEF NoEntry
        <5> QED BY <3>4, <4>2, <5>1
      <4> QED BY <3>2, <4>1, <4>2
    <3> QED BY <3>1, <3>3, <3>5
  <2> QED BY <2>2, <2>3
<1>7. CASE o.do = "forget"
  <2>1. reg' = [reg EXCEPT ![o.id] = NoEntry]
    BY <1>2, <1>7 DEF Effect
  <2>2. p # o.id
    BY <1>7 DEF Forgets, o
  <2> QED BY <1>3, <2>1, <2>2 DEF RegTyped
<1>8. CASE o.do = "reconcile"
  <2>1. \/ reg' = reg
        \/ \E at : reg' = Owns(o.name, at, Resolve(o.name))
    BY <1>2, <1>8 DEF Effect
  <2>2. o.name \in Commands
    BY <1>2, <1>8, OpFacts
  <2> QED BY <1>1, <2>1, <2>2, OwnsFacts
<1>9. CASE o.do \notin {"enter", "record", "drop", "forget", "reconcile"}
  <2>1. reg' = reg
    BY <1>2, <1>9 DEF Effect
  <2> QED BY <2>1
<1> QED BY <1>4, <1>5, <1>6, <1>7, <1>8, <1>9

LEMMA PerformTracks ==
  ASSUME IInv, Perform, how = "ok"
  PROVE  Tracked'
<1> DEFINE o == todo[1]
<1>1. TypeOK /\ todo \in Seq(Operations) /\ todo # <<>> /\ made \in SUBSET Commands
  BY DEF IInv, Typed, Perform, TypeOK
<1>2. o \in Operations /\ Effect(o) /\ 1 \in 1 .. Len(todo) /\ lost' = lost
  BY <1>1, HeadFacts DEF Perform
<1>3. o.do \notin {"write", "record"} => made = {}
  BY DEF IInv, Planned, InHand
<1>3a. OutTyped
  BY <1>1, StoresOfType DEF Stores
<1>4. ASSUME NEW a \in Agents, NEW c \in Commands, Stray(a, c)
      PROVE  <<a, c>> \in lost \/ (a = active /\ c \in made /\ Owner(a, c) = o.id)
  BY <1>4 DEF IInv, Owned, Tracked
<1> SUFFICES ASSUME NEW a \in Agents, NEW c \in Commands, Stray(a, c)', <<a, c>> \notin lost
             PROVE  a = active' /\ c \in made' /\ Owner(a, c)' = todo'[1].id
  BY <1>2 DEF Tracked
<1> HIDE DEF o
<1>5. out'[a][c] # NoFile /\ out'[a][c] # <<Core>>
  BY DEF Stray, Owner
<1>6. CASE out'[a][c] = out[a][c]
  <2>1. out[a][c] # NoFile /\ Owner(a, c) \in Presets
    <3>1. Owner(a, c) # Core
      BY <1>6 DEF Stray, Owner
    <3> QED BY <1>1, <1>5, <1>6, <3>1, OwnerIn
  <2>2. ~ Forgets(o, Owner(a, c), a)
    <3> SUFFICES ASSUME Forgets(o, Owner(a, c), a) PROVE FALSE
      OBVIOUS
    <3>1. Of(a, c, o.id)
      BY <2>1 DEF Forgets, Of
    <3>2. o.do \in {"drop", "forget"} /\ (o.do = "drop" => o.agent = a)
      BY DEF Forgets
    <3>3. Gone(todo, 1, a, c)
      BY <1>2, <3>2 DEF IInv, Owned, Dropping, Forgetting, o
    <3> QED BY <3>1, <3>3 DEF Gone, Deleted, o
  <2>3. Stray(a, c) /\ Owner(a, c)' = Owner(a, c)
    <3>1. reg[Owner(a, c)].cmds[a] \subseteq reg'[Owner(a, c)].cmds[a]
      BY <2>1, <2>2, EntriesKeep DEF o
    <3> QED BY <1>6, <3>1, StraySame
  <2>4. a = active /\ c \in made /\ Owner(a, c) = o.id
    BY <1>4, <2>3
  <2>5. o.do # "record"
    <3> SUFFICES ASSUME o.do = "record" PROVE FALSE
      OBVIOUS
    <3>1. reg' = Tracks(o.id, {active}, made) /\ o.id \in Presets
      BY <1>2, OpFacts DEF Effect
    <3>2. reg[o.id].there
      BY <1>2 DEF o, IInv, Planned, Recording, Earlier
    <3>3. TracksIn(reg', o.id, {active}, made)
      BY <1>1, <3>1, <3>2, TracksFacts, StoresOfType DEF Stores
    <3>4. c \in reg'[o.id].cmds[a]
      BY <2>4, <3>3 DEF TracksIn
    <3>5. c \notin reg'[Owner(a, c)].cmds[a]
      BY <2>3 DEF Stray
    <3> QED BY <2>4, <3>4, <3>5
  <2>6. o.do = "write"
    BY <2>4, <2>5 DEF IInv, Planned, InHand, o
  <2>7. active' = active /\ made \subseteq made'
    BY <1>2, <2>6 DEF Effect
  <2>8. todo'[1].id = o.id
    <3>1. 1 + 1 \in 1 .. Len(todo) /\ todo[1 + 1].id = o.id
      BY <1>2, <2>6 DEF IInv, Planned, Blocks, o
    <3>2. todo'[1] = todo[1 + 1]
      BY <1>1, <3>1, HeadFacts DEF IsRest, Perform
    <3> QED BY <3>1, <3>2
  <2> QED BY <2>3, <2>4, <2>7, <2>8
<1>7. CASE out'[a][c] # out[a][c]
  <2>1. CASE o.do = "write"
    <3>1. PICK at : /\ Put(at, {o.name}, Rendered(o.id, o.name)) /\ at \subseteq {active} \cap Agents
                    /\ made' = IF at = {} THEN made ELSE made \cup {o.name}
      BY <1>2, <2>1 DEF Effect, HaveDirectory
    <3>2. o.id \in Presets /\ active' = active
      BY <1>2, <2>1, OpFacts DEF Effect
    <3>3. /\ Rendered(o.id, o.name) \in Content
          /\ Rendered(o.id, o.name) # NoFile => Head(Rendered(o.id, o.name)) = o.id
      BY <1>1, <3>2, RenderedIn
    <3>4. out'[a][c] = IF a \in at /\ c \in {o.name} THEN Rendered(o.id, o.name) ELSE out[a][c]
      BY <1>3a, <3>1, <3>3, PutFacts
    <3>5. a \in at /\ c = o.name /\ out'[a][c] = Rendered(o.id, o.name)
      BY <1>7, <3>4
    <3>6. Owner(a, c)' = o.id
      BY <1>5, <3>3, <3>5 DEF Owner
    <3>7. todo'[1].id = o.id
      <4>1. 1 + 1 \in 1 .. Len(todo) /\ todo[1 + 1].id = o.id
        BY <1>2, <2>1 DEF IInv, Planned, Blocks, o
      <4>2. todo'[1] = todo[1 + 1]
        BY <1>1, <4>1, HeadFacts DEF IsRest, Perform
      <4> QED BY <4>1, <4>2
    <3> QED BY <3>1, <3>2, <3>5, <3>6, <3>7
  <2>2. CASE o.do = "reconcile"
    <3>1. PICK at : /\ Put(at, {o.name}, Resolve(o.name))
                    /\ reg' = Owns(o.name, at, Resolve(o.name))
      BY <1>2, <1>7, <2>2 DEF Effect
    <3>2. o.name \in Commands /\ Resolve(o.name) \in Content
      BY <1>1, <1>2, <2>2, OpFacts, ResolveIn
    <3>3. out'[a][c] = IF a \in at /\ c \in {o.name} THEN Resolve(o.name) ELSE out[a][c]
      BY <1>3a, <3>1, <3>2, PutFacts
    <3>4. a \in at /\ c = o.name /\ out'[a][c] = Resolve(c)
      BY <1>7, <3>3
    <3>5. Resolve(c) # NoFile /\ Head(Resolve(c)) # Core
      BY <1>5, <3>4 DEF Stray, Owner
    <3>6. c \in reg'[Head(Resolve(c))].cmds[a]
      BY <1>1, <3>1, <3>4, <3>5, OwnsFacts
    <3>7. Owner(a, c)' = Head(Resolve(c))
      BY <3>4 DEF Owner
    <3>8. c \notin reg'[Head(Resolve(c))].cmds[a]
      BY <3>7 DEF Stray
    <3> QED BY <3>6, <3>8
  <2>3. CASE o.do \notin {"write", "reconcile"}
    <3>1. Limited(o)
      BY PerformMoves DEF Moves, o
    <3>2. Writes(o, a, c)
      BY <1>7, <3>1 DEF Limited, FilesChange
    <3> QED BY <1>5, <2>3, <3>2 DEF Writes
  <2> QED BY <2>1, <2>2, <2>3
<1> QED BY <1>6, <1>7

\* What had to be gone before still has to, or is gone.
LEMMA PerformGone ==
  ASSUME IInv, Perform, NEW j \in 1 .. Len(todo'), NEW p, NEW a \in Agents, NEW c \in Commands,
         todo[1].do \in {"teardown", "delete", "drop", "rmdir", "clear"},
         Of(a, c, p) => <<a, c>> \in lost \/ Deleted(todo, j + 1, a, c),
         out'[a][c] # NoFile, Head(out'[a][c]) = p
  PROVE  <<a, c>> \in lost \/ Deleted(todo', j, a, c)
<1> DEFINE o == todo[1]
<1>0. TypeOK /\ todo \in Seq(Operations) /\ todo # <<>>
  BY DEF IInv, Typed, Perform
<1>1. o \in Operations /\ Effect(o) /\ 1 \in 1 .. Len(todo)
  BY <1>0, HeadFacts DEF Perform
<1>2. Limited(o) /\ Places(1)
  BY <1>0, PerformMoves, MovePlaces DEF Moves
<1>3. out'[a][c] = out[a][c]
  <2>1. out'[a][c] = out[a][c] \/ Writes(o, a, c)
    BY <1>2 DEF Limited, FilesChange
  <2> QED BY <2>1 DEF Writes
<1>4. <<a, c>> \in lost \/ Deleted(todo, j + 1, a, c)
  BY <1>3 DEF Of, Owner
<1>5. ASSUME Deleted(todo, j + 1, a, c) PROVE Deleted(todo', j, a, c)
  <2>1. PICK i \in 1 .. (j + 1) - 1 : todo[i].do = "delete" /\ todo[i].agent = a /\ todo[i].name = c
    BY <1>5 DEF Deleted
  <2>2. i # 1
    <3> SUFFICES ASSUME i = 1 PROVE FALSE
      OBVIOUS
    <3>1. o.do = "delete" /\ o.agent = a /\ o.name = c
      BY <2>1
    <3>2. Put({a}, {c}, NoFile)
      BY <1>1, <3>1 DEF Effect
    <3>3. OutTyped /\ NoFile \in Content
      BY <1>0, StoresOfType, EmptySeq DEF Stores, NoFile, Content
    <3>4. out'[a][c] = NoFile
      BY <3>2, <3>3, PutFacts
    <3> QED BY <3>4
  <2>3. i \in 1 .. 1 \/ (i - 1 \in 1 .. j - 1 /\ todo'[i - 1] = todo[i])
    BY <1>2, <2>1 DEF Places
  <2> QED BY <2>1, <2>2, <2>3 DEF Deleted
<1> QED BY <1>4, <1>5

LEMMA PerformOwned ==
  ASSUME IInv, Perform
  PROVE  Owned'
<1>0. todo \in Seq(Operations) /\ todo # <<>> /\ job.op # "none" /\ UNCHANGED <<job, how, lost>>
  BY DEF IInv, Typed, Perform
<1>1. NothingOrphaned'
  BY <1>0 DEF NothingOrphaned
<1>2. Places(1) /\ Ordered(todo)
  BY <1>0, PerformMoves, MovePlaces DEF IInv, Planned
<1>3. \A j \in 1 .. Len(todo') : todo'[j].do \notin Free => todo[1].do \in Prior(todo'[j].do)
  <2> SUFFICES ASSUME NEW j \in 1 .. Len(todo'), todo'[j].do \notin Free
               PROVE  todo[1].do \in Prior(todo'[j].do)
    OBVIOUS
  <2>1. todo'[j] = todo[j + 1] /\ j + 1 \in 1 .. Len(todo) /\ 1 \in 1 .. (j + 1) - 1
    BY <1>2 DEF Places
  <2> QED BY <1>2, <2>1 DEF Ordered
<1>4. ASSUME how = "ok", NEW j \in 1 .. Len(todo'), todo'[j].do = "drop", NEW c \in Commands,
             out'[todo'[j].agent][c] # NoFile, Head(out'[todo'[j].agent][c]) = todo'[j].id
      PROVE  <<todo'[j].agent, c>> \in lost \/ Deleted(todo', j, todo'[j].agent, c)
  <2>1. todo'[j] = todo[j + 1] /\ j + 1 \in 1 .. Len(todo) /\ todo'[j] \in Operations
    BY <1>2 DEF Places
  <2>2. todo'[j].agent \in Agents
    BY <1>4, <2>1, OpFacts
  <2>3. Gone(todo, j + 1, todo'[j].agent, c)
    BY <1>4, <2>1 DEF IInv, Owned, Dropping
  <2>4. todo[1].do \in {"teardown", "delete", "drop"}
    BY <1>3, <1>4, PriorFacts DEF Free, Leaving
  <2>5. Of(todo'[j].agent, c, todo'[j].id) =>
          <<todo'[j].agent, c>> \in lost \/ Deleted(todo, j + 1, todo'[j].agent, c)
    BY <2>1, <2>3 DEF Gone
  <2> QED BY <1>4, <2>2, <2>4, <2>5, PerformGone
<1>5. ASSUME how = "ok", NEW j \in 1 .. Len(todo'), todo'[j].do = "forget", NEW a \in Agents,
             NEW c \in Commands, out'[a][c] # NoFile, Head(out'[a][c]) = todo'[j].id
      PROVE  <<a, c>> \in lost \/ Deleted(todo', j, a, c)
  <2>1. todo'[j] = todo[j + 1] /\ j + 1 \in 1 .. Len(todo) /\ todo'[j] \in Operations
    BY <1>2 DEF Places
  <2>3. Gone(todo, j + 1, a, c)
    BY <1>5, <2>1 DEF IInv, Owned, Forgetting
  <2>4. todo[1].do \in {"delete", "rmdir", "clear"}
    BY <1>3, <1>5, PriorFacts DEF Free
  <2>5. Of(a, c, todo'[j].id) => <<a, c>> \in lost \/ Deleted(todo, j + 1, a, c)
    BY <2>1, <2>3 DEF Gone
  <2> QED BY <1>5, <2>4, <2>5, PerformGone
<1>6. how = "ok" => Dropping(todo)' /\ Forgetting(todo)'
  BY <1>0, <1>4, <1>5 DEF Dropping, Forgetting, Gone, Of, Owner, Deleted
<1> QED BY <1>0, <1>1, <1>6, PerformTracks DEF Owned

-----------------------------------------------------------------------------
(* What a command puts in order *)

\* An operation that leaves a name alone, or puts it right.
LEMMA CalmKeeps ==
  ASSUME NEW o, Limited(o), NEW c \in Commands, Calm(o, c)
  PROVE  /\ Layers(c)' = Layers(c) /\ Resolve(c)' = Resolve(c) /\ agents' = agents
         /\ \A a \in Agents : out'[a][c] = out[a][c] \/ out'[a][c] = Resolve(c)
<1>1. \A p \in Presets : c \in Provides[p] =>
        /\ p \in Enabled' <=> p \in Enabled
        /\ p \in Enabled => reg'[p].prio = reg[p].prio
  BY DEF Calm, Limited, SameEntries, SamePackages, Enabled
<1>2. Layers(c)' = Layers(c) /\ Resolve(c)' = Resolve(c)
  BY <1>1, LayersSame
<1>3. \A a \in Agents : out'[a][c] = out[a][c] \/ out'[a][c] = Resolve(c)
  BY DEF Calm, Limited, FilesChange, Writes
<1> QED BY <1>2, <1>3 DEF Calm, Limited, SameWho

LEMMA Reconciled ==
  ASSUME TypeOK, NEW o \in Operations, Effect(o), o.do = "reconcile", Layers(o.name) # <<>>,
         NEW a \in agents \cap o.at
  PROVE  out'[a][o.name] = Resolve(o.name)
<1>1. a \in Agents /\ o.name \in Commands
  BY OpFacts DEF TypeOK
<1>2. PICK at \in HaveDirectory(o.at) : Put(at, {o.name}, Resolve(o.name))
  BY DEF Effect
<1>3. a \in at
  BY <1>1, <1>2 DEF HaveDirectory
<1>4. OutTyped /\ Resolve(o.name) \in Content
  BY StoresOfType, ResolveIn DEF Stores
<1>5. out'[a][o.name] = IF a \in at /\ o.name \in {o.name} THEN Resolve(o.name) ELSE out[a][o.name]
  BY <1>1, <1>2, <1>4, PutFacts
<1> QED BY <1>3, <1>5

LEMMA PerformSettles ==
  ASSUME IInv, Perform
  PROVE  Settling'
<1> DEFINE o == todo[1]
<1>0. TypeOK /\ todo \in Seq(Operations) /\ todo # <<>> /\ UNCHANGED <<job, how>>
  BY DEF IInv, Typed, Perform
<1>1. o \in Operations /\ Effect(o) /\ 1 \in 1 .. Len(todo)
  BY <1>0, HeadFacts DEF Perform
<1>2. Limited(o) /\ Places(1)
  BY <1>0, PerformMoves, MovePlaces DEF Moves
<1> SUFFICES ASSUME how = "ok", NEW a \in job.at \cap Agents, NEW c \in job.names
             PROVE  Coming(todo', a, c) \/ Settled(a, c)'
  BY <1>0 DEF Settling, Coming
<1>3. c \in Commands
  BY <1>0 DEF TypeOK
<1>4. Len(todo) \in Nat /\ Len(todo') = Len(todo) - 1
      /\ \A j \in 1 .. Len(todo') : todo'[j] = todo[j + 1] /\ j + 1 \in 1 .. Len(todo)
  BY <1>2 DEF Places
<1>5. ASSUME \A i \in 1 .. Len(todo) : i = 1 \/ Calm(todo[i], c), Calm(o, c),
             a \in agents /\ Layers(c) # <<>> => out'[a][c] = Resolve(c)
      PROVE  Settled(a, c)'
  <2>1. \A i \in 1 .. Len(todo') : Calm(todo'[i], c)
    <3> TAKE i \in 1 .. Len(todo')
    <3>1. todo'[i] = todo[i + 1] /\ i + 1 \in 1 .. Len(todo) /\ i + 1 # 1
      BY <1>4
    <3> QED BY <1>5, <3>1
  <2>2. Layers(c)' = Layers(c) /\ Resolve(c)' = Resolve(c) /\ agents' = agents
    BY <1>2, <1>3, <1>5, CalmKeeps
  <2> QED BY <1>5, <2>1, <2>2 DEF Settled, Calm
<1>6. CASE Settled(a, c)
  <2>1. (\A i \in 1 .. Len(todo) : Calm(todo[i], c)) /\ Calm(o, c)
    BY <1>1, <1>6 DEF Settled
  <2>2. a \in agents /\ Layers(c) # <<>> => out'[a][c] = Resolve(c)
    BY <1>2, <1>3, <1>6, <2>1, CalmKeeps DEF Settled
  <2> QED BY <1>5, <2>1, <2>2
<1>7. CASE Coming(todo, a, c)
  <2>1. PICK i \in 1 .. Len(todo) : /\ todo[i].do = "reconcile" /\ todo[i].name = c /\ a \in todo[i].at
                                    /\ \A j \in i + 1 .. Len(todo) : Calm(todo[j], c)
    BY <1>7 DEF Coming
  <2>2. CASE i = 1
    <3>1. \A j \in 1 .. Len(todo) : j = 1 \/ Calm(todo[j], c)
      <4> TAKE j \in 1 .. Len(todo)
      <4>1. j = 1 \/ j \in 1 + 1 .. Len(todo)
        BY <1>4
      <4> QED BY <2>1, <2>2, <4>1
    <3>2. Calm(o, c)
      BY <2>1, <2>2 DEF Calm
    <3>3. a \in agents /\ Layers(c) # <<>> => out'[a][c] = Resolve(c)
      BY <1>0, <1>1, <2>1, <2>2, Reconciled
    <3> QED BY <1>5, <3>1, <3>2, <3>3
  <2>3. CASE i # 1
    <3>1. i - 1 \in 1 .. Len(todo') /\ (i - 1) + 1 = i
      BY <1>4, <2>3
    <3>2. todo'[i - 1] = todo[i]
      BY <1>4, <3>1
    <3>3. \A j \in (i - 1) + 1 .. Len(todo') : Calm(todo'[j], c)
      <4> TAKE j \in (i - 1) + 1 .. Len(todo')
      <4>1. j \in 1 .. Len(todo') /\ j + 1 \in i + 1 .. Len(todo)
        BY <1>4, <2>3
      <4> QED BY <1>4, <2>1, <4>1
    <3> QED BY <2>1, <3>1, <3>2, <3>3 DEF Coming
  <2> QED BY <2>2, <2>3
<1> QED BY <1>6, <1>7 DEF IInv, Stacked, Settling

-----------------------------------------------------------------------------
(* The steps of a command *)

LEMMA MovesTyped ==
  ASSUME IInv, NEW n, Moves(n), MadeMoves, how' \in {"ok", "warned", "failed", "dead"},
         count' \in [commands : 0..MaxCommands, faults : 0..MaxFaults]
  PROVE  Typed'
<1>1. TypeOK /\ job.op # "none"
  <2>1. todo # <<>>
    BY DEF Moves
  <2> QED BY <2>1 DEF IInv, Typed
<1>2. TypeOK'
  BY <1>1, TypesNext DEF TypeOK, Moves, MadeMoves
<1> QED BY <1>1, <1>2 DEF Typed, Moves

LEMMA PerformHolds ==
  ASSUME IInv, Perform
  PROVE  IInv'
<1>1. Moves(1) /\ EntriesMove /\ AgentsMove /\ SetUp /\ MadeMoves
  BY PerformMoves
<1>2. how' = how /\ count' = count /\ TypeOK
  BY DEF Perform, IInv, Typed
<1>3. Typed'
  BY <1>1, <1>2, MovesTyped DEF TypeOK
<1>4. Planned'
  BY <1>1, MovesPlanned
<1>5. Claims' /\ Doubts' /\ Turned(todo)' /\ Arrival(todo)'
  BY <1>1, MovesStacked
<1> QED BY <1>3, <1>4, <1>5, PerformOwned, PerformSettles DEF IInv, Stacked

LEMMA FailsHolds ==
  ASSUME IInv, Fails
  PROVE  IInv'
<1>1. how' \in {"warned", "failed"} /\ Fault /\ job.op # "none" /\ job' = job /\ TypeOK
  BY FailsMoves DEF IInv, Typed, Fails
<1>2. ASSUME NEW n, Moves(n), EntriesMove, AgentsMove, SetUp, MadeMoves
      PROVE  IInv'
  <2>1. count' \in [commands : 0..MaxCommands, faults : 0..MaxFaults]
    BY <1>1, CountsUp
  <2>2. Typed'
    BY <1>1, <1>2, <2>1, MovesTyped
  <2>3. Planned'
    BY <1>2, MovesPlanned
  <2>4. Claims' /\ Doubts' /\ Turned(todo)' /\ Arrival(todo)'
    BY <1>2, MovesStacked
  <2>5. Owned' /\ Settling'
    BY <1>1 DEF Owned, NothingOrphaned, Settling
  <2> QED BY <2>2, <2>3, <2>4, <2>5 DEF IInv, Stacked
<1>3. CASE Stops
  BY <1>1, <1>3, StopsHold
<1>4. CASE Cleans
  BY <1>1, <1>4, CleansHold
<1> QED BY <1>2, <1>3, <1>4, FailsMoves

LEMMA DiesHolds ==
  ASSUME IInv, Dies
  PROVE  IInv'
<1>1. /\ job.op # "none" /\ Fault /\ todo' = <<>> /\ how' = "dead" /\ made' = {}
      /\ UNCHANGED <<job, stale, lost>> /\ TypeOK /\ todo \in Seq(Operations)
  BY DEF Dies, Ends, IInv, Typed
<1>2. CASE todo = <<>>
  <2>1. UNCHANGED <<reg, dir, out, agents, active>>
    BY <1>2 DEF Dies
  <2>2. Stores'
    BY <1>1, <2>1, StoresOfType DEF Stores, RegTyped, DirTyped, OutTyped, WhoTyped
  <2> QED BY <1>1, <2>1, <2>2, StopsHold DEF Stops
<1>3. CASE todo # <<>>
  <2>1. todo[1] \in Operations /\ Partly(todo[1])
    BY <1>1, <1>3, HeadFacts DEF Dies
  <2>2. Stores' /\ Limited(todo[1]) /\ UNCHANGED <<reg, agents, active>>
    BY <1>1, <2>1, PartlyFacts
  <2> QED BY <1>1, <1>3, <2>2, StopsHold DEF Stops
<1> QED BY <1>2, <1>3

LEMMA StackUnchanged ==
  ASSUME UNCHANGED <<reg, dir>>
  PROVE  /\ Enabled' = Enabled /\ Offered' = Offered
         /\ \A c : Layers(c)' = Layers(c) /\ Resolve(c)' = Resolve(c)
BY DEF Enabled, Offered, Layers, Sorted, InOrder, Precedes, Resolve, Replaces

LEMMA DoneHolds ==
  ASSUME IInv, Done
  PROVE  IInv'
<1>1. /\ job.op # "none" /\ todo = <<>> /\ todo' = <<>> /\ job' = NoJob /\ TypeOK
      /\ UNCHANGED <<reg, dir, out, agents, active, todo, made, how, count>>
  BY DEF Done, IInv, Typed
<1>2. Len(todo) = 0 /\ 1 .. Len(todo) = {} /\ made = {}
  BY <1>1 DEF IInv, Planned, InHand
<1>3. Untracked' = Untracked
  BY <1>1 DEF Untracked, Stray, Owner
<1>4. lost' \subseteq Untracked /\ lost' \subseteq Agents \X Commands
      /\ stale' \subseteq stale
  <2>1. Untracked \subseteq Agents \X Commands
    BY DEF Untracked
  <2> QED BY <1>1, <2>1 DEF Done, TypeOK
<1>5. Typed'
  <2>1. Stores'
    BY <1>1, StoresOfType DEF Stores, RegTyped, DirTyped, OutTyped, WhoTyped
  <2>2. NoJob.names = {} /\ NoJob.at = {} /\ NoJob.op = "none"
    BY DEF NoJob
  <2>3. TypeOK'
    BY <1>1, <1>4, <2>1, <2>2, TypesNext DEF TypeOK
  <2> QED BY <1>1, <1>2, <2>2, <2>3, EmptySeq DEF Typed
<1>6. Planned'
  BY <1>1, <1>2 DEF Planned, Ordered, Blocks, InHand, Recording, Entering
<1>7. Untracked \subseteq lost'
  <2>1. CASE how = "ok"
    <3>1. \A a \in Agents, c \in Commands : Stray(a, c) => <<a, c>> \in lost
      BY <1>2, <2>1 DEF IInv, Owned, Tracked
    <3>2. Untracked \subseteq lost
      BY <3>1 DEF Untracked
    <3> QED BY <2>1, <3>2 DEF Done
  <2>2. CASE how # "ok"
    BY <2>2 DEF Done
  <2> QED BY <2>1, <2>2
<1>8. Owned'
  <2>1. NothingOrphaned'
    BY <1>3, <1>7 DEF NothingOrphaned
  <2>2. Tracked'
    <3> SUFFICES ASSUME NEW a \in Agents, NEW c \in Commands, Stray(a, c)' PROVE <<a, c>> \in lost'
      BY DEF Tracked
    <3>1. Stray(a, c)
      BY <1>1 DEF Stray, Owner
    <3>2. <<a, c>> \in Untracked
      BY <3>1 DEF Untracked
    <3> QED BY <1>7, <3>2
  <2>3. Dropping(todo)' /\ Forgetting(todo)'
    BY <1>1, <1>2 DEF Dropping, Forgetting
  <2> QED BY <2>1, <2>2, <2>3 DEF Owned
<1>9. Claims'
  <2> SUFFICES ASSUME NEW a \in agents, NEW c \in Commands, Layers(c) # <<>>, <<a, c>> \notin stale'
               PROVE  out[a][c] = Resolve(c)
    BY <1>1, StackUnchanged DEF Claims, Right
  <2>1. CASE <<a, c>> \notin stale
    BY <2>1 DEF IInv, Stacked, Claims, Right
  <2>2. CASE <<a, c>> \in stale
    <3>1. how = "ok" /\ a \in job.at /\ c \in job.names
      BY <2>2 DEF Done
    <3>2. ~ Coming(todo, a, c)
      BY <1>2 DEF Coming
    <3>3. a \in Agents
      BY <1>1 DEF TypeOK
    <3>4. Settled(a, c)
      BY <3>1, <3>2, <3>3 DEF IInv, Stacked, Settling
    <3> QED BY <3>4 DEF Settled
  <2> QED BY <2>1, <2>2
<1>10. Doubts' /\ Turned(todo)' /\ Arrival(todo)'
  BY <1>1, <1>2 DEF Doubts, Range, Turned, Arrival
<1>11. Settling'
  <2>1. job'.at = {}
    BY <1>1 DEF NoJob
  <2> QED BY <2>1 DEF Settling
<1> QED BY <1>5, <1>6, <1>8, <1>9, <1>10, <1>11 DEF IInv, Stacked

LEMMA InitHolds == Init => IInv
<1> SUFFICES ASSUME Init PROVE IInv
  OBVIOUS
<1> USE DEF Init
<1>1. todo = <<>> /\ Len(todo) = 0 /\ 1 .. Len(todo) = {} /\ made = {} /\ Range(todo) = {}
  BY DEF Range
<1>2. \A c \in Commands : CoreFile(c) \in Content
  <2>1. <<Core>> \in Content /\ <<>> \in Content
    BY EmptySeq DEF Content
  <2> QED BY <2>1 DEF CoreFile, NoFile
<1>3. Typed
  <2>1. Stores
    <3>1. RegTyped /\ DirTyped
      BY DEF RegTyped, DirTyped
    <3>2. OutTyped
      <4>1. <<>> \in Content
        BY EmptySeq DEF Content
      <4>2. \A a \in Agents, c \in Commands :
              (IF a = First THEN CoreFile(c) ELSE NoFile) \in Content
        BY <1>2, <4>1 DEF NoFile
      <4> QED BY <4>2 DEF OutTyped
    <3>3. WhoTyped
      BY AgentsAssumption DEF WhoTyped
    <3> QED BY <3>1, <3>2, <3>3 DEF Stores
  <2>2. NoJob.names = {} /\ NoJob.at = {} /\ NoJob.op = "none"
    BY DEF NoJob
  <2>3. count \in [commands : 0..MaxCommands, faults : 0..MaxFaults]
    BY BoundsAssumption
  <2>4. TypeOK
    BY <2>1, <2>2, <2>3, StoresOfType
  <2> QED BY <2>4, EmptySeq DEF Typed
<1>4. Planned
  BY <1>1 DEF Planned, Ordered, Blocks, InHand, Recording, Entering
<1>5. \A p \in Presets : ~ reg[p].there
  BY DEF NoEntry
<1>6. \A a \in Agents, c \in Commands : ~ Stray(a, c)
  <2> SUFFICES ASSUME NEW a \in Agents, NEW c \in Commands PROVE ~ Stray(a, c)
    OBVIOUS
  <2>1. out[a][c] = <<Core>> \/ out[a][c] = NoFile
    BY DEF CoreFile
  <2> QED BY <2>1 DEF Stray, Owner
<1>7. Owned
  <2>1. NothingOrphaned /\ Tracked
    BY <1>6 DEF NothingOrphaned, Untracked, Tracked
  <2>2. Dropping(todo) /\ Forgetting(todo)
    BY <1>1 DEF Dropping, Forgetting
  <2> QED BY <2>1, <2>2 DEF Owned
<1>8. Claims
  <2> SUFFICES ASSUME NEW a \in agents, NEW c \in Commands, Layers(c) # <<>>
               PROVE  out[a][c] = Resolve(c)
    BY DEF Claims, Right
  <2>1. c \notin Offered
    BY <1>5 DEF Offered, Enabled
  <2>2. c \in Base /\ Resolve(c) = <<Core>>
    BY <1>3, <2>1, ResolveCore DEF Typed
  <2> QED BY <2>2, AgentsAssumption DEF CoreFile
<1>9. Doubts /\ Turned(todo) /\ Arrival(todo)
  BY <1>1 DEF Doubts, Turned, Arrival
<1>10. Settling
  BY DEF Settling, NoJob
<1> QED BY <1>3, <1>4, <1>7, <1>8, <1>9, <1>10 DEF IInv, Stacked

\* Between commands.
LEMMA RestackHolds ==
  ASSUME IInv, NEW p \in Presets, NEW e, Restack(p, e), e \in Entry, e.cmds = reg[p].cmds
  PROVE  IInv'
<1>1. /\ TypeOK /\ job.op = "none" /\ job = NoJob /\ todo = <<>> /\ made = {}
      /\ reg' = [reg EXCEPT ![p] = e] /\ stale' = stale \cup (Agents \X Provides[p])
      /\ how' = "ok" /\ UNCHANGED <<dir, out, agents, active, job, todo, made, lost>>
      /\ count.commands < MaxCommands /\ count' = [count EXCEPT !.commands = @ + 1]
  BY DEF Restack, IInv, Typed
<1>2. Len(todo) = 0 /\ 1 .. Len(todo) = {} /\ Range(todo) = {}
  BY <1>1 DEF Range
<1>3. RegTyped /\ RegTyped' /\ \A q \in Presets : reg'[q].cmds = reg[q].cmds
  <2>1. RegTyped
    BY <1>1, StoresOfType DEF Stores
  <2> QED BY <1>1, <2>1 DEF RegTyped
<1>4. Typed'
  <2>1. Stores'
    BY <1>1, <1>3, StoresOfType DEF Stores, DirTyped, OutTyped, WhoTyped
  <2>2. stale' \subseteq Agents \X Commands
    BY <1>1, ProvidesAssumption DEF TypeOK
  <2>3. count' \in [commands : 0..MaxCommands, faults : 0..MaxFaults]
    <3>1. count \in [commands : 0..MaxCommands, faults : 0..MaxFaults]
      BY <1>1 DEF TypeOK
    <3>2. count.commands + 1 \in 0 .. MaxCommands
      BY <1>1, <3>1, BoundsAssumption
    <3> QED BY <1>1, <3>1, <3>2
  <2>4. TypeOK'
    BY <1>1, <2>1, <2>2, <2>3, TypesNext DEF TypeOK
  <2> QED BY <1>1, <2>4, EmptySeq DEF Typed
<1>5. Planned'
  BY <1>1, <1>2 DEF Planned, Ordered, Blocks, InHand, Recording, Entering
<1>6. Owned'
  <2>1. \A a \in Agents, c \in Commands : Stray(a, c)' => Stray(a, c)
    <3> SUFFICES ASSUME NEW a \in Agents, NEW c \in Commands, Stray(a, c)' PROVE Stray(a, c)
      OBVIOUS
    <3>1. out'[a][c] # NoFile /\ Owner(a, c)' = Owner(a, c) /\ Owner(a, c) # Core
      BY <1>1 DEF Stray, Owner
    <3>2. Owner(a, c) \in Presets
      BY <1>1, <3>1, OwnerIn
    <3> QED BY <1>1, <1>3, <3>1, <3>2, StraySame
  <2>2. \A a \in Agents, c \in Commands : Stray(a, c)' => <<a, c>> \in lost
    BY <1>1, <2>1 DEF IInv, Owned, NothingOrphaned, Untracked
  <2>3. NothingOrphaned' /\ Tracked'
    BY <1>1, <2>2 DEF NothingOrphaned, Untracked, Tracked
  <2>4. Dropping(todo)' /\ Forgetting(todo)'
    BY <1>1, <1>2 DEF Dropping, Forgetting
  <2> QED BY <2>3, <2>4 DEF Owned
<1>7. Claims'
  <2> SUFFICES ASSUME NEW a \in agents, NEW c \in Commands, Right(a, c) PROVE Right(a, c)'
    BY <1>1 DEF IInv, Stacked, Claims
  <2>1. CASE c \in Provides[p]
    <3>1. <<a, c>> \in stale'
      BY <1>1, <2>1 DEF TypeOK
    <3> QED BY <3>1 DEF Right
  <2>2. CASE c \notin Provides[p]
    <3>1. \A q \in Presets : c \in Provides[q] => reg'[q] = reg[q]
      BY <1>1, <1>3, <2>2 DEF RegTyped
    <3>2. Layers(c)' = Layers(c) /\ Resolve(c)' = Resolve(c)
      BY <1>1, <3>1, LayersSame DEF Enabled
    <3> QED BY <1>1, <3>2 DEF Right
  <2> QED BY <2>1, <2>2
<1>8. Doubts' /\ Turned(todo)' /\ Arrival(todo)'
  BY <1>1, <1>2 DEF Doubts, Range, Turned, Arrival
<1>9. Settling'
  BY <1>1 DEF NoJob, Settling
<1> QED BY <1>4, <1>5, <1>6, <1>7, <1>8, <1>9 DEF IInv, Stacked

-----------------------------------------------------------------------------
(* The beginning of a command *)

Ahead(s, j) == {s[i] : i \in 1 .. j - 1}
Has(A, do, p) == \E x \in A : x.do = do /\ x.id = p
Cleared(A, a, c, p) ==
  Of(a, c, p) => <<a, c>> \in lost \/ \E x \in A : x.do = "delete" /\ x.agent = a /\ x.name = c
TurnedTo(at, A) ==
  \/ \E x \in A : x.do = "activate" /\ x.agent \in at
  \/ /\ \E x \in A : x.do = "leave" /\ x.next \in at /\ x.agent = active
     /\ \A x \in A : x.do # "activate"
  \/ active \in at /\ \A x \in A : x.do \notin Turns

\* An operation may come after the operations of A.
Fit(at, A, o) ==
  /\ o.do \notin Free => \A x \in A : x.do \in Prior(o.do)
  /\ o.do = "record" => (reg[o.id].there /\ ~ Has(A, "forget", o.id)) \/ Has(A, "enter", o.id)
  /\ o.do = "enter" => reg[o.id] = NoEntry \/ Has(A, "forget", o.id)
  /\ o.do = "drop" => \A c \in Commands : Cleared(A, o.agent, c, o.id)
  /\ o.do = "forget" => \A a \in Agents, c \in Commands : Cleared(A, a, c, o.id)
  /\ o.do = "write" => TurnedTo(at, A)
  /\ o.do \in {"activate", "enlist"} =>
       (A = {} /\ Ready(o.agent)) \/ \E x \in A : x.do = "setup" /\ x.agent = o.agent
Fitting(at, A, s) == \A j \in 1 .. Len(s) : Fit(at, A \cup Ahead(s, j), s[j])
Good(at, A, s) == s \in Seq(Operations) /\ Blocks(s) /\ Fitting(at, A, s)

LEMMA BeginHolds ==
  ASSUME IInv, NEW op, NEW doubt, NEW names, NEW at, NEW ops, Begin(op, doubt, names, at, ops),
         op # "none", doubt \subseteq Agents \X Commands, names \subseteq Commands,
         at \subseteq Agents \cup {NoAgent}, Good(at, {}, ops), Doubts',
         \A a \in at \cap Agents, c \in names : Coming(ops, a, c)
  PROVE  IInv'
<1>1. /\ TypeOK /\ job.op = "none" /\ todo = <<>> /\ made = {}
      /\ job' = [op |-> op, names |-> names, at |-> at] /\ todo' = ops /\ made' = {} /\ how' = "ok"
      /\ stale' = stale \cup doubt /\ UNCHANGED <<reg, dir, out, agents, active, lost>>
      /\ count.commands < MaxCommands /\ count' = [count EXCEPT !.commands = @ + 1]
  BY DEF Begin, IInv, Typed
<1>2. ops \in Seq(Operations) /\ Blocks(ops) /\ Len(ops) \in Nat
      /\ \A j \in 1 .. Len(ops) : Fit(at, Ahead(ops, j), ops[j])
  <2>1. \A j : {} \cup Ahead(ops, j) = Ahead(ops, j)
    OBVIOUS
  <2> QED BY <2>1, LenProperties DEF Good, Fitting
<1>3. Typed'
  <2>1. Stores'
    BY <1>1, StoresOfType DEF Stores, RegTyped, DirTyped, OutTyped, WhoTyped
  <2>2. count' \in [commands : 0..MaxCommands, faults : 0..MaxFaults]
    <3>1. count \in [commands : 0..MaxCommands, faults : 0..MaxFaults]
      BY <1>1 DEF TypeOK
    <3>2. count.commands + 1 \in 0 .. MaxCommands
      BY <1>1, <3>1, BoundsAssumption
    <3> QED BY <1>1, <3>1, <3>2
  <2>3. TypeOK'
    BY <1>1, <2>1, <2>2, TypesNext DEF TypeOK
  <2> QED BY <1>1, <1>2, <2>3 DEF Typed
<1>4. Planned'
  <2>1. Ordered(ops)
    BY <1>2 DEF Ordered, Fit, Ahead
  <2>2. InHand'
    BY <1>1 DEF InHand
  <2>3. Recording(todo)'
    <3> SUFFICES ASSUME NEW j \in 1 .. Len(ops), ops[j].do = "record"
                 PROVE  \/ reg[ops[j].id].there /\ ~ Earlier(ops, j, "forget", ops[j].id)
                        \/ Earlier(ops, j, "enter", ops[j].id)
      BY <1>1 DEF Recording, Earlier
    <3>1. Fit(at, Ahead(ops, j), ops[j])
      BY <1>2
    <3> QED BY <3>1 DEF Fit, Has, Ahead, Earlier
  <2>4. Entering(todo)'
    <3> SUFFICES ASSUME NEW j \in 1 .. Len(ops), ops[j].do = "enter"
                 PROVE  reg[ops[j].id] = NoEntry \/ Earlier(ops, j, "forget", ops[j].id)
      BY <1>1 DEF Entering, Earlier
    <3>1. Fit(at, Ahead(ops, j), ops[j])
      BY <1>2
    <3> QED BY <3>1 DEF Fit, Has, Ahead, Earlier
  <2> QED BY <1>1, <1>2, <2>1, <2>2, <2>3, <2>4 DEF Planned, Ordered, Blocks
<1>5. Owned'
  <2>1. NothingOrphaned'
    BY <1>1 DEF NothingOrphaned
  <2>2. Tracked'
    <3> SUFFICES ASSUME NEW a \in Agents, NEW c \in Commands, Stray(a, c) PROVE <<a, c>> \in lost
      BY <1>1 DEF Tracked, Stray, Owner
    <3> QED BY <1>1 DEF IInv, Owned, NothingOrphaned, Untracked
  <2>3. Dropping(todo)'
    <3> SUFFICES ASSUME NEW j \in 1 .. Len(ops), ops[j].do = "drop", NEW c \in Commands
                 PROVE  Of(ops[j].agent, c, ops[j].id) =>
                          <<ops[j].agent, c>> \in lost \/ Deleted(ops, j, ops[j].agent, c)
      BY <1>1 DEF Dropping, Gone, Deleted, Of, Owner
    <3>1. Fit(at, Ahead(ops, j), ops[j])
      BY <1>2
    <3> QED BY <3>1 DEF Fit, Cleared, Ahead, Deleted
  <2>4. Forgetting(todo)'
    <3> SUFFICES ASSUME NEW j \in 1 .. Len(ops), ops[j].do = "forget", NEW a \in Agents,
                        NEW c \in Commands
                 PROVE  Of(a, c, ops[j].id) => <<a, c>> \in lost \/ Deleted(ops, j, a, c)
      BY <1>1 DEF Forgetting, Gone, Deleted, Of, Owner
    <3>1. Fit(at, Ahead(ops, j), ops[j])
      BY <1>2
    <3> QED BY <3>1 DEF Fit, Cleared, Ahead, Deleted
  <2> QED BY <2>1, <2>2, <2>3, <2>4 DEF Owned
<1>6. \A c : Layers(c)' = Layers(c) /\ Resolve(c)' = Resolve(c)
  BY <1>1, StackUnchanged
<1>7. \A a, c : Right(a, c) => Right(a, c)'
  BY <1>1, <1>6 DEF Right
<1>8. Claims'
  BY <1>1, <1>7 DEF IInv, Stacked, Claims
<1>9. Turned(todo)'
  <2> SUFFICES ASSUME NEW j \in 1 .. Len(ops), ops[j].do = "write"
               PROVE  \/ \E i \in 1 .. j - 1 : ops[i].do = "activate" /\ ops[i].agent \in at
                      \/ /\ \E i \in 1 .. j - 1 : ops[i].do = "leave" /\ ops[i].next \in at
                                                  /\ ops[i].agent = active
                         /\ \A i \in 1 .. j - 1 : ops[i].do # "activate"
                      \/ active \in at /\ \A i \in 1 .. j - 1 : ops[i].do \notin Turns
    BY <1>1 DEF Turned
  <2>1. TurnedTo(at, Ahead(ops, j))
    BY <1>2 DEF Fit
  <2> QED BY <2>1 DEF TurnedTo, Ahead
<1>10. Arrival(todo)'
  <2> SUFFICES ASSUME NEW j \in 1 .. Len(ops), ops[j].do \in {"activate", "enlist"}
               PROVE  \/ j = 1 /\ Ready(ops[j].agent)
                      \/ \E i \in 1 .. j - 1 : ops[i].do = "setup" /\ ops[i].agent = ops[j].agent
    BY <1>1, <1>7 DEF Arrival, Ready
  <2>1. Fit(at, Ahead(ops, j), ops[j])
    BY <1>2
  <2>2. Ahead(ops, j) = {} => j = 1
    <3> SUFFICES ASSUME j # 1 PROVE Ahead(ops, j) # {}
      OBVIOUS
    <3>1. 1 \in 1 .. j - 1
      OBVIOUS
    <3> QED BY <3>1 DEF Ahead
  <2> QED BY <2>1, <2>2 DEF Fit, Ahead
<1>11. Settling'
  <2> SUFFICES ASSUME NEW a \in at \cap Agents, NEW c \in names PROVE Coming(ops, a, c)
    BY <1>1 DEF Settling, Coming
  <2> QED OBVIOUS
<1> QED BY <1>3, <1>4, <1>5, <1>8, <1>9, <1>10, <1>11 DEF IInv, Stacked

LEMMA RangeJoin ==
  ASSUME NEW s \in Seq(Operations), NEW t \in Seq(Operations)
  PROVE  s \o t \in Seq(Operations) /\ Range(s \o t) = Range(s) \cup Range(t)
<1>1. Joins(s \o t, s, t)
  BY JoinFacts
<1> DEFINE u == s \o t
<1> HIDE DEF u
<1>2. Joins(u, s, t) /\ u \in Seq(Operations)
  BY <1>1 DEF u, Joins
<1>3. /\ \A o : o \in Range(s) <=> \E j \in 1 .. Len(s) : o = s[j]
      /\ \A o : o \in Range(t) <=> \E j \in 1 .. Len(t) : o = t[j]
      /\ \A o : o \in Range(u) <=> \E j \in 1 .. Len(u) : o = u[j]
  BY <1>2, RangeFacts
<1>4. ASSUME NEW o \in Range(u) PROVE o \in Range(s) \cup Range(t)
  <2>1. PICK j \in 1 .. Len(u) : o = u[j]
    BY <1>3
  <2>2. PICK i : i = j - Len(s)
    OBVIOUS
  <2>3. j \in 1 .. Len(s) \/ (i \in 1 .. Len(t) /\ i + Len(s) = j)
    BY <1>2, <2>2 DEF Joins
  <2>4. CASE j \in 1 .. Len(s)
    <3>1. u[j] = s[j]
      BY <1>2, <2>4 DEF Joins
    <3> QED BY <1>3, <2>1, <2>4, <3>1
  <2>5. CASE i \in 1 .. Len(t) /\ i + Len(s) = j
    <3>1. u[j] = t[i]
      BY <1>2, <2>5 DEF Joins
    <3> QED BY <1>3, <2>1, <2>5, <3>1
  <2> QED BY <2>3, <2>4, <2>5
<1>5. ASSUME NEW o \in Range(s) \cup Range(t) PROVE o \in Range(u)
  <2>1. CASE o \in Range(s)
    <3>1. PICK j \in 1 .. Len(s) : o = s[j]
      BY <1>3, <2>1
    <3>2. u[j] = s[j] /\ j \in 1 .. Len(u)
      BY <1>2 DEF Joins
    <3> QED BY <1>3, <3>1, <3>2
  <2>2. CASE o \in Range(t)
    <3>1. PICK j \in 1 .. Len(t) : o = t[j]
      BY <1>3, <2>2
    <3>2. u[j + Len(s)] = t[j] /\ j + Len(s) \in 1 .. Len(u)
      BY <1>2 DEF Joins
    <3> QED BY <1>3, <3>1, <3>2
  <2> QED BY <2>1, <2>2
<1>6. u \in Seq(Operations) /\ Range(u) = Range(s) \cup Range(t)
  BY <1>2, <1>4, <1>5
<1> QED BY <1>6 DEF u

\* Places ahead of one in the second part.
LEMMA AheadJoin ==
  ASSUME NEW s \in Seq(Operations), NEW t \in Seq(Operations)
  PROVE  /\ \A j \in 1 .. Len(s) : Ahead(s \o t, j) = Ahead(s, j)
         /\ \A j \in 1 .. Len(t) : Ahead(s \o t, j + Len(s)) = Range(s) \cup Ahead(t, j)
<1> DEFINE u == s \o t
<1>1. Joins(u, s, t)
  BY JoinFacts
<1> HIDE DEF u
<1>2. /\ Len(u) = Len(s) + Len(t) /\ Len(s) \in Nat /\ Len(t) \in Nat
      /\ \A j \in 1 .. Len(s) : u[j] = s[j]
      /\ \A j \in 1 .. Len(t) : u[j + Len(s)] = t[j]
  BY <1>1 DEF Joins
<1>3. ASSUME NEW j \in 1 .. Len(s) PROVE Ahead(u, j) = Ahead(s, j)
  <2>1. \A i \in 1 .. j - 1 : u[i] = s[i]
    <3> TAKE i \in 1 .. j - 1
    <3>1. i \in 1 .. Len(s)
      BY <1>2
    <3> QED BY <1>2, <3>1
  <2> QED BY <2>1 DEF Ahead
<1>4. ASSUME NEW j \in 1 .. Len(t) PROVE Ahead(u, j + Len(s)) = Range(s) \cup Ahead(t, j)
  <2>1. ASSUME NEW i \in 1 .. (j + Len(s)) - 1 PROVE u[i] \in Range(s) \cup Ahead(t, j)
    <3>1. CASE i \in 1 .. Len(s)
      <4>1. u[i] = s[i]
        BY <1>2, <3>1
      <4> QED BY <3>1, <4>1, RangeFacts
    <3>2. CASE i \notin 1 .. Len(s)
      <4>1. i - Len(s) \in 1 .. j - 1 /\ i - Len(s) \in 1 .. Len(t) /\ (i - Len(s)) + Len(s) = i
        BY <1>2, <3>2
      <4>2. u[i] = t[i - Len(s)]
        BY <1>2, <4>1
      <4> QED BY <4>1, <4>2 DEF Ahead
    <3> QED BY <3>1, <3>2
  <2>2. ASSUME NEW x \in Range(s) PROVE x \in Ahead(u, j + Len(s))
    <3>1. PICK i \in 1 .. Len(s) : x = s[i]
      BY RangeFacts
    <3>2. i \in 1 .. (j + Len(s)) - 1 /\ u[i] = s[i]
      BY <1>2
    <3> QED BY <3>1, <3>2 DEF Ahead
  <2>3. ASSUME NEW i \in 1 .. j - 1 PROVE t[i] \in Ahead(u, j + Len(s))
    <3>1. i + Len(s) \in 1 .. (j + Len(s)) - 1 /\ i \in 1 .. Len(t)
      BY <1>2
    <3>2. u[i + Len(s)] = t[i]
      BY <1>2, <3>1
    <3> QED BY <3>1, <3>2 DEF Ahead
  <2> QED BY <2>1, <2>2, <2>3 DEF Ahead
<1> QED BY <1>3, <1>4 DEF u

LEMMA BlocksJoin ==
  ASSUME NEW s \in Seq(Operations), NEW t \in Seq(Operations), Blocks(s), Blocks(t)
  PROVE  Blocks(s \o t)
<1> DEFINE u == s \o t
<1>2. Joins(u, s, t)
  BY JoinFacts
<1> HIDE DEF u
<1>3. Len(s) \in Nat /\ Len(t) \in Nat /\ Len(u) = Len(s) + Len(t)
  BY <1>2 DEF Joins
<1>5. Blocks(u)
  <2> SUFFICES ASSUME NEW j \in 1 .. Len(u), u[j].do = "write"
               PROVE  /\ j + 1 \in 1 .. Len(u) /\ u[j + 1].do \in {"write", "record"}
                      /\ u[j + 1].id = u[j].id
    BY DEF Blocks
  <2>1. CASE j \in 1 .. Len(s)
    <3>1. u[j] = s[j]
      BY <1>2, <2>1 DEF Joins
    <3>2. j + 1 \in 1 .. Len(s) /\ s[j + 1].do \in {"write", "record"} /\ s[j + 1].id = s[j].id
      BY <2>1, <3>1 DEF Blocks
    <3>3. u[j + 1] = s[j + 1] /\ j + 1 \in 1 .. Len(u)
      BY <1>2, <3>2 DEF Joins
    <3> QED BY <3>1, <3>2, <3>3
  <2>2. CASE j \notin 1 .. Len(s)
    <3>0. PICK i : i = j - Len(s)
      OBVIOUS
    <3>1. i \in 1 .. Len(t) /\ i + Len(s) = j
      BY <1>2, <2>2, <3>0 DEF Joins
    <3>2. u[j] = t[i]
      BY <1>2, <3>1 DEF Joins
    <3>3. i + 1 \in 1 .. Len(t) /\ t[i + 1].do \in {"write", "record"} /\ t[i + 1].id = t[i].id
      BY <3>1, <3>2 DEF Blocks
    <3>4. (i + 1) + Len(s) = j + 1
      BY <1>3, <3>1
    <3>5. u[j + 1] = t[i + 1] /\ j + 1 \in 1 .. Len(u)
      BY <1>2, <3>3, <3>4 DEF Joins
    <3> QED BY <3>2, <3>3, <3>5
  <2> QED BY <2>1, <2>2
<1> QED BY <1>5 DEF u

\* B are the operations of A and those of s.
Adding(B, A, s) == B = A \cup Range(s)

LEMMA GoodJoin ==
  ASSUME NEW at, NEW A, NEW B, NEW s, NEW t, Good(at, A, s), Adding(B, A, s), Good(at, B, t)
  PROVE  Good(at, A, s \o t) /\ Adding(Range(s \o t), Range(s), t)
<1>0. B = A \cup Range(s)
  BY DEF Adding
<1> DEFINE u == s \o t
<1>1. s \in Seq(Operations) /\ t \in Seq(Operations)
  BY DEF Good
<1>2. /\ Joins(u, s, t) /\ u \in Seq(Operations) /\ Range(u) = Range(s) \cup Range(t)
      /\ \A j \in 1 .. Len(s) : Ahead(u, j) = Ahead(s, j)
      /\ \A j \in 1 .. Len(t) : Ahead(u, j + Len(s)) = Range(s) \cup Ahead(t, j)
  BY <1>1, JoinFacts, RangeJoin, AheadJoin
<1> HIDE DEF u
<1>3. Len(s) \in Nat /\ Len(t) \in Nat /\ Len(u) = Len(s) + Len(t)
  BY <1>2 DEF Joins
<1>4. Fitting(at, A, u)
  <2> SUFFICES ASSUME NEW j \in 1 .. Len(u) PROVE Fit(at, A \cup Ahead(u, j), u[j])
    BY DEF Fitting
  <2>1. CASE j \in 1 .. Len(s)
    <3>1. u[j] = s[j] /\ Ahead(u, j) = Ahead(s, j)
      BY <1>2, <2>1 DEF Joins
    <3> QED BY <2>1, <3>1 DEF Good, Fitting
  <2>2. CASE j \notin 1 .. Len(s)
    <3>0. PICK i : i = j - Len(s)
      OBVIOUS
    <3>1. i \in 1 .. Len(t) /\ i + Len(s) = j
      BY <1>2, <2>2, <3>0 DEF Joins
    <3>2. u[j] = t[i] /\ Ahead(u, j) = Range(s) \cup Ahead(t, i)
      BY <1>2, <3>1 DEF Joins
    <3>3. Fit(at, (A \cup Range(s)) \cup Ahead(t, i), t[i])
      BY <1>0, <3>1 DEF Good, Fitting
    <3>4. A \cup Ahead(u, j) = (A \cup Range(s)) \cup Ahead(t, i)
      BY <3>2
    <3> QED BY <3>2, <3>3, <3>4
  <2> QED BY <2>1, <2>2
<1>5. Blocks(u)
  BY <1>1, BlocksJoin DEF Good, u
<1>6. Good(at, A, u) /\ Adding(Range(u), Range(s), t)
  BY <1>2, <1>4, <1>5 DEF Good, Adding
<1> QED BY <1>6 DEF u

LEMMA GoodOne ==
  ASSUME NEW at, NEW A, NEW o \in Operations, Fit(at, A, o), o.do # "write"
  PROVE  Good(at, A, <<o>>) /\ Range(<<o>>) = {o}
<1>1. <<o>> \in Seq(Operations) /\ Len(<<o>>) = 1 /\ <<o>>[1] = o
  OBVIOUS
<1>2. Range(<<o>>) = {o}
  BY DEF Range
<1>3. A \cup Ahead(<<o>>, 1) = A
  BY DEF Ahead
<1>4. Fitting(at, A, <<o>>) /\ Blocks(<<o>>)
  BY <1>1, <1>3 DEF Fitting, Blocks
<1> QED BY <1>1, <1>2, <1>4 DEF Good

\* A list whose operations may come in any order.
LEMMA GoodAll ==
  ASSUME NEW at, NEW A, NEW s \in Seq(Operations), Blocks(s),
         \A B : A \subseteq B /\ B \subseteq A \cup Range(s) => \A o \in Range(s) : Fit(at, B, o)
  PROVE  Good(at, A, s)
<1> SUFFICES ASSUME NEW j \in 1 .. Len(s) PROVE Fit(at, A \cup Ahead(s, j), s[j])
  BY DEF Good, Fitting
<1>1. s[j] \in Range(s)
  BY RangeFacts
<1>2. \A i \in 1 .. j - 1 : s[i] \in Range(s)
  <2> TAKE i \in 1 .. j - 1
  <2>1. i \in 1 .. Len(s)
    BY LenProperties
  <2> QED BY <2>1, RangeFacts
<1>3. PICK B : B = A \cup Ahead(s, j)
  OBVIOUS
<1>4. A \subseteq B /\ B \subseteq A \cup Range(s)
  BY <1>2, <1>3 DEF Ahead
<1> QED BY <1>1, <1>3, <1>4

LEMMA ComingJoin ==
  ASSUME NEW s \in Seq(Operations), NEW t \in Seq(Operations), NEW a, NEW c
  PROVE  /\ Coming(t, a, c) => Coming(s \o t, a, c)
         /\ Coming(s, a, c) /\ (\A o \in Range(t) : Calm(o, c)) => Coming(s \o t, a, c)
<1> DEFINE u == s \o t
<1>1. Joins(u, s, t)
  BY JoinFacts
<1> HIDE DEF u
<1>2. /\ Len(u) = Len(s) + Len(t) /\ Len(s) \in Nat /\ Len(t) \in Nat
      /\ \A j \in 1 .. Len(s) : u[j] = s[j] /\ j \in 1 .. Len(u)
      /\ \A j \in 1 .. Len(t) : u[j + Len(s)] = t[j] /\ j + Len(s) \in 1 .. Len(u)
  BY <1>1 DEF Joins
<1>3. ASSUME Coming(t, a, c) PROVE Coming(u, a, c)
  <2>1. PICK i \in 1 .. Len(t) : /\ t[i].do = "reconcile" /\ t[i].name = c /\ a \in t[i].at
                                 /\ \A j \in i + 1 .. Len(t) : Calm(t[j], c)
    BY <1>3 DEF Coming
  <2>2. u[i + Len(s)] = t[i] /\ i + Len(s) \in 1 .. Len(u)
    BY <1>2
  <2>3. \A j \in (i + Len(s)) + 1 .. Len(u) : Calm(u[j], c)
    <3> TAKE j \in (i + Len(s)) + 1 .. Len(u)
    <3>1. j - Len(s) \in i + 1 .. Len(t) /\ j - Len(s) \in 1 .. Len(t) /\ (j - Len(s)) + Len(s) = j
      BY <1>2
    <3>2. u[j] = t[j - Len(s)]
      BY <1>2, <3>1
    <3> QED BY <2>1, <3>1, <3>2
  <2> QED BY <2>1, <2>2, <2>3 DEF Coming
<1>4. ASSUME Coming(s, a, c), \A o \in Range(t) : Calm(o, c) PROVE Coming(u, a, c)
  <2>1. PICK i \in 1 .. Len(s) : /\ s[i].do = "reconcile" /\ s[i].name = c /\ a \in s[i].at
                                 /\ \A j \in i + 1 .. Len(s) : Calm(s[j], c)
    BY <1>4 DEF Coming
  <2>2. u[i] = s[i] /\ i \in 1 .. Len(u)
    BY <1>2
  <2>3. \A j \in i + 1 .. Len(u) : Calm(u[j], c)
    <3> TAKE j \in i + 1 .. Len(u)
    <3>1. CASE j \in 1 .. Len(s)
      <4>1. j \in i + 1 .. Len(s) /\ u[j] = s[j]
        BY <1>2, <3>1
      <4> QED BY <2>1, <4>1
    <3>2. CASE j \notin 1 .. Len(s)
      <4>1. j - Len(s) \in 1 .. Len(t) /\ (j - Len(s)) + Len(s) = j
        BY <1>2, <3>2
      <4>2. u[j] = t[j - Len(s)] /\ t[j - Len(s)] \in Range(t)
        BY <1>2, <4>1, RangeFacts
      <4> QED BY <1>4, <4>2
    <3> QED BY <3>1, <3>2
  <2> QED BY <2>1, <2>2, <2>3 DEF Coming
<1> QED BY <1>3, <1>4 DEF u

-----------------------------------------------------------------------------
(* The parts of the lists *)

\* f names an operation for each element of X.
LEMMA OpsFacts ==
  ASSUME NEW X, IsFiniteSet(X), NEW f \in [X -> Operations]
  PROVE  Listed(X, f) \in Seq(Operations) /\ Range(Listed(X, f)) = {f[x] : x \in X}
<1>1. Lists(Listed(X, f), X, f, Operations)
  BY EachFacts
<1> DEFINE e == Listed(X, f)
<1> HIDE DEF e
<1>2. /\ e \in Seq(Operations)
      /\ \A i \in 1 .. Len(e) : \E x \in X : e[i] = f[x]
      /\ \A x \in X : \E i \in 1 .. Len(e) : e[i] = f[x]
  BY <1>1 DEF Lists, e
<1>3. \A o : o \in Range(e) <=> \E j \in 1 .. Len(e) : o = e[j]
  BY <1>2, RangeFacts
<1>4. Range(e) = {f[x] : x \in X}
  BY <1>2, <1>3
<1> QED BY <1>2, <1>4 DEF e

IsDeletes(s, p, at) ==
  /\ s \in Seq(Operations)
  /\ \A o \in Range(s) : o.do = "delete" /\ o.agent \in at /\ o.name \in reg[p].cmds[o.agent]
  /\ \A a \in at, c \in Commands : c \in reg[p].cmds[a] =>
       \E o \in Range(s) : o.do = "delete" /\ o.agent = a /\ o.name = c

LEMMA DeletesFacts ==
  ASSUME NEW p, NEW at \in SUBSET Agents
  PROVE  IsDeletes(Deletes(p, at), p, at)
<1> DEFINE F == {f \in at \X Commands : f[2] \in reg[p].cmds[f[1]]}
           Op(f) == [do |-> "delete", agent |-> f[1], name |-> f[2]]
           g == [f \in F |-> Op(f)]
           e == Listed(F, g)
<1>1. IsFiniteSet(F)
  <2>1. IsFiniteSet(at) /\ IsFiniteSet(Commands)
    BY AgentsAssumption, ProvidesAssumption, FS_Subset
  <2>2. IsFiniteSet(at \X Commands)
    BY <2>1, FS_Product
  <2>3. F \subseteq at \X Commands
    OBVIOUS
  <2> HIDE DEF F
  <2> QED BY <2>2, <2>3, FS_Subset
<1>2. \A f \in F : f[1] \in at /\ f[2] \in Commands /\ f[2] \in reg[p].cmds[f[1]]
  OBVIOUS
<1>2a. \A a \in at, c \in Commands : c \in reg[p].cmds[a] => <<a, c>> \in F
  OBVIOUS
<1>3. Deletes(p, at) = e
  <2>1. SetToSeq(F) \in Seq(F)
    BY <1>1, SetToSeqIn
  <2>2. \A i \in 1 .. Len(SetToSeq(F)) : SetToSeq(F)[i] \in F
    <3> HIDE DEF F
    <3> QED BY <2>1, ElementOfSeq
  <2>3. Deletes(p, at) = Each(F, Op)
    BY DEF Deletes
  <2> HIDE DEF F
  <2>4. Each(F, Op) = e
    BY <2>2 DEF Each, Listed
  <2> HIDE DEF e, Op
  <2> QED BY <2>3, <2>4
<1> HIDE DEF F
<1>4. \A f \in F : Op(f) \in Operations
  BY <1>2 DEF Operations, DeleteOps
<1>5. g \in [F -> Operations]
  BY <1>4
<1>6. \A f \in F : g[f].do = "delete" /\ g[f].agent = f[1] /\ g[f].name = f[2]
  OBVIOUS
<1> HIDE DEF g
<1>7. e \in Seq(Operations) /\ Range(e) = {g[f] : f \in F}
  BY <1>1, <1>5, OpsFacts
<1> HIDE DEF e
<1>8. ASSUME NEW a \in at, NEW c \in Commands, c \in reg[p].cmds[a]
      PROVE  \E o \in Range(e) : o.do = "delete" /\ o.agent = a /\ o.name = c
  <2>1. <<a, c>> \in F
    BY <1>2a, <1>8
  <2>2. g[<<a, c>>] \in Range(e)
    BY <1>7, <2>1
  <2>3. g[<<a, c>>].do = "delete" /\ g[<<a, c>>].agent = a /\ g[<<a, c>>].name = c
    BY <1>6, <2>1
  <2> QED BY <2>2, <2>3
<1>9. \A o \in Range(e) : o.do = "delete" /\ o.agent \in at /\ o.name \in reg[p].cmds[o.agent]
  BY <1>2, <1>6, <1>7
<1> QED BY <1>3, <1>7, <1>8, <1>9 DEF IsDeletes

IsReconciles(s, names, at) ==
  /\ s \in Seq(Operations)
  /\ \A o \in Range(s) : o.do = "reconcile" /\ o.name \in names /\ o.at = at
  /\ \A a \in at, c \in names : Coming(s, a, c)

LEMMA ReconcilesFacts ==
  ASSUME NEW names \in SUBSET Commands, NEW at \in SUBSET (Agents \cup {NoAgent})
  PROVE  IsReconciles(Reconciles(names, at), names, at)
<1> DEFINE Op(c) == [do |-> "reconcile", name |-> c, at |-> at]
           g == [c \in names |-> Op(c)]
           e == Listed(names, g)
<1>1. IsFiniteSet(names)
  BY ProvidesAssumption, FS_Subset
<1>2. Reconciles(names, at) = e
  <2>1. SetToSeq(names) \in Seq(names)
    BY <1>1, SetToSeqIn
  <2>2. \A i \in 1 .. Len(SetToSeq(names)) : SetToSeq(names)[i] \in names
    BY <2>1, ElementOfSeq
  <2>3. Reconciles(names, at) = Each(names, Op)
    BY DEF Reconciles
  <2>4. Each(names, Op) = e
    BY <2>2 DEF Each, Listed
  <2> HIDE DEF e, Op
  <2> QED BY <2>3, <2>4
<1>3. \A c \in names : Op(c) \in Operations
  BY DEF Operations, ReconcileOps
<1>4. g \in [names -> Operations]
  BY <1>3
<1>5. \A c \in names : g[c].do = "reconcile" /\ g[c].name = c /\ g[c].at = at
  OBVIOUS
<1> HIDE DEF g
<1>6. e \in Seq(Operations) /\ Range(e) = {g[c] : c \in names}
  BY <1>1, <1>4, OpsFacts
<1> HIDE DEF e
<1>7. \A o \in Range(e) : o.do = "reconcile" /\ o.name \in names /\ o.at = at
  BY <1>5, <1>6
<1>8. ASSUME NEW a \in at, NEW c \in names PROVE Coming(e, a, c)
  <2>1. PICK i \in 1 .. Len(e) : e[i] = g[c]
    BY <1>6, RangeFacts
  <2>2. \A j \in i + 1 .. Len(e) : Calm(e[j], c)
    <3> TAKE j \in i + 1 .. Len(e)
    <3>1. j \in 1 .. Len(e)
      BY <1>6, LenProperties
    <3>2. e[j] \in Range(e)
      BY <1>6, <3>1, RangeFacts
    <3> QED BY <1>7, <3>2 DEF Calm
  <2> QED BY <1>5, <2>1, <2>2 DEF Coming
<1> QED BY <1>2, <1>6, <1>7, <1>8 DEF IsReconciles

IsRegisters(s, p) ==
  /\ s \in Seq(Operations) /\ Blocks(s)
  /\ \A o \in Range(s) : /\ o.do \in {"write", "record"} /\ o.id = p
                         /\ o.do = "write" => o.name \in Provides[p]

LEMMA RegistersFacts ==
  ASSUME NEW p \in Presets
  PROVE  IsRegisters(Registers(p), p)
<1> DEFINE Op(c) == [do |-> "write", id |-> p, name |-> c]
           X == Provides[p]
           g == [c \in X |-> Op(c)]
           e == Listed(X, g)
           r == <<PackageOp("record", p)>>
<1>1. IsFiniteSet(X) /\ X \subseteq Commands
  <2>1. X \subseteq Commands
    BY ProvidesAssumption
  <2> HIDE DEF X
  <2> QED BY <2>1, ProvidesAssumption, FS_Subset
<1>2. Registers(p) = e \o r
  <2>1. SetToSeq(X) \in Seq(X)
    BY <1>1, SetToSeqIn
  <2>2. \A i \in 1 .. Len(SetToSeq(X)) : SetToSeq(X)[i] \in X
    <3> HIDE DEF X
    <3> QED BY <2>1, ElementOfSeq
  <2>3. Registers(p) = Each(X, Op) \o r
    BY DEF Registers
  <2> HIDE DEF X
  <2>4. Each(X, Op) = e
    BY <2>2 DEF Each, Listed
  <2> HIDE DEF e, Op, r
  <2> QED BY <2>3, <2>4
<1> HIDE DEF X
<1>3. \A c \in X : Op(c) \in Operations
  BY <1>1 DEF Operations, WriteOps
<1>4. g \in [X -> Operations]
  BY <1>3
<1>5. \A c \in X : g[c].do = "write" /\ g[c].id = p /\ g[c].name = c
  OBVIOUS
<1> HIDE DEF g
<1>6. e \in Seq(Operations) /\ Range(e) = {g[c] : c \in X}
  BY <1>1, <1>4, OpsFacts
<1> HIDE DEF e
<1>7. \A o \in Range(e) : o.do = "write" /\ o.id = p /\ o.name \in X
  BY <1>5, <1>6
<1>8. r \in Seq(Operations) /\ Len(r) = 1 /\ r[1].do = "record" /\ r[1].id = p
      /\ Range(r) = {r[1]}
  <2>1. PackageOp("record", p) \in Operations
    BY DEF PackageOp, Operations, PackageOps
  <2>2. PackageOp("record", p).do = "record" /\ PackageOp("record", p).id = p
    BY DEF PackageOp
  <2> QED BY <2>1, <2>2 DEF Range
<1> HIDE DEF r
<1> DEFINE u == e \o r
<1>9. Joins(u, e, r) /\ u \in Seq(Operations) /\ Range(u) = Range(e) \cup Range(r)
  BY <1>6, <1>8, JoinFacts, RangeJoin
<1> HIDE DEF u
<1>10. \A o \in Range(u) : /\ o.do \in {"write", "record"} /\ o.id = p
                           /\ o.do = "write" => o.name \in X
  BY <1>7, <1>8, <1>9
<1>11. Blocks(u)
  <2> SUFFICES ASSUME NEW j \in 1 .. Len(u), u[j].do = "write"
               PROVE  /\ j + 1 \in 1 .. Len(u) /\ u[j + 1].do \in {"write", "record"}
                      /\ u[j + 1].id = u[j].id
    BY DEF Blocks
  <2>1. Len(u) = Len(e) + 1 /\ Len(e) \in Nat /\ u[1 + Len(e)] = r[1]
    BY <1>8, <1>9 DEF Joins
  <2>2. j # Len(e) + 1
    BY <1>8, <2>1
  <2>3. j + 1 \in 1 .. Len(u)
    BY <2>1, <2>2
  <2>4. u[j] \in Range(u) /\ u[j + 1] \in Range(u)
    BY <1>9, <2>3, RangeFacts
  <2> QED BY <1>10, <2>3, <2>4
<1>12. IsRegisters(u, p)
  BY <1>9, <1>10, <1>11 DEF IsRegisters, X
<1> QED BY <1>2, <1>12 DEF u

\* The operations that take the files of agent a out of the registry.
IsUnregisters(s, a) ==
  /\ s \in Seq(Operations) /\ Blocks(s)
  /\ \A o \in Range(s) : o.do \in {"delete", "drop"} /\ o.agent = a
  /\ \A j \in 1 .. Len(s) : s[j].do = "drop" =>
       \A c \in Commands : c \in reg[s[j].id].cmds[a] =>
         \E x \in Ahead(s, j) : x.do = "delete" /\ x.agent = a /\ x.name = c

LEMMA BlocksNone ==
  ASSUME NEW s \in Seq(Operations), \A o \in Range(s) : o.do # "write"
  PROVE  Blocks(s)
BY RangeFacts DEF Blocks

LEMMA UnregistersJoin ==
  ASSUME NEW a, NEW s, NEW t, IsUnregisters(s, a), IsUnregisters(t, a)
  PROVE  IsUnregisters(s \o t, a)
<1> DEFINE u == s \o t
<1>1. s \in Seq(Operations) /\ t \in Seq(Operations)
  BY DEF IsUnregisters
<1>2. /\ Joins(u, s, t) /\ u \in Seq(Operations) /\ Range(u) = Range(s) \cup Range(t)
      /\ \A j \in 1 .. Len(s) : Ahead(u, j) = Ahead(s, j)
      /\ \A j \in 1 .. Len(t) : Ahead(u, j + Len(s)) = Range(s) \cup Ahead(t, j)
  BY <1>1, JoinFacts, RangeJoin, AheadJoin
<1> HIDE DEF u
<1>3. \A o \in Range(u) : o.do \in {"delete", "drop"} /\ o.agent = a
  BY <1>2 DEF IsUnregisters
<1>4. Blocks(u)
  BY <1>2, <1>3, BlocksNone
<1>5. ASSUME NEW j \in 1 .. Len(u), u[j].do = "drop", NEW c \in Commands,
             c \in reg[u[j].id].cmds[a]
      PROVE  \E x \in Ahead(u, j) : x.do = "delete" /\ x.agent = a /\ x.name = c
  <2>1. CASE j \in 1 .. Len(s)
    <3>1. u[j] = s[j] /\ Ahead(u, j) = Ahead(s, j)
      BY <1>2, <2>1 DEF Joins
    <3> QED BY <1>5, <2>1, <3>1 DEF IsUnregisters
  <2>2. CASE j \notin 1 .. Len(s)
    <3>0. PICK i : i = j - Len(s)
      OBVIOUS
    <3>1. i \in 1 .. Len(t) /\ i + Len(s) = j
      BY <1>2, <2>2, <3>0 DEF Joins
    <3>2. u[j] = t[i] /\ Ahead(u, j) = Range(s) \cup Ahead(t, i)
      BY <1>2, <3>1 DEF Joins
    <3>3. \E x \in Ahead(t, i) : x.do = "delete" /\ x.agent = a /\ x.name = c
      BY <1>5, <3>1, <3>2 DEF IsUnregisters
    <3> QED BY <3>2, <3>3
  <2> QED BY <2>1, <2>2
<1>6. IsUnregisters(u, a)
  BY <1>2, <1>3, <1>4, <1>5 DEF IsUnregisters
<1> QED BY <1>6 DEF u

LEMMA UnregistersFacts ==
  ASSUME NEW a \in Agents
  PROVE  IsUnregisters(Unregisters(a), a)
<1> DEFINE G == {s \in Seq(Operations) : IsUnregisters(s, a)}
           P == {p \in Presets : reg[p].cmds[a] # {}}
           Op(p) == Deletes(p, {a}) \o <<DropOp(p, a)>>
           g == [p \in P |-> Op(p)]
<1>1. IsFiniteSet(P) /\ P \subseteq Presets
  <2>1. P \subseteq Presets
    OBVIOUS
  <2> HIDE DEF P
  <2> QED BY <2>1, PresetsAssumption, FS_Subset
<1> HIDE DEF P
<1>2. ASSUME NEW p \in P PROVE IsUnregisters(Op(p), a)
  <2> DEFINE s == Deletes(p, {a})
             t == <<DropOp(p, a)>>
  <2>1. IsDeletes(s, p, {a})
    BY DeletesFacts
  <2>2. t \in Seq(Operations) /\ Len(t) = 1 /\ t[1].do = "drop" /\ t[1].agent = a /\ t[1].id = p
        /\ Range(t) = {t[1]}
    <3>1. DropOp(p, a) \in Operations
      BY <1>1 DEF DropOp, Operations, DropOps
    <3>2. DropOp(p, a).do = "drop" /\ DropOp(p, a).agent = a /\ DropOp(p, a).id = p
      BY DEF DropOp
    <3> QED BY <3>1, <3>2 DEF Range
  <2> HIDE DEF s, t
  <2> DEFINE u == s \o t
  <2>3. s \in Seq(Operations)
    BY <2>1 DEF IsDeletes
  <2>4. /\ Joins(u, s, t) /\ u \in Seq(Operations) /\ Range(u) = Range(s) \cup Range(t)
        /\ \A j \in 1 .. Len(t) : Ahead(u, j + Len(s)) = Range(s) \cup Ahead(t, j)
    BY <2>2, <2>3, JoinFacts, RangeJoin, AheadJoin
  <2> HIDE DEF u
  <2>5. \A o \in Range(s) : o.do = "delete" /\ o.agent = a
    BY <2>1 DEF IsDeletes
  <2>6. \A o \in Range(u) : o.do \in {"delete", "drop"} /\ o.agent = a
    BY <2>2, <2>4, <2>5
  <2>7. Blocks(u)
    BY <2>4, <2>6, BlocksNone
  <2>8. ASSUME NEW j \in 1 .. Len(u), u[j].do = "drop", NEW c \in Commands,
               c \in reg[u[j].id].cmds[a]
        PROVE  \E x \in Ahead(u, j) : x.do = "delete" /\ x.agent = a /\ x.name = c
    <3>1. j \notin 1 .. Len(s)
      <4> SUFFICES ASSUME j \in 1 .. Len(s) PROVE FALSE
        OBVIOUS
      <4>1. u[j] = s[j] /\ s[j] \in Range(s)
        BY <2>3, <2>4, RangeFacts DEF Joins
      <4> QED BY <2>5, <2>8, <4>1
    <3>2. j - Len(s) \in 1 .. Len(t) /\ (j - Len(s)) + Len(s) = j
      BY <2>4, <3>1 DEF Joins
    <3>3. j - Len(s) = 1 /\ 1 + Len(s) = j
      BY <2>2, <2>4, <3>2 DEF Joins
    <3>4. u[j] = t[1] /\ Ahead(u, j) = Range(s) \cup Ahead(t, 1)
      BY <2>2, <2>4, <3>3 DEF Joins
    <3>5. c \in reg[p].cmds[a]
      BY <2>2, <2>8, <3>4
    <3>6. \E o \in Range(s) : o.do = "delete" /\ o.agent = a /\ o.name = c
      BY <2>1, <3>5 DEF IsDeletes
    <3> QED BY <3>4, <3>6
  <2>9. IsUnregisters(u, a)
    BY <2>4, <2>6, <2>7, <2>8 DEF IsUnregisters
  <2> QED BY <2>9 DEF u, s, t
<1> HIDE DEF Op
<1>3. g \in [P -> G]
  BY <1>2 DEF IsUnregisters
<1>4. Listed(P, g) \in Seq(G)
  <2>1. Lists(Listed(P, g), P, g, G)
    <3> HIDE DEF g, G
    <3> QED BY <1>1, <1>3, EachFacts
  <2> QED BY <2>1 DEF Lists
<1>5. Unregisters(a) = FlattenSeq(Listed(P, g))
  <2>1. SetToSeq(P) \in Seq(P)
    BY <1>1, SetToSeqIn
  <2>2. \A i \in 1 .. Len(SetToSeq(P)) : SetToSeq(P)[i] \in P
    BY <2>1, ElementOfSeq
  <2>3. Unregisters(a) = FlattenSeq(Each(P, Op))
    BY DEF Unregisters, P, Op
  <2>4. Each(P, Op) = Listed(P, g)
    BY <2>2 DEF Each, Listed
  <2> HIDE DEF g
  <2> QED BY <2>3, <2>4
<1>6. FlattenSeq(Listed(P, g)) \in G
  <2>1. <<>> \in G
    <3>1. <<>> \in Seq(Operations) /\ Len(<<>>) = 0 /\ Range(<<>>) = {} /\ 1 .. 0 = {}
      BY EmptySeq DEF Range
    <3> QED BY <3>1 DEF IsUnregisters, Blocks
  <2>2. \A s, t \in G : s \o t \in G
    <3> TAKE s, t \in G
    <3>1. IsUnregisters(s \o t, a)
      BY UnregistersJoin
    <3>2. s \o t \in Seq(Operations)
      BY <3>1 DEF IsUnregisters
    <3> QED BY <3>1, <3>2
  <2> HIDE DEF G, g
  <2> QED BY <1>4, <2>1, <2>2, FlattenIn
<1> QED BY <1>5, <1>6

\* The registrations of presets that are enabled.
IsOffering(s) ==
  /\ s \in Seq(Operations) /\ Blocks(s)
  /\ \A o \in Range(s) : /\ o.do \in {"write", "record"} /\ o.id \in Enabled
                         /\ o.do = "write" => o.name \in Provides[o.id]

Offering ==
  FlattenSeq([i \in DOMAIN Sorted(Enabled) |->
                Registers(Sorted(Enabled)[Len(Sorted(Enabled)) + 1 - i])])

LEMMA OfferingFacts ==
  ASSUME TypeOK
  PROVE  IsOffering(Offering)
<1> DEFINE G == {s \in Seq(Operations) : IsOffering(s)}
           r == Sorted(Enabled)
           e == [i \in DOMAIN r |-> Registers(r[Len(r) + 1 - i])]
<1>1. Enabled \in SUBSET Presets
  BY DEF Enabled
<1>2. r \in Seq(Enabled)
  BY <1>1, RanksHold, SortedIn
<1> HIDE DEF r
<1>3. Len(r) \in Nat /\ DOMAIN r = 1 .. Len(r) /\ \A i \in 1 .. Len(r) : r[i] \in Enabled
  BY <1>2, LenProperties, ElementOfSeq
<1>4. \A i \in 1 .. Len(r) : r[Len(r) + 1 - i] \in Enabled
  <2> TAKE i \in 1 .. Len(r)
  <2>1. Len(r) + 1 - i \in 1 .. Len(r)
    BY <1>3
  <2> QED BY <1>3, <2>1
<1>5. \A p \in Enabled : Registers(p) \in G
  <2> TAKE p \in Enabled
  <2>1. IsRegisters(Registers(p), p)
    BY <1>1, RegistersFacts
  <2>2. IsOffering(Registers(p))
    BY <2>1 DEF IsRegisters, IsOffering
  <2> QED BY <2>1, <2>2 DEF IsRegisters
<1>6. e \in Seq(G)
  <2>1. e \in [1 .. Len(r) -> G]
    <3> HIDE DEF G
    <3> QED BY <1>3, <1>4, <1>5
  <2> HIDE DEF e, G
  <2> QED BY <1>3, <2>1
<1>7. <<>> \in G
  <2>1. <<>> \in Seq(Operations) /\ Len(<<>>) = 0 /\ Range(<<>>) = {} /\ 1 .. 0 = {}
    BY EmptySeq DEF Range
  <2> QED BY <2>1 DEF IsOffering, Blocks
<1>8. \A s, t \in G : s \o t \in G
  <2> TAKE s, t \in G
  <2>1. s \o t \in Seq(Operations) /\ Range(s \o t) = Range(s) \cup Range(t)
    BY RangeJoin
  <2>2. Blocks(s \o t)
    BY BlocksJoin DEF IsOffering
  <2>3. IsOffering(s \o t)
    <3> DEFINE u == s \o t
    <3> HIDE DEF u
    <3>1. u \in Seq(Operations) /\ Range(u) = Range(s) \cup Range(t) /\ Blocks(u)
      BY <2>1, <2>2 DEF u
    <3>2. IsOffering(u)
      BY <3>1 DEF IsOffering
    <3> QED BY <3>2 DEF u
  <2> QED BY <2>1, <2>3
<1>9. FlattenSeq(e) \in G
  <2> HIDE DEF e, G
  <2> QED BY <1>6, <1>7, <1>8, FlattenIn
<1>10. Offering = FlattenSeq(e)
  BY DEF Offering, r
<1> QED BY <1>9, <1>10

-----------------------------------------------------------------------------
(* The parts fit together *)

LEMMA ReconcilesGood ==
  ASSUME NEW s, NEW names, NEW t, IsReconciles(s, names, t), NEW at, NEW A
  PROVE  Good(at, A, s)
<1>1. s \in Seq(Operations) /\ \A o \in Range(s) : o.do = "reconcile"
  BY DEF IsReconciles
<1>2. Blocks(s)
  BY <1>1, BlocksNone
<1>3. \A B : \A o \in Range(s) : Fit(at, B, o)
  BY <1>1 DEF Fit, Free
<1> QED BY <1>1, <1>2, <1>3, GoodAll

LEMMA DeletesGood ==
  ASSUME NEW s, NEW p, NEW t, IsDeletes(s, p, t), NEW at, NEW A, \A x \in A : x.do \in Leaving
  PROVE  Good(at, A, s)
<1>1. s \in Seq(Operations) /\ \A o \in Range(s) : o.do = "delete"
  BY DEF IsDeletes
<1>2. Blocks(s)
  BY <1>1, BlocksNone
<1>3. ASSUME NEW B, B \subseteq A \cup Range(s), NEW o \in Range(s) PROVE Fit(at, B, o)
  <2>1. \A x \in B : x.do \in Leaving
    BY <1>1, <1>3 DEF Leaving
  <2> QED BY <1>1, <2>1, PriorFacts DEF Fit
<1> QED BY <1>1, <1>2, <1>3, GoodAll

\* With no command under way a preset knows of its files, but for what failures left.
Knows ==
  \A a \in Agents, c \in Commands, p \in Presets :
    Of(a, c, p) => <<a, c>> \in lost \/ c \in reg[p].cmds[a]

LEMMA KnowsHolds ==
  ASSUME IInv, job.op = "none"
  PROVE  Knows
<1> SUFFICES ASSUME NEW a \in Agents, NEW c \in Commands, NEW p \in Presets, Of(a, c, p),
                    c \notin reg[p].cmds[a]
             PROVE  <<a, c>> \in lost
  BY DEF Knows
<1>1. Stray(a, c)
  BY PresetsAssumption DEF Of, Stray
<1> QED BY <1>1 DEF IInv, Owned, NothingOrphaned, Untracked

LEMMA UnregistersGood ==
  ASSUME Knows, NEW s, NEW a \in Agents, IsUnregisters(s, a), NEW at, NEW A,
         \A x \in A : x.do \in Leaving
  PROVE  Good(at, A, s)
<1>1. s \in Seq(Operations) /\ Blocks(s) /\ \A o \in Range(s) : o.do \in {"delete", "drop"} /\ o.agent = a
  BY DEF IsUnregisters
<1>2. ASSUME NEW j \in 1 .. Len(s) PROVE Fit(at, A \cup Ahead(s, j), s[j])
  <2>1. s[j] \in Range(s) /\ s[j] \in Operations
    BY <1>1, RangeFacts, ElementOfSeq
  <2>2. \A i \in 1 .. j - 1 : s[i] \in Range(s)
    <3> TAKE i \in 1 .. j - 1
    <3>1. i \in 1 .. Len(s)
      BY <1>1, LenProperties
    <3> QED BY <1>1, <3>1, RangeFacts
  <2>3. \A x \in A \cup Ahead(s, j) : x.do \in Leaving
    BY <1>1, <2>2 DEF Ahead, Leaving
  <2>4. CASE s[j].do = "delete"
    BY <2>3, <2>4, PriorFacts DEF Fit
  <2>5. CASE s[j].do = "drop"
    <3>1. s[j].agent = a /\ s[j].id \in Presets
      BY <1>1, <2>1, <2>5, OpFacts
    <3>2. ASSUME NEW c \in Commands PROVE Cleared(A \cup Ahead(s, j), a, c, s[j].id)
      <4>1. c \in reg[s[j].id].cmds[a] =>
              \E x \in Ahead(s, j) : x.do = "delete" /\ x.agent = a /\ x.name = c
        BY <2>5 DEF IsUnregisters
      <4>2. Of(a, c, s[j].id) => <<a, c>> \in lost \/ c \in reg[s[j].id].cmds[a]
        BY <3>1 DEF Knows
      <4> QED BY <4>1, <4>2 DEF Cleared
    <3>3. s[j].do \notin Free => \A x \in A \cup Ahead(s, j) : x.do \in Prior(s[j].do)
      BY <2>3, <2>5, PriorFacts
    <3> QED BY <2>5, <3>1, <3>2, <3>3 DEF Fit
  <2> QED BY <1>1, <2>1, <2>4, <2>5
<1> QED BY <1>1, <1>2 DEF Good, Fitting

LEMMA TurnedMore ==
  ASSUME NEW at, NEW A, NEW B, TurnedTo(at, A), A \subseteq B,
         \A x \in B : x \in A \/ x.do \notin Turns
  PROVE  TurnedTo(at, B)
BY DEF TurnedTo, Turns

LEMMA OfferingGood ==
  ASSUME NEW s, IsOffering(s), NEW at, NEW A, TurnedTo(at, A), \A x \in A : x.do # "forget"
  PROVE  Good(at, A, s)
<1>1. /\ s \in Seq(Operations) /\ Blocks(s)
      /\ \A o \in Range(s) : o.do \in {"write", "record"} /\ reg[o.id].there
  BY DEF IsOffering, Enabled
<1>2. ASSUME NEW B, A \subseteq B, B \subseteq A \cup Range(s), NEW o \in Range(s)
      PROVE  Fit(at, B, o)
  <2>1. TurnedTo(at, B)
    BY <1>1, <1>2, TurnedMore DEF Turns
  <2>2. ~ Has(B, "forget", o.id)
    BY <1>1, <1>2 DEF Has
  <2> QED BY <1>1, <2>1, <2>2 DEF Fit, Free
<1> QED BY <1>1, <1>2, GoodAll

LEMMA RegistersGood ==
  ASSUME NEW s, NEW p, IsRegisters(s, p), NEW at, NEW A, TurnedTo(at, A), Has(A, "enter", p)
  PROVE  Good(at, A, s)
<1>1. /\ s \in Seq(Operations) /\ Blocks(s)
      /\ \A o \in Range(s) : o.do \in {"write", "record"} /\ o.id = p
  BY DEF IsRegisters
<1>2. ASSUME NEW B, A \subseteq B, B \subseteq A \cup Range(s), NEW o \in Range(s)
      PROVE  Fit(at, B, o)
  <2>1. TurnedTo(at, B)
    BY <1>1, <1>2, TurnedMore DEF Turns
  <2>2. Has(B, "enter", o.id)
    BY <1>1, <1>2 DEF Has
  <2> QED BY <1>1, <2>1, <2>2 DEF Fit, Free
<1> QED BY <1>1, <1>2, GoodAll

IsRescaffolds(s, a) ==
  /\ s \in Seq(Operations)
  /\ \A o \in Range(s) : /\ o.do \in {"write", "record", "reconcile"}
                         /\ o.do = "write" => o.name \in Offered
  /\ \A c \in Offered : Coming(s, a, c)

LEMMA RescaffoldsFacts ==
  ASSUME TypeOK, NEW a \in Agents, NEW at, NEW A, TurnedTo(at, A), \A x \in A : x.do # "forget"
  PROVE  Good(at, A, Rescaffolds(a)) /\ IsRescaffolds(Rescaffolds(a), a)
<1> DEFINE R == Reconciles(Offered, {a})
           s == Rescaffolds(a)
<1>1. s = Offering \o R
  BY DEF Rescaffolds, Offering
<1>2. IsOffering(Offering)
  BY OfferingFacts
<1>3. IsReconciles(R, Offered, {a})
  <2>1. Offered \in SUBSET Commands
    BY ProvidesAssumption DEF Offered, Enabled
  <2> QED BY <2>1, ReconcilesFacts
<1> HIDE DEF R, s
<1>4. Good(at, A, Offering)
  BY <1>2, OfferingGood
<1>5. PICK B : B = A \cup Range(Offering)
  OBVIOUS
<1>5b. Adding(B, A, Offering)
  BY <1>5 DEF Adding
<1>5a. Good(at, B, R)
  BY <1>3, ReconcilesGood
<1>6. Good(at, A, s) /\ Range(s) = Range(Offering) \cup Range(R) /\ s \in Seq(Operations)
  <2>1. Good(at, A, s) /\ Adding(Range(s), Range(Offering), R)
    BY <1>1, <1>4, <1>5b, <1>5a, GoodJoin
  <2> QED BY <2>1 DEF Good, Adding
<1>7. \A o \in Range(Offering) : o.do \in {"write", "record"} /\ (o.do = "write" => o.name \in Offered)
  BY <1>2 DEF IsOffering, Offered
<1>8. \A c \in Offered : Coming(s, a, c)
  <2> TAKE c \in Offered
  <2>1. Coming(R, a, c)
    BY <1>3 DEF IsReconciles
  <2> QED BY <1>1, <1>2, <1>3, <2>1, ComingJoin DEF IsOffering, IsReconciles
<1>9. \A o \in Range(R) : o.do = "reconcile"
  BY <1>3 DEF IsReconciles
<1>10. IsRescaffolds(s, a)
  BY <1>6, <1>7, <1>8, <1>9 DEF IsRescaffolds
<1> QED BY <1>6, <1>10 DEF s

IsLeaves(s, a, next) ==
  /\ s \in Seq(Operations)
  /\ \A o \in Range(s) : /\ o.do \in {"teardown", "delete", "drop", "leave"} /\ o.agent = a
                         /\ o.do = "leave" => o.next = next
  /\ \E o \in Range(s) : o.do = "leave"

LEMMA LeavesFacts ==
  ASSUME Knows, NEW a \in Agents, NEW next \in Agents \cup {NoAgent}, NEW at
  PROVE  Good(at, {}, Leaves(a, next)) /\ IsLeaves(Leaves(a, next), a, next)
<1> DEFINE t == AgentOp("teardown", a)
           U == Unregisters(a)
           v == LeaveOp(a, next)
<1>1. Leaves(a, next) = (<<t>> \o U) \o <<v>>
  BY DEF Leaves
<1>2. t \in Operations /\ t.do = "teardown" /\ t.agent = a
  BY DEF AgentOp, Operations, AgentOps
<1>3. v \in Operations /\ v.do = "leave" /\ v.agent = a /\ v.next = next
  BY DEF LeaveOp, Operations, LeaveOps
<1>4. IsUnregisters(U, a)
  BY UnregistersFacts
<1> HIDE DEF t, U, v
<1>5. \A o \in Range(U) : o.do \in {"delete", "drop"} /\ o.agent = a
  BY <1>4 DEF IsUnregisters
<1>6. Good(at, {}, <<t>>) /\ Range(<<t>>) = {t}
  <2>1. Fit(at, {}, t)
    BY <1>2 DEF Fit
  <2> QED BY <1>2, <2>1, GoodOne
<1>7. Good(at, {t}, U)
  <2>1. \A x \in {t} : x.do \in Leaving
    BY <1>2 DEF Leaving
  <2> QED BY <1>4, <2>1, UnregistersGood
<1> DEFINE h == <<t>>
           s == h \o U
<1>8. Good(at, {}, h) /\ Adding({t}, {}, h) /\ Range(h) = {t}
  BY <1>6 DEF Adding
<1> HIDE DEF h
<1>8a. Good(at, {}, s) /\ Adding(Range(s), Range(h), U)
  BY <1>7, <1>8, GoodJoin
<1>9. Good(at, {}, s) /\ Range(s) = {t} \cup Range(U)
  BY <1>8, <1>8a DEF Adding
<1> HIDE DEF s
<1>10. \A x \in Range(s) : x.do \in Leaving /\ x.agent = a
  BY <1>2, <1>5, <1>9 DEF Leaving
<1> DEFINE l == <<v>>
<1>11. Good(at, Range(s), l) /\ Range(l) = {v}
  <2>1. Fit(at, Range(s), v)
    BY <1>3, <1>10, PriorFacts DEF Fit
  <2> QED BY <1>3, <2>1, GoodOne
<1> DEFINE u == s \o l
<1> HIDE DEF l
<1>12. Good(at, {}, u) /\ Range(u) = Range(s) \cup {v}
  <2>1. Adding(Range(s), {}, s)
    BY DEF Adding
  <2>2. Good(at, {}, u) /\ Adding(Range(u), Range(s), l)
    BY <1>9, <1>11, <2>1, GoodJoin
  <2> QED BY <1>11, <2>2 DEF Adding
<1> HIDE DEF u
<1>13. IsLeaves(u, a, next)
  <2>1. u \in Seq(Operations)
    BY <1>12 DEF Good
  <2>2. \A o \in Range(s) : o.do # "leave" /\ o.do \in {"teardown", "delete", "drop", "leave"}
    BY <1>10 DEF Leaving
  <2> QED BY <1>3, <1>10, <1>12, <2>1, <2>2 DEF IsLeaves
<1>14. Leaves(a, next) = u
  BY <1>1 DEF u, s, h, l
<1> QED BY <1>12, <1>13, <1>14

IsRemoves(s, p) ==
  /\ s \in Seq(Operations)
  /\ \A o \in Range(s) : /\ o.do \in {"delete", "rmdir", "forget", "reconcile"}
                         /\ o.do = "delete" => o.agent \in Agents /\ o.name \in Names(p)
                         /\ o.do \in {"rmdir", "forget"} => o.id = p
  /\ Has(Range(s), "forget", p)
  /\ \A a \in Repaired(p), c \in Names(p) : Coming(s, a, c)

LEMMA NamesIn ==
  ASSUME TypeOK, NEW p \in Presets
  PROVE  Names(p) \in SUBSET Commands /\ Repaired(p) \in SUBSET (Agents \cup {NoAgent})
<1>1. reg[p] \in Entry \/ reg[p] = NoEntry
  BY DEF TypeOK
<1>2. \A a \in Agents : reg[p].cmds[a] \subseteq Commands
  <2>1. CASE reg[p] \in Entry
    BY <2>1 DEF Entry
  <2>2. CASE reg[p] = NoEntry
    BY <2>2 DEF NoEntry, Nowhere
  <2> QED BY <1>1, <2>1, <2>2
<1>3. Names(p) \in SUBSET Commands
  <2>1. Provides[p] \subseteq Commands
    BY ProvidesAssumption
  <2>2. UNION {reg[p].cmds[a] : a \in Agents} \subseteq Commands
    BY <1>2
  <2>3. Names(p) \subseteq Commands
    <3> DEFINE W == UNION {reg[p].cmds[a] : a \in Agents}
               V == IF dir[p] = "whole" THEN Provides[p] ELSE {}
    <3>1. V \subseteq Commands
      BY <2>1
    <3>2. W \subseteq Commands
      BY <2>2
    <3>3. Names(p) = W \cup V
      BY DEF Names
    <3> HIDE DEF W, V
    <3> QED BY <3>1, <3>2, <3>3
  <2> QED BY <2>3
<1>4. Repaired(p) \in SUBSET (Agents \cup {NoAgent})
  BY DEF Repaired, WrittenFor, TypeOK
<1> QED BY <1>3, <1>4

LEMMA PairJoin ==
  ASSUME NEW x, NEW y
  PROVE  <<x, y>> = <<x>> \o <<y>>
<1>1. <<x>> \in Seq({x, y}) /\ <<y>> \in Seq({x, y}) /\ <<x, y>> \in Seq({x, y})
  OBVIOUS
<1> DEFINE u == <<x>> \o <<y>>
<1>2. u \in Seq({x, y}) /\ Len(u) = 2 /\ u[1] = x /\ u[2] = y
  <2>1. /\ u \in Seq({x, y}) /\ Len(u) = Len(<<x>>) + Len(<<y>>)
        /\ \A i \in 1 .. Len(<<x>>) + Len(<<y>>) :
             u[i] = IF i <= Len(<<x>>) THEN <<x>>[i] ELSE <<y>>[i - Len(<<x>>)]
    BY <1>1, ConcatProperties
  <2> QED BY <2>1
<1> HIDE DEF u
<1>3. <<x, y>> = u
  <2>1. Len(<<x, y>>) = 2 /\ <<x, y>>[1] = x /\ <<x, y>>[2] = y
    OBVIOUS
  <2>2. \A i \in 1 .. 2 : i = 1 \/ i = 2
    OBVIOUS
  <2> QED BY <1>1, <1>2, <2>1, <2>2, SeqEqual
<1> QED BY <1>3 DEF u

LEMMA RemovesFacts ==
  ASSUME TypeOK, Knows, NEW p \in Presets, NEW at
  PROVE  Good(at, {}, Removes(p)) /\ IsRemoves(Removes(p), p)
<1> DEFINE D == Deletes(p, Agents)
           x == PackageOp("rmdir", p)
           y == PackageOp("forget", p)
           E == <<x, y>>
           R == Reconciles(Names(p), Repaired(p))
<1>1. Removes(p) = (D \o E) \o R
  BY DEF Removes
<1>2. x \in Operations /\ x.do = "rmdir" /\ x.id = p
  BY DEF PackageOp, Operations, PackageOps
<1>3. y \in Operations /\ y.do = "forget" /\ y.id = p
  BY DEF PackageOp, Operations, PackageOps
<1>4. IsDeletes(D, p, Agents)
  BY DeletesFacts
<1>5. IsReconciles(R, Names(p), Repaired(p))
  BY NamesIn, ReconcilesFacts
<1> HIDE DEF D, x, y, R
<1> DEFINE h == <<x>>
           l == <<y>>
<1>6. E = h \o l
  BY PairJoin
<1>7. /\ \A o \in Range(D) : o.do = "delete" /\ o.agent \in Agents /\ o.name \in Names(p)
      /\ D \in Seq(Operations)
  BY <1>4 DEF IsDeletes, Names
<1>8. Good(at, {}, D)
  BY <1>4, DeletesGood
<1>9. Good(at, Range(D), h) /\ Range(h) = {x}
  <2>1. Fit(at, Range(D), x)
    BY <1>2, <1>7, PriorFacts DEF Fit
  <2> QED BY <1>2, <2>1, GoodOne
<1>10. PICK A : A = Range(D) \cup {x}
  OBVIOUS
<1>11. Good(at, A, l) /\ Range(l) = {y}
  <2>1. \A z \in A : z.do \in Prior("forget")
    BY <1>2, <1>7, <1>10, PriorFacts
  <2>2. ASSUME NEW a \in Agents, NEW c \in Commands PROVE Cleared(A, a, c, p)
    <3>1. Of(a, c, p) => <<a, c>> \in lost \/ c \in reg[p].cmds[a]
      BY DEF Knows
    <3>2. c \in reg[p].cmds[a] => \E o \in Range(D) : o.do = "delete" /\ o.agent = a /\ o.name = c
      BY <1>4 DEF IsDeletes
    <3> QED BY <1>10, <3>1, <3>2 DEF Cleared
  <2>3. Fit(at, A, y)
    BY <1>3, <2>1, <2>2 DEF Fit
  <2> QED BY <1>3, <2>3, GoodOne
<1> HIDE DEF h, l, E
<1>12. Good(at, Range(D), E) /\ Range(E) = {x, y}
  <2>1. Adding(A, Range(D), h)
    BY <1>9, <1>10 DEF Adding
  <2>2. Good(at, Range(D), h \o l) /\ Adding(Range(h \o l), Range(h), l)
    BY <1>9, <1>11, <2>1, GoodJoin
  <2>3. Range(h \o l) = {x, y}
    BY <1>9, <1>11, <2>2 DEF Adding
  <2> QED BY <1>6, <2>2, <2>3
<1> DEFINE s == D \o E
<1>12a. Good(at, {}, s) /\ Range(s) = Range(D) \cup {x, y}
  <2>1. Adding(Range(D), {}, D)
    BY DEF Adding
  <2>2. Good(at, {}, s) /\ Adding(Range(s), Range(D), E)
    BY <1>8, <1>12, <2>1, GoodJoin
  <2> QED BY <1>12, <2>2 DEF Adding
<1> HIDE DEF s
<1>13. Good(at, Range(s), R)
  BY <1>5, ReconcilesGood
<1> DEFINE u == s \o R
<1>14. Good(at, {}, u) /\ Range(u) = Range(s) \cup Range(R)
  <2>1. Adding(Range(s), {}, s)
    BY DEF Adding
  <2>2. Good(at, {}, u) /\ Adding(Range(u), Range(s), R)
    BY <1>12a, <1>13, <2>1, GoodJoin
  <2> QED BY <2>2 DEF Adding
<1>15. \A a \in Repaired(p), c \in Names(p) : Coming(u, a, c)
  <2> TAKE a \in Repaired(p), c \in Names(p)
  <2>1. Coming(R, a, c)
    BY <1>5 DEF IsReconciles
  <2>2. s \in Seq(Operations) /\ R \in Seq(Operations)
    BY <1>12a, <1>13 DEF Good
  <2> QED BY <2>1, <2>2, ComingJoin
<1> HIDE DEF u
<1>16. IsRemoves(u, p)
  <2>1. \A o \in Range(R) : o.do = "reconcile"
    BY <1>5 DEF IsReconciles
  <2>2. \A o \in Range(u) : o \in Range(D) \/ o = x \/ o = y \/ o \in Range(R)
    BY <1>12a, <1>14
  <2>3. \A o \in Range(u) : /\ o.do \in {"delete", "rmdir", "forget", "reconcile"}
                            /\ o.do = "delete" => o.agent \in Agents /\ o.name \in Names(p)
                            /\ o.do \in {"rmdir", "forget"} => o.id = p
    BY <1>2, <1>3, <1>7, <2>1, <2>2
  <2>4. Has(Range(u), "forget", p)
    BY <1>3, <1>12a, <1>14 DEF Has
  <2>5. u \in Seq(Operations)
    BY <1>14 DEF Good
  <2> QED BY <1>15, <2>3, <2>4, <2>5 DEF IsRemoves
<1>17. Removes(p) = u
  BY <1>1 DEF u, s
<1> QED BY <1>14, <1>16, <1>17

\* What a command changes is in doubt from its beginning, and what it puts in
\* order is reconciled.
Whole(p, doubt) == \A a \in Agents, c \in Provides[p] : <<a, c>> \in doubt
Doubting(o, op, doubt, at) ==
  /\ o.do = "delete" => <<o.agent, o.name>> \in doubt
  /\ o.do = "teardown" => \A c \in Commands : <<o.agent, c>> \in doubt
  /\ o.do = "write" => \A a \in at \cap Agents : <<a, o.name>> \in doubt
  /\ o.do \in {"write", "record"} => op # "add" \/ Whole(o.id, doubt)
  /\ o.do \in {"copy", "enter"} => Whole(o.id, doubt)
  /\ o.do \in {"rmdir", "forget"} => Whole(o.id, doubt) \/ dir[o.id] # "whole"
  /\ o.do = "setup" => o.agent \notin agents /\ \A c \in Offered : <<o.agent, c>> \in doubt
  /\ o.do # "clear"
Starts(op, doubt, names, at, ops) ==
  /\ op # "none" /\ doubt \subseteq Agents \X Commands /\ names \subseteq Commands
  /\ at \subseteq Agents \cup {NoAgent} /\ Good(at, {}, ops)
  /\ \A o \in Range(ops) : Doubting(o, op, doubt, at)
  /\ \A a \in at \cap Agents, c \in names : Coming(ops, a, c)

LEMMA StartsHold ==
  ASSUME IInv, NEW op, NEW doubt, NEW names, NEW at, NEW ops, Begin(op, doubt, names, at, ops),
         Starts(op, doubt, names, at, ops)
  PROVE  IInv'
<1>1. /\ job' = [op |-> op, names |-> names, at |-> at] /\ todo' = ops
      /\ stale' = stale \cup doubt /\ UNCHANGED <<reg, dir, agents>>
  BY DEF Begin
<1>2. Offered' = Offered
  BY <1>1, StackUnchanged
<1>3. Doubts'
  <2> SUFFICES ASSUME NEW o \in Range(ops) PROVE Doubtful(o)'
    BY <1>1 DEF Doubts
  <2>1. Doubting(o, op, doubt, at)
    BY DEF Starts
  <2>2. job'.op = op /\ job'.at = at
    BY <1>1
  <2>3. o.do \in {"copy", "enter", "write", "record", "rmdir", "forget"} =>
          (Whole(o.id, doubt) => Doubted(o.id)')
    BY <1>1 DEF Whole, Doubted
  <2>4. /\ (o.do = "delete" => <<o.agent, o.name>> \in stale')
        /\ (o.do = "teardown" => \A c \in Commands : <<o.agent, c>> \in stale')
        /\ (o.do = "write" => \A a \in job'.at \cap Agents : <<a, o.name>> \in stale')
    BY <1>1, <2>1, <2>2 DEF Doubting
  <2>5. /\ (o.do \in {"write", "record"} => job'.op # "add" \/ Doubted(o.id)')
        /\ (o.do \in {"copy", "enter", "clear"} => Doubted(o.id)')
        /\ (o.do \in {"rmdir", "forget"} => Doubted(o.id)' \/ dir'[o.id] # "whole")
    BY <1>1, <2>1, <2>2, <2>3 DEF Doubting
  <2>6. o.do = "setup" =>
          o.agent \notin agents' /\ \A c \in Offered' : <<o.agent, c>> \in stale'
    BY <1>1, <1>2, <2>1 DEF Doubting
  <2> QED BY <2>4, <2>5, <2>6 DEF Doubtful
<1> QED BY <1>3, BeginHolds DEF Starts

-----------------------------------------------------------------------------
(* The commands on presets *)

LEMMA RemovePresetHolds ==
  ASSUME IInv, NEW p \in Presets, RemovePreset(p)
  PROVE  IInv'
<1> DEFINE names == Names(p)
           doubt == Agents \X names
           at == Repaired(p)
           ops == Removes(p)
<1>1. Begin("remove", doubt, names, at, ops) /\ job.op = "none" /\ TypeOK
  BY DEF RemovePreset, Repaired, Begin, IInv, Typed
<1>2. Good(at, {}, ops) /\ IsRemoves(ops, p)
  BY <1>1, KnowsHolds, RemovesFacts
<1>3. names \in SUBSET Commands /\ at \in SUBSET (Agents \cup {NoAgent})
  BY <1>1, NamesIn
<1>4. dir[p] = "whole" => Provides[p] \subseteq names
  BY DEF Names
<1> HIDE DEF names, at, ops
<1>5. ASSUME NEW o \in Range(ops) PROVE Doubting(o, "remove", doubt, at)
  <2>1. /\ o.do \in {"delete", "rmdir", "forget", "reconcile"}
        /\ o.do = "delete" => o.agent \in Agents /\ o.name \in names
        /\ o.do \in {"rmdir", "forget"} => o.id = p
    BY <1>2 DEF IsRemoves, names
  <2>2. Whole(p, doubt) \/ dir[p] # "whole"
    BY <1>4 DEF Whole
  <2> QED BY <2>1, <2>2 DEF Doubting
<1>6. \A a \in at \cap Agents, c \in names : Coming(ops, a, c)
  BY <1>2 DEF IsRemoves, at, names
<1>7. Starts("remove", doubt, names, at, ops)
  BY <1>2, <1>3, <1>5, <1>6 DEF Starts
<1> QED BY <1>1, <1>7, StartsHold

IsAdds(s, p) ==
  /\ s \in Seq(Operations)
  /\ \A o \in Range(s) : /\ o.do \in {"copy", "enter", "write", "record", "reconcile"}
                         /\ o.do # "reconcile" => o.id = p
                         /\ o.do = "write" => o.name \in Provides[p]
  /\ \A c \in Provides[p] : Coming(s, active, c)

LEMMA AddsFacts ==
  ASSUME TypeOK, NEW p \in Presets, NEW n \in Priorities, NEW at, NEW A, active \in at,
         \A x \in A : x.do \in {"delete", "rmdir", "forget", "reconcile"},
         reg[p] = NoEntry \/ Has(A, "forget", p)
  PROVE  Good(at, A, Adds(p, n)) /\ IsAdds(Adds(p, n), p)
<1> DEFINE x == PackageOp("copy", p)
           y == EnterOp(p, n)
           E == <<x, y>>
           W == Registers(p)
           R == Reconciles(Provides[p], {active})
<1>1. Adds(p, n) = (E \o W) \o R
  BY DEF Adds
<1>2. x \in Operations /\ x.do = "copy" /\ x.id = p
  BY DEF PackageOp, Operations, PackageOps
<1>3. y \in Operations /\ y.do = "enter" /\ y.id = p
  BY DEF EnterOp, Operations, EnterOps
<1>4. IsRegisters(W, p)
  BY RegistersFacts
<1>5. IsReconciles(R, Provides[p], {active})
  <2>1. Provides[p] \in SUBSET Commands /\ {active} \in SUBSET (Agents \cup {NoAgent})
    BY ProvidesAssumption DEF TypeOK
  <2> QED BY <2>1, ReconcilesFacts
<1> HIDE DEF x, y, W, R
<1> DEFINE h == <<x>>
           l == <<y>>
<1>6. E = h \o l
  BY PairJoin
<1>7. Good(at, A, h) /\ Range(h) = {x}
  <2>1. Fit(at, A, x)
    BY <1>2, PriorFacts DEF Fit
  <2> QED BY <1>2, <2>1, GoodOne
<1>8. PICK B : B = A \cup {x}
  OBVIOUS
<1>9. Good(at, B, l) /\ Range(l) = {y}
  <2>1. \A z \in B : z.do \in Prior("enter")
    BY <1>2, <1>8, PriorFacts
  <2>2. reg[p] = NoEntry \/ Has(B, "forget", p)
    BY <1>8 DEF Has
  <2>3. Fit(at, B, y)
    BY <1>3, <2>1, <2>2 DEF Fit
  <2> QED BY <1>3, <2>3, GoodOne
<1> HIDE DEF h, l, E
<1>10. Good(at, A, E) /\ Range(E) = {x, y}
  <2>1. Adding(B, A, h)
    BY <1>7, <1>8 DEF Adding
  <2>2. Good(at, A, h \o l) /\ Adding(Range(h \o l), Range(h), l)
    BY <1>7, <1>9, <2>1, GoodJoin
  <2>3. Range(h \o l) = {x, y}
    BY <1>7, <1>9, <2>2 DEF Adding
  <2> QED BY <1>6, <2>2, <2>3
<1>11. PICK C : C = A \cup {x, y}
  OBVIOUS
<1>12. Good(at, C, W)
  <2>1. TurnedTo(at, C)
    BY <1>2, <1>3, <1>11 DEF TurnedTo, Turns
  <2>2. Has(C, "enter", p)
    BY <1>3, <1>11 DEF Has
  <2> QED BY <1>4, <2>1, <2>2, RegistersGood
<1> DEFINE s == E \o W
<1>13. Good(at, A, s) /\ Range(s) = {x, y} \cup Range(W)
  <2>1. Adding(C, A, E)
    BY <1>10, <1>11 DEF Adding
  <2>2. Good(at, A, s) /\ Adding(Range(s), Range(E), W)
    BY <1>10, <1>12, <2>1, GoodJoin
  <2> QED BY <1>10, <2>2 DEF Adding
<1> HIDE DEF s
<1>14. PICK D : Adding(D, A, s)
  BY DEF Adding
<1> DEFINE u == s \o R
<1>15. Good(at, A, u) /\ Range(u) = Range(s) \cup Range(R)
  <2>1. Good(at, D, R)
    BY <1>5, ReconcilesGood
  <2>2. Good(at, A, u) /\ Adding(Range(u), Range(s), R)
    BY <1>13, <1>14, <2>1, GoodJoin
  <2> QED BY <2>2 DEF Adding
<1>16. \A c \in Provides[p] : Coming(u, active, c)
  <2> TAKE c \in Provides[p]
  <2>1. Coming(R, active, c)
    BY <1>5 DEF IsReconciles
  <2> QED BY <1>5, <1>13, <2>1, ComingJoin DEF IsReconciles, Good
<1> HIDE DEF u
<1>17. IsAdds(u, p)
  <2>1. \A o \in Range(R) : o.do = "reconcile"
    BY <1>5 DEF IsReconciles
  <2>2. \A o \in Range(W) : /\ o.do \in {"write", "record"} /\ o.id = p
                            /\ o.do = "write" => o.name \in Provides[p]
    BY <1>4 DEF IsRegisters
  <2>3. \A o \in Range(u) : o = x \/ o = y \/ o \in Range(W) \/ o \in Range(R)
    BY <1>13, <1>15
  <2>4. \A o \in Range(u) : /\ o.do \in {"copy", "enter", "write", "record", "reconcile"}
                            /\ o.do # "reconcile" => o.id = p
                            /\ o.do = "write" => o.name \in Provides[p]
    BY <1>2, <1>3, <2>1, <2>2, <2>3
  <2> QED BY <1>15, <1>16, <2>4 DEF IsAdds, Good
<1>18. Adds(p, n) = u
  BY <1>1 DEF u, s
<1> QED BY <1>15, <1>17, <1>18

LEMMA AddPresetHolds ==
  ASSUME IInv, NEW p \in Presets, NEW n \in Priorities, NEW force, AddPreset(p, n, force)
  PROVE  IInv'
<1> DEFINE names == Provides[p] \cup Names(p)
           doubt == Agents \X names
           at == {active}
           new == Adds(p, n)
           old == Removes(p)
           ops == (IF reg[p].there THEN old ELSE <<>>) \o new
<1>1. Begin("add", doubt, names, at, ops) /\ job.op = "none" /\ TypeOK
  BY DEF AddPreset, Begin, IInv, Typed
<1>2. /\ names \in SUBSET Commands /\ at \in SUBSET (Agents \cup {NoAgent})
      /\ Provides[p] \subseteq names /\ Names(p) \subseteq names
  BY <1>1, NamesIn, ProvidesAssumption DEF TypeOK
<1>3. active \in Repaired(p)
  BY DEF Repaired
<1>4. ~ reg[p].there => reg[p] = NoEntry /\ names = Provides[p]
  <2> SUFFICES ASSUME ~ reg[p].there PROVE reg[p] = NoEntry /\ names = Provides[p]
    OBVIOUS
  <2>1. reg[p] = NoEntry
    BY <1>1 DEF TypeOK, Entry
  <2>2. \A c : c \notin UNION {reg[p].cmds[a] : a \in Agents}
    BY <2>1 DEF NoEntry, Nowhere
  <2>3. Names(p) \subseteq Provides[p]
    BY <2>2 DEF Names
  <2> QED BY <2>1, <2>3
<1>5. Good(at, {}, old) /\ IsRemoves(old, p)
  BY <1>1, KnowsHolds, RemovesFacts
<1>6. Whole(p, doubt)
  BY <1>2 DEF Whole
<1> HIDE DEF names, doubt, new, old
<1>7. ASSUME NEW o \in Range(old) PROVE Doubting(o, "add", doubt, at)
  <2>1. /\ o.do \in {"delete", "rmdir", "forget", "reconcile"}
        /\ o.do = "delete" => o.agent \in Agents /\ o.name \in Names(p)
        /\ o.do \in {"rmdir", "forget"} => o.id = p
    BY <1>5 DEF IsRemoves
  <2> QED BY <1>2, <1>6, <2>1 DEF Doubting, doubt
<1>8. ASSUME IsAdds(new, p), NEW o \in Range(new) PROVE Doubting(o, "add", doubt, at)
  <2>1. /\ o.do \in {"copy", "enter", "write", "record", "reconcile"}
        /\ o.do # "reconcile" => o.id = p
        /\ o.do = "write" => o.name \in Provides[p]
    BY <1>8 DEF IsAdds
  <2> QED BY <1>2, <1>6, <2>1 DEF Doubting, doubt
<1>9. doubt \subseteq Agents \X Commands
  BY <1>2 DEF doubt
<1>10. CASE ~ reg[p].there
  <2>1. Good(at, {}, new) /\ IsAdds(new, p)
    BY <1>1, <1>4, <1>10, AddsFacts DEF new
  <2>2. ops = new
    <3>1. new \in Seq(Operations)
      BY <2>1 DEF IsAdds
    <3>2. ops = <<>> \o new
      BY <1>10
    <3> QED BY <3>1, <3>2
  <2>3. \A a \in at \cap Agents, c \in names : Coming(new, a, c)
    BY <1>4, <1>10, <2>1 DEF IsAdds
  <2>4. Starts("add", doubt, names, at, new)
    BY <1>2, <1>8, <1>9, <2>1, <2>3 DEF Starts
  <2> QED BY <1>1, <2>2, <2>4, StartsHold
<1>11. CASE reg[p].there
  <2>1. PICK A : A = Range(old)
    OBVIOUS
  <2>2. Adding(A, {}, old)
    BY <2>1 DEF Adding
  <2>3. Good(at, A, new) /\ IsAdds(new, p)
    <3>1. \A x \in A : x.do \in {"delete", "rmdir", "forget", "reconcile"}
      BY <1>5, <2>1 DEF IsRemoves
    <3>2. Has(A, "forget", p)
      BY <1>5, <2>1 DEF IsRemoves
    <3> QED BY <1>1, <3>1, <3>2, AddsFacts DEF new
  <2> DEFINE u == old \o new
  <2>4. ops = u
    BY <1>11
  <2>5. Good(at, {}, u) /\ Range(u) = Range(old) \cup Range(new)
    <3>1. Good(at, {}, u) /\ Adding(Range(u), Range(old), new)
      BY <1>5, <2>2, <2>3, GoodJoin
    <3> QED BY <3>1 DEF Adding
  <2>6. ASSUME NEW c \in names PROVE Coming(u, active, c)
    <3>1. old \in Seq(Operations) /\ new \in Seq(Operations)
      BY <1>5, <2>3 DEF IsRemoves, IsAdds
    <3>2. CASE c \in Provides[p]
      <4>1. Coming(new, active, c)
        BY <2>3, <3>2 DEF IsAdds
      <4> QED BY <3>1, <4>1, ComingJoin
    <3>3. CASE c \notin Provides[p]
      <4>1. Coming(old, active, c)
        BY <1>3, <1>5, <3>3 DEF IsRemoves, names
      <4>2. \A o \in Range(new) : Calm(o, c)
        BY <2>3, <3>3 DEF IsAdds, Calm
      <4> QED BY <3>1, <4>1, <4>2, ComingJoin
    <3> QED BY <3>2, <3>3
  <2> HIDE DEF u
  <2>7. Starts("add", doubt, names, at, u)
    BY <1>2, <1>7, <1>8, <1>9, <2>3, <2>5, <2>6 DEF Starts
  <2> QED BY <1>1, <2>4, <2>7, StartsHold
<1> QED BY <1>10, <1>11

-----------------------------------------------------------------------------
(* The commands on agents *)

LEMMA UseHolds ==
  ASSUME IInv, NEW a \in Agents, Use(a)
  PROVE  IInv'
<1> DEFINE x == AgentOp("activate", a)
           doubt == {a} \X Offered
           at == {a}
           h == <<x>>
           S == Rescaffolds(a)
           ops == h \o S
<1>1. Begin("use", doubt, Offered, at, ops) /\ a \in agents /\ TypeOK
  BY DEF Use, Begin, IInv, Typed
<1>2. x \in Operations /\ x.do = "activate" /\ x.agent = a
  BY DEF AgentOp, Operations, AgentOps
<1>3. Offered \in SUBSET Commands
  BY ProvidesAssumption DEF Offered, Enabled
<1>4. Ready(a)
  BY <1>1 DEF IInv, Stacked, Claims, Ready
<1> HIDE DEF x, S
<1>5. Good(at, {}, h) /\ Range(h) = {x}
  <2>1. Fit(at, {}, x)
    BY <1>2, <1>4 DEF Fit
  <2> QED BY <1>2, <2>1, GoodOne
<1>6. PICK A : A = {x}
  OBVIOUS
<1>7. Good(at, A, S) /\ IsRescaffolds(S, a)
  <2>1. TurnedTo(at, A) /\ \A o \in A : o.do # "forget"
    BY <1>2, <1>6 DEF TurnedTo
  <2> QED BY <1>1, <2>1, RescaffoldsFacts DEF S
<1> HIDE DEF h
<1>8. Good(at, {}, ops) /\ Range(ops) = {x} \cup Range(S)
  <2>1. Adding(A, {}, h)
    BY <1>5, <1>6 DEF Adding
  <2>2. Good(at, {}, ops) /\ Adding(Range(ops), Range(h), S)
    BY <1>5, <1>7, <2>1, GoodJoin
  <2> QED BY <1>5, <2>2 DEF Adding
<1>9. ASSUME NEW c \in Offered PROVE Coming(ops, a, c)
  <2>1. Coming(S, a, c)
    BY <1>7 DEF IsRescaffolds
  <2> QED BY <1>5, <1>7, <2>1, ComingJoin DEF Good
<1> HIDE DEF ops
<1>10. ASSUME NEW o \in Range(ops) PROVE Doubting(o, "use", doubt, at)
  <2>1. o = x \/ (/\ o.do \in {"write", "record", "reconcile"}
                  /\ o.do = "write" => o.name \in Offered)
    BY <1>7, <1>8 DEF IsRescaffolds
  <2>2. CASE o = x
    BY <1>2, <2>2 DEF Doubting
  <2>3. CASE o # x
    BY <2>1, <2>3 DEF Doubting
  <2> QED BY <2>2, <2>3
<1>11. Starts("use", doubt, Offered, at, ops)
  <2>1. doubt \subseteq Agents \X Commands /\ at \subseteq Agents \cup {NoAgent}
    BY <1>3
  <2> QED BY <1>3, <1>8, <1>9, <1>10, <2>1 DEF Starts
<1> QED BY <1>1, <1>11, StartsHold

\* An agent is set up and becomes the active one.
Arrives(a) == <<AgentOp("setup", a), AgentOp("activate", a)>> \o Rescaffolds(a)
IsArrives(s, a) ==
  /\ s \in Seq(Operations)
  /\ \A o \in Range(s) : /\ o.do \in {"setup", "activate", "write", "record", "reconcile"}
                         /\ o.do = "setup" => o.agent = a
                         /\ o.do = "write" => o.name \in Offered
  /\ \A c \in Offered : Coming(s, a, c)

Departing(A) == \A x \in A : x.do \in {"teardown", "delete", "drop", "leave"}

LEMMA SetupsGood ==
  ASSUME NEW a \in Agents, NEW do \in {"activate", "enlist"}, NEW at, NEW A, Departing(A)
  PROVE  LET x == AgentOp("setup", a)
             y == AgentOp(do, a)
         IN  Good(at, A, <<x, y>>) /\ Range(<<x, y>>) = {x, y}
<1> DEFINE x == AgentOp("setup", a)
           y == AgentOp(do, a)
           h == <<x>>
           l == <<y>>
           E == <<x, y>>
<1>1. x \in Operations /\ x.do = "setup" /\ x.agent = a
  BY DEF AgentOp, Operations, AgentOps
<1>2. y \in Operations /\ y.do = do /\ y.agent = a
  BY DEF AgentOp, Operations, AgentOps
<1> HIDE DEF x, y
<1>3. E = h \o l
  BY PairJoin
<1>4. Good(at, A, h) /\ Range(h) = {x}
  <2>1. Fit(at, A, x)
    BY <1>1, PriorFacts DEF Fit, Departing
  <2> QED BY <1>1, <2>1, GoodOne
<1>5. PICK B : B = A \cup {x}
  OBVIOUS
<1>6. Good(at, B, l) /\ Range(l) = {y}
  <2>1. \A z \in B : z.do \in Prior(do)
    BY <1>1, <1>5, PriorFacts DEF Departing
  <2>2. \E z \in B : z.do = "setup" /\ z.agent = a
    BY <1>1, <1>5
  <2>3. Fit(at, B, y)
    BY <1>2, <2>1, <2>2 DEF Fit
  <2> QED BY <1>2, <2>3, GoodOne
<1> HIDE DEF h, l, E
<1>7. Good(at, A, E) /\ Range(E) = {x, y}
  <2>1. Adding(B, A, h)
    BY <1>4, <1>5 DEF Adding
  <2>2. Good(at, A, h \o l) /\ Adding(Range(h \o l), Range(h), l)
    BY <1>4, <1>6, <2>1, GoodJoin
  <2>3. Range(h \o l) = {x, y}
    BY <1>4, <1>6, <2>2 DEF Adding
  <2> QED BY <1>3, <2>2, <2>3
<1> QED BY <1>7 DEF E, x, y

LEMMA ArrivesFacts ==
  ASSUME TypeOK, NEW a \in Agents, NEW A, Departing(A)
  PROVE  Good({a}, A, Arrives(a)) /\ IsArrives(Arrives(a), a)
<1> DEFINE x == AgentOp("setup", a)
           y == AgentOp("activate", a)
           E == <<x, y>>
           S == Rescaffolds(a)
           at == {a}
           s == E \o S
<1>1. Good(at, A, E) /\ Range(E) = {x, y}
  BY SetupsGood
<1>2. x.do = "setup" /\ x.agent = a /\ y.do = "activate" /\ y.agent = a
  BY DEF AgentOp
<1> HIDE DEF x, y, S
<1>3. PICK B : B = A \cup {x, y}
  OBVIOUS
<1>4. Good(at, B, S) /\ IsRescaffolds(S, a)
  <2>1. TurnedTo(at, B) /\ \A o \in B : o.do # "forget"
    BY <1>2, <1>3 DEF TurnedTo, Departing
  <2> QED BY <2>1, RescaffoldsFacts DEF S
<1> HIDE DEF E
<1>5. Good(at, A, s) /\ Range(s) = {x, y} \cup Range(S)
  <2>1. Adding(B, A, E)
    BY <1>1, <1>3 DEF Adding
  <2>2. Good(at, A, s) /\ Adding(Range(s), Range(E), S)
    BY <1>1, <1>4, <2>1, GoodJoin
  <2> QED BY <1>1, <2>2 DEF Adding
<1>6. ASSUME NEW c \in Offered PROVE Coming(s, a, c)
  <2>1. Coming(S, a, c)
    BY <1>4 DEF IsRescaffolds
  <2> QED BY <1>1, <1>4, <2>1, ComingJoin DEF Good
<1>7. Arrives(a) = s
  BY DEF Arrives, E, x, y, S
<1> HIDE DEF s
<1>8. \A o \in Range(S) : /\ o.do \in {"write", "record", "reconcile"}
                          /\ o.do = "write" => o.name \in Offered
  BY <1>4 DEF IsRescaffolds
<1>9. \A o \in Range(s) : /\ o.do \in {"setup", "activate", "write", "record", "reconcile"}
                          /\ o.do = "setup" => o.agent = a
                          /\ o.do = "write" => o.name \in Offered
  BY <1>2, <1>5, <1>8
<1>10. IsArrives(s, a)
  BY <1>5, <1>6, <1>9 DEF IsArrives, Good
<1> QED BY <1>5, <1>7, <1>10

\* The doubt of an agent that leaves.
LEMMA LeavesDoubting ==
  ASSUME NEW s, NEW a, NEW next, IsLeaves(s, a, next), NEW op, NEW doubt, NEW at,
         {a} \X Commands \subseteq doubt
  PROVE  \A o \in Range(s) : Doubting(o, op, doubt, at)
<1> SUFFICES ASSUME NEW o \in Range(s) PROVE Doubting(o, op, doubt, at)
  OBVIOUS
<1>1. o.do \in {"teardown", "delete", "drop", "leave"} /\ o.agent = a
  BY DEF IsLeaves
<1>2. o \in Operations
  BY RangeFacts DEF IsLeaves
<1>3. o.do = "delete" => o.name \in Commands
  BY <1>2, OpFacts
<1> QED BY <1>1, <1>3 DEF Doubting

LEMMA SwitchHolds ==
  ASSUME IInv, NEW a \in Agents, Switch(a)
  PROVE  IInv'
<1> DEFINE new == Arrives(a)
           at == {a}
           coming == {a} \X Offered
<1>1. TypeOK /\ job.op = "none" /\ a \notin agents
  BY DEF Switch, Begin, IInv, Typed
<1>2. Offered \in SUBSET Commands
  BY ProvidesAssumption DEF Offered, Enabled
<1>3. at \subseteq Agents \cup {NoAgent} /\ coming \subseteq Agents \X Commands
  BY <1>2
<1>4. ASSUME IsArrives(new, a), NEW doubt, coming \subseteq doubt, NEW o \in Range(new)
      PROVE  Doubting(o, "switch", doubt, at)
  <2>1. /\ o.do \in {"setup", "activate", "write", "record", "reconcile"}
        /\ o.do = "setup" => o.agent = a
        /\ o.do = "write" => o.name \in Offered
    BY <1>4 DEF IsArrives
  <2> QED BY <1>1, <1>4, <2>1 DEF Doubting
<1>5. CASE active = NoAgent
  <2>1. Begin("switch", coming, Offered, at, new)
    BY <1>5 DEF Switch, Arrives
  <2>2. Good(at, {}, new) /\ IsArrives(new, a)
    BY <1>1, ArrivesFacts DEF Departing
  <2>3. \A e \in at \cap Agents, c \in Offered : Coming(new, e, c)
    BY <2>2 DEF IsArrives
  <2> HIDE DEF new
  <2>4. Starts("switch", coming, Offered, at, new)
    BY <1>2, <1>3, <1>4, <2>2, <2>3 DEF Starts
  <2> QED BY <2>1, <2>4, StartsHold
<1>6. CASE active # NoAgent
  <2>1. PICK next \in Heirs(active) :
          Begin("switch", ({active} \X Commands) \cup coming, Offered, at,
                Leaves(active, next) \o new)
    BY <1>6 DEF Switch, Arrives
  <2> DEFINE doubt == ({active} \X Commands) \cup coming
             old == Leaves(active, next)
             u == old \o new
  <2>2. active \in Agents /\ next \in Agents \cup {NoAgent}
    BY <1>1, <1>6 DEF TypeOK, Heirs
  <2>3. Good(at, {}, old) /\ IsLeaves(old, active, next)
    BY <1>1, <2>2, KnowsHolds, LeavesFacts
  <2> HIDE DEF old
  <2>4. PICK A : A = Range(old)
    OBVIOUS
  <2>5. Good(at, A, new) /\ IsArrives(new, a)
    <3>1. Departing(A)
      BY <2>3, <2>4 DEF IsLeaves, Departing
    <3> QED BY <1>1, <3>1, ArrivesFacts
  <2> HIDE DEF new
  <2>6. Good(at, {}, u) /\ Range(u) = Range(old) \cup Range(new)
    <3>1. Adding(A, {}, old)
      BY <2>4 DEF Adding
    <3>2. Good(at, {}, u) /\ Adding(Range(u), Range(old), new)
      BY <2>3, <2>5, <3>1, GoodJoin
    <3> QED BY <3>2 DEF Adding
  <2>7. ASSUME NEW c \in Offered PROVE Coming(u, a, c)
    <3>1. Coming(new, a, c)
      BY <2>5 DEF IsArrives
    <3> QED BY <2>3, <2>5, <3>1, ComingJoin DEF IsLeaves, IsArrives
  <2> HIDE DEF u
  <2>8. \A o \in Range(old) : Doubting(o, "switch", doubt, at)
    BY <2>3, LeavesDoubting
  <2>9. \A o \in Range(u) : Doubting(o, "switch", doubt, at)
    BY <1>4, <2>5, <2>6, <2>8
  <2>10. doubt \subseteq Agents \X Commands
    BY <1>3, <2>2
  <2>11. Starts("switch", doubt, Offered, at, u)
    BY <1>2, <1>3, <2>6, <2>7, <2>9, <2>10 DEF Starts
  <2> QED BY <2>1, <2>11, StartsHold DEF u, old
<1> QED BY <1>5, <1>6

LEMMA InstallHolds ==
  ASSUME IInv, NEW a \in Agents, Install(a)
  PROVE  IInv'
<1> DEFINE do == IF active = NoAgent THEN "activate" ELSE "enlist"
           x == AgentOp("setup", a)
           y == AgentOp(do, a)
           ops == <<x, y>>
           doubt == {a} \X Offered
<1>1. Begin("install", doubt, {}, {}, ops) /\ a \notin agents
  BY DEF Install
<1>2. Offered \in SUBSET Commands
  BY ProvidesAssumption DEF Offered, Enabled
<1>3. Good({}, {}, ops) /\ Range(ops) = {x, y}
  <2>1. do \in {"activate", "enlist"}
    OBVIOUS
  <2>2. Departing({})
    BY DEF Departing
  <2> HIDE DEF do
  <2> QED BY <2>1, <2>2, SetupsGood
<1>4. x.do = "setup" /\ x.agent = a /\ y.do \in {"activate", "enlist"} /\ y.agent = a
  BY DEF AgentOp
<1> HIDE DEF x, y, ops
<1>5. \A o \in Range(ops) : Doubting(o, "install", doubt, {})
  <2>1. Doubting(x, "install", doubt, {})
    BY <1>1, <1>4 DEF Doubting
  <2>2. Doubting(y, "install", doubt, {})
    BY <1>4 DEF Doubting
  <2> QED BY <1>3, <2>1, <2>2
<1>6. Starts("install", doubt, {}, {}, ops)
  BY <1>2, <1>3, <1>5 DEF Starts
<1> QED BY <1>1, <1>6, StartsHold

LEMMA UninstallHolds ==
  ASSUME IInv, NEW a \in Agents, Uninstall(a)
  PROVE  IInv'
<1>1. TypeOK /\ job.op = "none" /\ a \in agents
  BY DEF Uninstall, Begin, IInv, Typed
<1>2. Offered \in SUBSET Commands
  BY ProvidesAssumption DEF Offered, Enabled
<1>3. PICK next \in Heirs(a) :
        IF a = active /\ next # NoAgent
        THEN Begin("uninstall", ({a} \X Commands) \cup ({next} \X Offered), Offered,
                   {next}, Leaves(a, next) \o Rescaffolds(next))
        ELSE Begin("uninstall", {a} \X Commands, {}, {}, Leaves(a, next))
  BY DEF Uninstall
<1> DEFINE old == Leaves(a, next)
           doubt == ({a} \X Commands) \cup ({next} \X Offered)
           at == {next}
           gone == {a} \X Commands
<1>4. next \in Agents \cup {NoAgent}
  BY <1>1 DEF TypeOK, Heirs
<1>5. \A w : Good(w, {}, old) /\ IsLeaves(old, a, next)
  BY <1>1, <1>4, KnowsHolds, LeavesFacts
<1>6. IsLeaves(old, a, next)
  BY <1>5
<1>7. CASE a = active /\ next # NoAgent
  <2> DEFINE new == Rescaffolds(next)
             u == old \o new
  <2>1. Begin("uninstall", doubt, Offered, at, u) /\ next \in Agents
    BY <1>3, <1>4, <1>7
  <2> HIDE DEF old
  <2>2. PICK A : A = Range(old)
    OBVIOUS
  <2>3. Good(at, A, new) /\ IsRescaffolds(new, next)
    <3>1. \A x \in A : x.do \in {"teardown", "delete", "drop", "leave"} /\ x.agent = a
                       /\ (x.do = "leave" => x.next = next)
      BY <1>6, <2>2 DEF IsLeaves
    <3>2. \E x \in A : x.do = "leave"
      BY <1>6, <2>2 DEF IsLeaves
    <3>3. TurnedTo(at, A) /\ \A x \in A : x.do # "forget"
      BY <1>7, <3>1, <3>2 DEF TurnedTo
    <3> QED BY <1>1, <2>1, <3>3, RescaffoldsFacts
  <2> HIDE DEF new
  <2>4. Good(at, {}, u) /\ Range(u) = Range(old) \cup Range(new)
    <3>1. Adding(A, {}, old)
      BY <2>2 DEF Adding
    <3>2. Good(at, {}, u) /\ Adding(Range(u), Range(old), new)
      BY <1>5, <2>3, <3>1, GoodJoin
    <3> QED BY <3>2 DEF Adding
  <2>5. ASSUME NEW c \in Offered PROVE Coming(u, next, c)
    <3>1. Coming(new, next, c)
      BY <2>3 DEF IsRescaffolds
    <3> QED BY <1>6, <2>3, <3>1, ComingJoin DEF IsLeaves, IsRescaffolds
  <2> HIDE DEF u
  <2>6. \A o \in Range(old) : Doubting(o, "uninstall", doubt, at)
    BY <1>6, LeavesDoubting
  <2>7. ASSUME NEW o \in Range(new) PROVE Doubting(o, "uninstall", doubt, at)
    <3>1. /\ o.do \in {"write", "record", "reconcile"}
          /\ o.do = "write" => o.name \in Offered
      BY <2>3 DEF IsRescaffolds
    <3> QED BY <3>1 DEF Doubting
  <2>8. doubt \subseteq Agents \X Commands /\ at \subseteq Agents \cup {NoAgent}
    BY <1>2, <2>1
  <2>9. Starts("uninstall", doubt, Offered, at, u)
    BY <1>2, <2>4, <2>5, <2>6, <2>7, <2>8 DEF Starts
  <2> QED BY <2>1, <2>9, StartsHold
<1>8. CASE ~ (a = active /\ next # NoAgent)
  <2>1. Begin("uninstall", gone, {}, {}, old)
    BY <1>3, <1>8
  <2> HIDE DEF old
  <2>2. \A o \in Range(old) : Doubting(o, "uninstall", gone, {})
    BY <1>6, LeavesDoubting
  <2>3. Starts("uninstall", gone, {}, {}, old)
    BY <1>5, <2>2 DEF Starts
  <2> QED BY <2>1, <2>3, StartsHold
<1> QED BY <1>7, <1>8

-----------------------------------------------------------------------------
(* The theorems *)

LEMMA StackCommandHolds ==
  ASSUME IInv, NEW p \in Presets,
         Enable(p) \/ Disable(p) \/ \E n \in Priorities : SetPriority(p, n)
  PROVE  IInv'
<1>1. PICK e : /\ Restack(p, e)
               /\ \/ e = [reg[p] EXCEPT !.on = TRUE]
                  \/ e = [reg[p] EXCEPT !.on = FALSE]
                  \/ \E n \in Priorities : e = [reg[p] EXCEPT !.prio = n]
  BY DEF Enable, Disable, SetPriority
<1>2. reg[p].there /\ TypeOK
  BY <1>1 DEF Restack, IInv, Typed
<1>3. reg[p] \in Entry
  BY <1>2 DEF TypeOK, NoEntry
<1>4. e \in Entry /\ e.cmds = reg[p].cmds
  BY <1>1, <1>3 DEF Entry
<1> QED BY <1>1, <1>4, RestackHolds

LEMMA NextHolds ==
  ASSUME IInv, [Next]_vars
  PROVE  IInv'
<1>1. CASE Command
  <2>1. ASSUME NEW p \in Presets, RemovePreset(p) PROVE IInv'
    BY <2>1, RemovePresetHolds
  <2>2. ASSUME NEW p \in Presets, Enable(p) \/ Disable(p) \/ \E n \in Priorities : SetPriority(p, n)
        PROVE  IInv'
    BY <2>2, StackCommandHolds
  <2>3. ASSUME NEW p \in Presets, NEW n \in Priorities, NEW force \in BOOLEAN,
               AddPreset(p, n, force)
        PROVE  IInv'
    BY <2>3, AddPresetHolds
  <2>4. ASSUME NEW a \in Agents, Use(a) PROVE IInv'
    BY <2>4, UseHolds
  <2>5. ASSUME NEW a \in Agents, Switch(a) PROVE IInv'
    BY <2>5, SwitchHolds
  <2>6. ASSUME NEW a \in Agents, Install(a) PROVE IInv'
    BY <2>6, InstallHolds
  <2>7. ASSUME NEW a \in Agents, Uninstall(a) PROVE IInv'
    BY <2>7, UninstallHolds
  <2> QED BY <1>1, <2>1, <2>2, <2>3, <2>4, <2>5, <2>6, <2>7 DEF Command
<1>2. CASE UNCHANGED vars
  <2>1. \A f \in Agents \X Commands : Stray(f[1], f[2])' <=> Stray(f[1], f[2])
    BY <1>2 DEF vars, Stray, Owner
  <2>2. /\ \A c : Layers(c)' = Layers(c) /\ Resolve(c)' = Resolve(c)
        /\ Offered' = Offered
    BY <1>2, StackUnchanged DEF vars
  <2>3. Typed'
    BY <1>2 DEF IInv, Typed, TypeOK, vars
  <2>4. Planned'
    BY <1>2 DEF IInv, Planned, Ordered, Blocks, InHand, Recording, Entering, Earlier, vars
  <2>5. Owned'
    <3>1. NothingOrphaned'
      BY <1>2, <2>1 DEF IInv, Owned, NothingOrphaned, Untracked, vars
    <3>2. how = "ok" => Tracked'
      BY <1>2 DEF IInv, Owned, Tracked, Stray, Owner, vars
    <3>3. how = "ok" => Dropping(todo)' /\ Forgetting(todo)'
      BY <1>2 DEF IInv, Owned, Dropping, Forgetting, Gone, Deleted, Of, Owner, vars
    <3> QED BY <1>2, <3>1, <3>2, <3>3 DEF Owned, vars
  <2>6. \A a, c : Right(a, c)' <=> Right(a, c)
    BY <1>2, <2>2 DEF Right, vars
  <2>7. Claims' /\ Arrival(todo)'
    BY <1>2, <2>6 DEF IInv, Stacked, Claims, Arrival, Ready, vars
  <2>8. Doubts'
    <3> SUFFICES ASSUME NEW o \in Range(todo) PROVE Doubtful(o)'
      BY <1>2 DEF Doubts, vars
    <3>1. Doubtful(o)
      BY DEF IInv, Stacked, Doubts
    <3> QED BY <1>2, <2>2, <3>1 DEF Doubtful, Doubted, vars
  <2>9. Turned(todo)'
    BY <1>2 DEF IInv, Stacked, Turned, vars
  <2>10. Settling'
    BY <1>2, <2>2 DEF IInv, Stacked, Settling, Settled, Coming, vars
  <2> QED BY <2>3, <2>4, <2>5, <2>7, <2>8, <2>9, <2>10 DEF IInv, Stacked
<1>3. CASE Perform
  BY <1>3, PerformHolds
<1>4. CASE Done
  BY <1>4, DoneHolds
<1>5. CASE Fails
  BY <1>5, FailsHolds
<1>6. CASE Dies
  BY <1>6, DiesHolds
<1> QED BY <1>1, <1>2, <1>3, <1>4, <1>5, <1>6 DEF Next, Rest

\* The inductive invariant holds in every state that commands, errors, interrupts
\* and kills lead to.
THEOREM InvariantHolds == Spec => []IInv
<1>1. Init => IInv
  BY InitHolds
<1>2. IInv /\ [Next]_vars => IInv'
  BY NextHolds
<1> QED BY <1>1, <1>2, PTL DEF Spec

\* The registry holds valid entries or none, package directories are whole, torn or
\* gone, and a command's file is a stack of layers, whatever commands run and
\* wherever they fail (PresetRegistry, PresetManager).
THEOREM TypesHold == Spec => []TypeOK
<1>1. IInv => TypeOK
  BY DEF IInv, Typed
<1> QED BY <1>1, InvariantHolds, PTL

\* A file with a preset's content belongs to a preset that is installed and knows of
\* it, for the agents and names of any number of presets, except for the files that
\* failures have left: removing a preset, or an agent, takes its files along.
THEOREM NothingOrphanedHolds == Spec => []NothingOrphaned
<1>1. IInv => NothingOrphaned
  BY DEF IInv, Owned
<1> QED BY <1>1, InvariantHolds, PTL

\* Between commands an installed agent finds under each name with a layer what the
\* stack of enabled presets makes of it, unless the file is in doubt: presets may be
\* added, removed and reordered, and agents come and go, in any order.
THEOREM StackInEffectHolds == Spec => []StackInEffect
<1>1. IInv => StackInEffect
  BY DEF IInv, Stacked, Claims, Right, StackInEffect
<1> QED BY <1>1, InvariantHolds, PTL
=============================================================================
