--------------------------- MODULE ScanSetsProofs ---------------------------
(***************************************************************************)
(* What the scan has found out about files and their sizes when the        *)
(* threads start to read: the size tree misses no two files of a size, the *)
(* blocks of every file of a set are counted, of the paths to one file one *)
(* is read, and what the hash cache decides is right.  All of it while     *)
(* files are deleted and replaced, and for trees, sets and read lists of   *)
(* any size.                                                               *)
(***************************************************************************)
EXTENDS ScanSets, PathSetProofs

\* Numbers have a least one.
LEMMA LeastNumber ==
  ASSUME NEW S, S \subseteq Nat, S # {}
  PROVE  \E m \in S : \A k \in S : m <= k
  <1>1. PICK m \in S : \A k \in S : ~(<<k, m>> \in OpToRel(<, Nat))
    BY WFMin, NatLessThanWellFounded
  <1>2. \A k \in S : ~(k < m)
    BY <1>1 DEF OpToRel
  <1> QED BY <1>2

-----------------------------------------------------------------------------
(* The tree.  A child is of a higher rank than the node it hangs from, so that
   a search ends; and for every size in the tree there are nodes which lead
   the search for it from the root. *)

Children(n) == {n.left, n.right} \ {NULL}

Ranked(nd, max) ==
  \E r \in [DOMAIN nd -> 0 .. max] :
    \A p \in DOMAIN nd : \A c \in Children(nd[p]) : c \in DOMAIN nd /\ r[c] > r[p]

Leads(nd, root, s) ==
  \E on \in SUBSET DOMAIN nd :
    root \in on /\ \A p \in on : p # s => Toward(nd[p], p, s) \in on

Tree(nd, root, max) ==
  /\ NULL \notin DOMAIN nd
  /\ root = NULL <=> DOMAIN nd = {}
  /\ root # NULL => root \in DOMAIN nd
  /\ Ranked(nd, max)
  /\ \A s \in DOMAIN nd : Leads(nd, root, s)

(* The search for size s, as a function of the node it has got to. *)
SearchStep(nd, s, p, g) ==
  IF s = p \/ Toward(nd[p], p, s) = NULL THEN p ELSE g[Toward(nd[p], p, s)]
Searches(nd, s, S, g) == g = [p \in S |-> SearchStep(nd, s, p, g)]

\* From any node the search gets somewhere.
LEMMA SearchEnds ==
  ASSUME NEW nd, NEW max \in Nat, Ranked(nd, max), NEW s
  PROVE  \E g : Searches(nd, s, DOMAIN nd, g)
  <1>1. PICK r \in [DOMAIN nd -> 0 .. max] :
          \A p \in DOMAIN nd : \A c \in Children(nd[p]) : c \in DOMAIN nd /\ r[c] > r[p]
    BY DEF Ranked
  <1> DEFINE From(n) == {p \in DOMAIN nd : r[p] + n > max}
             Bad == {n \in Nat : ~ \E g : Searches(nd, s, From(n), g)}
  <1>2. Bad = {}
    <2> SUFFICES ASSUME Bad # {} PROVE FALSE
      OBVIOUS
    <2>1. PICK n \in Bad : \A k \in Bad : n <= k
      <3>1. Bad \subseteq Nat
        OBVIOUS
      <3> HIDE DEF Bad
      <3> QED BY <3>1, LeastNumber
    <2>2. CASE n = 0
      <3>1. From(n) = {}
        BY <2>2
      <3>2. Searches(nd, s, {}, [p \in {} |-> 0])
        BY DEF Searches
      <3> QED BY <3>1, <3>2
    <2>3. CASE n # 0
      <3>1. PICK m \in Nat : n = m + 1
        <4>1. n \in Nat /\ n - 1 \in Nat /\ n = (n - 1) + 1
          BY <2>3
        <4> QED BY <4>1
      <3>2. m \notin Bad
        <4>1. \A k \in Bad : n <= k
          BY <2>1
        <4> HIDE DEF Bad
        <4> QED BY <3>1, <4>1
      <3>3. PICK g : Searches(nd, s, From(m), g)
        BY <3>2
      <3>4. \A p \in From(m) : g[p] = SearchStep(nd, s, p, g)
        BY <3>3, Zenon DEF Searches
      <3>5. \A p \in From(n) : Toward(nd[p], p, s) # NULL => Toward(nd[p], p, s) \in From(m)
        <4> SUFFICES ASSUME NEW p \in From(n), NEW c, c = Toward(nd[p], p, s), c # NULL
                     PROVE  c \in From(m)
          OBVIOUS
        <4>1. c \in Children(nd[p])
          BY DEF Children, Toward
        <4>2. c \in DOMAIN nd /\ r[c] > r[p] /\ r[c] \in Nat /\ r[p] \in Nat
          BY <1>1, <4>1
        <4> QED BY <3>1, <4>2
      <3>6. From(m) \subseteq From(n)
        BY <1>1, <3>1
      <3> DEFINE h == [p \in From(n) |-> SearchStep(nd, s, p, g)]
      <3> HIDE DEF From, Bad
      <3>7. \A p \in From(m) : h[p] = g[p]
        BY <3>4, <3>6
      <3>8. \A p \in From(n) : SearchStep(nd, s, p, g) = SearchStep(nd, s, p, h)
        BY <3>5, <3>7 DEF SearchStep
      <3>9. Searches(nd, s, From(n), h)
        BY <3>8 DEF Searches
      <3> QED BY <2>1, <3>9 DEF Bad
    <2> QED BY <2>2, <2>3
  <1>3. max + 1 \in Nat /\ From(max + 1) = DOMAIN nd
    <2>1. \A p \in DOMAIN nd : r[p] + (max + 1) > max
      BY <1>1
    <2> QED BY <2>1
  <1> QED BY <1>2, <1>3

(* Where the search for s gets to from the root: the nodes on its way lead to
   place, which is that of s or has no child where s would be. *)
Leading(nd, root, s, place) ==
  /\ place \in DOMAIN nd
  /\ place = s \/ Toward(nd[place], place, s) = NULL
  /\ \E on \in SUBSET DOMAIN nd :
       /\ root \in on /\ place \in on
       /\ \A p \in on : p # place => p # s /\ Toward(nd[p], p, s) \in on

\* The search finds the size if and only if it is in the tree.
LEMMA PlaceIs ==
  ASSUME NEW max \in Nat, Tree(node, tip, max), tip # NULL, NEW s
  PROVE  /\ Leading(node, tip, s, Place(s))
         /\ Place(s) = s <=> s \in DOMAIN node
  <1>1. /\ NULL \notin DOMAIN node /\ tip \in DOMAIN node
        /\ Ranked(node, max) /\ \A x \in DOMAIN node : Leads(node, tip, x)
    BY DEF Tree
  <1>2. PICK g : Searches(node, s, DOMAIN node, g) /\ Place(s) = g[tip]
    <2>1. \E g : Searches(node, s, DOMAIN node, g)
      BY <1>1, SearchEnds
    <2> DEFINE f == CHOOSE g : Searches(node, s, DOMAIN node, g)
    <2>2. Searches(node, s, DOMAIN node, f)
      BY <2>1
    <2>3. Place(s) = f[tip]
      BY DEF Place, Searches, SearchStep
    <2> QED BY <2>2, <2>3
  <1>3. \A p \in DOMAIN node : g[p] = SearchStep(node, s, p, g)
    BY <1>2, Zenon DEF Searches
  <1>4. PICK r \in [DOMAIN node -> 0 .. max] :
          \A p \in DOMAIN node : \A c \in Children(node[p]) : c \in DOMAIN node /\ r[c] > r[p]
    BY <1>1 DEF Ranked
  <1>5. ASSUME NEW p \in DOMAIN node, Toward(node[p], p, s) # NULL
        PROVE  Toward(node[p], p, s) \in DOMAIN node /\ r[Toward(node[p], p, s)] > r[p]
    <2>1. Toward(node[p], p, s) \in Children(node[p])
      BY <1>5 DEF Children, Toward
    <2> QED BY <1>4, <2>1
  (* What holds of all nodes whose children it holds of, holds of all. *)
  <1>6. ASSUME NEW P \in SUBSET DOMAIN node,
               \A p \in DOMAIN node :
                 (Toward(node[p], p, s) # NULL => Toward(node[p], p, s) \in P) => p \in P
        PROVE  P = DOMAIN node
    <2> SUFFICES ASSUME P # DOMAIN node PROVE FALSE
      OBVIOUS
    <2> DEFINE Left == {max - r[p] : p \in DOMAIN node \ P}
    <2>1. Left \subseteq Nat /\ Left # {}
      BY <1>4
    <2>2. PICK m \in Left : \A k \in Left : m <= k
      <3> HIDE DEF Left
      <3> QED BY <2>1, LeastNumber
    <2>3. PICK p \in DOMAIN node \ P : m = max - r[p]
      BY <2>2
    <2>4. PICK c : c = Toward(node[p], p, s) /\ c # NULL /\ c \notin P
      BY <1>6, <2>3
    <2>5. c \in DOMAIN node /\ r[c] > r[p] /\ r[c] \in 0 .. max /\ r[p] \in 0 .. max
      BY <1>5, <2>3, <2>4
    <2>6. max - r[c] \in Left
      BY <2>4, <2>5
    <2>7. m <= max - r[c]
      BY <2>2, <2>6
    <2> QED BY <2>3, <2>5, <2>7
  <1>7. \A p \in DOMAIN node : /\ g[p] \in DOMAIN node
                               /\ g[p] = s \/ Toward(node[g[p]], g[p], s) = NULL
    <2> DEFINE P == {p \in DOMAIN node : /\ g[p] \in DOMAIN node
                                         /\ g[p] = s \/ Toward(node[g[p]], g[p], s) = NULL}
    <2>1. ASSUME NEW p \in DOMAIN node,
                 Toward(node[p], p, s) # NULL => Toward(node[p], p, s) \in P
          PROVE  p \in P
      BY <1>3, <2>1 DEF SearchStep
    <2>2. P = DOMAIN node
      <3>1. P \in SUBSET DOMAIN node
        OBVIOUS
      <3> HIDE DEF P
      <3> QED BY <1>6, <2>1, <3>1
    <2> QED BY <2>2
  <1>8. Leading(node, tip, s, g[tip])
    <2> DEFINE on == {p \in DOMAIN node : g[p] = g[tip]}
    <2>1. tip \in on /\ g[tip] \in DOMAIN node
      BY <1>1, <1>7
    <2>2. g[tip] \in on
      <3>1. PICK q : q = g[tip]
        OBVIOUS
      <3>2. q \in DOMAIN node /\ (q = s \/ Toward(node[q], q, s) = NULL)
        BY <1>1, <1>7, <3>1
      <3>3. g[q] = q
        BY <1>3, <3>2 DEF SearchStep
      <3> QED BY <3>1, <3>2, <3>3
    <2>3. ASSUME NEW p \in on, p # g[tip] PROVE p # s /\ Toward(node[p], p, s) \in on
      <3>1. g[p] # p /\ p \in DOMAIN node
        BY <2>3
      <3>2. ~(s = p \/ Toward(node[p], p, s) = NULL)
        BY <1>3, <3>1 DEF SearchStep
      <3>3. g[p] = g[Toward(node[p], p, s)]
        BY <1>3, <3>1, <3>2 DEF SearchStep
      <3> QED BY <1>5, <3>1, <3>2, <3>3
    <2>4. g[tip] = s \/ Toward(node[g[tip]], g[tip], s) = NULL
      BY <1>1, <1>7
    <2>5. on \in SUBSET DOMAIN node
      OBVIOUS
    <2> HIDE DEF on
    <2> QED BY <2>1, <2>2, <2>3, <2>4, <2>5 DEF Leading
  <1>9. ASSUME s \in DOMAIN node PROVE g[tip] = s
    <2>1. PICK on \in SUBSET DOMAIN node :
             tip \in on /\ \A p \in on : p # s => Toward(node[p], p, s) \in on
      BY <1>1, <1>9 DEF Leads
    <2> DEFINE P == {p \in DOMAIN node : p \in on => g[p] = s}
    <2>2. ASSUME NEW p \in DOMAIN node,
                 Toward(node[p], p, s) # NULL => Toward(node[p], p, s) \in P
          PROVE  p \in P
      <3> SUFFICES ASSUME p \in on PROVE g[p] = s
        OBVIOUS
      <3>1. CASE p = s
        BY <1>3, <3>1 DEF SearchStep
      <3>2. CASE p # s
        <4>1. Toward(node[p], p, s) \in on /\ Toward(node[p], p, s) # NULL
          BY <1>1, <2>1, <3>2
        <4>2. g[p] = g[Toward(node[p], p, s)]
          BY <1>3, <3>2, <4>1 DEF SearchStep
        <4> QED BY <2>2, <4>1, <4>2
      <3> QED BY <3>1, <3>2
    <2>3. P = DOMAIN node
      <3>1. P \in SUBSET DOMAIN node
        OBVIOUS
      <3> HIDE DEF P
      <3> QED BY <1>6, <2>2, <3>1
    <2> QED BY <1>1, <2>1, <2>3
  <1> QED BY <1>1, <1>2, <1>7, <1>8, <1>9

NodeType ==
  [left : Sizes \cup {NULL}, right : Sizes \cup {NULL}, file : Files \cup {NULL},
   has_paths : BOOLEAN]

\* With() keeps the rest of a function.
LEMMA WithIs ==
  ASSUME NEW f, NEW x, NEW v, NEW g, g = With(f, x, v)
  PROVE  /\ DOMAIN g = DOMAIN f \cup {x} /\ g[x] = v
         /\ \A y \in DOMAIN f : y # x => g[y] = f[y]
         /\ g = [y \in DOMAIN f \cup {x} |-> g[y]]
  BY DEF With

\* Nodes keep their places when what hangs from them stays.
LEMMA SameTree ==
  ASSUME NEW max \in Nat, NEW nd, NEW root, Tree(nd, root, max), NEW new, DOMAIN new = DOMAIN nd,
         \A p \in DOMAIN nd : new[p].left = nd[p].left /\ new[p].right = nd[p].right
  PROVE  Tree(new, root, max + 1)
  <1>1. \A p \in DOMAIN nd : /\ Children(new[p]) = Children(nd[p])
                             /\ \A s : Toward(new[p], p, s) = Toward(nd[p], p, s)
    BY DEF Children, Toward
  <1>2. Ranked(new, max + 1)
    <2>1. PICK r \in [DOMAIN nd -> 0 .. max] :
             \A p \in DOMAIN nd : \A c \in Children(nd[p]) : c \in DOMAIN nd /\ r[c] > r[p]
      BY DEF Tree, Ranked
    <2>2. r \in [DOMAIN nd -> 0 .. max + 1]
      BY <2>1
    <2> QED BY <1>1, <2>1, <2>2 DEF Ranked
  <1>3. ASSUME NEW s \in DOMAIN nd PROVE Leads(new, root, s)
    <2>1. PICK on \in SUBSET DOMAIN nd :
             root \in on /\ \A p \in on : p # s => Toward(nd[p], p, s) \in on
      BY <1>3 DEF Tree, Leads
    <2> QED BY <1>1, <2>1 DEF Leads
  <1> QED BY <1>2, <1>3 DEF Tree

\* A tree of one node.
LEMMA FirstTree ==
  ASSUME NEW max \in Nat, NEW nd, DOMAIN nd = {}, NEW s, s # NULL,
         NEW n, n.left = NULL, n.right = NULL, NEW new, new = With(nd, s, n)
  PROVE  Tree(new, s, max + 1)
  <1>1. DOMAIN new = {s} /\ new[s] = n
    BY DEF With
  <1>2. Children(n) = {}
    BY DEF Children
  <1>3. Ranked(new, max + 1)
    <2>1. [p \in {s} |-> 0] \in [DOMAIN new -> 0 .. max + 1]
      BY <1>1
    <2> QED BY <1>1, <1>2, <2>1 DEF Ranked
  <1>4. Leads(new, s, s)
    <2>1. {s} \in SUBSET DOMAIN new
      BY <1>1
    <2>2. s \in {s} /\ \A p \in {s} : p # s => Toward(new[p], p, s) \in {s}
      OBVIOUS
    <2> QED BY <2>1, <2>2 DEF Leads
  <1> QED BY <1>1, <1>3, <1>4 DEF Tree

\* The tree with a node for s below the node q.
Hung(nd, q, s, n) ==
  With([nd EXCEPT ![q] = IF s > q THEN [@ EXCEPT !.left = s] ELSE [@ EXCEPT !.right = s]], s, n)

\* From nd to new: a node for s hangs from one of the others.
Grew(nd, new, root, max, s, n) ==
  /\ Tree(new, root, max + 1)
  /\ DOMAIN new = DOMAIN nd \cup {s} /\ new[s] = n
  /\ \A p \in DOMAIN nd : /\ new[p].file = nd[p].file
                          /\ new[p].has_paths = nd[p].has_paths
                          /\ new[p].left \in {nd[p].left, s}
                          /\ new[p].right \in {nd[p].right, s}

\* A size that is not in the tree can be hung where its search ends.
LEMMA TreeGrows ==
  ASSUME NEW max \in Nat, NEW nd, nd \in [DOMAIN nd -> NodeType], NEW root,
         Tree(nd, root, max), root # NULL, NEW s, s # NULL, s \notin DOMAIN nd,
         NEW q, Leading(nd, root, s, q),
         NEW n, n.left = NULL, n.right = NULL, NEW new, new = Hung(nd, q, s, n)
  PROVE  Grew(nd, new, root, max, s, n)
  <1>1. /\ NULL \notin DOMAIN nd /\ root \in DOMAIN nd
        /\ Ranked(nd, max) /\ \A x \in DOMAIN nd : Leads(nd, root, x)
    BY DEF Tree
  <1>2. /\ q \in DOMAIN nd /\ q # s /\ Toward(nd[q], q, s) = NULL
    BY DEF Leading
  <1>3. PICK on \in SUBSET DOMAIN nd :
          /\ root \in on /\ q \in on
          /\ \A p \in on : p # q => p # s /\ Toward(nd[p], p, s) \in on
    BY DEF Leading
  <1> DEFINE bent == IF s > q THEN [nd[q] EXCEPT !.left = s] ELSE [nd[q] EXCEPT !.right = s]
  <1>4. /\ bent.file = nd[q].file /\ bent.has_paths = nd[q].has_paths
        /\ bent.left  = IF s > q THEN s ELSE nd[q].left
        /\ bent.right = IF s > q THEN nd[q].right ELSE s
    <2>1. nd[q] \in NodeType
      BY <1>2
    <2> QED BY <2>1 DEF NodeType
  <1>5. /\ DOMAIN new = DOMAIN nd \cup {s} /\ new[s] = n /\ new[q] = bent
        /\ \A p \in DOMAIN nd : p # q => new[p] = nd[p]
    <2> DEFINE mid == [nd EXCEPT ![q] = bent]
    <2>1. new = With(mid, s, n)
      BY DEF Hung
    <2>2. DOMAIN mid = DOMAIN nd /\ mid[q] = bent /\ \A p \in DOMAIN nd : p # q => mid[p] = nd[p]
      BY <1>2
    <2> HIDE DEF mid, bent
    <2>3. /\ DOMAIN new = DOMAIN mid \cup {s} /\ new[s] = n
          /\ \A y \in DOMAIN mid : y # s => new[y] = mid[y]
      BY <2>1 DEF With
    <2> QED BY <1>2, <2>2, <2>3
  <1> HIDE DEF bent
  <1>6. \A p \in DOMAIN nd : Children(new[p]) \subseteq
                               Children(nd[p]) \cup IF p = q THEN {s} ELSE {}
    BY <1>4, <1>5 DEF Children
  <1>7. Children(new[s]) = {}
    BY <1>5 DEF Children
  <1>8. Ranked(new, max + 1)
    <2>1. PICK r \in [DOMAIN nd -> 0 .. max] :
             \A p \in DOMAIN nd : \A c \in Children(nd[p]) : c \in DOMAIN nd /\ r[c] > r[p]
      BY <1>1 DEF Ranked
    <2> DEFINE t == [p \in DOMAIN new |-> IF p = s THEN max + 1 ELSE r[p]]
    <2>2. t \in [DOMAIN new -> 0 .. max + 1]
      BY <1>5, <2>1
    <2>3. t[s] = max + 1 /\ \A p \in DOMAIN nd : t[p] = r[p] /\ r[p] \in 0 .. max
      BY <1>5, <2>1
    <2> HIDE DEF t
    <2>4. ASSUME NEW p \in DOMAIN new, NEW c \in Children(new[p]) PROVE c \in DOMAIN new /\ t[c] > t[p]
      <3>1. p \in DOMAIN nd
        BY <1>5, <1>7, <2>4
      <3>2. CASE c = s
        BY <1>5, <2>3, <3>1, <3>2
      <3>3. CASE c # s
        <4>1. c \in Children(nd[p])
          BY <1>6, <2>4, <3>1, <3>3
        <4> QED BY <1>5, <2>1, <2>3, <3>1, <4>1
      <3> QED BY <3>2, <3>3
    <2> QED BY <2>2, <2>4 DEF Ranked
  <1>9. ASSUME NEW x \in DOMAIN nd PROVE Leads(new, root, x)
    <2>1. PICK way \in SUBSET DOMAIN nd :
             root \in way /\ \A p \in way : p # x => Toward(nd[p], p, x) \in way
      BY <1>1, <1>9 DEF Leads
    <2>2. ASSUME NEW p \in way, p # x PROVE Toward(new[p], p, x) \in way
      <3>1. Toward(nd[p], p, x) \in way /\ Toward(nd[p], p, x) # NULL
        BY <1>1, <2>1, <2>2
      <3>2. Toward(new[p], p, x) = Toward(nd[p], p, x)
        <4>1. CASE p # q
          BY <1>5, <4>1
        <4>2. CASE p = q
          BY <1>2, <1>4, <1>5, <3>1, <4>2 DEF Toward
        <4> QED BY <4>1, <4>2
      <3> QED BY <3>1, <3>2
    <2>3. way \in SUBSET DOMAIN new
      BY <1>5
    <2> QED BY <2>1, <2>2, <2>3 DEF Leads
  <1>10. Leads(new, root, s)
    <2> DEFINE way == on \cup {s}
    <2>1. way \in SUBSET DOMAIN new /\ root \in way
      BY <1>3, <1>5
    <2>2. ASSUME NEW p \in way, p # s PROVE Toward(new[p], p, s) \in way
      <3>1. p \in on /\ p \in DOMAIN nd
        BY <1>3, <2>2
      <3>2. CASE p # q
        BY <1>3, <1>5, <3>1, <3>2
      <3>3. CASE p = q
        BY <1>4, <1>5, <3>3 DEF Toward
      <3> QED BY <3>2, <3>3
    <2> HIDE DEF way
    <2> QED BY <2>1, <2>2 DEF Leads
  <1>11. Tree(new, root, max + 1)
    BY <1>1, <1>5, <1>8, <1>9, <1>10 DEF Tree
  <1>12. ASSUME NEW p \in DOMAIN nd
         PROVE  /\ new[p].file = nd[p].file /\ new[p].has_paths = nd[p].has_paths
                /\ new[p].left \in {nd[p].left, s} /\ new[p].right \in {nd[p].right, s}
    BY <1>4, <1>5, <1>12
  <1> QED BY <1>5, <1>11, <1>12 DEF Grew

-----------------------------------------------------------------------------
(* Adding a path to a list. *)

(* A set of the n files E, none of them read, with any size for its buffers. *)
FreshSet(E, wanted, n) ==
  [state : {"PLS_NEED_DATA"}, list_size : {n}, buffer_ready : {0}, wanted_bufsize : {wanted},
   hash_passes : {0}, fully_read : {FALSE}, entry : {[f \in E |-> NewEntry]},
   allocated : {0}, open : {0}, dups : {0}, unique : {0}, processed : {0}, published : {{}},
   exited : {"none"}]

\* NewSet() is such a set, whatever its buffers.
LEMMA NewSetFresh ==
  ASSUME NEW E, NEW s, NEW w, NEW r, r = [NewSet(E, s) EXCEPT !.wanted_bufsize = w]
  PROVE  r \in FreshSet(E, w, Cardinality(E))
  BY DEF NewSet, FreshSet

\* One more file makes it the set of all of them.
LEMMA FreshGrows ==
  ASSUME NEW E, NEW w, NEW n, NEW x, NEW h \in FreshSet(E, w, n),
         NEW r, r = [h EXCEPT !.entry = With(@, x, NewEntry), !.list_size = @ + 1]
  PROVE  r \in FreshSet(E \cup {x}, w, n + 1)
  <1> DEFINE en == With(h.entry, x, NewEntry)
  <1>1. h.entry = [f \in E |-> NewEntry] /\ h.list_size = n
    BY DEF FreshSet
  <1>2. en = [f \in E \cup {x} |-> NewEntry]
    BY <1>1 DEF With
  <1>3. r = [h EXCEPT !.entry = en, !.list_size = n + 1]
    BY <1>1 DEF FreshSet
  <1> HIDE DEF en
  <1> QED BY <1>2, <1>3 DEF FreshSet

\* The size of its buffers is set.
LEMMA FreshWanted ==
  ASSUME NEW E, NEW w, NEW n, NEW v, NEW h \in FreshSet(E, w, n),
         NEW r, r = [h EXCEPT !.wanted_bufsize = v]
  PROVE  r \in FreshSet(E, v, n)
  BY DEF FreshSet

(* The lists, as they are handed from one function to the next. *)
ListFields == {"size_list", "head", "cached", "blocks", "counter", "inodes", "exited"}

InodeAdded(ino, f, inode) ==
  IF hardlink_is_unique THEN Append(ino, [file |-> f, inode |-> inode]) ELSE ino

\* A file's blocks are counted, and nothing else changes.
CountedIn(l, r, f, inode, s) ==
  /\ r.blocks = With(l.blocks, f, BlockNumbers(f, inode, s))
  /\ r.counter = l.counter + Len(BlockNumbers(f, inode, s))
  /\ r.inodes = InodeAdded(l.inodes, f, inode)

\* add_to_read_list() does this.
LEMMA ReadListAdded ==
  ASSUME NEW l, DOMAIN l = ListFields, NEW f, NEW inode, NEW s,
         NEW r, r = add_to_read_list(l, f, inode, s)
  PROVE  /\ DOMAIN r = ListFields /\ CountedIn(l, r, f, inode, s)
         /\ r.size_list = l.size_list /\ r.head = l.head /\ r.cached = l.cached
         /\ r.exited = l.exited
  BY DEF add_to_read_list, ListFields, CountedIn, InodeAdded

(* Only what belongs to s is different in the function r. *)
OnlyAt(g, s, r) == DOMAIN r = DOMAIN g \cup {s} /\ \A t \in DOMAIN g : t # s => r[t] = g[t]

\* From l to r: p is alone in a new set for s.
Began(l, r, p, s) ==
  /\ DOMAIN r = ListFields
  /\ OnlyAt(l.head, s, r.head) /\ r.head[s] \in FreshSet({p}, 0, 1)
  /\ OnlyAt(l.cached, s, r.cached) /\ r.cached[s] = TRUE
  /\ r.size_list = l.size_list /\ r.blocks = l.blocks /\ r.counter = l.counter
  /\ r.inodes = l.inodes /\ r.exited = l.exited

\* insert_first_path() makes a list of one file.
LEMMA FirstPathIs ==
  ASSUME NEW l, DOMAIN l = ListFields, NEW p, NEW s, NEW r, r = insert_first_path(l, p, s)
  PROVE  Began(l, r, p, s)
  <1> DEFINE h == [NewSet({p}, s) EXCEPT !.wanted_bufsize = 0]
  <1>1. h \in FreshSet({p}, 0, 1)
    BY NewSetFresh, FS_Singleton
  <1>2. r = [l EXCEPT !.head = With(@, s, h), !.cached = With(@, s, TRUE)]
    BY DEF insert_first_path
  <1> HIDE DEF h
  <1>3. r.head = With(l.head, s, h) /\ r.cached = With(l.cached, s, TRUE)
    BY <1>2 DEF ListFields
  <1>4. OnlyAt(l.head, s, r.head) /\ r.head[s] = h
    BY <1>3 DEF With, OnlyAt
  <1>5. OnlyAt(l.cached, s, r.cached) /\ r.cached[s] = TRUE
    BY <1>3 DEF With, OnlyAt
  <1>6. /\ DOMAIN r = ListFields
        /\ r.size_list = l.size_list /\ r.blocks = l.blocks /\ r.counter = l.counter
        /\ r.inodes = l.inodes /\ r.exited = l.exited
    BY <1>2 DEF ListFields
  <1> QED BY <1>1, <1>4, <1>5, <1>6 DEF Began

(* The end of insert_end_path(), with what add_to_read_list() returns. *)
EndOf(l, last, f, s) ==
  CASE l.exited # "none" -> l
    [] l.exited = "none" /\ ChecksCache(s) /\ disk[f] = Missing ->
         [last EXCEPT !.exited = "unable to stat"]
    [] OTHER -> [last EXCEPT !.cached[s] = @ /\ (ChecksCache(s) => CacheHashFound(f))]

(* From l, which has f in the set of s already, to r. *)
EndedWith(l, r, f, inode, s) ==
  /\ DOMAIN r = ListFields
  /\ r.size_list = l.size_list /\ r.head = l.head /\ CountedIn(l, r, f, inode, s)
  /\ OnlyAt(l.cached, s, r.cached)
  /\ \/ r.exited = "unable to stat" /\ disk[f] = Missing /\ r.cached = l.cached
     \/ r.exited = "none" /\ r.cached[s] = (l.cached[s] /\ (ChecksCache(s) => CacheHashFound(f)))

\* What insert_end_path() does when the rest went well.
LEMMA EndIs ==
  ASSUME NEW l, DOMAIN l = ListFields, l.exited = "none", NEW f, NEW inode, NEW s \in DOMAIN l.cached,
         NEW r, r = EndOf(l, add_to_read_list(l, f, inode, s), f, s)
  PROVE  EndedWith(l, r, f, inode, s)
  <1> DEFINE last == add_to_read_list(l, f, inode, s)
  <1>1. /\ DOMAIN last = ListFields /\ CountedIn(l, last, f, inode, s)
        /\ last.size_list = l.size_list /\ last.head = l.head /\ last.cached = l.cached
        /\ last.exited = "none"
    BY ReadListAdded
  <1> HIDE DEF last
  <1>0. r = EndOf(l, last, f, s)
    BY DEF last
  <1>2. CASE ChecksCache(s) /\ disk[f] = Missing
    <2>1. r = [last EXCEPT !.exited = "unable to stat"]
      BY <1>0, <1>2 DEF EndOf
    <2>2. /\ DOMAIN r = ListFields /\ r.blocks = last.blocks /\ r.counter = last.counter
          /\ r.inodes = last.inodes /\ r.size_list = last.size_list /\ r.head = last.head
          /\ r.cached = last.cached /\ r.exited = "unable to stat"
      BY <1>1, <2>1 DEF ListFields
    <2>3. OnlyAt(l.cached, s, r.cached)
      BY <1>1, <2>2 DEF OnlyAt
    <2> QED BY <1>1, <1>2, <2>2, <2>3 DEF EndedWith, CountedIn
  <1>3. CASE ~(ChecksCache(s) /\ disk[f] = Missing)
    <2> DEFINE v == last.cached[s] /\ (ChecksCache(s) => CacheHashFound(f))
    <2>1. r = [last EXCEPT !.cached[s] = @ /\ (ChecksCache(s) => CacheHashFound(f))]
      BY <1>0, <1>3 DEF EndOf
    <2>2. r = [last EXCEPT !.cached = [last.cached EXCEPT ![s] = v]]
      BY <2>1, Zenon
    <2> HIDE DEF v
    <2>3. /\ DOMAIN r = ListFields /\ r.blocks = last.blocks /\ r.counter = last.counter
          /\ r.inodes = last.inodes /\ r.size_list = last.size_list /\ r.head = last.head
          /\ r.cached = [last.cached EXCEPT ![s] = v] /\ r.exited = last.exited
      BY <1>1, <2>2 DEF ListFields
    <2>4. OnlyAt(l.cached, s, r.cached) /\ r.cached[s] = v
      <3>1. PICK c : c = l.cached
        OBVIOUS
      <3>2. s \in DOMAIN c /\ r.cached = [c EXCEPT ![s] = v]
        BY <1>1, <2>3, <3>1
      <3>3. DOMAIN r.cached = DOMAIN c \cup {s} /\ r.cached[s] = v
            /\ \A t \in DOMAIN c : t # s => r.cached[t] = c[t]
        BY <3>2
      <3> QED BY <3>1, <3>3 DEF OnlyAt
    <2>5. r.cached[s] = (l.cached[s] /\ (ChecksCache(s) => CacheHashFound(f)))
      BY <1>1, <2>4 DEF v
    <2> QED BY <1>1, <2>3, <2>4, <2>5 DEF EndedWith, CountedIn
  <1> QED BY <1>2, <1>3

\* From l to r: the set of s has become a set of n files, with f.
Extended(l, r, s, E, w, n) ==
  /\ DOMAIN r = ListFields
  /\ OnlyAt(l.head, s, r.head) /\ r.head[s] \in FreshSet(E, w, n)
  /\ r.size_list = l.size_list /\ r.cached = l.cached /\ r.blocks = l.blocks
  /\ r.counter = l.counter /\ r.inodes = l.inodes /\ r.exited = l.exited

\* insert_end_path() puts the file into the set.
LEMMA EntryAdded ==
  ASSUME NEW l, DOMAIN l = ListFields, NEW s \in DOMAIN l.head, NEW E, NEW w, NEW n,
         l.head[s] \in FreshSet(E, w, n), NEW f,
         NEW r, r = [l EXCEPT !.head[s].entry     = With(@, f, NewEntry),
                              !.head[s].list_size = @ + 1]
  PROVE  Extended(l, r, s, E \cup {f}, w, n + 1)
  <1> DEFINE h == [l.head[s] EXCEPT !.entry = With(@, f, NewEntry), !.list_size = @ + 1]
  <1>1. h \in FreshSet(E \cup {f}, w, n + 1)
    BY FreshGrows
  <1>2. /\ DOMAIN r = ListFields
        /\ r.size_list = l.size_list /\ r.cached = l.cached /\ r.blocks = l.blocks
        /\ r.counter = l.counter /\ r.inodes = l.inodes /\ r.exited = l.exited
    BY DEF ListFields
  <1>3. /\ DOMAIN r.head = DOMAIN l.head /\ \A t \in DOMAIN l.head : t # s => r.head[t] = l.head[t]
        /\ r.head[s] = h
    BY DEF ListFields
  <1> HIDE DEF h
  <1>4. OnlyAt(l.head, s, r.head)
    BY <1>3 DEF OnlyAt
  <1> QED BY <1>1, <1>2, <1>3, <1>4 DEF Extended

\* A set in the size list gets one more file.
LEMMA OtherPathIs ==
  ASSUME NEW l, DOMAIN l = ListFields, l.exited = "none", NEW s \in DOMAIN l.head,
         s \in DOMAIN l.cached, NEW E, NEW w, NEW n \in Nat, n > 1,
         l.head[s] \in FreshSet(E, w, n), NEW f, NEW inode,
         NEW r, r = insert_end_path(l, f, inode, s)
  PROVE  \E a : Extended(l, a, s, E \cup {f}, w, n + 1) /\ EndedWith(a, r, f, inode, s)
  <1> DEFINE a == [l EXCEPT !.head[s].entry     = With(@, f, NewEntry),
                            !.head[s].list_size = @ + 1]
  <1>1. r = EndOf(IF a.head[s].list_size = 2 THEN SecondPath(a, f, s) ELSE a,
                  add_to_read_list(IF a.head[s].list_size = 2 THEN SecondPath(a, f, s) ELSE a,
                                   f, inode, s), f, s)
    BY Zenon DEF insert_end_path, EndOf
  <1>2. PICK b : b = a
    OBVIOUS
  <1>3. Extended(l, b, s, E \cup {f}, w, n + 1)
    BY <1>2, EntryAdded
  <1>4. /\ DOMAIN b = ListFields /\ b.exited = "none" /\ b.cached = l.cached
        /\ b.head[s].list_size = n + 1
    BY <1>3 DEF Extended, FreshSet
  <1> HIDE DEF a
  <1>5. r = EndOf(b, add_to_read_list(b, f, inode, s), f, s)
    BY <1>1, <1>2, <1>4
  <1>6. EndedWith(b, r, f, inode, s)
    BY <1>4, <1>5, EndIs
  <1> QED BY <1>3, <1>6

\* From l to r: the set of s, of p and f, is in the size list, and p was looked
\* up again.
Doubled(l, r, p, f, s) ==
  /\ DOMAIN r = ListFields /\ r.size_list = Append(l.size_list, s)
  /\ OnlyAt(l.head, s, r.head) /\ r.head[s] \in FreshSet({p, f}, FirstBufsize(s), 2)
  /\ OnlyAt(l.cached, s, r.cached)
  /\ \/ r.exited = "unable to stat" /\ disk[p] = Missing /\ r.cached = l.cached
     \/ /\ r.exited = "none" /\ disk[p] # Missing /\ CountedIn(l, r, p, disk[p], s)
        /\ r.cached[s] = (ChecksCache(s) /\ CacheHashFound(p))

\* SecondPath() of the file f, after p.
LEMMA SecondPathIs ==
  ASSUME NEW l, DOMAIN l = ListFields, l.exited = "none", NEW s \in DOMAIN l.head,
         s \in DOMAIN l.cached, l.cached[s] = TRUE, NEW f, NEW p, p # f, NEW w,
         l.head[s] \in FreshSet({p, f}, w, 2),
         NEW r, r = SecondPath(l, f, s)
  PROVE  Doubled(l, r, p, f, s)
  <1>1. DOMAIN l.head[s].entry = {p, f}
    BY DEF FreshSet
  <1>2. (CHOOSE q \in DOMAIN l.head[s].entry : q # f) = p
    BY <1>1
  <1> DEFINE listed == [l EXCEPT !.size_list = Append(@, s),
                                 !.head[s].wanted_bufsize = FirstBufsize(s)]
             h == [l.head[s] EXCEPT !.wanted_bufsize = FirstBufsize(s)]
  <1>3. h \in FreshSet({p, f}, FirstBufsize(s), 2)
    BY FreshWanted
  <1>4. /\ DOMAIN listed = ListFields /\ listed.size_list = Append(l.size_list, s)
        /\ listed.cached = l.cached /\ listed.blocks = l.blocks
        /\ listed.counter = l.counter /\ listed.inodes = l.inodes /\ listed.exited = l.exited
    BY DEF ListFields
  <1>5. /\ DOMAIN listed.head = DOMAIN l.head
        /\ \A t \in DOMAIN l.head : t # s => listed.head[t] = l.head[t]
        /\ listed.head[s] = h
    BY DEF ListFields
  <1> HIDE DEF h
  <1>6. OnlyAt(l.head, s, listed.head)
    BY <1>5 DEF OnlyAt
  <1>7. r = IF disk[p] = Missing THEN [listed EXCEPT !.exited = "unable to stat"]
            ELSE [add_to_read_list(listed, p, disk[p], s)
                    EXCEPT !.cached[s] = @ /\ ChecksCache(s) /\ CacheHashFound(p)]
    <2> DEFINE prior == CHOOSE q \in DOMAIN l.head[s].entry : q # f
    <2>1. r = IF disk[prior] = Missing THEN [listed EXCEPT !.exited = "unable to stat"]
              ELSE [add_to_read_list(listed, prior, disk[prior], s)
                      EXCEPT !.cached[s] = @ /\ ChecksCache(s) /\ CacheHashFound(prior)]
      BY Zenon DEF SecondPath
    <2>2. prior = p
      BY <1>2
    <2> HIDE DEF prior, listed
    <2> QED BY <2>1, <2>2
  <1> HIDE DEF listed
  <1>8. CASE disk[p] = Missing
    <2>1. r = [listed EXCEPT !.exited = "unable to stat"]
      BY <1>7, <1>8
    <2>2. /\ DOMAIN r = ListFields /\ r.size_list = listed.size_list /\ r.head = listed.head
          /\ r.cached = listed.cached /\ r.exited = "unable to stat"
      BY <1>4, <2>1 DEF ListFields
    <2>3. OnlyAt(l.cached, s, r.cached)
      BY <1>4, <2>2 DEF OnlyAt
    <2> QED BY <1>3, <1>4, <1>5, <1>6, <1>8, <2>2, <2>3 DEF Doubled
  <1>9. CASE disk[p] # Missing
    <2>1. PICK c : c = add_to_read_list(listed, p, disk[p], s)
      OBVIOUS
    <2>2. /\ DOMAIN c = ListFields /\ CountedIn(listed, c, p, disk[p], s)
          /\ c.size_list = listed.size_list /\ c.head = listed.head /\ c.cached = listed.cached
          /\ c.exited = listed.exited
      BY <1>4, <2>1, ReadListAdded
    <2> DEFINE v == c.cached[s] /\ ChecksCache(s) /\ CacheHashFound(p)
    <2>3. r = [c EXCEPT !.cached[s] = @ /\ ChecksCache(s) /\ CacheHashFound(p)]
      BY <1>7, <1>9, <2>1
    <2>4. r = [c EXCEPT !.cached = [c.cached EXCEPT ![s] = v]]
      BY <2>3, Zenon
    <2>5. v = (ChecksCache(s) /\ CacheHashFound(p))
      BY <1>4, <2>2
    <2> HIDE DEF v
    <2>6. /\ DOMAIN r = ListFields /\ r.blocks = c.blocks /\ r.counter = c.counter
          /\ r.inodes = c.inodes /\ r.size_list = c.size_list /\ r.head = c.head
          /\ r.cached = [c.cached EXCEPT ![s] = v] /\ r.exited = c.exited
      BY <2>2, <2>4 DEF ListFields
    <2>7. OnlyAt(l.cached, s, r.cached) /\ r.cached[s] = v
      <3>1. PICK g : g = l.cached
        OBVIOUS
      <3>2. s \in DOMAIN g /\ r.cached = [g EXCEPT ![s] = v]
        BY <1>4, <2>2, <2>6, <3>1
      <3>3. DOMAIN r.cached = DOMAIN g \cup {s} /\ r.cached[s] = v
            /\ \A t \in DOMAIN g : t # s => r.cached[t] = g[t]
        BY <3>2
      <3> QED BY <3>1, <3>3 DEF OnlyAt
    <2>8. CountedIn(l, r, p, disk[p], s)
      BY <1>4, <2>2, <2>6 DEF CountedIn
    <2>9. /\ r.size_list = Append(l.size_list, s) /\ r.head = listed.head /\ r.exited = "none"
      BY <1>4, <2>2, <2>6
    <2> QED BY <1>3, <1>5, <1>6, <1>9, <2>5, <2>6, <2>7, <2>8, <2>9 DEF Doubled
  <1> QED BY <1>8, <1>9

\* What becomes of the two files that make a set, p and then f.
NewPair(l, r, p, f, inode, s) ==
  /\ r.size_list = Append(l.size_list, s)
  /\ OnlyAt(l.head, s, r.head) /\ r.head[s] \in FreshSet({p, f}, FirstBufsize(s), 2)
  /\ OnlyAt(l.cached, s, r.cached) /\ r.cached[s] \in BOOLEAN
  /\ \/ r.exited = "unable to stat" /\ (disk[p] = Missing \/ disk[f] = Missing)
     \/ /\ r.exited = "none" /\ disk[p] # Missing
        /\ \E k : CountedIn(l, k, p, disk[p], s) /\ CountedIn(k, r, f, inode, s)
        /\ r.cached[s] => ChecksCache(s) /\ CacheHashFound(p) /\ CacheHashFound(f)

\* The second file of its size.
LEMMA PairIs ==
  ASSUME NEW l, DOMAIN l = ListFields, l.exited = "none", NEW s, s \notin DOMAIN l.head,
         NEW f, NEW p, p # f, NEW inode,
         NEW r, r = insert_end_path(insert_first_path(l, p, s), f, inode, s)
  PROVE  NewPair(l, r, p, f, inode, s)
  <1>1. PICK q : q = insert_first_path(l, p, s)
    OBVIOUS
  <1>2. Began(l, q, p, s)
    BY <1>1, FirstPathIs
  <1>3. /\ DOMAIN q = ListFields /\ s \in DOMAIN q.head /\ s \in DOMAIN q.cached
        /\ q.head[s] \in FreshSet({p}, 0, 1)
    BY <1>2 DEF OnlyAt, Began
  <1> DEFINE a == [q EXCEPT !.head[s].entry     = With(@, f, NewEntry),
                            !.head[s].list_size = @ + 1]
  <1>4. r = EndOf(IF a.head[s].list_size = 2 THEN SecondPath(a, f, s) ELSE a,
                  add_to_read_list(IF a.head[s].list_size = 2 THEN SecondPath(a, f, s) ELSE a,
                                   f, inode, s), f, s)
    <2>1. r = insert_end_path(q, f, inode, s)
      BY <1>1
    <2> QED BY <2>1, Zenon DEF insert_end_path, EndOf
  <1>5. PICK b : b = a
    OBVIOUS
  <1>6. Extended(q, b, s, {p, f}, 0, 2)
    <2>1. Extended(q, b, s, {p} \cup {f}, 0, 1 + 1)
      BY <1>3, <1>5, EntryAdded
    <2>2. {p} \cup {f} = {p, f} /\ 1 + 1 = 2
      OBVIOUS
    <2> QED BY <2>1, <2>2
  <1>8. /\ b.head[s] \in FreshSet({p, f}, 0, 2) /\ b.head[s].list_size = 2 /\ s \in DOMAIN b.head
        /\ DOMAIN b = ListFields /\ b.exited = "none" /\ s \in DOMAIN b.cached
        /\ b.cached[s] = TRUE
    BY <1>2, <1>3, <1>6 DEF FreshSet, OnlyAt, Extended, Began
  <1> HIDE DEF a
  <1>9. PICK k : k = SecondPath(b, f, s)
    OBVIOUS
  <1>10. r = EndOf(k, add_to_read_list(k, f, inode, s), f, s)
    BY <1>4, <1>5, <1>8, <1>9
  <1>11. Doubled(b, k, p, f, s)
    BY <1>8, <1>9, SecondPathIs
  <1>12. /\ OnlyAt(l.head, s, k.head) /\ OnlyAt(l.cached, s, k.cached)
         /\ k.size_list = Append(l.size_list, s) /\ s \in DOMAIN k.cached
         /\ k.head[s] \in FreshSet({p, f}, FirstBufsize(s), 2) /\ DOMAIN k = ListFields
         /\ b.blocks = l.blocks /\ b.counter = l.counter /\ b.inodes = l.inodes
    <2>1. /\ OnlyAt(l.head, s, q.head) /\ OnlyAt(q.head, s, b.head) /\ OnlyAt(b.head, s, k.head)
          /\ OnlyAt(l.cached, s, q.cached) /\ b.cached = q.cached /\ OnlyAt(b.cached, s, k.cached)
      BY <1>2, <1>6, <1>11 DEF Began, Extended, Doubled
    <2>2. OnlyAt(l.head, s, k.head) /\ OnlyAt(l.cached, s, k.cached) /\ s \in DOMAIN k.cached
      BY <2>1 DEF OnlyAt
    <2>3. /\ k.size_list = Append(b.size_list, s) /\ b.size_list = q.size_list
          /\ q.size_list = l.size_list /\ b.blocks = q.blocks /\ q.blocks = l.blocks
          /\ b.counter = q.counter /\ q.counter = l.counter
          /\ b.inodes = q.inodes /\ q.inodes = l.inodes
          /\ k.head[s] \in FreshSet({p, f}, FirstBufsize(s), 2) /\ DOMAIN k = ListFields
      BY <1>2, <1>6, <1>11 DEF Began, Extended, Doubled
    <2> QED BY <2>2, <2>3
  <1>13. CASE k.exited # "none"
    <2>1. r = k
      BY <1>10, <1>13 DEF EndOf
    <2>2. k.cached[s] = TRUE /\ k.exited = "unable to stat" /\ disk[p] = Missing
      BY <1>8, <1>11, <1>13 DEF Doubled
    <2> QED BY <1>12, <2>1, <2>2 DEF NewPair
  <1>14. CASE k.exited = "none"
    <2>1. EndedWith(k, r, f, inode, s)
      BY <1>10, <1>12, <1>14, EndIs
    <2>2. /\ CountedIn(b, k, p, disk[p], s) /\ disk[p] # Missing
          /\ k.cached[s] = (ChecksCache(s) /\ CacheHashFound(p))
      BY <1>11, <1>14 DEF Doubled
    <2>3. CountedIn(l, k, p, disk[p], s)
      BY <1>12, <2>2 DEF CountedIn
    <2>4. /\ r.size_list = k.size_list /\ r.head = k.head /\ CountedIn(k, r, f, inode, s)
          /\ OnlyAt(k.cached, s, r.cached)
          /\ \/ r.exited = "unable to stat" /\ disk[f] = Missing /\ r.cached = k.cached
             \/ r.exited = "none" /\ r.cached[s] = (k.cached[s] /\ (ChecksCache(s) => CacheHashFound(f)))
      BY <2>1 DEF EndedWith
    <2>5. OnlyAt(l.cached, s, r.cached)
      BY <1>12, <2>4 DEF OnlyAt
    <2>6. r.cached[s] \in BOOLEAN
      BY <2>2, <2>4
    <2>7. r.exited = "none" =>
            (r.cached[s] => ChecksCache(s) /\ CacheHashFound(p) /\ CacheHashFound(f))
      BY <2>2, <2>4
    <2> QED BY <1>12, <2>2, <2>3, <2>4, <2>5, <2>6, <2>7 DEF NewPair
  <1> QED BY <1>13, <1>14

-----------------------------------------------------------------------------
(* What holds in every state, of the tree and of the sets it leads to. *)

ScanTyped ==
  /\ seen \in [Files -> Inodes] /\ disk \in [Files -> Inodes \cup {Missing}]
  /\ cached \subseteq Files
  /\ hardlink_is_unique \in BOOLEAN /\ using_fiemap \in BOOLEAN
  /\ found \in 0 .. Cardinality(Files)
  /\ phase \in {"scan", "cached", "ready"} /\ size_node \in Nat \ {0}

TreeOK ==
  /\ node \in [DOMAIN node -> NodeType] /\ DOMAIN node \subseteq Sizes
  /\ Tree(node, tip, found)

(* A file is of one size; while nobody replaces it, of that size. *)
SizesOK ==
  /\ DOMAIN head = {s \in DOMAIN node : node[s].has_paths}
  /\ \A s \in DOMAIN node : ~node[s].has_paths => node[s].file \in Files
  /\ \A s \in Sizes : \A f \in FilesOfSize(s) :
       /\ f \in 1 .. found
       /\ disk[f] = seen[f] => sizeOf[seen[f]] = s
       /\ \A t \in Sizes : f \in FilesOfSize(t) => t = s

(* Every set is in the size list once, and has two files or more. *)
SetsOK ==
  /\ size_list \in Seq(DOMAIN head)
  /\ \A i, j \in 1 .. Len(size_list) : size_list[i] = size_list[j] => i = j
  /\ \A s \in DOMAIN head : /\ \E i \in 1 .. Len(size_list) : size_list[i] = s
                            /\ Cardinality(DOMAIN head[s].entry) > 1
  /\ DOMAIN have_cached_hashes = DOMAIN head
  /\ \A s \in DOMAIN head : /\ have_cached_hashes[s] \in BOOLEAN
                            /\ exited = "none" /\ have_cached_hashes[s] =>
                                 ChecksCache(s) /\ DOMAIN head[s].entry \subseteq cached

FreshOK ==
  phase = "scan" =>
    \A s \in DOMAIN head :
      head[s] \in FreshSet(DOMAIN head[s].entry, FirstBufsize(s), Cardinality(DOMAIN head[s].entry))

(* The block lists of files, and how many blocks they have. *)
Counts(bl, count) ==
  /\ \A f \in DOMAIN bl : bl[f] \in Seq(Nat) /\ bl[f] # << >>
  /\ count = SumFunctionOnSet([f \in DOMAIN bl |-> Len(bl[f])], DOMAIN bl)

BlocksOK ==
  exited = "none" =>
    /\ DOMAIN blocks = UNION {DOMAIN head[s].entry : s \in DOMAIN head}
    /\ Counts(blocks, read_block_counter)

(* The inodes of the files D, each once; of one nobody replaced it is the one
   that was found. *)
Inodelist(ino, D) ==
  /\ ino \in Seq([file : Files, inode : Inodes])
  /\ ~hardlink_is_unique => ino = << >>
  /\ hardlink_is_unique =>
       /\ {ino[i].file : i \in 1 .. Len(ino)} = D
       /\ \A i, j \in 1 .. Len(ino) : ino[i].file = ino[j].file => i = j
  /\ \A i \in 1 .. Len(ino) : disk[ino[i].file] = seen[ino[i].file] => ino[i].inode = seen[ino[i].file]

InodesOK == phase = "scan" /\ exited = "none" => Inodelist(inode_read_list, DOMAIN blocks)

-----------------------------------------------------------------------------
(* What add_file() does to them. *)

\* A file always has blocks.
LEMMA BlockNumbersAre ==
  ASSUME ScanTyped, NEW f \in Files, NEW inode \in Nat, NEW size \in Nat,
         NEW b, b = BlockNumbers(f, inode, size)
  PROVE  b \in Seq(Nat) /\ b # << >>
  <1> DEFINE ext == IF disk[f] = Missing THEN << >> ELSE extentsOf[disk[f]]
             open == disk[f] # Missing
             bl  == get_block_info_from_path(inode, size, using_fiemap, open, ext)
  <1>1. ext \in Seq([fe_logical : Nat, fe_length : Nat, fe_physical : Nat])
    BY SizeTreeAssumption DEF ScanTyped
  <1> HIDE DEF ext, open
  <1>2. \E n \in Nat \ {0} : Len(bl) = n /\ \A i \in 1 .. n : bl[i].block \in Nat
    <2>1. ASSUME NEW k \in Nat, NEW l, l = block_list_inode_only(k, size)
          PROVE  Len(l) = 1 /\ \A i \in 1 .. 1 : l[i].block \in Nat
      BY <2>1 DEF block_list_inode_only
    <2>2. CASE ~using_fiemap
      <3>1. bl = block_list_inode_only(inode, size)
        BY <2>2 DEF get_block_info_from_path
      <3> HIDE DEF bl
      <3>2. Len(bl) = 1 /\ \A i \in 1 .. 1 : bl[i].block \in Nat
        BY <2>1, <3>1
      <3> QED BY <3>2
    <2>3. CASE using_fiemap /\ (~open \/ ext = << >>)
      <3>1. bl = block_list_inode_only(0, size)
        BY <2>3 DEF get_block_info_from_path
      <3> HIDE DEF bl
      <3>2. Len(bl) = 1 /\ \A i \in 1 .. 1 : bl[i].block \in Nat
        BY <2>1, <3>1
      <3> QED BY <3>2
    <2>4. CASE using_fiemap /\ ~(~open \/ ext = << >>)
      <3>1. bl = BlocksOfExtents(ext, size)
        BY <2>4 DEF get_block_info_from_path
      <3> DEFINE n == IF Len(ext) < MaxExtents THEN Len(ext) ELSE MaxExtents
      <3>2. n \in Nat \ {0} /\ n <= Len(ext)
        <4>1. Len(ext) \in Nat \ {0} /\ MaxExtents \in Nat \ {0}
          BY <1>1, <2>4, BlockInfoAssumption
        <4> QED BY <4>1
      <3>3. \A i \in 1 .. n : BlockNumber(ext[i].fe_physical) \in Nat
        <4>1. \A i \in 1 .. n : ext[i].fe_physical \in Nat
          <5> HIDE DEF n
          <5> SUFFICES ASSUME NEW i \in 1 .. n PROVE ext[i].fe_physical \in Nat
            OBVIOUS
          <5>1. i \in 1 .. Len(ext)
            BY <1>1, <3>2, LenProperties
          <5>2. ext[i] \in [fe_logical : Nat, fe_length : Nat, fe_physical : Nat]
            BY <1>1, <5>1, ElementOfSeq
          <5> QED BY <5>2
        <4> QED BY <4>1 DEF BlockNumber
      <3>4. bl = [i \in 1 .. n |->
                    [start |-> ext[i].fe_logical,
                     len   |-> IF i = n THEN size - ext[i].fe_logical ELSE ext[i].fe_length,
                     block |-> BlockNumber(ext[i].fe_physical)]]
        BY <3>1 DEF BlocksOfExtents
      <3> HIDE DEF n, bl
      <3>5. Len(bl) = n
        BY <3>2, <3>4
      <3>6. \A i \in 1 .. n : bl[i].block \in Nat
        BY <3>3, <3>4
      <3> QED BY <3>2, <3>5, <3>6
    <2> QED BY <2>2, <2>3, <2>4
  <1> HIDE DEF bl
  <1>3. b = [i \in 1 .. Len(bl) |-> bl[i].block]
    BY DEF BlockNumbers, bl, ext, open
  <1>4. PICK n \in Nat \ {0} : Len(bl) = n /\ \A i \in 1 .. n : bl[i].block \in Nat
    BY <1>2
  <1>5. b \in [1 .. n -> Nat]
    BY <1>3, <1>4
  <1>6. b \in Seq(Nat) /\ Len(b) = n
    BY <1>5, FunctionIsSeq
  <1> QED BY <1>4, <1>6

\* A file's blocks are added to what is counted.
LEMMA CountsMore ==
  ASSUME NEW bl, IsFiniteSet(DOMAIN bl), NEW n, Counts(bl, n), NEW f, f \notin DOMAIN bl,
         NEW v \in Seq(Nat), v # << >>, NEW r, r = With(bl, f, v)
  PROVE  DOMAIN r = DOMAIN bl \cup {f} /\ Counts(r, n + Len(v))
  <1> DEFINE D == DOMAIN bl
             old == [x \in DOMAIN bl |-> Len(bl[x])]
             new == [x \in DOMAIN r |-> Len(r[x])]
  <1>1. DOMAIN r = D \cup {f} /\ r[f] = v /\ \A x \in D : r[x] = bl[x]
    BY DEF With
  <1>2. \A x \in D : bl[x] \in Seq(Nat) /\ bl[x] # << >>
    BY DEF Counts
  <1>3. n = SumFunctionOnSet(old, D)
    BY DEF Counts
  <1>4. \A x \in D : old[x] = new[x] /\ old[x] \in Int
    BY <1>1, <1>2, LenProperties
  <1>5. new[f] = Len(v) /\ Len(v) \in Nat
    BY <1>1, LenProperties
  <1>6. \A x \in D \cup {f} : new[x] \in Int
    BY <1>4, <1>5
  <1> HIDE DEF old, new
  <1>7. SumFunctionOnSet(old, D) = SumFunctionOnSet(new, D)
    BY <1>4, SumSame
  <1>8. SumFunctionOnSet(new, D \cup {f}) = new[f] + SumFunctionOnSet(new, (D \cup {f}) \ {f})
    <2>1. IsFiniteSet(D \cup {f})
      BY FS_AddElement
    <2> HIDE DEF D
    <2> QED BY <1>6, <2>1, SumRemove
  <1>9. (D \cup {f}) \ {f} = D
    OBVIOUS
  <1>10. SumFunctionOnSet(new, D) \in Int
    BY <1>6, SumTyped
  <1>11. n + Len(v) = SumFunctionOnSet(new, DOMAIN r)
    BY <1>1, <1>3, <1>5, <1>7, <1>8, <1>9, <1>10
  <1> QED BY <1>1, <1>2, <1>11 DEF Counts, new

\* A file's inode is added to the list of inodes.
LEMMA InodesMore ==
  ASSUME NEW ino, NEW D, Inodelist(ino, D), hardlink_is_unique \in BOOLEAN,
         NEW f \in Files, f \notin D, NEW inode \in Inodes, disk[f] = seen[f] => inode = seen[f]
  PROVE  Inodelist(InodeAdded(ino, f, inode), D \cup {f})
  <1>1. CASE ~hardlink_is_unique
    BY <1>1 DEF Inodelist, InodeAdded
  <1>2. CASE hardlink_is_unique
    <2> DEFINE e == [file |-> f, inode |-> inode]
    <2>1. PICK r : r = Append(ino, e)
      OBVIOUS
    <2>2. e.file = f /\ e.inode = inode /\ e \in [file : Files, inode : Inodes]
      OBVIOUS
    <2>3. /\ ino \in Seq([file : Files, inode : Inodes])
          /\ {ino[i].file : i \in 1 .. Len(ino)} = D
          /\ \A i, j \in 1 .. Len(ino) : ino[i].file = ino[j].file => i = j
          /\ \A i \in 1 .. Len(ino) : disk[ino[i].file] = seen[ino[i].file] => ino[i].inode = seen[ino[i].file]
      BY <1>2 DEF Inodelist
    <2> HIDE DEF e
    <2>4. /\ r \in Seq([file : Files, inode : Inodes]) /\ Len(r) = Len(ino) + 1 /\ Len(ino) \in Nat
          /\ r[Len(ino) + 1] = e /\ \A i \in 1 .. Len(ino) : r[i] = ino[i]
      BY <2>1, <2>2, <2>3, AppendProperties
    <2>5. 1 .. Len(r) = (1 .. Len(ino)) \cup {Len(ino) + 1}
      BY <2>4
    <2>6. {r[i].file : i \in 1 .. Len(r)} = D \cup {f}
      BY <2>2, <2>3, <2>4, <2>5
    <2>7. \A i \in 1 .. Len(ino) : r[i].file # f
      BY <2>3, <2>4
    <2>8. \A i, j \in 1 .. Len(r) : r[i].file = r[j].file => i = j
      BY <2>2, <2>3, <2>4, <2>5, <2>7
    <2>9. \A i \in 1 .. Len(r) : disk[r[i].file] = seen[r[i].file] => r[i].inode = seen[r[i].file]
      BY <2>2, <2>3, <2>4, <2>5
    <2>10. Inodelist(r, D \cup {f})
      BY <1>2, <2>4, <2>6, <2>8, <2>9 DEF Inodelist
    <2> QED BY <1>2, <2>1, <2>10 DEF InodeAdded, e
  <1> QED BY <1>1, <1>2

\* What add_to_read_list() keeps.
LEMMA CountedKeeps ==
  ASSUME ScanTyped, NEW l, NEW r, NEW f \in Files, NEW inode \in Inodes, NEW s \in Nat,
         CountedIn(l, r, f, inode, s), f \notin DOMAIN l.blocks, IsFiniteSet(DOMAIN l.blocks),
         Counts(l.blocks, l.counter), Inodelist(l.inodes, DOMAIN l.blocks),
         disk[f] = seen[f] => inode = seen[f]
  PROVE  /\ DOMAIN r.blocks = DOMAIN l.blocks \cup {f}
         /\ Counts(r.blocks, r.counter) /\ Inodelist(r.inodes, DOMAIN r.blocks)
  <1>1. PICK v : v = BlockNumbers(f, inode, s)
    OBVIOUS
  <1>2. inode \in Nat
    BY SizeTreeAssumption
  <1>3. v \in Seq(Nat) /\ v # << >>
    BY <1>1, <1>2, BlockNumbersAre
  <1>4. /\ r.blocks = With(l.blocks, f, v) /\ r.counter = l.counter + Len(v)
        /\ r.inodes = InodeAdded(l.inodes, f, inode)
    BY <1>1 DEF CountedIn
  <1>5. DOMAIN r.blocks = DOMAIN l.blocks \cup {f} /\ Counts(r.blocks, l.counter + Len(v))
    BY <1>3, <1>4, CountsMore
  <1>6. Inodelist(InodeAdded(l.inodes, f, inode), DOMAIN l.blocks \cup {f})
    <2>1. hardlink_is_unique \in BOOLEAN
      BY DEF ScanTyped
    <2> QED BY <2>1, InodesMore
  <1> QED BY <1>4, <1>5, <1>6

\* The files of a size in the tree; those of a set are more than one.
LEMMA FilesOfSizeAre ==
  ASSUME ScanTyped, SizesOK, SetsOK, NEW s \in Sizes
  PROVE  /\ s \in DOMAIN head => FilesOfSize(s) = DOMAIN head[s].entry
         /\ s \in DOMAIN node \ DOMAIN head => FilesOfSize(s) = {node[s].file}
         /\ s \notin DOMAIN node => FilesOfSize(s) = {}
         /\ IsFiniteSet(FilesOfSize(s)) /\ Cardinality(FilesOfSize(s)) \in Nat
         /\ FilesOfSize(s) \subseteq Files /\ FilesOfSize(s) \subseteq 1 .. found
         /\ s \in DOMAIN head => Cardinality(FilesOfSize(s)) > 1
         /\ s \in DOMAIN node \ DOMAIN head => Cardinality(FilesOfSize(s)) = 1
         /\ s \notin DOMAIN node => Cardinality(FilesOfSize(s)) = 0
  <1>1. /\ s \in DOMAIN head => FilesOfSize(s) = DOMAIN head[s].entry
        /\ s \in DOMAIN node \ DOMAIN head => FilesOfSize(s) = {node[s].file}
        /\ s \notin DOMAIN node => FilesOfSize(s) = {}
    BY DEF FilesOfSize, SizesOK
  <1>2. FilesOfSize(s) \subseteq 1 .. found /\ found \in 0 .. Cardinality(Files)
    BY DEF SizesOK, ScanTyped
  <1>3. Cardinality(Files) \in Nat /\ Files = 1 .. Cardinality(Files) /\ IsFiniteSet(Files)
    BY SizeTreeAssumption, FS_CardinalityType
  <1>4. FilesOfSize(s) \subseteq Files
    BY <1>2, <1>3
  <1>5. IsFiniteSet(FilesOfSize(s)) /\ Cardinality(FilesOfSize(s)) \in Nat
    BY <1>3, <1>4, FS_Subset, FS_CardinalityType
  <1>6. s \in DOMAIN head => Cardinality(FilesOfSize(s)) > 1
    BY <1>1 DEF SetsOK
  <1>7. s \in DOMAIN node \ DOMAIN head => Cardinality(FilesOfSize(s)) = 1
    BY <1>1, FS_Singleton
  <1>8. s \notin DOMAIN node => Cardinality(FilesOfSize(s)) = 0
    BY <1>1, FS_EmptySet
  <1> QED BY <1>1, <1>2, <1>4, <1>5, <1>6, <1>7, <1>8

(* In the lists r, a second or later file of size s has been added to the
   others. *)
Joins(r, f, s) ==
  LET all == FilesOfSize(s) \cup {f} IN
  /\ OnlyAt(head, s, r.head)
  /\ r.head[s] \in FreshSet(all, FirstBufsize(s), Cardinality(FilesOfSize(s)) + 1)
  /\ r.size_list = IF s \in DOMAIN head THEN size_list ELSE Append(size_list, s)
  /\ OnlyAt(have_cached_hashes, s, r.cached) /\ r.cached[s] \in BOOLEAN
  /\ r.exited # "none" => \E g \in all : disk[g] = Missing
  /\ r.exited = "none" =>
       /\ r.cached[s] => ChecksCache(s) /\ all \subseteq cached
       /\ DOMAIN r.blocks = DOMAIN blocks \cup all
       /\ Counts(r.blocks, r.counter) /\ Inodelist(r.inodes, DOMAIN r.blocks)

\* The fields of the lists, as they are in a state.
LEMMA ListsAre ==
  /\ DOMAIN Lists = ListFields
  /\ Lists.size_list = size_list /\ Lists.head = head /\ Lists.cached = have_cached_hashes
  /\ Lists.blocks = blocks /\ Lists.counter = read_block_counter
  /\ Lists.inodes = inode_read_list /\ Lists.exited = exited
  BY DEF Lists, ListFields

ScanOK == ScanTyped /\ TreeOK /\ SizesOK /\ SetsOK /\ FreshOK /\ BlocksOK /\ InodesOK

\* The blocks counted are those of files given to add_file().
LEMMA BlocksFound ==
  ASSUME ScanTyped, TreeOK, SizesOK, BlocksOK, exited = "none"
  PROVE  DOMAIN blocks \subseteq 1 .. found /\ IsFiniteSet(DOMAIN blocks)
  <1>1. \A s \in DOMAIN head : s \in Sizes /\ DOMAIN head[s].entry \subseteq 1 .. found
    <2> SUFFICES ASSUME NEW s \in DOMAIN head PROVE s \in Sizes /\ DOMAIN head[s].entry \subseteq 1 .. found
      OBVIOUS
    <2>1. s \in Sizes
      BY DEF TreeOK, SizesOK
    <2>2. FilesOfSize(s) = DOMAIN head[s].entry
      BY DEF FilesOfSize
    <2> QED BY <2>1, <2>2 DEF SizesOK
  <1>2. DOMAIN blocks \subseteq 1 .. found
    BY <1>1 DEF BlocksOK
  <1>3. found \in Nat /\ IsFiniteSet(1 .. found)
    <2>1. found \in Nat
      BY SizeTreeAssumption, FS_CardinalityType DEF ScanTyped
    <2> QED BY <2>1, FS_Interval
  <1> QED BY <1>2, <1>3, FS_Subset

\* insert_end_path() of a third or later file.
LEMMA OtherJoins ==
  ASSUME ScanOK, phase = "scan", exited = "none", NEW f \in Files, f = found + 1,
         NEW inode \in Inodes, inode \in {seen[f], disk[f]}, NEW s, s = sizeOf[inode],
         s \in DOMAIN head, NEW r, r = insert_end_path(Lists, f, inode, s)
  PROVE  Joins(r, f, s)
  <1> DEFINE E == FilesOfSize(s)
             n == Cardinality(E)
  <1>1. s \in Sizes /\ s \in Nat
    BY SizeTreeAssumption DEF Sizes
  <1>2. /\ E = DOMAIN head[s].entry /\ n \in Nat /\ n > 1 /\ E \subseteq 1 .. found
    BY <1>1, FilesOfSizeAre DEF ScanOK
  <1>3. head[s] \in FreshSet(E, FirstBufsize(s), n)
    BY <1>2 DEF ScanOK, FreshOK
  <1>4. f \notin DOMAIN blocks /\ IsFiniteSet(DOMAIN blocks) /\ f \notin E
    <2>1. f \notin 1 .. found
      BY SizeTreeAssumption, FS_CardinalityType DEF ScanOK, ScanTyped
    <2> QED BY <1>2, <2>1, BlocksFound DEF ScanOK
  <1>5. s \in DOMAIN have_cached_hashes
    BY DEF ScanOK, SetsOK
  <1> HIDE DEF E, n
  <1>6. PICK l : l = Lists
    OBVIOUS
  <1>7. /\ DOMAIN l = ListFields
        /\ l.size_list = size_list /\ l.head = head /\ l.cached = have_cached_hashes
        /\ l.blocks = blocks /\ l.counter = read_block_counter
        /\ l.inodes = inode_read_list /\ l.exited = "none"
    BY <1>6, ListsAre
  <1>8. \E a : Extended(l, a, s, E \cup {f}, FirstBufsize(s), n + 1) /\ EndedWith(a, r, f, inode, s)
    <2>1. r = insert_end_path(l, f, inode, s)
      BY <1>6
    <2>2. l.head[s] \in FreshSet(E, FirstBufsize(s), n) /\ s \in DOMAIN l.head /\ s \in DOMAIN l.cached
      BY <1>3, <1>5, <1>7
    <2> QED BY <1>2, <1>7, <2>1, <2>2, OtherPathIs DEF n
  <1>9. PICK a : Extended(l, a, s, E \cup {f}, FirstBufsize(s), n + 1) /\ EndedWith(a, r, f, inode, s)
    BY <1>8
  <1>10. /\ OnlyAt(head, s, r.head) /\ r.head[s] \in FreshSet(E \cup {f}, FirstBufsize(s), n + 1)
         /\ r.size_list = size_list /\ OnlyAt(have_cached_hashes, s, r.cached)
         /\ a.cached = have_cached_hashes /\ CountedIn(a, r, f, inode, s)
         /\ a.blocks = blocks /\ a.counter = read_block_counter /\ a.inodes = inode_read_list
    BY <1>7, <1>9 DEF Extended, EndedWith
  <1>11. \/ r.exited = "unable to stat" /\ disk[f] = Missing /\ r.cached = have_cached_hashes
         \/ /\ r.exited = "none"
            /\ r.cached[s] = (have_cached_hashes[s] /\ (ChecksCache(s) => CacheHashFound(f)))
    BY <1>9, <1>10 DEF EndedWith
  <1>12. /\ have_cached_hashes[s] \in BOOLEAN
         /\ have_cached_hashes[s] => ChecksCache(s) /\ E \subseteq cached
    BY <1>2 DEF ScanOK, SetsOK, E
  <1>13. r.cached[s] \in BOOLEAN /\ (r.exited # "none" => disk[f] = Missing)
    BY <1>11, <1>12
  <1>14. r.exited = "none" /\ r.cached[s] => ChecksCache(s) /\ E \cup {f} \subseteq cached
    BY <1>11, <1>12 DEF CacheHashFound
  <1>15. /\ DOMAIN r.blocks = DOMAIN blocks \cup {f}
         /\ Counts(r.blocks, r.counter) /\ Inodelist(r.inodes, DOMAIN r.blocks)
    <2>1. Counts(blocks, read_block_counter) /\ Inodelist(inode_read_list, DOMAIN blocks)
      BY DEF ScanOK, BlocksOK, InodesOK
    <2>2. disk[f] = seen[f] => inode = seen[f]
      OBVIOUS
    <2>3. CountedIn(a, r, f, inode, s) /\ ScanTyped
      BY <1>10 DEF ScanOK
    <2> QED BY <1>1, <1>4, <1>10, <2>1, <2>2, <2>3, CountedKeeps
  <1>16. E \subseteq DOMAIN blocks
    BY <1>2 DEF ScanOK, BlocksOK, E
  <1>17. DOMAIN blocks \cup {f} = DOMAIN blocks \cup (E \cup {f})
    BY <1>16
  <1> QED BY <1>10, <1>13, <1>14, <1>15, <1>17 DEF Joins, E, n

\* insert_first_path() and insert_end_path(), of the first file and the second.
LEMMA PairJoins ==
  ASSUME ScanOK, phase = "scan", exited = "none", NEW f \in Files, f = found + 1,
         NEW inode \in Inodes, inode \in {seen[f], disk[f]}, NEW s, s = sizeOf[inode],
         s \in DOMAIN node \ DOMAIN head,
         NEW r, r = insert_end_path(insert_first_path(Lists, node[s].file, s), f, inode, s)
  PROVE  Joins(r, f, s)
  <1>1. s \in Sizes /\ s \in Nat
    BY SizeTreeAssumption DEF Sizes
  <1>2. PICK p : p = node[s].file
    OBVIOUS
  <1>3. /\ FilesOfSize(s) = {p} /\ Cardinality(FilesOfSize(s)) = 1 /\ p \in Files /\ p \in 1 .. found
    BY <1>1, <1>2, FilesOfSizeAre DEF ScanOK
  <1>4. IsFiniteSet(DOMAIN blocks) /\ f \notin DOMAIN blocks /\ p # f
    <2>1. f \notin 1 .. found
      BY SizeTreeAssumption, FS_CardinalityType DEF ScanOK, ScanTyped
    <2> QED BY <1>3, <2>1, BlocksFound DEF ScanOK
  <1>5. p \notin DOMAIN blocks
    <2> SUFFICES ASSUME NEW t \in DOMAIN head, p \in DOMAIN head[t].entry PROVE FALSE
      BY DEF ScanOK, BlocksOK
    <2>1. t \in Sizes /\ FilesOfSize(t) = DOMAIN head[t].entry
      BY DEF ScanOK, TreeOK, SizesOK, FilesOfSize
    <2>2. t = s
      BY <1>1, <1>3, <2>1 DEF ScanOK, SizesOK
    <2> QED BY <2>2
  <1>6. PICK l : l = Lists
    OBVIOUS
  <1>7. /\ DOMAIN l = ListFields
        /\ l.size_list = size_list /\ l.head = head /\ l.cached = have_cached_hashes
        /\ l.blocks = blocks /\ l.counter = read_block_counter
        /\ l.inodes = inode_read_list /\ l.exited = "none"
    BY <1>6, ListsAre
  <1>8. NewPair(l, r, p, f, inode, s)
    <2>1. r = insert_end_path(insert_first_path(l, p, s), f, inode, s)
      BY <1>2, <1>6
    <2> QED BY <1>4, <1>7, <2>1, PairIs
  <1>9. {p} \cup {f} = {p, f} /\ 1 + 1 = 2
    OBVIOUS
  <1>10. /\ OnlyAt(head, s, r.head) /\ r.head[s] \in FreshSet({p} \cup {f}, FirstBufsize(s), 1 + 1)
         /\ r.size_list = Append(size_list, s) /\ OnlyAt(have_cached_hashes, s, r.cached)
         /\ r.cached[s] \in BOOLEAN
         /\ r.exited # "none" => disk[p] = Missing \/ disk[f] = Missing
    BY <1>7, <1>8, <1>9 DEF NewPair
  <1>11. ASSUME r.exited = "none"
         PROVE  /\ r.cached[s] => ChecksCache(s) /\ {p} \cup {f} \subseteq cached
                /\ DOMAIN r.blocks = DOMAIN blocks \cup ({p} \cup {f})
                /\ Counts(r.blocks, r.counter) /\ Inodelist(r.inodes, DOMAIN r.blocks)
    <2>1. /\ disk[p] # Missing
          /\ r.cached[s] => ChecksCache(s) /\ CacheHashFound(p) /\ CacheHashFound(f)
      BY <1>8, <1>11 DEF NewPair
    <2>2. PICK k : CountedIn(l, k, p, disk[p], s) /\ CountedIn(k, r, f, inode, s)
      BY <1>8, <1>11 DEF NewPair
    <2>3. disk[p] \in Inodes
      BY <1>3, <2>1 DEF ScanOK, ScanTyped
    <2>4. Counts(l.blocks, l.counter) /\ Inodelist(l.inodes, DOMAIN l.blocks)
      BY <1>7 DEF ScanOK, BlocksOK, InodesOK
    <2>5. /\ DOMAIN k.blocks = DOMAIN blocks \cup {p}
          /\ Counts(k.blocks, k.counter) /\ Inodelist(k.inodes, DOMAIN k.blocks)
      <3>1. ScanTyped /\ p \notin DOMAIN l.blocks /\ IsFiniteSet(DOMAIN l.blocks)
        BY <1>4, <1>5, <1>7 DEF ScanOK
      <3>2. disk[p] = seen[p] => disk[p] = seen[p]
        OBVIOUS
      <3> QED BY <1>1, <1>3, <1>7, <2>2, <2>3, <2>4, <3>1, <3>2, CountedKeeps
    <2>6. f \notin DOMAIN k.blocks /\ IsFiniteSet(DOMAIN k.blocks)
      BY <1>4, <2>5, FS_AddElement
    <2>7. disk[f] = seen[f] => inode = seen[f]
      OBVIOUS
    <2>8. /\ DOMAIN r.blocks = DOMAIN k.blocks \cup {f}
          /\ Counts(r.blocks, r.counter) /\ Inodelist(r.inodes, DOMAIN r.blocks)
      <3>1. ScanTyped
        BY DEF ScanOK
      <3> QED BY <1>1, <2>2, <2>5, <2>6, <2>7, <3>1, CountedKeeps
    <2> QED BY <2>1, <2>5, <2>8 DEF CacheHashFound
  <1> QED BY <1>3, <1>10, <1>11 DEF Joins

-----------------------------------------------------------------------------
(* The steps of the scan. *)

\* A file is left out: it cannot be looked up, or is too small.
Skipped == UNCHANGED <<tip, node, listvars, exited>>

\* The first file of size s waits in the tree.
Waits(f, s) ==
  /\ s \in Sizes \ DOMAIN node /\ Tree(node', tip', found + 1)
  /\ DOMAIN node' = DOMAIN node \cup {s} /\ node' \in [DOMAIN node' -> NodeType]
  /\ node'[s].file = f /\ ~node'[s].has_paths
  /\ \A t \in DOMAIN node : node'[t].file = node[t].file /\ node'[t].has_paths = node[t].has_paths
  /\ UNCHANGED <<listvars, exited>>

\* Another file of size s joins the first.
Gathers(f, s) ==
  /\ s \in DOMAIN node /\ tip' = tip
  /\ node' = [node EXCEPT ![s] = [@ EXCEPT !.file = NULL, !.has_paths = TRUE]]
  /\ \E r : UpdateLists(r) /\ Joins(r, f, s)

\* KeepFirst() of a size that is not in the tree.
LEMMA FirstWaits ==
  ASSUME ScanOK, NEW f \in Files, f = found + 1, NEW s \in Sizes, s # NULL, KeepFirst(f, s)
  PROVE  Waits(f, s)
  <1> DEFINE n == new_node(f)
  <1>1. /\ n \in NodeType /\ n.left = NULL /\ n.right = NULL /\ n.file = f /\ ~n.has_paths
    BY DEF new_node, NodeType
  <1>2. /\ node \in [DOMAIN node -> NodeType] /\ DOMAIN node \subseteq Sizes
        /\ Tree(node, tip, found) /\ found \in Nat
    BY SizeTreeAssumption, FS_CardinalityType DEF ScanOK, TreeOK, ScanTyped
  <1>3. /\ tip # NULL => Place(s) # s
        /\ IF tip = NULL
           THEN tip' = s /\ node' = With(node, s, n)
           ELSE /\ node' = Hung(node, Place(s), s, n)
                /\ UNCHANGED tip
        /\ UNCHANGED <<listvars, exited>>
    BY DEF KeepFirst, Hung
  <1> HIDE DEF n
  <1>4. CASE tip = NULL
    <2>1. DOMAIN node = {}
      BY <1>2, <1>4 DEF Tree
    <2>2. tip' = s /\ node' = With(node, s, n)
      BY <1>3, <1>4
    <2>3. DOMAIN node' = {s} /\ node'[s] = n /\ node' = [t \in {s} |-> n]
      BY <2>1, <2>2 DEF With
    <2>4. Tree(node', s, found + 1)
      BY <1>1, <1>2, <2>1, <2>2, FirstTree
    <2>5. node' \in [DOMAIN node' -> NodeType]
      BY <1>1, <2>3
    <2> QED BY <1>1, <1>3, <2>1, <2>2, <2>3, <2>4, <2>5 DEF Waits
  <1>5. CASE tip # NULL
    <2>1. PICK q : q = Place(s)
      OBVIOUS
    <2>2. Leading(node, tip, s, q) /\ s \notin DOMAIN node
      BY <1>2, <1>3, <1>5, <2>1, PlaceIs
    <2>3. PICK new : new = node' /\ new = Hung(node, q, s, n)
      BY <1>3, <1>5, <2>1
    <2>4. Grew(node, new, tip, found, s, n)
      BY <1>1, <1>2, <1>5, <2>2, <2>3, TreeGrows
    <2>5. new \in [DOMAIN new -> NodeType]
      <3>1. q \in DOMAIN node
        BY <2>2 DEF Leading
      <3> DEFINE bent == IF s > q THEN [node[q] EXCEPT !.left = s]
                         ELSE [node[q] EXCEPT !.right = s]
      <3>2. bent \in NodeType
        BY <1>2, <3>1 DEF NodeType
      <3>3. new = With([node EXCEPT ![q] = bent], s, n)
        BY <2>3 DEF Hung
      <3> HIDE DEF bent
      <3>4. [node EXCEPT ![q] = bent] \in [DOMAIN node -> NodeType]
        BY <1>2, <3>2
      <3> QED BY <1>1, <3>3, <3>4 DEF With
    <2>6. tip' = tip
      BY <1>3, <1>5
    <2> QED BY <1>1, <1>3, <2>2, <2>3, <2>4, <2>5, <2>6 DEF Waits, Grew
  <1> QED BY <1>4, <1>5

\* AddToPaths() of a size that is in the tree.
LEMMA PathsGather ==
  ASSUME ScanOK, phase = "scan", exited = "none", NEW f \in Files, f = found + 1,
         NEW inode \in Inodes, inode \in {seen[f], disk[f]}, NEW s, s = sizeOf[inode],
         AddToPaths(f, inode, s)
  PROVE  Gathers(f, s)
  <1>1. s \in Sizes
    BY DEF Sizes
  <1>2. found \in Nat /\ Tree(node, tip, found)
    BY SizeTreeAssumption, FS_CardinalityType DEF ScanOK, TreeOK, ScanTyped
  <1>3. s \in DOMAIN node
    BY <1>2, PlaceIs DEF AddToPaths
  <1>4. /\ tip' = tip
        /\ node' = [node EXCEPT ![s] = [@ EXCEPT !.file = NULL, !.has_paths = TRUE]]
        /\ UpdateLists(insert_end_path(IF node[s].has_paths THEN Lists
                       ELSE insert_first_path(Lists, node[s].file, s), f, inode, s))
    BY DEF AddToPaths
  <1>5. node[s].has_paths <=> s \in DOMAIN head
    BY <1>3 DEF ScanOK, SizesOK
  <1>6. CASE s \in DOMAIN head
    <2>1. UpdateLists(insert_end_path(Lists, f, inode, s))
      BY <1>4, <1>5, <1>6
    <2>2. Joins(insert_end_path(Lists, f, inode, s), f, s)
      BY <1>6, OtherJoins
    <2> QED BY <1>3, <1>4, <2>1, <2>2 DEF Gathers
  <1>7. CASE s \notin DOMAIN head
    <2>1. UpdateLists(insert_end_path(insert_first_path(Lists, node[s].file, s), f, inode, s))
      BY <1>4, <1>5, <1>7
    <2>2. Joins(insert_end_path(insert_first_path(Lists, node[s].file, s), f, inode, s), f, s)
      BY <1>3, <1>7, PairJoins
    <2> QED BY <1>3, <1>4, <2>1, <2>2 DEF Gathers
  <1> QED BY <1>6, <1>7

\* add_file() does one of these.
LEMMA AddFileIs ==
  ASSUME ScanOK, phase = "scan", AddFile
  PROVE  \E f \in Files :
           /\ f = found + 1 /\ found' = f /\ exited = "none" /\ UNCHANGED <<given, disk, changes>>
           /\ \/ Skipped
              \/ \E s \in Sizes : /\ Waits(f, s) \/ Gathers(f, s)
                                  /\ disk[f] = seen[f] => sizeOf[seen[f]] = s
  <1>1. PICK f : f = found + 1
    OBVIOUS
  <1>2. /\ f \in Files /\ found' = f /\ exited = "none" /\ UNCHANGED <<given, disk, changes>>
    BY <1>1 DEF AddFile
  <1>3. PICK inode \in {seen[f], disk[f]} :
           \/ SkipFile(inode)
           \/ /\ inode # Missing /\ sizeOf[inode] >= minimum_file_size
              /\ \/ KeepFirst(f, sizeOf[inode])
                 \/ AddToPaths(f, inode, sizeOf[inode])
    BY <1>1 DEF AddFile
  <1>4. CASE SkipFile(inode)
    <2>1. Skipped
      BY <1>4 DEF SkipFile, Skipped, treevars
    <2> QED BY <1>1, <1>2, <2>1
  <1>5. CASE /\ inode # Missing /\ sizeOf[inode] >= minimum_file_size
             /\ \/ KeepFirst(f, sizeOf[inode])
                \/ AddToPaths(f, inode, sizeOf[inode])
    <2>1. inode \in Inodes
      BY <1>2, <1>3, <1>5 DEF ScanOK, ScanTyped
    <2>2. PICK s : s = sizeOf[inode]
      OBVIOUS
    <2>3. s \in Sizes /\ s # NULL
      BY <1>5, <2>1, <2>2, SizeTreeAssumption DEF Sizes, NULL
    <2>4. disk[f] = seen[f] => sizeOf[seen[f]] = s
      BY <1>3, <2>2
    <2>5. CASE KeepFirst(f, sizeOf[inode])
      <3>1. Waits(f, s)
        BY <1>1, <1>2, <2>2, <2>3, <2>5, FirstWaits
      <3> QED BY <1>1, <1>2, <2>3, <2>4, <3>1
    <2>6. CASE AddToPaths(f, inode, sizeOf[inode])
      <3>1. Gathers(f, s)
        BY <1>1, <1>2, <1>3, <2>1, <2>2, <2>6, PathsGather
      <3> QED BY <1>1, <1>2, <2>3, <2>4, <3>1
    <2> QED BY <1>5, <2>5, <2>6
  <1> QED BY <1>3, <1>4, <1>5

-----------------------------------------------------------------------------
(* These steps keep the invariant, and group the files. *)

\* The next file is taken.
Taken(f) ==
  /\ f \in Files /\ f = found + 1 /\ found' = f /\ exited = "none"
  /\ UNCHANGED <<given, disk, phase, size_node>>

\* The files of size s have become one more.
GrowsAt(f, s) ==
  \A t \in Sizes : FilesOfSize(t)' = IF t = s THEN FilesOfSize(t) \cup {f} ELSE FilesOfSize(t)

\* Which files have been found.
LEMMA TakenIs ==
  ASSUME ScanTyped, NEW f, Taken(f)
  PROVE  /\ found \in Nat /\ found' = found + 1 /\ f \notin 1 .. found /\ f \in 1 .. found'
         /\ 1 .. found \subseteq 1 .. found' /\ ScanTyped'
  <1>1. Cardinality(Files) \in Nat /\ Files = 1 .. Cardinality(Files)
    BY SizeTreeAssumption, FS_CardinalityType
  <1>2. found \in Nat /\ f \in 1 .. Cardinality(Files) /\ f = found + 1 /\ found' = f
    BY <1>1 DEF Taken, ScanTyped
  <1>3. ScanTyped'
    BY <1>1, <1>2 DEF Taken, ScanTyped, given
  <1> QED BY <1>2, <1>3

\* A file that waits is alone with its size.
LEMMA WaitsGrows ==
  ASSUME ScanOK, NEW f, NEW s, Waits(f, s)
  PROVE  GrowsAt(f, s)
  <1>1. /\ s \notin DOMAIN node /\ s \notin DOMAIN head /\ head' = head
        /\ DOMAIN node' = DOMAIN node \cup {s} /\ node'[s].file = f
        /\ \A t \in DOMAIN node : node'[t].file = node[t].file
    BY DEF Waits, listvars, ScanOK, SizesOK
  <1> QED BY <1>1 DEF GrowsAt, FilesOfSize

\* A file that joins others makes them one more.
LEMMA GathersGrows ==
  ASSUME ScanOK, NEW f, NEW s \in Sizes, Gathers(f, s)
  PROVE  GrowsAt(f, s)
  <1>1. PICK r : UpdateLists(r) /\ Joins(r, f, s)
    BY DEF Gathers
  <1>2. /\ DOMAIN head' = DOMAIN head \cup {s} /\ \A t \in DOMAIN head : t # s => head'[t] = head[t]
        /\ head'[s].entry = [g \in FilesOfSize(s) \cup {f} |-> NewEntry]
    BY <1>1 DEF UpdateLists, Joins, OnlyAt, FreshSet
  <1>3. DOMAIN node' = DOMAIN node /\ \A t \in DOMAIN node : t # s => node'[t] = node[t]
    BY DEF Gathers
  <1>4. DOMAIN head'[s].entry = FilesOfSize(s) \cup {f}
    BY <1>2
  <1>5. ASSUME NEW t \in Sizes
        PROVE  FilesOfSize(t)' = IF t = s THEN FilesOfSize(t) \cup {f} ELSE FilesOfSize(t)
    <2>1. CASE t = s
      <3>1. FilesOfSize(s)' = DOMAIN head'[s].entry
        BY <1>2 DEF FilesOfSize
      <3> QED BY <1>4, <2>1, <3>1
    <2>2. CASE t # s
      BY <1>2, <1>3, <2>2 DEF FilesOfSize
    <2> QED BY <2>1, <2>2
  <1> QED BY <1>5 DEF GrowsAt

\* A file of one size is not of another.
LEMMA OneSizeKept ==
  ASSUME ScanOK, NEW f, Taken(f), NEW s \in Sizes, disk[f] = seen[f] => sizeOf[seen[f]] = s,
         GrowsAt(f, s)
  PROVE  \A t \in Sizes : \A g \in FilesOfSize(t)' :
           /\ g \in 1 .. found'
           /\ disk'[g] = seen'[g] => sizeOf[seen'[g]] = t
           /\ \A u \in Sizes : g \in FilesOfSize(u)' => u = t
  <1>1. /\ f \notin 1 .. found /\ f \in 1 .. found' /\ 1 .. found \subseteq 1 .. found'
        /\ disk' = disk /\ seen' = seen
    BY TakenIs DEF ScanOK, Taken, given
  <1>2. \A t \in Sizes : \A g \in FilesOfSize(t) :
          /\ g \in 1 .. found
          /\ disk[g] = seen[g] => sizeOf[seen[g]] = t
          /\ \A u \in Sizes : g \in FilesOfSize(u) => u = t
    BY DEF ScanOK, SizesOK
  <1>3. \A t \in Sizes : FilesOfSize(t)' = IF t = s THEN FilesOfSize(t) \cup {f} ELSE FilesOfSize(t)
    BY DEF GrowsAt
  <1> SUFFICES ASSUME NEW t \in Sizes, NEW g \in FilesOfSize(t)'
               PROVE  /\ g \in 1 .. found'
                      /\ disk[g] = seen[g] => sizeOf[seen[g]] = t
                      /\ \A u \in Sizes : g \in FilesOfSize(u)' => u = t
    BY <1>1
  <1>4. CASE g = f
    <2>1. \A u \in Sizes : f \notin FilesOfSize(u)
      BY <1>1, <1>2
    <2>2. \A u \in Sizes : f \in FilesOfSize(u)' => u = s
      BY <1>3, <2>1
    <2>3. t = s
      BY <1>4, <2>2
    <2> QED BY <1>1, <1>4, <2>2, <2>3
  <1>5. CASE g # f
    <2>1. \A u \in Sizes : g \in FilesOfSize(u)' => g \in FilesOfSize(u)
      BY <1>3, <1>5
    <2> QED BY <1>1, <1>2, <2>1
  <1> QED BY <1>4, <1>5

\* A file left out changes no set.
LEMMA SkippedKeeps ==
  ASSUME ScanOK, NEW f, Taken(f), Skipped
  PROVE  ScanOK'
  <1>1. ScanTyped' /\ found' = found + 1 /\ found \in Nat /\ 1 .. found \subseteq 1 .. found'
    BY TakenIs DEF ScanOK
  <1>2. /\ UNCHANGED <<given, disk, phase, tip, node, size_list, head, have_cached_hashes, blocks>>
        /\ UNCHANGED <<read_block_counter, inode_read_list, exited>>
    BY DEF Taken, Skipped, listvars
  <1>3. TreeOK'
    <2>1. Tree(node, tip, found + 1)
      BY <1>1, SameTree DEF ScanOK, TreeOK
    <2> QED BY <1>1, <1>2, <2>1 DEF ScanOK, TreeOK
  <1>4. SizesOK'
    <2>1. \A t : FilesOfSize(t)' = FilesOfSize(t)
      BY <1>2 DEF FilesOfSize
    <2>2. seen' = seen
      BY <1>2 DEF given
    <2> QED BY <1>1, <1>2, <2>1, <2>2 DEF ScanOK, SizesOK
  <1>5. SetsOK' /\ FreshOK' /\ BlocksOK'
    <2>1. cached' = cached
      BY <1>2 DEF given
    <2> QED BY <1>2, <2>1 DEF ScanOK, SetsOK, FreshOK, BlocksOK, ChecksCache
  <1>6. InodesOK'
    BY <1>2 DEF ScanOK, InodesOK, Inodelist, given
  <1> QED BY <1>1, <1>3, <1>4, <1>5, <1>6 DEF ScanOK

\* A file that waits.
LEMMA WaitsKeeps ==
  ASSUME ScanOK, NEW f, Taken(f), NEW s \in Sizes, disk[f] = seen[f] => sizeOf[seen[f]] = s,
         Waits(f, s)
  PROVE  ScanOK'
  <1>1. ScanTyped' /\ found' = found + 1 /\ found \in Nat
    BY TakenIs DEF ScanOK
  <1>2. /\ UNCHANGED <<given, disk, phase, size_list, head, have_cached_hashes, blocks>>
        /\ UNCHANGED <<read_block_counter, inode_read_list, exited>>
    BY DEF Taken, Waits, listvars
  <1>3. TreeOK'
    BY <1>1 DEF Waits, ScanOK, TreeOK
  <1>4. SizesOK'
    <2>1. DOMAIN head' = {t \in DOMAIN node' : node'[t].has_paths}
      <3>1. /\ DOMAIN node' = DOMAIN node \cup {s} /\ s \notin DOMAIN node /\ ~node'[s].has_paths
            /\ \A t \in DOMAIN node : node'[t].has_paths = node[t].has_paths
        BY DEF Waits
      <3>2. DOMAIN head = {t \in DOMAIN node : node[t].has_paths} /\ head' = head
        BY <1>2 DEF ScanOK, SizesOK
      <3> QED BY <3>1, <3>2
    <2>2. \A t \in DOMAIN node' : ~node'[t].has_paths => node'[t].file \in Files
      BY DEF Waits, Taken, ScanOK, SizesOK
    <2>3. \A t \in Sizes : \A g \in FilesOfSize(t)' :
           /\ g \in 1 .. found'
           /\ disk'[g] = seen'[g] => sizeOf[seen'[g]] = t
           /\ \A u \in Sizes : g \in FilesOfSize(u)' => u = t
      BY OneSizeKept, WaitsGrows
    <2> QED BY <2>1, <2>2, <2>3 DEF SizesOK
  <1>5. SetsOK' /\ FreshOK' /\ BlocksOK'
    <2>1. cached' = cached
      BY <1>2 DEF given
    <2> QED BY <1>2, <2>1 DEF ScanOK, SetsOK, FreshOK, BlocksOK, ChecksCache
  <1>6. InodesOK'
    BY <1>2 DEF ScanOK, InodesOK, Inodelist, given
  <1> QED BY <1>1, <1>3, <1>4, <1>5, <1>6 DEF ScanOK

\* A file that joins others.
LEMMA GathersKeeps ==
  ASSUME ScanOK, phase = "scan", NEW f, Taken(f), NEW s \in Sizes,
         disk[f] = seen[f] => sizeOf[seen[f]] = s, Gathers(f, s)
  PROVE  ScanOK'
  <1> DEFINE E == FilesOfSize(s) \cup {f}
  <1>1. ScanTyped' /\ found' = found + 1 /\ found \in Nat /\ f \notin 1 .. found
    BY TakenIs DEF ScanOK
  <1>2. UNCHANGED <<given, disk, phase>> /\ exited = "none"
    BY DEF Taken
  <1>3. PICK r : UpdateLists(r) /\ Joins(r, f, s)
    BY DEF Gathers
  <1>4. /\ size_list' = r.size_list /\ head' = r.head /\ have_cached_hashes' = r.cached
        /\ blocks' = r.blocks /\ read_block_counter' = r.counter /\ inode_read_list' = r.inodes
        /\ exited' = r.exited
    BY <1>3 DEF UpdateLists
  <1>5. /\ OnlyAt(head, s, head')
        /\ head'[s] \in FreshSet(E, FirstBufsize(s), Cardinality(FilesOfSize(s)) + 1)
        /\ size_list' = IF s \in DOMAIN head THEN size_list ELSE Append(size_list, s)
        /\ OnlyAt(have_cached_hashes, s, have_cached_hashes')
        /\ have_cached_hashes'[s] \in BOOLEAN
        /\ exited' = "none" =>
             /\ have_cached_hashes'[s] => ChecksCache(s) /\ E \subseteq cached
             /\ DOMAIN blocks' = DOMAIN blocks \cup E
             /\ Counts(blocks', read_block_counter')
             /\ Inodelist(inode_read_list', DOMAIN blocks')
    BY <1>3, <1>4 DEF Joins
  <1>6. /\ IsFiniteSet(FilesOfSize(s)) /\ Cardinality(FilesOfSize(s)) \in Nat
        /\ FilesOfSize(s) \subseteq 1 .. found /\ s \in DOMAIN node
        /\ s \in DOMAIN head => FilesOfSize(s) = DOMAIN head[s].entry
        /\ Cardinality(FilesOfSize(s)) > 0
    <2>1. s \in DOMAIN node
      BY DEF Gathers
    <2> QED BY <2>1, FilesOfSizeAre DEF ScanOK
  <1>7. DOMAIN head'[s].entry = E /\ Cardinality(E) = Cardinality(FilesOfSize(s)) + 1
    <2>1. head'[s].entry = [g \in E |-> NewEntry]
      BY <1>5 DEF FreshSet
    <2>2. f \notin FilesOfSize(s)
      BY <1>1, <1>6
    <2> QED BY <1>6, <2>1, <2>2, FS_AddElement
  <1> HIDE DEF E
  <1>8. /\ DOMAIN head' = DOMAIN head \cup {s} /\ \A t \in DOMAIN head : t # s => head'[t] = head[t]
        /\ DOMAIN have_cached_hashes' = DOMAIN have_cached_hashes \cup {s}
        /\ \A t \in DOMAIN have_cached_hashes : t # s => have_cached_hashes'[t] = have_cached_hashes[t]
    BY <1>5 DEF OnlyAt
  <1>9. TreeOK'
    <2>1. /\ node \in [DOMAIN node -> NodeType] /\ DOMAIN node \subseteq Sizes
          /\ Tree(node, tip, found) /\ tip' = tip
          /\ node' = [node EXCEPT ![s] = [@ EXCEPT !.file = NULL, !.has_paths = TRUE]]
      BY DEF ScanOK, TreeOK, Gathers
    <2> DEFINE v == [node[s] EXCEPT !.file = NULL, !.has_paths = TRUE]
    <2>2. v \in NodeType /\ v.left = node[s].left /\ v.right = node[s].right
      BY <1>6, <2>1 DEF NodeType
    <2>3. /\ DOMAIN node' = DOMAIN node /\ node'[s] = v
          /\ \A p \in DOMAIN node : p # s => node'[p] = node[p]
          /\ node' = [p \in DOMAIN node |-> node'[p]]
      BY <1>6, <2>1
    <2> HIDE DEF v
    <2>4. \A p \in DOMAIN node : node'[p].left = node[p].left /\ node'[p].right = node[p].right
      BY <2>2, <2>3
    <2>5. PICK new : new = node'
      OBVIOUS
    <2>6. Tree(new, tip, found + 1)
      BY <1>1, <2>1, <2>3, <2>4, <2>5, SameTree
    <2>7. node' \in [DOMAIN node' -> NodeType]
      BY <2>1, <2>2, <2>3
    <2> QED BY <1>1, <2>1, <2>3, <2>5, <2>6, <2>7 DEF TreeOK
  <1>10. SizesOK'
    <2>1. /\ DOMAIN node' = DOMAIN node /\ node'[s].has_paths
          /\ \A p \in DOMAIN node : p # s => node'[p] = node[p]
      <3>1. node[s] \in NodeType /\ node' = [node EXCEPT ![s] = [@ EXCEPT !.file = NULL, !.has_paths = TRUE]]
        BY <1>6 DEF ScanOK, TreeOK, Gathers
      <3> QED BY <1>6, <3>1 DEF NodeType
    <2>2. DOMAIN head' = {t \in DOMAIN node' : node'[t].has_paths}
      BY <1>6, <1>8, <2>1 DEF ScanOK, SizesOK
    <2>3. \A t \in DOMAIN node' : ~node'[t].has_paths => node'[t].file \in Files
      BY <2>1 DEF ScanOK, SizesOK
    <2>4. \A t \in Sizes : \A g \in FilesOfSize(t)' :
           /\ g \in 1 .. found'
           /\ disk'[g] = seen'[g] => sizeOf[seen'[g]] = t
           /\ \A u \in Sizes : g \in FilesOfSize(u)' => u = t
      BY OneSizeKept, GathersGrows
    <2> QED BY <2>2, <2>3, <2>4 DEF SizesOK
  <1>11. SetsOK'
    <2>1. /\ size_list \in Seq(DOMAIN head)
          /\ \A i, j \in 1 .. Len(size_list) : size_list[i] = size_list[j] => i = j
          /\ \A t \in DOMAIN head : \E i \in 1 .. Len(size_list) : size_list[i] = t
          /\ Len(size_list) \in Nat
      BY LenProperties DEF ScanOK, SetsOK
    <2>2. /\ size_list' \in Seq(DOMAIN head')
          /\ \A i, j \in 1 .. Len(size_list') : size_list'[i] = size_list'[j] => i = j
          /\ \A t \in DOMAIN head' : \E i \in 1 .. Len(size_list') : size_list'[i] = t
      <3>1. CASE s \in DOMAIN head
        <4>1. size_list' = size_list /\ DOMAIN head' = DOMAIN head
          BY <1>5, <1>8, <3>1
        <4> QED BY <2>1, <4>1
      <3>2. CASE s \notin DOMAIN head
        <4>1. PICK l : l = size_list'
          OBVIOUS
        <4>2. l = Append(size_list, s) /\ size_list \in Seq(DOMAIN head')
          <5>1. DOMAIN head \subseteq DOMAIN head'
            BY <1>8
          <5>2. size_list' = Append(size_list, s)
            BY <1>5, <3>2
          <5> QED BY <2>1, <4>1, <5>1, <5>2
        <4>3. /\ l \in Seq(DOMAIN head') /\ Len(l) = Len(size_list) + 1
              /\ l[Len(size_list) + 1] = s /\ \A i \in 1 .. Len(size_list) : l[i] = size_list[i]
          BY <1>8, <4>2, AppendProperties
        <4>4. 1 .. Len(l) = (1 .. Len(size_list)) \cup {Len(size_list) + 1}
          BY <2>1, <4>3
        <4>5. \A i \in 1 .. Len(size_list) : l[i] # s
          <5>1. \A i \in 1 .. Len(size_list) : size_list[i] \in DOMAIN head
            BY <2>1, ElementOfSeq
          <5> QED BY <3>2, <4>3, <5>1
        <4>6. ASSUME NEW i \in 1 .. Len(l), NEW j \in 1 .. Len(l), l[i] = l[j] PROVE i = j
          <5>1. CASE i \in 1 .. Len(size_list) /\ j \in 1 .. Len(size_list)
            BY <2>1, <4>3, <4>6, <5>1
          <5>2. CASE i = Len(size_list) + 1 /\ j = Len(size_list) + 1
            BY <5>2
          <5>3. CASE i \in 1 .. Len(size_list) /\ j = Len(size_list) + 1
            BY <4>3, <4>5, <4>6, <5>3
          <5>4. CASE i = Len(size_list) + 1 /\ j \in 1 .. Len(size_list)
            BY <4>3, <4>5, <4>6, <5>4
          <5> QED BY <4>4, <5>1, <5>2, <5>3, <5>4
        <4>7. \A t \in DOMAIN head' : \E i \in 1 .. Len(l) : l[i] = t
          BY <1>8, <2>1, <4>3, <4>4
        <4> QED BY <4>1, <4>3, <4>6, <4>7
      <3> QED BY <3>1, <3>2
    <2>3. \A t \in DOMAIN head' : Cardinality(DOMAIN head'[t].entry) > 1
      BY <1>6, <1>7, <1>8 DEF ScanOK, SetsOK
    <2>4. DOMAIN have_cached_hashes' = DOMAIN head'
      BY <1>8 DEF ScanOK, SetsOK
    <2>5. ASSUME NEW t \in DOMAIN head'
          PROVE  /\ have_cached_hashes'[t] \in BOOLEAN
                 /\ exited' = "none" /\ have_cached_hashes'[t] =>
                      ChecksCache(t)' /\ DOMAIN head'[t].entry \subseteq cached'
      <3>1. cached' = cached /\ (ChecksCache(t)' <=> ChecksCache(t))
        BY <1>2 DEF given, ChecksCache
      <3>2. CASE t = s
        BY <1>5, <1>7, <3>1, <3>2
      <3>3. CASE t # s
        <4>1. t \in DOMAIN head /\ t \in DOMAIN have_cached_hashes
          BY <1>8, <3>3 DEF ScanOK, SetsOK
        <4> QED BY <1>2, <1>8, <3>1, <3>3, <4>1 DEF ScanOK, SetsOK
      <3> QED BY <3>2, <3>3
    <2> QED BY <2>2, <2>3, <2>4, <2>5 DEF SetsOK
  <1>12. FreshOK'
    <2> SUFFICES ASSUME NEW t \in DOMAIN head'
                 PROVE  head'[t] \in FreshSet(DOMAIN head'[t].entry, FirstBufsize(t),
                                              Cardinality(DOMAIN head'[t].entry))
      BY DEF FreshOK
    <2>1. CASE t = s
      BY <1>5, <1>7, <2>1
    <2>2. CASE t # s
      BY <1>8, <2>2 DEF ScanOK, FreshOK
    <2> QED BY <2>1, <2>2
  <1>13. BlocksOK'
    <2> SUFFICES ASSUME exited' = "none"
                 PROVE  /\ DOMAIN blocks' = UNION {DOMAIN head'[t].entry : t \in DOMAIN head'}
                        /\ Counts(blocks', read_block_counter')
      BY DEF BlocksOK
    <2>1. DOMAIN blocks = UNION {DOMAIN head[t].entry : t \in DOMAIN head}
      BY <1>2 DEF ScanOK, BlocksOK
    <2>2. DOMAIN blocks' = DOMAIN blocks \cup E
      BY <1>5
    <2>3. s \in DOMAIN head => DOMAIN head[s].entry \subseteq E
      BY <1>6 DEF E
    <2>4. UNION {DOMAIN head'[t].entry : t \in DOMAIN head'} = DOMAIN blocks \cup E
      BY <1>7, <1>8, <2>1, <2>3
    <2> QED BY <1>5, <2>2, <2>4
  <1>14. InodesOK'
    <2>1. seen' = seen /\ disk' = disk /\ (hardlink_is_unique' <=> hardlink_is_unique)
      BY <1>2 DEF given
    <2>2. exited' = "none" => Inodelist(inode_read_list', DOMAIN blocks')
      BY <1>5
    <2> QED BY <2>1, <2>2 DEF InodesOK, Inodelist
  <1> QED BY <1>1, <1>9, <1>10, <1>11, <1>12, <1>13, <1>14 DEF ScanOK

-----------------------------------------------------------------------------
(* sort_read_list() leaves hard links out of the sets. *)

(* Not so many files that their number is taken for -1. *)
FewFiles == UINT16_MAX \in Nat /\ Cardinality(Files) <= UINT16_MAX

(* The set h of the files F, of which none was read, when the hard links R are
   left out of it: when that leaves one file, it is unique. *)
LinksLeft(F, h, R, w) ==
  LET left == F \ R IN
  /\ h.wanted_bufsize = w /\ h.exited = "none"
  /\ Cardinality(left) > 1 =>
       /\ h.state = "PLS_NEED_DATA" /\ h.list_size = Cardinality(left)
       /\ \A f \in left : h.entry[f] = NewEntry
       /\ \A f \in R : h.entry[f].state = "FS_IGNORE_HL"
  /\ ~(Cardinality(left) > 1) =>
       /\ h.state = "PLS_DONE" /\ h.list_size = 0
       /\ \A f \in F : h.entry[f].state \in {"FS_UNIQUE", "FS_IGNORE_HL"}
       /\ \E f \in F : h.entry[f].state = "FS_UNIQUE"

(* Neither the cache nor a hash has decided anything. *)
Undecided(F, h) ==
  /\ h \in PathListType(F) /\ InState(h, {"FS_DONE"}) = {}
  /\ h.buffer_ready = 0 /\ h.processed = 0 /\ h.published = {}

LinkedSet(F, h, R, w) == Undecided(F, h) /\ (FewFiles => LinksLeft(F, h, R, w))

\* A set that was not touched is one.
LEMMA FreshLinked ==
  ASSUME NEW F, F \subseteq Files, Cardinality(F) > 1, NEW w \in Nat,
         NEW h \in FreshSet(F, w, Cardinality(F))
  PROVE  LinkedSet(F, h, {}, w)
  <1> DEFINE en == [f \in F |-> NewEntry]
             k == Cardinality(F)
  <1>1. IsFiniteSet(F) /\ k \in Nat
    <2>1. IsFiniteSet(F)
      BY SizeTreeAssumption, FS_Subset
    <2> QED BY <2>1, FS_CardinalityType
  <1>2. NewEntry \in EntryType /\ NewEntry.state = "FS_NEED_DATA"
    BY DEF NewEntry, EntryType, FileStates, hash_fn_buf_init
  <1>3. en \in [F -> EntryType] /\ DOMAIN en = F /\ \A f \in F : en[f] = NewEntry
    BY <1>2
  <1>4. h.entry = en /\ h.state = "PLS_NEED_DATA" /\ h.list_size = k /\ h.buffer_ready = 0
        /\ h.wanted_bufsize = w /\ h.processed = 0 /\ h.published = {} /\ h.exited = "none"
    BY DEF FreshSet
  <1> HIDE DEF en, k
  <1>5. h \in PathListType(F)
    <2>1. "PLS_NEED_DATA" \in ListStates /\ "none" \in Checks /\ {} \in SUBSET SUBSET F
      BY DEF ListStates, Checks
    <2>2. h \in [state : {"PLS_NEED_DATA"}, list_size : {k}, buffer_ready : {0}, wanted_bufsize : {w},
             hash_passes : {0}, fully_read : {FALSE}, entry : {en},
             allocated : {0}, open : {0}, dups : {0}, unique : {0}, processed : {0}, published : {{}},
             exited : {"none"}]
      BY DEF FreshSet, en, k
    <2>3. /\ {"PLS_NEED_DATA"} \subseteq ListStates /\ {k} \subseteq Nat /\ {0} \subseteq Nat /\ {w} \subseteq Nat
          /\ {FALSE} \subseteq BOOLEAN /\ {en} \subseteq [F -> EntryType] /\ {0} \subseteq Int
          /\ {{}} \subseteq SUBSET SUBSET F /\ {"none"} \subseteq Checks
      BY <1>1, <1>3, <2>1
    <2> QED BY <2>2, <2>3, Zenon DEF PathListType
  <1>6. InState(h, {"FS_DONE"}) = {}
    BY <1>2, <1>3, <1>4 DEF InState
  <1>7. LinksLeft(F, h, {}, w)
    <2>1. F \ {} = F
      OBVIOUS
    <2> QED BY <1>3, <1>4, <2>1 DEF LinksLeft, k
  <1> QED BY <1>4, <1>5, <1>6, <1>7 DEF LinkedSet, Undecided

\* Of sets that are smaller by one.
LEMMA OneLess ==
  ASSUME NEW F, IsFiniteSet(F), NEW R, NEW x \in F \ R
  PROVE  /\ F \ (R \cup {x}) = (F \ R) \ {x} /\ Cardinality(F \ R) \in Nat
         /\ Cardinality(F \ (R \cup {x})) = Cardinality(F \ R) - 1
  <1>1. F \ (R \cup {x}) = (F \ R) \ {x}
    OBVIOUS
  <1>2. IsFiniteSet(F \ R)
    BY FS_Subset
  <1> QED BY <1>1, <1>2, FS_RemoveElement, FS_CardinalityType

\* What mark_path_entry_ignore_int() does when there are not too many files.
LEMMA LeftOutIs ==
  ASSUME NEW F, IsFiniteSet(F), NEW h, Undecided(F, h), NEW x \in F, h.list_size # 0,
         NEW r, r = mark_path_entry_ignore_int(h, x, "FS_IGNORE_HL"),
         NEW less, less = Less(h, x, "FS_IGNORE_HL")
  PROVE  /\ Undecided(F, r) /\ Undecided(F, less) /\ LessBy(F, h, x, "FS_IGNORE_HL", less)
         /\ r.wanted_bufsize = h.wanted_bufsize
         /\ less.list_size > 1 /\ less.list_size # UINT16_MAX => r = less
         /\ less.list_size = 1 /\ Cardinality(Remaining(less)) = 1 /\ UINT16_MAX # 0 =>
              /\ r.state = "PLS_DONE" /\ r.list_size = 0 /\ r.exited = less.exited
              /\ r.entry = Retired(less.entry, Remaining(less), "FS_UNIQUE")
  <1> DEFINE rest == IF less.list_size # 1 THEN less
                     ELSE IF Cardinality(Remaining(less)) = 1 THEN clear_remaining_entry(less)
                     ELSE Exit(less, "expected one remaining entry")
  <1>0. /\ "FS_IGNORE_HL" \in FileStates /\ "FS_UNIQUE" \in FileStates
        /\ "expected one remaining entry" \in Checks /\ "list_size=-1" \in Checks
    BY DEF FileStates, Checks
  <1>1. h \in PathListType(F) /\ h.list_size \in Nat /\ h.list_size > 0
    <2>1. h \in PathListType(F) /\ h.list_size \in Nat
      BY Zenon DEF Undecided, PathListType
    <2> QED BY <2>1
  <1>2. LessBy(F, h, x, "FS_IGNORE_HL", less)
    BY <1>0, <1>1, MarkedIs
  <1>3. less \in PathListType(F) /\ Kept(h, less) /\ less.list_size \in Nat
    <2>1. less \in PathListType(F) /\ Kept(h, less)
      BY <1>2 DEF LessBy
    <2> QED BY <2>1, Zenon DEF PathListType
  <1>4. r = CASE rest.list_size = UINT16_MAX -> Exit(rest, "list_size=-1")
              [] rest.list_size # UINT16_MAX /\ rest.list_size > 1 -> MarkIfReady(rest)
              [] OTHER -> rest
    BY Zenon DEF mark_path_entry_ignore_int, Less
  <1>5. ASSUME NEW T, T \subseteq F, NEW st \in {"FS_IGNORE_HL", "FS_UNIQUE"}, NEW a, NEW b,
               Undecided(F, a), b \in PathListType(F), Kept(a, b), b.entry = Retired(a.entry, T, st)
        PROVE  Undecided(F, b)
    <2>1. a \in PathListType(F) /\ st \in FileStates /\ st \notin {"FS_DONE"}
      BY <1>0, <1>5 DEF Undecided
    <2>3. ASSUME NEW S, st \notin S PROVE InState(b, S) = InState(a, S) \ T
      BY <1>5, <2>1, <2>3, InStateAfter
    <2>2. InState(b, {"FS_DONE"}) = InState(a, {"FS_DONE"}) \ T
      BY <2>1, <2>3
    <2> QED BY <1>5, <2>2 DEF Undecided, Kept
  <1>6. ASSUME NEW a, NEW b, Undecided(F, a), b \in PathListType(F), Kept(a, b), b.entry = a.entry
        PROVE  Undecided(F, b)
    BY <1>6 DEF Undecided, Kept, InState
  <1>7. Undecided(F, less)
    <2>1. PICK T, st : T = {x} /\ st = "FS_IGNORE_HL"
      OBVIOUS
    <2>2. less.entry = Retired(h.entry, T, st) /\ T \subseteq F
      BY <1>2, <2>1 DEF LessBy
    <2> QED BY <1>3, <1>5, <2>1, <2>2
  <1>8. Undecided(F, rest) /\ Kept(less, rest)
        /\ (less.list_size # 1 => rest = less)
        /\ (less.list_size = 1 /\ Cardinality(Remaining(less)) = 1 =>
              /\ rest.state = "PLS_DONE" /\ rest.list_size = 0 /\ rest.exited = less.exited
              /\ rest.entry = Retired(less.entry, Remaining(less), "FS_UNIQUE"))
    <2>1. CASE less.list_size # 1
      BY <1>7, <2>1 DEF Kept
    <2>2. CASE less.list_size = 1 /\ Cardinality(Remaining(less)) = 1
      <3>1. rest = clear_remaining_entry(less)
        BY <2>2
      <3> HIDE DEF rest
      <3>2. /\ rest \in PathListType(F) /\ Kept(less, rest)
            /\ rest.state = "PLS_DONE" /\ rest.list_size = 0 /\ rest.exited = less.exited
            /\ rest.entry = Retired(less.entry, Remaining(less), "FS_UNIQUE")
        BY <1>3, <1>7, <3>1, ClearedIs DEF Undecided
      <3>3. Remaining(less) \subseteq F
        <4>1. DOMAIN less.entry = F
          BY <1>3, Zenon DEF PathListType
        <4> QED BY <4>1 DEF Remaining, InState
      <3>4. Undecided(F, rest)
        BY <1>5, <1>7, <3>2, <3>3
      <3> QED BY <2>2, <3>2, <3>4
    <2>3. CASE less.list_size = 1 /\ Cardinality(Remaining(less)) # 1
      <3>1. rest = Exit(less, "expected one remaining entry")
        BY <2>3
      <3> HIDE DEF rest
      <3>2. PICK check \in Checks : check = "expected one remaining entry"
        BY <1>0
      <3>3. rest \in PathListType(F) /\ Kept(less, rest) /\ rest.entry = less.entry
        <4>1. rest = Exit(less, check) /\ less \in PathListType(F)
          BY <1>3, <3>1, <3>2
        <4> QED BY <4>1, ExitIs
      <3> QED BY <1>6, <1>7, <2>3, <3>3
    <2> QED BY <2>1, <2>2, <2>3
  <1> HIDE DEF rest
  <1>9. rest \in PathListType(F) /\ rest.list_size \in Nat /\ rest.buffer_ready = 0
    <2>1. rest \in PathListType(F) /\ rest.buffer_ready = 0
      BY <1>8 DEF Undecided
    <2> QED BY <2>1, Zenon DEF PathListType
  <1>10. CASE rest.list_size = UINT16_MAX
    <2>1. r = Exit(rest, "list_size=-1")
      BY <1>4, <1>10
    <2>2. PICK check \in Checks : check = "list_size=-1"
      BY <1>0
    <2>6. r \in PathListType(F) /\ Kept(rest, r) /\ r.entry = rest.entry
      BY <1>9, <2>1, <2>2, ExitIs
    <2>3. Undecided(F, r)
      BY <1>6, <1>8, <2>6
    <2>4. ~(less.list_size > 1 /\ less.list_size # UINT16_MAX)
      BY <1>8, <1>10
    <2>5. ~(less.list_size = 1 /\ Cardinality(Remaining(less)) = 1 /\ UINT16_MAX # 0)
      BY <1>8, <1>10
    <2> QED BY <1>2, <1>3, <1>7, <1>8, <2>3, <2>4, <2>5, <2>6 DEF Kept
  <1>11. CASE rest.list_size # UINT16_MAX
    <2>1. r = rest
      <3>1. CASE rest.list_size > 1
        <4>1. r = MarkIfReady(rest)
          BY <1>4, <1>11, <3>1
        <4>2. rest.list_size # rest.buffer_ready
          BY <1>9, <3>1
        <4> QED BY <4>1, <4>2 DEF MarkIfReady
      <3>2. CASE ~(rest.list_size > 1)
        BY <1>4, <1>11, <3>2
      <3> QED BY <3>1, <3>2
    <2>2. less.list_size > 1 => rest = less
      BY <1>3, <1>8
    <2> QED BY <1>2, <1>3, <1>7, <1>8, <2>1, <2>2 DEF Kept
  <1> QED BY <1>10, <1>11

\* mark_path_entry_ignore_hardlink() leaves one more out.
LEMMA LinkOut ==
  ASSUME NEW F, F \subseteq Files, NEW R, R \subseteq F, NEW w, NEW h, LinkedSet(F, h, R, w),
         NEW x \in F \ R, NEW r, r = mark_path_entry_ignore_hardlink(h, x)
  PROVE  LinkedSet(F, r, R \cup {x}, w)
  <1> DEFINE left == F \ R
             less == Less(h, x, "FS_IGNORE_HL")
             S == R \cup {x}
  <1>1. /\ Undecided(F, h) /\ h \in PathListType(F) /\ h.entry \in [F -> EntryType]
        /\ h.list_size \in Nat
    <2>1. Undecided(F, h) /\ h \in PathListType(F)
      BY DEF LinkedSet, Undecided
    <2> QED BY <2>1, Zenon DEF PathListType
  <1>2. IsFiniteSet(F) /\ Cardinality(F) \in Nat /\ Cardinality(F) <= Cardinality(Files)
    BY SizeTreeAssumption, FS_Subset, FS_CardinalityType
  <1>3. /\ F \ S = left \ {x} /\ Cardinality(left) \in Nat
        /\ Cardinality(F \ S) = Cardinality(left) - 1
    BY <1>2, OneLess
  <1>4. Cardinality(left) <= Cardinality(F)
    BY <1>2, FS_Subset
  <1>5. CASE h.list_size = 0
    <2>1. r = h
      BY <1>5 DEF mark_path_entry_ignore_hardlink
    <2>2. ASSUME FewFiles PROVE LinksLeft(F, r, S, w)
      <3>1. LinksLeft(F, h, R, w)
        BY <2>2 DEF LinkedSet
      <3>2. ~(Cardinality(left) > 1)
        BY <1>3, <1>5, <3>1 DEF LinksLeft
      <3>3. ~(Cardinality(F \ S) > 1)
        BY <1>3, <3>2
      <3> QED BY <2>1, <3>1, <3>2, <3>3 DEF LinksLeft
    <2> QED BY <1>1, <2>1, <2>2 DEF LinkedSet
  <1>6. CASE h.list_size # 0 /\ h.entry[x].state \notin {"FS_NEED_DATA", "FS_UNIQUE"}
    <2>1. r = Exit(h, "FS_IGNORE_HL from a wrong state")
      BY <1>6 DEF mark_path_entry_ignore_hardlink
    <2>2. PICK check \in Checks : check = "FS_IGNORE_HL from a wrong state"
      BY DEF Checks
    <2>3. r \in PathListType(F) /\ Kept(h, r) /\ r.entry = h.entry
      <3>1. r = Exit(h, check) /\ h \in PathListType(F)
        BY <1>1, <2>1, <2>2
      <3> QED BY <3>1, ExitIs
    <2>4. Undecided(F, r)
      BY <1>1, <2>3 DEF Undecided, Kept, InState
    <2>5. ~FewFiles
      <3> SUFFICES ASSUME FewFiles PROVE FALSE
        OBVIOUS
      <3>1. LinksLeft(F, h, R, w)
        BY DEF LinkedSet
      <3>2. Cardinality(left) > 1
        BY <1>6, <3>1 DEF LinksLeft
      <3>3. h.entry[x] = NewEntry /\ NewEntry.state = "FS_NEED_DATA"
        BY <3>1, <3>2 DEF LinksLeft, NewEntry
      <3> QED BY <1>6, <3>3
    <2> QED BY <2>4, <2>5 DEF LinkedSet
  <1>7. CASE h.list_size # 0 /\ h.entry[x].state \in {"FS_NEED_DATA", "FS_UNIQUE"}
    <2>1. r = mark_path_entry_ignore_int(h, x, "FS_IGNORE_HL")
      BY <1>7 DEF mark_path_entry_ignore_hardlink
    <2>2. PICK l : l = less
      OBVIOUS
    <2> HIDE DEF less
    <2>3. /\ Undecided(F, r) /\ Undecided(F, l) /\ LessBy(F, h, x, "FS_IGNORE_HL", l)
          /\ r.wanted_bufsize = h.wanted_bufsize
          /\ l.list_size > 1 /\ l.list_size # UINT16_MAX => r = l
          /\ l.list_size = 1 /\ Cardinality(Remaining(l)) = 1 /\ UINT16_MAX # 0 =>
               /\ r.state = "PLS_DONE" /\ r.list_size = 0 /\ r.exited = l.exited
               /\ r.entry = Retired(l.entry, Remaining(l), "FS_UNIQUE")
      <3>1. l = Less(h, x, "FS_IGNORE_HL")
        BY <2>2 DEF less
      <3> QED BY <1>1, <1>2, <1>7, <2>1, <3>1, LeftOutIs
    <2>4. ASSUME FewFiles PROVE LinksLeft(F, r, S, w)
      <3>1. LinksLeft(F, h, R, w) /\ UINT16_MAX \in Nat /\ Cardinality(Files) <= UINT16_MAX
        BY <2>4 DEF LinkedSet, FewFiles
      <3>2. /\ Cardinality(left) > 1 /\ h.list_size = Cardinality(left) /\ h.state = "PLS_NEED_DATA"
            /\ \A f \in left : h.entry[f] = NewEntry
            /\ \A f \in R : h.entry[f].state = "FS_IGNORE_HL"
            /\ h.wanted_bufsize = w /\ h.exited = "none"
        BY <1>7, <3>1 DEF LinksLeft
      <3>3. /\ l.state = h.state /\ l.list_size = h.list_size - 1 /\ l.exited = h.exited
            /\ l.entry = Retired(h.entry, {x}, "FS_IGNORE_HL")
        BY <2>3 DEF LessBy
      <3>4. l.list_size = Cardinality(F \ S) /\ l.list_size < UINT16_MAX
            /\ l.list_size \in Nat /\ UINT16_MAX # 0
        <4>1. PICK c, n, m, u \in Nat : /\ c = Cardinality(F) /\ n = Cardinality(left) /\ u = UINT16_MAX
                                         /\ m = Cardinality(F \ S)
          BY <1>2, <1>3, <3>1, <3>2
        <4>2. n <= c /\ c <= u /\ n > 1 /\ m = n - 1
          <5>1. Cardinality(Files) \in Nat
            BY SizeTreeAssumption, FS_CardinalityType
          <5>2. c <= Cardinality(Files) /\ Cardinality(Files) <= u
            BY <1>2, <3>1, <4>1
          <5>3. c <= u
            BY <5>1, <5>2
          <5> QED BY <1>3, <1>4, <3>2, <4>1, <5>3
        <4> QED BY <3>2, <3>3, <4>1, <4>2
      <3>5. /\ DOMAIN l.entry = F /\ l.entry[x].state = "FS_IGNORE_HL"
            /\ \A f \in F \ {x} : l.entry[f] = h.entry[f]
        <4>1. PICK en, T, st, new : en = h.entry /\ T = {x} /\ st = "FS_IGNORE_HL" /\ new = l.entry
          OBVIOUS
        <4>2. st \in FileStates /\ T \subseteq F /\ new = Retired(en, T, st) /\ en \in [F -> EntryType]
          BY <1>1, <3>3, <4>1 DEF FileStates
        <4>3. RetiredAs(F, en, T, st, new)
          BY <4>2, AreRetired
        <4> QED BY <4>1, <4>3 DEF RetiredAs
      <3>6. \A f \in S : l.entry[f].state = "FS_IGNORE_HL"
        BY <3>2, <3>5
      <3>7. \A f \in F \ S : l.entry[f] = NewEntry
        BY <1>3, <3>2, <3>5
      <3>8. CASE Cardinality(F \ S) > 1
        <4>1. r = l
          BY <2>3, <3>1, <3>4, <3>8
        <4> QED BY <3>2, <3>3, <3>4, <3>6, <3>7, <3>8, <4>1, <2>3 DEF LinksLeft
      <3>9. CASE ~(Cardinality(F \ S) > 1)
        <4>1. l.list_size = 1 /\ Cardinality(F \ S) = 1
          BY <1>3, <3>2, <3>3, <3>4, <3>9
        <4>2. Remaining(l) = F \ S
          <5>1. NewEntry.state = "FS_NEED_DATA"
            BY DEF NewEntry
          <5> QED BY <3>5, <3>6, <3>7, <5>1 DEF Remaining, InState
        <4>3. /\ r.state = "PLS_DONE" /\ r.list_size = 0 /\ r.exited = "none"
              /\ r.entry = Retired(l.entry, F \ S, "FS_UNIQUE")
          BY <2>3, <3>2, <3>3, <3>4, <4>1, <4>2
        <4>4. PICK f \in F \ S : TRUE
          BY <4>1, <1>2, FS_EmptySet
        <4>5. /\ \A g \in F \ S : r.entry[g].state = "FS_UNIQUE"
              /\ \A g \in S : r.entry[g].state = "FS_IGNORE_HL"
          <5>1. PICK en, T, st, new : en = l.entry /\ T = F \ S /\ st = "FS_UNIQUE" /\ new = r.entry
            OBVIOUS
          <5>2. l \in PathListType(F)
            BY <2>3 DEF LessBy
          <5>3. st \in FileStates /\ T \subseteq F /\ new = Retired(en, T, st) /\ en \in [F -> EntryType]
            BY <4>3, <5>1, <5>2, Zenon DEF FileStates, PathListType
          <5>4. RetiredAs(F, en, T, st, new)
            BY <5>3, AreRetired
          <5>5. \A g \in S : g \in F \ T
            BY <5>1
          <5> QED BY <3>6, <5>1, <5>4, <5>5 DEF RetiredAs
        <4> QED BY <2>3, <3>2, <3>9, <4>3, <4>4, <4>5 DEF LinksLeft
      <3> QED BY <3>8, <3>9
    <2> QED BY <2>3, <2>4 DEF LinkedSet
  <1> QED BY <1>5, <1>6, <1>7

(* The loop over the sorted list: a repeated inode is one that the entry
   before it has too. *)
Repeats(sorted, i) == i > 1 /\ sorted[i].inode = sorted[i - 1].inode
DropStep(sof, sorted, h, i) ==
  IF Repeats(sorted, i)
  THEN [h EXCEPT ![sof[sorted[i].file]] = mark_path_entry_ignore_hardlink(@, sorted[i].file)]
  ELSE h
Drops(hd, sof, sorted, n, g) ==
  g = [i \in 0 .. n |-> IF i = 0 THEN hd ELSE DropStep(sof, sorted, g[i - 1], i)]

\* The loop gets as far as any number.
LEMMA DropsReach ==
  ASSUME NEW hd, NEW sof, NEW sorted, NEW n \in Nat
  PROVE  \E g : Drops(hd, sof, sorted, n, g)
  <1> DEFINE Bad == {m \in Nat : ~ \E g : Drops(hd, sof, sorted, m, g)}
  <1>1. Bad = {}
    <2> SUFFICES ASSUME Bad # {} PROVE FALSE
      OBVIOUS
    <2>1. PICK m \in Bad : \A k \in Bad : m <= k
      <3>1. Bad \subseteq Nat
        OBVIOUS
      <3> HIDE DEF Bad
      <3> QED BY <3>1, LeastNumber
    <2>2. m \in Nat /\ ~ \E g : Drops(hd, sof, sorted, m, g)
      OBVIOUS
    <2>3. CASE m = 0
      <3>1. PICK g : g = [i \in 0 .. 0 |-> hd]
        OBVIOUS
      <3>2. g = [i \in 0 .. 0 |-> IF i = 0 THEN hd ELSE DropStep(sof, sorted, g[i - 1], i)]
        BY <3>1
      <3> QED BY <2>2, <2>3, <3>2 DEF Drops
    <2>4. CASE m # 0
      <3>1. PICK k \in Nat : m = k + 1
        <4>1. m - 1 \in Nat /\ m = (m - 1) + 1
          BY <2>2, <2>4
        <4> QED BY <4>1
      <3>2. k \notin Bad
        <4>1. \A j \in Bad : m <= j
          BY <2>1
        <4> HIDE DEF Bad
        <4>2. ~(m <= k)
          BY <3>1
        <4> QED BY <4>1, <4>2
      <3>3. PICK g : Drops(hd, sof, sorted, k, g)
        BY <3>2
      <3>4. PICK v : v = DropStep(sof, sorted, g[k], m)
        OBVIOUS
      <3>5. PICK f : f = [i \in 0 .. m |-> IF i = m THEN v ELSE g[i]]
        OBVIOUS
      <3>6. g = [i \in 0 .. k |-> IF i = 0 THEN hd ELSE DropStep(sof, sorted, g[i - 1], i)]
        BY <3>3 DEF Drops
      <3>7. ASSUME NEW i \in 0 .. m
            PROVE  f[i] = IF i = 0 THEN hd ELSE DropStep(sof, sorted, f[i - 1], i)
        <4>1. CASE i = m
          <5>1. i # 0 /\ i - 1 = k /\ k \in 0 .. m /\ k # m
            BY <3>1, <4>1
          <5>2. f[i] = v /\ f[i - 1] = g[k]
            BY <3>5, <4>1, <5>1
          <5> QED BY <3>4, <4>1, <5>1, <5>2
        <4>2. CASE i # m
          <5>1. i \in 0 .. k
            BY <3>1, <4>2
          <5>2. f[i] = g[i]
            BY <3>5, <4>2
          <5>3. CASE i = 0
            BY <3>6, <5>1, <5>2, <5>3
          <5>4. CASE i # 0
            <6>1. i - 1 \in 0 .. m /\ i - 1 # m /\ i - 1 \in 0 .. k
              BY <3>1, <5>1, <5>4
            <6>2. f[i - 1] = g[i - 1]
              BY <3>5, <6>1
            <6>3. g[i] = DropStep(sof, sorted, g[i - 1], i)
              BY <3>6, <5>1, <5>4
            <6> QED BY <5>2, <5>4, <6>2, <6>3
          <5> QED BY <5>3, <5>4
        <4> QED BY <4>1, <4>2
      <3>8. f = [i \in 0 .. m |-> IF i = 0 THEN hd ELSE DropStep(sof, sorted, f[i - 1], i)]
        BY <3>5, <3>7
      <3> QED BY <2>2, <3>8 DEF Drops
    <2> QED BY <2>3, <2>4
  <1> QED BY <1>1

\* RemoveHardLinks() is where it ends.
LEMMA LinksAreDropped ==
  ASSUME NEW hd, NEW sof, NEW sorted, Len(sorted) \in Nat
  PROVE  \E g : /\ Drops(hd, sof, sorted, Len(sorted), g)
                /\ RemoveHardLinks(hd, sof, sorted) = g[Len(sorted)]
  <1> DEFINE n == Len(sorted)
             Chosen == CHOOSE g : Drops(hd, sof, sorted, n, g)
  <1>1. Drops(hd, sof, sorted, n, Chosen)
    BY DropsReach
  <1>2. RemoveHardLinks(hd, sof, sorted) = Chosen[n]
    BY DEF RemoveHardLinks, Drops, DropStep, Repeats
  <1> QED BY <1>1, <1>2

\* A sorted list of inodes is another list of the same.
LEMMA SortedIs ==
  ASSUME NEW ino, NEW D, Inodelist(ino, D), hardlink_is_unique \in BOOLEAN,
         NEW sorted \in SortedByInode(ino)
  PROVE  /\ Inodelist(sorted, D) /\ Len(sorted) \in Nat
         /\ \A i \in 1 .. Len(sorted) - 1 : AsInt(sorted[i].inode - sorted[i + 1].inode) <= 0
  <1> DEFINE I == 1 .. Len(ino)
  <1>1. ino \in Seq([file : Files, inode : Inodes]) /\ Len(ino) \in Nat
    BY LenProperties DEF Inodelist
  <1>2. PICK p \in Bijection(I, I) :
          /\ sorted = [i \in I |-> ino[p[i]]]
          /\ \A i \in 1 .. Len(ino) - 1 : rl_compare_i(ino[p[i]], ino[p[i + 1]]) <= 0
    BY DEF SortedByInode
  <1>3. /\ p \in [I -> I] /\ \A i, j \in I : p[i] = p[j] => i = j
        /\ \A j \in I : \E i \in I : p[i] = j
    BY DEF Bijection, Injection, Surjection, IsInjective
  <1> DEFINE rec == [file : Files, inode : Inodes]
  <1>4. \A i \in I : ino[i] \in rec
    BY <1>1, ElementOfSeq
  <1> HIDE DEF rec
  <1>5. sorted \in [I -> rec]
    BY <1>2, <1>3, <1>4
  <1>6. sorted \in Seq(rec) /\ Len(sorted) = Len(ino)
    BY <1>1, <1>5, FunctionIsSeq
  <1>7. \A i \in I : sorted[i] = ino[p[i]] /\ p[i] \in I
    BY <1>2, <1>3
  <1>8. Inodelist(sorted, D)
    <2>1. ~hardlink_is_unique => sorted = << >>
      <3>1. ~hardlink_is_unique => Len(sorted) = 0
        BY <1>6 DEF Inodelist
      <3> QED BY <1>6, <3>1, EmptySeq
    <2>2. ASSUME hardlink_is_unique
          PROVE  /\ {sorted[i].file : i \in I} = D
                 /\ \A i, j \in I : sorted[i].file = sorted[j].file => i = j
      <3>1. /\ {ino[i].file : i \in I} = D
            /\ \A i, j \in I : ino[i].file = ino[j].file => i = j
        BY <2>2 DEF Inodelist
      <3>2. {sorted[i].file : i \in I} = {ino[i].file : i \in I}
        <4>1. ASSUME NEW j \in I PROVE ino[j].file \in {sorted[i].file : i \in I}
          <5>1. PICK i \in I : p[i] = j
            BY <1>3
          <5>2. sorted[i] = ino[j]
            BY <1>7, <5>1
          <5> QED BY <5>2
        <4>2. ASSUME NEW i \in I PROVE sorted[i].file \in {ino[j].file : j \in I}
          <5>1. PICK j \in I : sorted[i] = ino[j]
            BY <1>7
          <5> QED BY <5>1
        <4> QED BY <4>1, <4>2, Zenon
      <3>3. ASSUME NEW i \in I, NEW j \in I, sorted[i].file = sorted[j].file PROVE i = j
        <4>1. p[i] = p[j]
          BY <1>7, <3>1, <3>3
        <4> QED BY <1>3, <4>1
      <3> QED BY <3>1, <3>2, <3>3
    <2>3. \A i \in I : disk[ino[i].file] = seen[ino[i].file] => ino[i].inode = seen[ino[i].file]
      BY DEF Inodelist
    <2>4. \A i \in I : disk[sorted[i].file] = seen[sorted[i].file] => sorted[i].inode = seen[sorted[i].file]
      BY <1>7, <2>3
    <2> QED BY <1>6, <2>1, <2>2, <2>4 DEF Inodelist, rec
  <1>9. ASSUME NEW i \in 1 .. Len(sorted) - 1
        PROVE  AsInt(sorted[i].inode - sorted[i + 1].inode) <= 0
    <2>1. i \in I /\ i + 1 \in I /\ i \in 1 .. Len(ino) - 1
      BY <1>1, <1>6
    <2>2. rl_compare_i(ino[p[i]], ino[p[i + 1]]) <= 0
      BY <1>2, <2>1
    <2>3. sorted[i] = ino[p[i]] /\ sorted[i + 1] = ino[p[i + 1]]
      BY <1>7, <2>1
    <2> QED BY <2>2, <2>3 DEF rl_compare_i
  <1> QED BY <1>1, <1>6, <1>8, <1>9

\* A file is in one set, and this is its size.
LEMMA SizeOfSetIs ==
  ASSUME TreeOK, SizesOK, NEW s \in DOMAIN head, NEW f \in DOMAIN head[s].entry
  PROVE  /\ f \in DOMAIN SizeOfSet /\ SizeOfSet[f] = s /\ s \in Sizes
         /\ \A t \in DOMAIN head : f \in DOMAIN head[t].entry => t = s
  <1>1. \A t \in DOMAIN head : t \in Sizes /\ FilesOfSize(t) = DOMAIN head[t].entry
    BY DEF TreeOK, SizesOK, FilesOfSize
  <1>2. \A t \in DOMAIN head : f \in DOMAIN head[t].entry => t = s
    BY <1>1 DEF SizesOK
  <1> QED BY <1>1, <1>2 DEF SizeOfSet

\* The files of which the first i entries of the sorted list repeat an inode.
Repeated(sorted, i) == {sorted[j].file : j \in {k \in 1 .. i : Repeats(sorted, k)}}

(* The sets, when they are left out. *)
AllLinked(hd, R, h) ==
  /\ DOMAIN h = DOMAIN hd
  /\ \A s \in DOMAIN hd :
       LinkedSet(DOMAIN hd[s].entry, h[s], R \cap DOMAIN hd[s].entry, FirstBufsize(s))

\* One more entry.
LEMMA OneDropped ==
  ASSUME ScanOK, exited = "none", NEW sorted, Inodelist(sorted, DOMAIN blocks),
         NEW i \in 1 .. Len(sorted), Len(sorted) \in Nat,
         NEW h, AllLinked(head, Repeated(sorted, i - 1), h),
         NEW r, r = DropStep(SizeOfSet, sorted, h, i)
  PROVE  AllLinked(head, Repeated(sorted, i), r)
  <1> DEFINE R == Repeated(sorted, i - 1)
             E(s) == DOMAIN head[s].entry
  <1>1. 1 .. i = (1 .. (i - 1)) \cup {i} /\ i \notin 1 .. (i - 1)
    OBVIOUS
  <1>2. CASE ~Repeats(sorted, i)
    <2>1. Repeated(sorted, i) = R
      BY <1>1, <1>2 DEF Repeated
    <2> QED BY <1>2, <2>1 DEF DropStep
  <1>3. CASE Repeats(sorted, i)
    <2>1. PICK f : f = sorted[i].file
      OBVIOUS
    <2>2. Repeated(sorted, i) = R \cup {f}
      BY <1>1, <1>3, <2>1 DEF Repeated
    <2>3. hardlink_is_unique
      <3> SUFFICES ASSUME ~hardlink_is_unique PROVE FALSE
        OBVIOUS
      <3>1. sorted = << >>
        BY DEF Inodelist
      <3> QED BY <3>1, EmptySeq
    <2>4. f \notin R
      <3> SUFFICES ASSUME f \in R PROVE FALSE
        OBVIOUS
      <3>1. PICK j \in 1 .. (i - 1) : f = sorted[j].file
        BY DEF Repeated
      <3>2. j \in 1 .. Len(sorted) /\ j # i
        BY <3>1
      <3> QED BY <2>1, <2>3, <3>1, <3>2 DEF Inodelist
    <2>5. f \in DOMAIN blocks
      BY <2>1, <2>3 DEF Inodelist
    <2>6. PICK s \in DOMAIN head : f \in E(s)
      BY <2>5 DEF ScanOK, BlocksOK
    <2>7. /\ SizeOfSet[f] = s /\ s \in Sizes
          /\ \A t \in DOMAIN head : f \in E(t) => t = s
      BY <2>6, SizeOfSetIs DEF ScanOK
    <2>8. DOMAIN h = DOMAIN head
          /\ \A t \in DOMAIN head : LinkedSet(E(t), h[t], R \cap E(t), FirstBufsize(t))
      BY DEF AllLinked
    <2>9. PICK m : m = mark_path_entry_ignore_hardlink(h[s], f)
      OBVIOUS
    <2>10. r = [h EXCEPT ![s] = m]
      BY <1>3, <2>1, <2>7, <2>9 DEF DropStep
    <2>11. DOMAIN r = DOMAIN head /\ r[s] = m /\ \A t \in DOMAIN head : t # s => r[t] = h[t]
      BY <2>6, <2>8, <2>10
    <2> HIDE DEF R
    <2>12. E(s) \subseteq Files
      <3>1. FilesOfSize(s) = E(s) /\ FilesOfSize(s) \subseteq Files
        BY <2>6, <2>7, FilesOfSizeAre DEF ScanOK
      <3> QED BY <3>1
    <2>13. LinkedSet(E(s), m, (R \cap E(s)) \cup {f}, FirstBufsize(s))
      <3>1. f \in E(s) \ (R \cap E(s)) /\ R \cap E(s) \subseteq E(s)
        BY <2>4, <2>6
      <3>2. LinkedSet(E(s), h[s], R \cap E(s), FirstBufsize(s))
        BY <2>8
      <3> HIDE DEF E
      <3> QED BY <2>9, <2>12, <3>1, <3>2, LinkOut
    <2>14. (R \cap E(s)) \cup {f} = (R \cup {f}) \cap E(s)
      BY <2>6
    <2>15. \A t \in DOMAIN head : t # s => R \cap E(t) = (R \cup {f}) \cap E(t)
      BY <2>7
    <2>16. \A t \in DOMAIN head : LinkedSet(E(t), r[t], (R \cup {f}) \cap E(t), FirstBufsize(t))
      <3> SUFFICES ASSUME NEW t \in DOMAIN head
                   PROVE  LinkedSet(E(t), r[t], (R \cup {f}) \cap E(t), FirstBufsize(t))
        OBVIOUS
      <3>1. CASE t = s
        BY <2>11, <2>13, <2>14, <3>1
      <3>2. CASE t # s
        BY <2>8, <2>11, <2>15, <3>2
      <3> QED BY <3>1, <3>2
    <2> QED BY <2>2, <2>11, <2>16 DEF AllLinked
  <1> QED BY <1>2, <1>3

\* All of them.
LEMMA LinksDropped ==
  ASSUME ScanOK, phase = "scan", exited = "none", NEW sorted \in SortedByInode(inode_read_list),
         NEW r, r = RemoveHardLinks(head, SizeOfSet, sorted)
  PROVE  /\ Inodelist(sorted, DOMAIN blocks) /\ Len(sorted) \in Nat
         /\ \A i \in 1 .. Len(sorted) - 1 : AsInt(sorted[i].inode - sorted[i + 1].inode) <= 0
         /\ AllLinked(head, Repeated(sorted, Len(sorted)), r)
  <1>1. /\ Inodelist(sorted, DOMAIN blocks) /\ Len(sorted) \in Nat
        /\ \A i \in 1 .. Len(sorted) - 1 : AsInt(sorted[i].inode - sorted[i + 1].inode) <= 0
    <2>1. Inodelist(inode_read_list, DOMAIN blocks) /\ hardlink_is_unique \in BOOLEAN
      BY DEF ScanOK, InodesOK, ScanTyped
    <2> QED BY <2>1, SortedIs
  <1> DEFINE n == Len(sorted)
  <1>2. PICK g : Drops(head, SizeOfSet, sorted, n, g) /\ r = g[n]
    <2>1. PICK sof : sof = SizeOfSet
      OBVIOUS
    <2> QED BY <1>1, <2>1, LinksAreDropped
  <1> DEFINE OK(i) == AllLinked(head, Repeated(sorted, i), g[i])
             Bad == {i \in 0 .. n : ~OK(i)}
  <1>3. g[0] = head /\ \A i \in 1 .. n : g[i] = DropStep(SizeOfSet, sorted, g[i - 1], i)
    <2>1. g = [i \in 0 .. n |-> IF i = 0 THEN head ELSE DropStep(SizeOfSet, sorted, g[i - 1], i)]
      BY <1>2 DEF Drops
    <2>2. 0 \in 0 .. n /\ \A i \in 1 .. n : i \in 0 .. n /\ i # 0
      BY <1>1
    <2> QED BY <2>1, <2>2
  <1>4. OK(0)
    <2>1. Repeated(sorted, 0) = {}
      BY DEF Repeated
    <2>2. ASSUME NEW s \in DOMAIN head
          PROVE  LinkedSet(DOMAIN head[s].entry, head[s], {} \cap DOMAIN head[s].entry, FirstBufsize(s))
      <3>1. s \in Sizes /\ FilesOfSize(s) = DOMAIN head[s].entry
        BY DEF ScanOK, TreeOK, SizesOK, FilesOfSize
      <3>2. PICK F : F = DOMAIN head[s].entry
        OBVIOUS
      <3>3. F \subseteq Files /\ Cardinality(F) > 1
        BY <3>1, <3>2, FilesOfSizeAre DEF ScanOK
      <3>4. head[s] \in FreshSet(F, FirstBufsize(s), Cardinality(F))
        BY <3>2 DEF ScanOK, FreshOK
      <3>5. FirstBufsize(s) \in Nat
        <4>1. s \in Nat
          BY <3>1, SizeTreeAssumption DEF Sizes
        <4> QED BY <4>1, BufsizesTyped
      <3>6. LinkedSet(F, head[s], {}, FirstBufsize(s))
        BY <3>3, <3>4, <3>5, FreshLinked
      <3>7. {} \cap F = {}
        OBVIOUS
      <3> QED BY <3>2, <3>6, <3>7
    <2> QED BY <1>3, <2>1, <2>2 DEF AllLinked
  <1>5. ASSUME NEW i \in 1 .. n, OK(i - 1) PROVE OK(i)
    BY <1>1, <1>3, <1>5, OneDropped
  <1>6. Bad = {}
    <2> SUFFICES ASSUME Bad # {} PROVE FALSE
      OBVIOUS
    <2>1. PICK m \in Bad : \A k \in Bad : m <= k
      <3>1. Bad \subseteq Nat
        BY <1>1
      <3> HIDE DEF Bad
      <3> QED BY <3>1, LeastNumber
    <2>2. m \in 0 .. n /\ ~OK(m)
      OBVIOUS
    <2>3. m \in 1 .. n
      <3>1. m # 0
        BY <1>4, <2>2
      <3> HIDE DEF OK
      <3> QED BY <2>2, <3>1
    <2>4. ~(m <= m - 1) /\ m - 1 \in 0 .. n
      BY <1>1, <2>3
    <2>5. m - 1 \notin Bad
      <3> HIDE DEF Bad
      <3> QED BY <2>1, <2>4
    <2>6. OK(m - 1)
      <3> HIDE DEF OK
      <3> QED BY <2>4, <2>5
    <2> QED BY <1>5, <2>2, <2>3, <2>6
  <1>7. OK(n)
    <2>1. n \in 0 .. n /\ n \notin Bad
      BY <1>1, <1>6
    <2> HIDE DEF OK
    <2> QED BY <2>1
  <1> QED BY <1>1, <1>2, <1>7

-----------------------------------------------------------------------------
(* process_cached_hashes() decides a set. *)

(* The set h of the files F, whose hashes are known, and some of which are
   unique already. *)
LookedUp(F, h) ==
  /\ h \in PathListType(F) /\ \A f \in F : h.entry[f].state \in {"FS_CACHE_DONE", "FS_UNIQUE"}
  /\ h.buffer_ready = 0 /\ h.processed = 0 /\ h.published = {}

(* Two files at least are left, or none; and nothing has stopped it. *)
NoneAlone(h) == h.state = "PLS_DONE" /\ (h.list_size > 1 \/ h.list_size = 0)
GoesOn(F, h) ==
  /\ NoneAlone(h) /\ h.exited = "none"
  /\ h.list_size = 0 => \A f \in F : h.entry[f].state = "FS_UNIQUE"

\* A set with other entries, if they are looked up.
LEMMA StaysLookedUp ==
  ASSUME NEW F, NEW h, LookedUp(F, h), NEW r \in PathListType(F), Kept(h, r),
         \A f \in F : r.entry[f].state \in {"FS_CACHE_DONE", "FS_UNIQUE"}
  PROVE  LookedUp(F, r)
  BY DEF LookedUp, Kept

\* mark_path_entry_unique() of one of its files.
LEMMA CachedUnique ==
  ASSUME NEW F, IsFiniteSet(F), NEW h, LookedUp(F, h), NEW x \in F,
         NEW r, r = mark_path_entry_unique(h, x)
  PROVE  LookedUp(F, r) /\ (NoneAlone(h) => NoneAlone(r)) /\ (GoesOn(F, h) => GoesOn(F, r))
  <1> DEFINE less == Less(h, x, "FS_UNIQUE")
             marked == MarkIfReady(less)
  <1>0. /\ "FS_UNIQUE" \in FileStates /\ "FS_UNIQUE but list size is zero" \in Checks
    BY DEF FileStates, Checks
  <1>1. h \in PathListType(F) /\ h.list_size \in Nat /\ h.entry \in [F -> EntryType]
    BY Zenon DEF LookedUp, PathListType
  <1>2. h.entry[x].state \in {"FS_CACHE_DONE", "FS_UNIQUE"}
    BY DEF LookedUp
  <1>3. CASE h.entry[x].state = "FS_UNIQUE"
    <2>1. r = h
      BY <1>3, Zenon DEF mark_path_entry_unique
    <2> QED BY <2>1
  <1>4. CASE h.entry[x].state = "FS_CACHE_DONE" /\ h.list_size = 0
    <2>1. r = Exit(h, "FS_UNIQUE but list size is zero")
      BY <1>4 DEF mark_path_entry_unique
    <2>2. PICK check \in Checks : check = "FS_UNIQUE but list size is zero"
      BY <1>0
    <2>3. /\ r \in PathListType(F) /\ Kept(h, r) /\ r.entry = h.entry
          /\ r.state = h.state /\ r.list_size = h.list_size
      <3>1. r = Exit(h, check) /\ h \in PathListType(F)
        BY <1>1, <2>1, <2>2
      <3> QED BY <3>1, ExitIs
    <2>4. LookedUp(F, r)
      BY <2>3, StaysLookedUp DEF LookedUp
    <2>5. ~GoesOn(F, h)
      <3>1. h.list_size = 0 /\ h.entry[x].state # "FS_UNIQUE"
        BY <1>4
      <3> QED BY <3>1 DEF GoesOn
    <2> QED BY <2>3, <2>4, <2>5 DEF NoneAlone
  <1>5. CASE h.entry[x].state = "FS_CACHE_DONE" /\ h.list_size # 0
    <2>1. r = IF marked.list_size = 1 THEN clear_remaining_entry(marked) ELSE marked
      BY <1>5 DEF mark_path_entry_unique, Less
    <2>2. PICK n \in Nat : h.list_size = n /\ n > 0
      BY <1>1, <1>5
    <2> HIDE DEF less, marked
    <2>3. LessBy(F, h, x, "FS_UNIQUE", less)
      BY <1>0, <1>1, <2>2, MarkedIs DEF less
    <2>4. /\ less \in PathListType(F) /\ Kept(h, less) /\ less.state = h.state
          /\ less.list_size = n - 1 /\ less.exited = h.exited
          /\ less.entry = Retired(h.entry, {x}, "FS_UNIQUE") /\ less.buffer_ready = 0
      BY <2>2, <2>3 DEF LessBy, Kept, LookedUp
    <2>5. /\ marked \in PathListType(F) /\ Kept(less, marked) /\ marked.list_size = less.list_size
          /\ marked.exited = less.exited /\ marked.entry = less.entry
          /\ marked.state = IF less.list_size = less.buffer_ready THEN "PLS_ALL_BUFFERS_READY"
                            ELSE less.state
      BY <2>4, MarkIfReadyIs DEF marked
    <2>6. /\ \A f \in F : marked.entry[f].state \in {"FS_CACHE_DONE", "FS_UNIQUE"}
          /\ marked.entry \in [F -> EntryType]
      <3>1. PICK en, T, st, new : en = h.entry /\ T = {x} /\ st = "FS_UNIQUE" /\ new = marked.entry
        OBVIOUS
      <3>2. st \in FileStates /\ T \subseteq F /\ new = Retired(en, T, st) /\ en \in [F -> EntryType]
        BY <1>0, <1>1, <2>4, <2>5, <3>1
      <3>3. RetiredAs(F, en, T, st, new)
        BY <3>2, AreRetired
      <3> QED BY <3>1, <3>3 DEF RetiredAs, LookedUp
    <2>7. LookedUp(F, marked)
      <3>1. Kept(h, marked)
        BY <2>4, <2>5 DEF Kept
      <3> QED BY <2>5, <2>6, <3>1, StaysLookedUp
    <2>8. CASE marked.list_size # 1
      <3>1. r = marked
        BY <2>1, <2>8
      <3>2. ASSUME NoneAlone(h) PROVE NoneAlone(marked) /\ marked.list_size # 0
        <4>1. n > 1
          BY <1>5, <2>2, <3>2 DEF NoneAlone
        <4>2. less.list_size # 0 /\ less.list_size > 1
          BY <2>4, <2>5, <2>8, <4>1
        <4> QED BY <2>4, <2>5, <3>2, <4>2 DEF NoneAlone
      <3>3. GoesOn(F, h) => GoesOn(F, marked)
        BY <2>4, <2>5, <3>2 DEF GoesOn
      <3> QED BY <2>7, <3>1, <3>2, <3>3
    <2>9. CASE marked.list_size = 1
      <3>1. r = clear_remaining_entry(marked)
        BY <2>1, <2>9
      <3>2. InState(marked, {"FS_DONE"}) = {} /\ DOMAIN marked.entry = F
        BY <2>6 DEF InState
      <3>3. /\ r \in PathListType(F) /\ Kept(marked, r)
            /\ r.state = "PLS_DONE" /\ r.list_size = 0 /\ r.exited = marked.exited
            /\ r.entry = Retired(marked.entry, Remaining(marked), "FS_UNIQUE")
        BY <2>5, <3>1, <3>2, ClearedIs
      <3>4. \A f \in F : r.entry[f].state = "FS_UNIQUE"
        <4>1. PICK en, T, st, new : /\ en = marked.entry /\ T = Remaining(marked)
                                     /\ st = "FS_UNIQUE" /\ new = r.entry
          OBVIOUS
        <4>2. T \subseteq F /\ \A f \in F \ T : en[f].state = "FS_UNIQUE"
          BY <2>6, <3>2, <4>1 DEF Remaining, InState
        <4>3. st \in FileStates /\ new = Retired(en, T, st) /\ en \in [F -> EntryType]
          BY <1>0, <2>6, <3>3, <4>1
        <4>4. RetiredAs(F, en, T, st, new)
          BY <4>2, <4>3, AreRetired
        <4> QED BY <4>1, <4>2, <4>4 DEF RetiredAs
      <3>5. LookedUp(F, r)
        BY <2>7, <3>3, <3>4, StaysLookedUp
      <3>6. GoesOn(F, h) => GoesOn(F, r)
        BY <2>4, <2>5, <3>3, <3>4 DEF GoesOn, NoneAlone
      <3> QED BY <3>3, <3>5, <3>6 DEF NoneAlone
    <2> QED BY <2>8, <2>9
  <1> QED BY <1>2, <1>3, <1>4, <1>5

\* skim_uniques() of it.
LEMMA CachedSkims ==
  ASSUME NEW F, IsFiniteSet(F), NEW h, LookedUp(F, h), NEW A, A \subseteq F,
         NEW r, r = FoldSet(Skim, h, A)
  PROVE  LookedUp(F, r) /\ (NoneAlone(h) => NoneAlone(r)) /\ (GoesOn(F, h) => GoesOn(F, r))
  <1> DEFINE Ok(U) == LET g == FoldSet(Skim, h, U) IN LookedUp(F, g) /\ (NoneAlone(h) => NoneAlone(g)) /\ (GoesOn(F, h) => GoesOn(F, g))
             Bad == {U \in SUBSET A : ~Ok(U)}
  <1>0. IsFiniteSet(A)
    BY FS_Subset
  <1>1. Bad = {}
    <2> SUFFICES ASSUME Bad # {} PROVE FALSE
      OBVIOUS
    <2>1. PICK U \in Bad : \A V \in Bad : V \subseteq U => V = U
      <3>1. Bad \subseteq SUBSET A
        OBVIOUS
      <3> HIDE DEF Bad
      <3> QED BY <1>0, <3>1, MinimalSubset
    <2>2. U \subseteq A /\ ~Ok(U) /\ IsFiniteSet(U)
      BY <1>0, FS_Subset
    <2>3. U # {}
      <3> SUFFICES ASSUME U = {} PROVE FALSE
        OBVIOUS
      <3>1. FoldSet(Skim, h, U) = h
        BY <2>2, SkimUnfolds
      <3> QED BY <2>2, <3>1
    <2>4. PICK x \in U : FoldSet(Skim, h, U) = Skim(x, FoldSet(Skim, h, U \ {x}))
      BY <2>2, <2>3, SkimUnfolds
    <2>5. Ok(U \ {x})
      <3>1. U \ {x} \subseteq U /\ U \ {x} # U /\ U \ {x} \in SUBSET A
        BY <2>2
      <3>2. U \ {x} \notin Bad
        <4> HIDE DEF Bad
        <4> QED BY <2>1, <3>1
      <3> HIDE DEF Ok
      <3> QED BY <3>1, <3>2
    <2>6. PICK g, m, k : /\ g = FoldSet(Skim, h, U \ {x}) /\ m = mark_path_entry_unique(g, x)
                         /\ k = FoldSet(Skim, h, U)
      OBVIOUS
    <2>7. LookedUp(F, g) /\ (NoneAlone(h) => NoneAlone(g)) /\ (GoesOn(F, h) => GoesOn(F, g))
      BY <2>5, <2>6
    <2>8. LookedUp(F, m) /\ (NoneAlone(g) => NoneAlone(m)) /\ (GoesOn(F, g) => GoesOn(F, m))
      <3>1. x \in F
        BY <2>2
      <3> QED BY <2>6, <2>7, <3>1, CachedUnique
    <2>9. k = [m EXCEPT !.unique = @ + 1]
      BY <2>4, <2>6 DEF Skim
    <2>10. /\ k \in PathListType(F) /\ Kept(m, k) /\ k.exited = m.exited
           /\ k.list_size = m.list_size /\ k.state = m.state /\ k.entry = m.entry
      <3>1. m \in PathListType(F)
        BY <2>8 DEF LookedUp
      <3>2. PICK one \in Int : one = 1
        OBVIOUS
      <3>3. k = [m EXCEPT !.unique = @ + one]
        BY <2>9, <3>2
      <3> QED BY <3>1, <3>3, UniqueNoted
    <2>11. LookedUp(F, k)
      <3>1. \A f \in F : k.entry[f].state \in {"FS_CACHE_DONE", "FS_UNIQUE"}
        BY <2>8, <2>10 DEF LookedUp
      <3> QED BY <2>8, <2>10, <3>1, StaysLookedUp
    <2>12. (NoneAlone(m) => NoneAlone(k)) /\ (GoesOn(F, m) => GoesOn(F, k))
      BY <2>10 DEF GoesOn, NoneAlone
    <2> QED BY <2>2, <2>6, <2>7, <2>8, <2>11, <2>12
  <1>2. A \in SUBSET A /\ A \notin Bad
    BY <1>1
  <1>3. Ok(A)
    <2> HIDE DEF Ok
    <2> QED BY <1>2
  <1> QED BY <1>3

(* Every file that has an equal is published, and no other; those that have
   none may be unique. *)
DecidedBy(F, hash, r) ==
  /\ r \in PathListType(F) /\ r.processed = 1 /\ r.published = Shared(hash)
  /\ \A f \in F : /\ r.entry[f].state \in {"FS_DONE", "FS_UNIQUE", "FS_CACHE_DONE"}
                  /\ r.entry[f].state = "FS_DONE" <=> f \notin Alone(hash)

\* The set was counted.
LEMMA ProcessedIs ==
  ASSUME NEW F, NEW h \in PathListType(F), NEW n \in Nat, NEW r, r = [h EXCEPT !.processed = n]
  PROVE  /\ r \in PathListType(F) /\ r.processed = n /\ r.published = h.published
         /\ r.exited = h.exited /\ r.state = h.state /\ r.entry = h.entry
  <1>1. r \in PathListType(F)
    BY Zenon DEF PathListType
  <1>2. /\ r.processed = n /\ r.published = h.published
        /\ r.exited = h.exited /\ r.state = h.state /\ r.entry = h.entry
    BY DEF PathListType
  <1> QED BY <1>1, <1>2

\* process_cached() does this.  It stops only at a set of which nothing is left.
LEMMA CachedIs ==
  ASSUME NEW F, IsFiniteSet(F), NEW h, Undecided(F, h), NEW hash, DOMAIN hash = F,
         NEW r, r = process_cached(h, hash)
  PROVE  /\ DecidedBy(F, hash, r) /\ GroupedBy(hash, F, Alone(hash), Shared(hash))
         /\ h.list_size > 1 \/ h.list_size = 0 => r.state = "PLS_DONE"
         /\ h.exited = "none" /\ (h.list_size > 1 \/ (h.list_size = 0 /\ Alone(hash) = {})) =>
              r.exited = "none"
  <1> DEFINE en == [f \in F |-> [h.entry[f] EXCEPT !.state = "FS_CACHE_DONE"]]
             looked == [h EXCEPT !.entry = en, !.state = "PLS_DONE"]
             A == Alone(hash)
             P == Shared(hash)
             sk == FoldSet(Skim, looked, A)
             result == IF HasDups(Groups(hash)) THEN Published(sk, P) ELSE sk
  <1>0. /\ "FS_CACHE_DONE" \in FileStates /\ "FS_DONE" \in FileStates /\ "PLS_DONE" \in ListStates
    BY DEF FileStates, ListStates
  <1>1. h \in PathListType(F) /\ h.entry \in [F -> EntryType] /\ DOMAIN h.entry = F
    <2>1. h \in PathListType(F)
      BY DEF Undecided
    <2>2. h.entry \in [F -> EntryType]
      BY <2>1, Zenon DEF PathListType
    <2> QED BY <2>1, <2>2
  <1>2. r = [result EXCEPT !.processed = @ + 1]
    <2>1. looked = [h EXCEPT !.entry = [f \in DOMAIN @ |-> [@[f] EXCEPT !.state = "FS_CACHE_DONE"]],
                             !.state = "PLS_DONE"]
      BY <1>1, Zenon
    <2>2. skim_uniques(looked, Groups(hash)) = sk
      BY Zenon DEF skim_uniques, Alone
    <2> HIDE DEF looked, sk
    <2>3. publish(sk, Groups(hash)) = Published(sk, P)
      BY Zenon DEF publish, Published, Shared
    <2> QED BY <2>1, <2>2, <2>3, Zenon DEF process_cached
  <1>3. GroupedBy(hash, F, A, P)
    BY GroupsAre
  <1>4. /\ A \subseteq F /\ UNION P = F \ A /\ (HasDups(Groups(hash)) <=> A # F)
        /\ P \subseteq SUBSET F
    BY <1>3 DEF GroupedBy
  <1>5. en \in [F -> EntryType] /\ \A f \in F : en[f].state = "FS_CACHE_DONE"
    <2> SUFFICES ASSUME NEW f \in F
                 PROVE  en[f] \in EntryType /\ en[f].state = "FS_CACHE_DONE"
      OBVIOUS
    <2>1. PICK e, st, k : /\ e = h.entry[f] /\ st = "FS_CACHE_DONE" /\ e \in EntryType
                           /\ st \in FileStates /\ k = [e EXCEPT !.state = st]
      BY <1>0, <1>1
    <2>2. k \in EntryType
      BY <2>1, Zenon DEF EntryType
    <2>3. k.state = st
      BY <2>1 DEF EntryType
    <2>4. en[f] = k
      BY <2>1
    <2> QED BY <2>1, <2>2, <2>3, <2>4
  <1> HIDE DEF en
  <1>6. PICK st : st = "PLS_DONE" /\ looked = [h EXCEPT !.entry = en, !.state = st]
    OBVIOUS
  <1> HIDE DEF looked
  <1>7. looked \in PathListType(F)
    BY <1>0, <1>1, <1>5, <1>6, Zenon DEF PathListType
  <1>8. /\ looked.entry = en /\ looked.state = st /\ looked.list_size = h.list_size
        /\ looked.exited = h.exited /\ looked.buffer_ready = h.buffer_ready
        /\ looked.processed = h.processed /\ looked.published = h.published
    BY <1>1, <1>6 DEF PathListType
  <1>9. LookedUp(F, looked)
    BY <1>5, <1>7, <1>8 DEF LookedUp, Undecided
  <1>10. LookedUp(F, sk) /\ (NoneAlone(looked) => NoneAlone(sk)) /\ (GoesOn(F, looked) => GoesOn(F, sk))
    BY <1>4, <1>9, CachedSkims
  <1>11. A = {} => sk = looked
    BY FS_EmptySet, SkimUnfolds
  <1> HIDE DEF sk, A, P
  <1>12. /\ sk \in PathListType(F) /\ sk.processed = 0 /\ sk.published = {}
         /\ \A f \in F : sk.entry[f].state \in {"FS_CACHE_DONE", "FS_UNIQUE"}
    BY <1>10 DEF LookedUp
  <1>13. /\ result \in PathListType(F) /\ result.processed = 0 /\ result.published = P
         /\ result.exited = sk.exited /\ result.state = sk.state
         /\ \A f \in F : /\ result.entry[f].state \in {"FS_DONE", "FS_UNIQUE", "FS_CACHE_DONE"}
                         /\ result.entry[f].state = "FS_DONE" <=> f \notin A
    <2>1. CASE A # F
      <3>1. PICK T, s1 : T = UNION P /\ s1 = "FS_DONE"
        OBVIOUS
      <3>2. result = Published(sk, P)
        BY <1>4, <2>1
      <3> HIDE DEF result
      <3>3. /\ result \in PathListType(F) /\ result.exited = sk.exited
            /\ result.processed = sk.processed /\ result.published = sk.published \cup P
            /\ result.entry = Retired(sk.entry, T, "FS_DONE")
        <4>1. P \subseteq SUBSET F /\ T = UNION P /\ result = Published(sk, P) /\ sk \in PathListType(F)
          BY <1>4, <1>12, <3>1, <3>2
        <4> QED BY <4>1, PublishedIs
      <3>4. result.state = sk.state
        <4>1. PICK g, pub, n : /\ g = Retire(sk, T, "FS_DONE") /\ pub = g.published \cup P
                               /\ n = g.dups + sk.list_size
          OBVIOUS
        <4>2. g \in PathListType(F) /\ g.state = sk.state
          <5>1. T \in SUBSET F
            BY <1>4, <3>1
          <5> QED BY <1>0, <1>12, <4>1, <5>1, RetireIs
        <4>3. result = [g EXCEPT !.published = pub, !.dups = n]
          BY <3>1, <3>2, <4>1 DEF Published
        <4> QED BY <4>2, <4>3 DEF PathListType
      <3>5. sk.entry \in [F -> EntryType]
        BY <1>12, Zenon DEF PathListType
      <3>6. \A f \in F : /\ f \in T => result.entry[f].state = "FS_DONE"
                         /\ f \notin T => result.entry[f] = sk.entry[f]
        <4>1. PICK e1, e2 : e1 = sk.entry /\ e2 = result.entry
          OBVIOUS
        <4>2. s1 \in FileStates /\ T \subseteq F /\ e2 = Retired(e1, T, s1) /\ e1 \in [F -> EntryType]
          BY <1>0, <1>4, <3>1, <3>3, <3>5, <4>1
        <4>3. RetiredAs(F, e1, T, s1, e2)
          BY <4>2, AreRetired
        <4> QED BY <3>1, <4>1, <4>3 DEF RetiredAs
      <3>7. \A f \in F : f \in T <=> f \notin A
        BY <1>4, <3>1
      <3> QED BY <1>12, <3>3, <3>4, <3>6, <3>7
    <2>2. CASE A = F
      <3>1. result = sk
        BY <1>4, <2>2
      <3>2. P = {}
        <4>1. ~ \E g \in Groups(hash) : Cardinality(g) > 1
          BY <1>4, <2>2 DEF HasDups
        <4> QED BY <4>1 DEF P, Shared
      <3> QED BY <1>12, <2>2, <3>1, <3>2
    <2> QED BY <2>1, <2>2
  <1> HIDE DEF result
  <1>14. PICK one \in Nat : one = 1 /\ r = [result EXCEPT !.processed = one]
    <2>1. result.processed + 1 = 1
      BY <1>13
    <2>2. r = [result EXCEPT !.processed = result.processed + 1]
      BY <1>2, Zenon
    <2> QED BY <2>1, <2>2
  <1>15. r \in PathListType(F) /\ r.processed = one /\ r.published = result.published
         /\ r.exited = result.exited /\ r.state = result.state /\ r.entry = result.entry
    BY <1>13, <1>14, ProcessedIs
  <1>16. /\ r.processed = 1 /\ r.published = P /\ r.exited = sk.exited /\ r.state = sk.state
         /\ r.entry = result.entry
    BY <1>13, <1>14, <1>15
  <1>17. DecidedBy(F, hash, r)
    BY <1>13, <1>15, <1>16 DEF DecidedBy, A, P
  <1>18. ASSUME h.list_size > 1 \/ h.list_size = 0 PROVE r.state = "PLS_DONE"
    BY <1>6, <1>8, <1>10, <1>16, <1>18 DEF NoneAlone
  <1>19. ASSUME h.exited = "none", h.list_size > 1 \/ (h.list_size = 0 /\ A = {})
         PROVE  r.exited = "none"
    <2>1. h.list_size \in Nat
      BY <1>1, Zenon DEF PathListType
    <2>2. CASE h.list_size > 1
      <3>1. looked.list_size # 0 /\ looked.list_size > 1
        BY <1>8, <2>1, <2>2
      <3>2. GoesOn(F, looked)
        BY <1>6, <1>8, <1>19, <3>1 DEF GoesOn, NoneAlone
      <3> QED BY <1>10, <1>16, <3>2 DEF GoesOn
    <2>3. CASE A = {}
      BY <1>8, <1>11, <1>16, <1>19, <2>3
    <2> QED BY <1>19, <2>2, <2>3
  <1> QED BY <1>3, <1>17, <1>18, <1>19 DEF A, P

-----------------------------------------------------------------------------
(* Which links are left out. *)

(* No two inodes are so far apart that their difference does not fit an int. *)
CloseInodes == \A i, j \in Inodes : i - j < IntSize \div 2

\* Then the comparison is that of the numbers.
LEMMA IntCompares ==
  ASSUME CloseInodes, NEW i \in Inodes, NEW j \in Inodes, AsInt(i - j) <= 0
  PROVE  i <= j
  <1>1. i \in Nat /\ j \in Nat
    BY SizeTreeAssumption
  <1>2. PICK n \in Int : n = i - j
    BY <1>1
  <1>3. PICK m \in Nat : m = IntSize
    BY ReadListAssumption
  <1>4. m > 0 /\ n < m \div 2
    BY <1>2, <1>3, ReadListAssumption DEF CloseInodes
  <1>5. ASSUME n > 0 PROVE FALSE
    <2>1. PICK k \in Nat : k = m \div 2 /\ k <= m
      BY <1>4
    <2>2. n % m = n
      <3>1. n < m
        BY <1>4, <2>1
      <3> QED BY <1>5, <3>1
    <2>3. AsInt(n) = n
      BY <1>3, <1>4, <2>1, <2>2 DEF AsInt
    <2> QED BY <1>2, <1>5, <2>3
  <1> QED BY <1>1, <1>2, <1>5

\* Neighbours in order are all in order.
LEMMA AllInOrder ==
  ASSUME NEW n \in Nat, NEW v, \A i \in 1 .. n : v[i] \in Nat,
         \A i \in 1 .. n - 1 : v[i] <= v[i + 1]
  PROVE  \A i, j \in 1 .. n : i <= j => v[i] <= v[j]
  <1> SUFFICES ASSUME NEW i \in 1 .. n PROVE \A j \in 1 .. n : i <= j => v[i] <= v[j]
    OBVIOUS
  <1> DEFINE Bad == {j \in 1 .. n : i <= j /\ ~(v[i] <= v[j])}
  <1>1. Bad = {}
    <2> SUFFICES ASSUME Bad # {} PROVE FALSE
      OBVIOUS
    <2>1. PICK m \in Bad : \A k \in Bad : m <= k
      <3>1. Bad \subseteq Nat
        OBVIOUS
      <3> HIDE DEF Bad
      <3> QED BY <3>1, LeastNumber
    <2>2. m \in 1 .. n /\ i <= m /\ ~(v[i] <= v[m])
      OBVIOUS
    <2>3. m # i
      BY <2>2
    <2>4. PICK k \in 1 .. n : m = k + 1 /\ i <= k
      <3>1. m - 1 \in 1 .. n /\ m = (m - 1) + 1 /\ i <= m - 1
        BY <2>2, <2>3
      <3> QED BY <3>1
    <2>5. k \notin Bad
      <3>1. ~(m <= k)
        BY <2>4
      <3> HIDE DEF Bad
      <3> QED BY <2>1, <3>1
    <2>6. v[i] <= v[k]
      BY <2>4, <2>5
    <2>7. v[k] <= v[m]
      BY <2>2, <2>4
    <2> QED BY <2>2, <2>4, <2>6, <2>7
  <1> QED BY <1>1

(* Of the files F of a set, the links R are left out: no two of the others are
   one file, unless one was replaced; and while none is, there is one left for
   each that is out. *)
Marked(F, R) ==
  /\ CloseInodes /\ hardlink_is_unique =>
       \A e, f \in F \ R : e # f /\ disk[e] = seen[e] /\ disk[f] = seen[f] => seen[e] # seen[f]
  /\ disk = seen => \A f \in R : \E g \in F \ R : seen[g] = seen[f]

\* The repeated entries of the sorted list are such links.
LEMMA RepeatedMarked ==
  ASSUME ScanOK, exited = "none", NEW sorted, Inodelist(sorted, DOMAIN blocks), Len(sorted) \in Nat,
         \A i \in 1 .. Len(sorted) - 1 : AsInt(sorted[i].inode - sorted[i + 1].inode) <= 0,
         NEW s \in DOMAIN head, NEW F, F = DOMAIN head[s].entry,
         NEW R, R = Repeated(sorted, Len(sorted))
  PROVE  Marked(F, R \cap F)
  <1> DEFINE I == 1 .. Len(sorted)
  <1>1. F \subseteq DOMAIN blocks
    BY DEF ScanOK, BlocksOK
  <1>2. \A i \in I : sorted[i].file \in Files /\ sorted[i].inode \in Inodes /\ sorted[i].inode \in Nat
    <2>1. sorted \in Seq([file : Files, inode : Inodes])
      BY DEF Inodelist
    <2>2. \A i \in I : sorted[i] \in [file : Files, inode : Inodes]
      BY <2>1, ElementOfSeq
    <2> QED BY <2>2, SizeTreeAssumption
  <1>3. \A i \in I : disk[sorted[i].file] = seen[sorted[i].file] => sorted[i].inode = seen[sorted[i].file]
    BY DEF Inodelist
  <1>4. \A f \in R : \E i \in I : f = sorted[i].file /\ Repeats(sorted, i)
    BY DEF Repeated
  <1>5. \A i \in I : Repeats(sorted, i) => sorted[i].file \in R
    BY DEF Repeated
  <1>6. ASSUME CloseInodes, hardlink_is_unique, NEW e \in F \ R, NEW f \in F \ R, e # f,
               disk[e] = seen[e], disk[f] = seen[f], seen[e] = seen[f]
        PROVE  FALSE
    <2>1. PICK i \in I, j \in I : e = sorted[i].file /\ f = sorted[j].file
      <3>1. e \in DOMAIN blocks /\ f \in DOMAIN blocks
        BY <1>1
      <3> QED BY <1>6, <3>1 DEF Inodelist
    <2>2. sorted[i].inode = sorted[j].inode /\ i # j
      BY <1>3, <1>6, <2>1
    <2> DEFINE v == [k \in I |-> sorted[k].inode]
    <2>3. \A k, m \in I : k <= m => v[k] <= v[m]
      <3>1. \A k \in I : v[k] \in Nat
        BY <1>2
      <3>2. \A k \in 1 .. Len(sorted) - 1 : v[k] <= v[k + 1]
        <4> SUFFICES ASSUME NEW k \in 1 .. Len(sorted) - 1 PROVE v[k] <= v[k + 1]
          OBVIOUS
        <4>1. k \in I /\ k + 1 \in I
          OBVIOUS
        <4>2. sorted[k].inode <= sorted[k + 1].inode
          BY <1>2, <1>6, <4>1, IntCompares
        <4> QED BY <4>1, <4>2
      <3> HIDE DEF v
      <3> QED BY <3>1, <3>2, AllInOrder
    <2>4. ASSUME NEW a \in I, NEW b \in I, a < b, sorted[a].inode = sorted[b].inode
          PROVE  Repeats(sorted, b)
      <3>1. b - 1 \in I /\ a <= b - 1 /\ b - 1 <= b /\ b > 1
        BY <2>4
      <3>2. v[a] <= v[b - 1] /\ v[b - 1] <= v[b]
        BY <2>3, <3>1
      <3>3. sorted[b - 1].inode = sorted[b].inode
        BY <1>2, <2>4, <3>1, <3>2
      <3> QED BY <3>1, <3>3 DEF Repeats
    <2>5. CASE i < j
      BY <1>5, <2>1, <2>2, <2>4, <2>5
    <2>6. CASE j < i
      BY <1>5, <2>1, <2>2, <2>4, <2>6
    <2> QED BY <2>2, <2>5, <2>6
  <1>7. ASSUME disk = seen, NEW f \in R \cap F
        PROVE  \E g \in F \ R : seen[g] = seen[f]
    <2>1. PICK j \in I : f = sorted[j].file /\ Repeats(sorted, j)
      BY <1>4
    <2> DEFINE Same == {i \in I : sorted[i].inode = sorted[j].inode}
    <2>2. PICK m \in Same : \A k \in Same : m <= k
      <3>1. Same \subseteq Nat /\ Same # {}
        OBVIOUS
      <3> HIDE DEF Same
      <3> QED BY <3>1, LeastNumber
    <2>3. ~Repeats(sorted, m)
      <3> SUFFICES ASSUME Repeats(sorted, m) PROVE FALSE
        OBVIOUS
      <3>1. m - 1 \in I /\ sorted[m - 1].inode = sorted[j].inode /\ ~(m <= m - 1)
        BY DEF Repeats
      <3> QED BY <2>2, <3>1
    <2>4. PICK g : g = sorted[m].file
      OBVIOUS
    <2>5. hardlink_is_unique
      <3> SUFFICES ASSUME ~hardlink_is_unique PROVE FALSE
        OBVIOUS
      <3>1. sorted = << >>
        BY DEF Inodelist
      <3> QED BY <3>1, EmptySeq
    <2>6. g \in DOMAIN blocks /\ \A i \in I : sorted[i].file = g => i = m
      BY <2>4, <2>5 DEF Inodelist
    <2>7. g \notin R
      BY <1>4, <2>3, <2>6
    <2>8. seen[g] = seen[f]
      <3>1. disk[g] = seen[g] /\ disk[f] = seen[f]
        BY <1>7
      <3> QED BY <1>3, <2>1, <2>2, <2>4, <3>1
    <2>9. g \in F
      <3>1. PICK t \in DOMAIN head : g \in DOMAIN head[t].entry
        BY <2>6 DEF ScanOK, BlocksOK
      <3>2. \A x \in DOMAIN head : x \in Sizes /\ FilesOfSize(x) = DOMAIN head[x].entry
        BY DEF ScanOK, TreeOK, SizesOK, FilesOfSize
      <3>3. sizeOf[seen[g]] = t /\ sizeOf[seen[f]] = s
        BY <1>7, <3>1, <3>2 DEF ScanOK, SizesOK
      <3> QED BY <2>8, <3>1, <3>3
    <2> QED BY <2>7, <2>8, <2>9
  <1>8. F \ (R \cap F) = F \ R
    OBVIOUS
  <1> QED BY <1>6, <1>7, <1>8 DEF Marked

\* When one file is left of a set, they are all the same file.
LEMMA OneLeft ==
  ASSUME NEW F, IsFiniteSet(F), Cardinality(F) > 1, NEW R, R \subseteq F, Marked(F, R),
         disk = seen, ~(Cardinality(F \ R) > 1)
  PROVE  \A e, f \in F : seen[e] = seen[f]
  <1> SUFFICES ASSUME NEW e \in F, NEW f \in F, seen[e] # seen[f] PROVE FALSE
    OBVIOUS
  <1>1. \A x \in F : \E g \in F \ R : seen[g] = seen[x]
    BY DEF Marked
  <1>2. PICK a \in F \ R, b \in F \ R : seen[a] = seen[e] /\ seen[b] = seen[f]
    BY <1>1
  <1>3. a # b
    BY <1>2
  <1>4. IsFiniteSet(F \ R)
    BY FS_Subset
  <1>5. Cardinality({a, b}) = 2
    <2>1. IsFiniteSet({a}) /\ Cardinality({a}) = 1 /\ b \notin {a} /\ {a} \cup {b} = {a, b}
      BY <1>3, FS_Singleton
    <2>2. Cardinality({a} \cup {b}) = Cardinality({a}) + 1
      BY <2>1, FS_AddElement
    <2> QED BY <2>1, <2>2
  <1>6. Cardinality({a, b}) <= Cardinality(F \ R)
    BY <1>4, FS_Subset
  <1>7. Cardinality(F \ R) \in Nat
    BY <1>4, FS_CardinalityType
  <1> QED BY <1>5, <1>6, <1>7

-----------------------------------------------------------------------------
(* What holds after the scan: of each set links are left out, or the cache has
   decided it; those that the cache is still to look at are as they were. *)

LinkedFor(s) ==
  LET F == DOMAIN head[s].entry IN
  \E R \in SUBSET F : LinkedSet(F, head[s], R, FirstBufsize(s)) /\ Marked(F, R)

Contents(F) == [f \in F |-> contentOf[seen[f]]]
DecidedFor(s) ==
  LET F == DOMAIN head[s].entry IN
  DecidedBy(F, Contents(F), head[s]) /\ (FewFiles => head[s].state = "PLS_DONE")

LateOK ==
  phase # "scan" =>
    /\ \A s \in DOMAIN head : LinkedFor(s) \/ DecidedFor(s)
    /\ phase = "cached" => \A i \in 1 .. Len(size_list) : i >= size_node => LinkedFor(size_list[i])

ExitsOK == FewFiles => ExitsForMissing

SetsInv == ScanOK /\ LateOK /\ ExitsOK

\* The files of sets are files, and more than one.
LEMMA SetFiles ==
  ASSUME ScanOK, NEW s \in DOMAIN head, NEW F, F = DOMAIN head[s].entry
  PROVE  /\ s \in Sizes /\ F \subseteq Files /\ IsFiniteSet(F) /\ Cardinality(F) > 1
         /\ FilesOfSize(s) = F
         /\ \A f \in F : disk[f] = seen[f] => sizeOf[seen[f]] = s
  <1>1. s \in Sizes /\ FilesOfSize(s) = F
    BY DEF ScanOK, TreeOK, SizesOK, FilesOfSize
  <1>2. F \subseteq Files /\ IsFiniteSet(F) /\ Cardinality(F) > 1
    BY <1>1, FilesOfSizeAre DEF ScanOK
  <1> QED BY <1>1, <1>2 DEF ScanOK, SizesOK

\* What the invariant is about stays when only the entries of sets change.
LEMMA SetsStay ==
  ASSUME ScanOK, DOMAIN head' = DOMAIN head,
         \A s \in DOMAIN head : DOMAIN head'[s].entry = DOMAIN head[s].entry,
         UNCHANGED <<given, disk, found, tip, node, size_list, have_cached_hashes, blocks,
                     read_block_counter>>,
         phase' \in {"cached", "ready"}, size_node' \in Nat \ {0},
         exited' = "none" => exited = "none"
  PROVE  ScanOK' /\ \A s \in Sizes : FilesOfSize(s)' = FilesOfSize(s)
  <1>1. UNCHANGED <<seen, cached, hardlink_is_unique, using_fiemap>>
    BY DEF given
  <1>2. \A s \in Sizes : FilesOfSize(s)' = FilesOfSize(s)
    BY DEF FilesOfSize
  <1>3. ScanTyped'
    BY <1>1 DEF ScanOK, ScanTyped
  <1>4. TreeOK'
    BY DEF ScanOK, TreeOK
  <1>5. SizesOK'
    BY <1>1, <1>2 DEF ScanOK, SizesOK
  <1>6. SetsOK'
    BY <1>1 DEF ScanOK, SetsOK, ChecksCache
  <1>7. FreshOK' /\ InodesOK'
    BY DEF FreshOK, InodesOK
  <1>8. BlocksOK'
    <2>1. UNION {DOMAIN head'[s].entry : s \in DOMAIN head'} = UNION {DOMAIN head[s].entry : s \in DOMAIN head}
      OBVIOUS
    <2> QED BY <2>1 DEF ScanOK, BlocksOK
  <1> QED BY <1>2, <1>3, <1>4, <1>5, <1>6, <1>7, <1>8 DEF ScanOK

\* A set is still like that when only its links, or what they are, is asked.
LEMMA LinkedStays ==
  ASSUME NEW s, head'[s] = head[s], LinkedFor(s),
         \A R \in SUBSET DOMAIN head[s].entry :
           Marked(DOMAIN head[s].entry, R) => Marked(DOMAIN head[s].entry, R)'
  PROVE  LinkedFor(s)'
  <1> DEFINE F == DOMAIN head[s].entry
  <1>1. PICK R \in SUBSET F : LinkedSet(F, head[s], R, FirstBufsize(s)) /\ Marked(F, R)
    BY DEF LinkedFor
  <1>2. Marked(F, R)'
    BY <1>1
  <1> QED BY <1>1, <1>2 DEF LinkedFor

\* The same of one that the cache has decided.
LEMMA DecidedStays ==
  ASSUME NEW s, head'[s] = head[s], UNCHANGED seen, DecidedFor(s)
  PROVE  DecidedFor(s)'
  BY DEF DecidedFor, Contents

\* A change of the file system keeps the invariant.
LEMMA ChangeKeeps ==
  ASSUME SetsInv, exited = "none", ChangeDisk, UNCHANGED <<phase, size_node>>
  PROVE  SetsInv' /\ \A s \in Sizes : FilesOfSize(s)' = FilesOfSize(s)
  <1>1. PICK f \in Files, i \in Inodes \cup {Missing} :
          disk[f] = seen[f] /\ i # disk[f] /\ disk' = [disk EXCEPT ![f] = i]
    BY DEF ChangeDisk
  <1>2. UNCHANGED <<seen, cached, hardlink_is_unique, using_fiemap, found, tip, node, size_list,
                    head, have_cached_hashes, blocks, read_block_counter, inode_read_list, exited>>
    BY DEF ChangeDisk, given, treevars, listvars
  <1>3. disk \in [Files -> Inodes \cup {Missing}] /\ seen \in [Files -> Inodes]
    BY DEF SetsInv, ScanOK, ScanTyped
  <1>4. disk' # seen /\ \A g \in Files : disk'[g] = seen[g] => disk[g] = seen[g]
    BY <1>1, <1>3
  <1>5. \A s \in Sizes : FilesOfSize(s)' = FilesOfSize(s)
    BY <1>2 DEF FilesOfSize
  <1>6. ScanOK'
    <2>1. ScanTyped'
      BY <1>1, <1>2, <1>3 DEF SetsInv, ScanOK, ScanTyped
    <2>2. TreeOK' /\ SetsOK' /\ FreshOK' /\ BlocksOK'
      BY <1>2 DEF SetsInv, ScanOK, TreeOK, SetsOK, FreshOK, BlocksOK, ChecksCache
    <2>3. SizesOK'
      <3>1. \A s \in Sizes : FilesOfSize(s) \subseteq Files
        BY FilesOfSizeAre DEF SetsInv, ScanOK
      <3> QED BY <1>2, <1>4, <1>5, <3>1 DEF SetsInv, ScanOK, SizesOK
    <2>4. InodesOK'
      <3> SUFFICES ASSUME phase = "scan", Inodelist(inode_read_list, DOMAIN blocks)
                   PROVE  Inodelist(inode_read_list, DOMAIN blocks)'
        BY <1>2 DEF SetsInv, ScanOK, InodesOK
      <3>1. \A k \in 1 .. Len(inode_read_list) : inode_read_list[k].file \in Files
        <4>1. inode_read_list \in Seq([file : Files, inode : Inodes])
          BY DEF Inodelist
        <4>2. \A k \in 1 .. Len(inode_read_list) :
                inode_read_list[k] \in [file : Files, inode : Inodes]
          BY <4>1, ElementOfSeq
        <4> QED BY <4>2
      <3> QED BY <1>2, <1>4, <3>1 DEF Inodelist
    <2> QED BY <2>1, <2>2, <2>3, <2>4 DEF ScanOK
  <1>7. LateOK'
    <2>1. ASSUME NEW s \in DOMAIN head, LinkedFor(s) PROVE LinkedFor(s)'
      <3>1. PICK F : F = DOMAIN head[s].entry
        OBVIOUS
      <3>2. F \subseteq Files
        BY <3>1, SetFiles DEF SetsInv
      <3>3. ASSUME NEW R \in SUBSET F, Marked(F, R) PROVE Marked(F, R)'
        BY <1>2, <1>4, <3>2, <3>3 DEF Marked
      <3> QED BY <1>2, <2>1, <3>1, <3>3, LinkedStays
    <2>2. ASSUME NEW s, DecidedFor(s) PROVE DecidedFor(s)'
      BY <1>2, <2>2, DecidedStays
    <2>3. \A k \in 1 .. Len(size_list) : size_list[k] \in DOMAIN head
      <3>1. size_list \in Seq(DOMAIN head)
        BY DEF SetsInv, ScanOK, SetsOK
      <3> QED BY <3>1, ElementOfSeq
    <2> QED BY <1>2, <2>1, <2>2, <2>3 DEF SetsInv, LateOK
  <1>8. ExitsOK'
    BY <1>2 DEF ExitsOK, ExitsForMissing
  <1> QED BY <1>5, <1>6, <1>7, <1>8 DEF SetsInv

\* Adding a file does.
LEMMA ScanKeeps ==
  ASSUME SetsInv, Scan
  PROVE  SetsInv'
  <1>1. phase = "scan" /\ phase' = "scan" /\ size_node' = size_node /\ ScanOK
    BY DEF Scan, SetsInv
  <1>2. PICK f \in Files :
          /\ f = found + 1 /\ found' = f /\ exited = "none" /\ UNCHANGED <<given, disk, changes>>
          /\ \/ Skipped
             \/ \E s \in Sizes : /\ Waits(f, s) \/ Gathers(f, s)
                                 /\ disk[f] = seen[f] => sizeOf[seen[f]] = s
    BY <1>1, AddFileIs DEF Scan
  <1>3. Taken(f)
    BY <1>1, <1>2 DEF Taken
  <1>4. UNCHANGED <<seen, disk>>
    BY <1>2 DEF given
  <1>5. LateOK'
    BY <1>1 DEF LateOK
  <1>6. CASE Skipped
    <2>1. ScanOK'
      BY <1>1, <1>3, <1>6, SkippedKeeps
    <2>2. exited' = "none"
      BY <1>2, <1>6 DEF Skipped
    <2> QED BY <1>5, <2>1, <2>2 DEF SetsInv, ExitsOK, ExitsForMissing
  <1>7. ASSUME NEW s \in Sizes, Waits(f, s), disk[f] = seen[f] => sizeOf[seen[f]] = s
        PROVE  SetsInv'
    <2>1. ScanOK'
      BY <1>1, <1>3, <1>7, WaitsKeeps
    <2>2. exited' = "none"
      BY <1>2, <1>7 DEF Waits
    <2> QED BY <1>5, <2>1, <2>2 DEF SetsInv, ExitsOK, ExitsForMissing
  <1>8. ASSUME NEW s \in Sizes, Gathers(f, s), disk[f] = seen[f] => sizeOf[seen[f]] = s
        PROVE  SetsInv'
    <2>1. ScanOK'
      BY <1>1, <1>3, <1>8, GathersKeeps
    <2>2. exited' # "none" => \E g \in FilesOfSize(s) \cup {f} : disk[g] = Missing
      BY <1>8 DEF Gathers, Joins, UpdateLists
    <2>3. FilesOfSize(s) \cup {f} \subseteq Files
      BY <1>1, FilesOfSizeAre DEF ScanOK
    <2>4. \A g \in Files : seen[g] # Missing
      BY <1>1, SizeTreeAssumption DEF ScanOK, ScanTyped
    <2>5. ExitsOK'
      BY <1>4, <2>2, <2>3, <2>4 DEF ExitsOK, ExitsForMissing
    <2> QED BY <1>5, <2>1, <2>5 DEF SetsInv
  <1> QED BY <1>2, <1>6, <1>7, <1>8

\* Sorting the read list does: it leaves out the links of each set.
LEMMA SortKeeps ==
  ASSUME SetsInv, SortReadList
  PROVE  SetsInv' /\ \A s \in Sizes : FilesOfSize(s)' = FilesOfSize(s)
  <1>1. ScanOK /\ phase = "scan" /\ exited = "none"
    BY DEF SetsInv, SortReadList
  <1>2. /\ UNCHANGED <<given, disk, changes, found, treevars, size_list, have_cached_hashes,
                       blocks, read_block_counter, size_node, exited>>
        /\ phase' = IF use_hash_cache THEN "cached" ELSE "ready"
    BY DEF SortReadList
  <1>3. PICK sorted \in SortedByInode(inode_read_list) :
          head' = RemoveHardLinks(head, SizeOfSet, sorted)
    BY DEF SortReadList
  <1>4. /\ Inodelist(sorted, DOMAIN blocks) /\ Len(sorted) \in Nat
        /\ \A i \in 1 .. Len(sorted) - 1 : AsInt(sorted[i].inode - sorted[i + 1].inode) <= 0
        /\ AllLinked(head, Repeated(sorted, Len(sorted)), head')
    <2>1. PICK h : h = head'
      OBVIOUS
    <2> QED BY <1>1, <1>3, <2>1, LinksDropped
  <1>5. PICK R : R = Repeated(sorted, Len(sorted))
    OBVIOUS
  <1>6. DOMAIN head' = DOMAIN head
        /\ \A s \in DOMAIN head : LinkedSet(DOMAIN head[s].entry, head'[s], R \cap DOMAIN head[s].entry,
                                            FirstBufsize(s))
    BY <1>4, <1>5 DEF AllLinked
  <1>7. \A s \in DOMAIN head : DOMAIN head'[s].entry = DOMAIN head[s].entry
    <2> SUFFICES ASSUME NEW s \in DOMAIN head PROVE DOMAIN head'[s].entry = DOMAIN head[s].entry
      OBVIOUS
    <2>1. PICK F, h : F = DOMAIN head[s].entry /\ h = head'[s]
      OBVIOUS
    <2>2. h \in PathListType(F)
      BY <1>6, <2>1 DEF LinkedSet, Undecided
    <2>3. h.entry \in [F -> EntryType]
      BY <2>2, Zenon DEF PathListType
    <2> QED BY <2>1, <2>3
  <1>8. size_node' \in Nat \ {0} /\ phase' \in {"cached", "ready"}
    BY <1>1, <1>2 DEF ScanOK, ScanTyped
  <1>9. ScanOK' /\ \A s \in Sizes : FilesOfSize(s)' = FilesOfSize(s)
    BY <1>1, <1>2, <1>6, <1>7, <1>8, SetsStay DEF treevars
  <1>10. \A s \in DOMAIN head : LinkedFor(s)'
    <2> SUFFICES ASSUME NEW s \in DOMAIN head PROVE LinkedFor(s)'
      OBVIOUS
    <2>1. PICK F : F = DOMAIN head[s].entry
      OBVIOUS
    <2>2. Marked(F, R \cap F)
      BY <1>1, <1>4, <1>5, <2>1, RepeatedMarked
    <2>3. Marked(F, R \cap F)'
      BY <1>2, <2>2 DEF Marked, given
    <2>4. R \cap F \in SUBSET F
      OBVIOUS
    <2>5. LinkedSet(F, head'[s], R \cap F, FirstBufsize(s))
      BY <1>6, <2>1
    <2>6. F = DOMAIN head'[s].entry
      BY <1>7, <2>1
    <2> QED BY <2>3, <2>4, <2>5, <2>6 DEF LinkedFor
  <1>11. LateOK'
    <2>1. \A k \in 1 .. Len(size_list) : size_list[k] \in DOMAIN head
      <3>1. size_list \in Seq(DOMAIN head)
        BY <1>1 DEF ScanOK, SetsOK
      <3> QED BY <3>1, ElementOfSeq
    <2> QED BY <1>2, <1>6, <1>10, <2>1 DEF LateOK
  <1>12. ExitsOK'
    BY <1>1, <1>2 DEF ExitsOK, ExitsForMissing
  <1> QED BY <1>9, <1>11, <1>12 DEF SetsInv

\* A set that the cache decides, and why that can stop the program.
LEMMA DecideSet ==
  ASSUME SetsInv, NEW s \in DOMAIN head, LinkedFor(s), NEW F, F = DOMAIN head[s].entry,
         NEW r, r = process_cached(head[s], Contents(F))
  PROVE  /\ DecidedBy(F, Contents(F), r) /\ (FewFiles => r.state = "PLS_DONE")
         /\ FewFiles /\ disk = seen => r.exited = "none"
  <1> DEFINE hash == Contents(F)
  <1>1. PICK R \in SUBSET F : LinkedSet(F, head[s], R, FirstBufsize(s)) /\ Marked(F, R)
    BY DEF LinkedFor
  <1>2. F \subseteq Files /\ IsFiniteSet(F) /\ Cardinality(F) > 1
    BY SetFiles DEF SetsInv
  <1>3. DOMAIN hash = F /\ \A f \in F : hash[f] = contentOf[seen[f]]
    BY DEF Contents
  <1>4. PICK h : h = head[s]
    OBVIOUS
  <1> HIDE DEF hash
  <1>5. /\ DecidedBy(F, hash, r) /\ GroupedBy(hash, F, Alone(hash), Shared(hash))
        /\ h.list_size > 1 \/ h.list_size = 0 => r.state = "PLS_DONE"
        /\ h.exited = "none" /\ (h.list_size > 1 \/ (h.list_size = 0 /\ Alone(hash) = {})) =>
             r.exited = "none"
    <2>1. Undecided(F, h) /\ r = process_cached(h, hash)
      BY <1>1, <1>4 DEF LinkedSet, hash
    <2> QED BY <1>2, <1>3, <2>1, CachedIs
  <1>6. ASSUME FewFiles PROVE h.exited = "none" /\ (h.list_size > 1 \/ h.list_size = 0)
    BY <1>1, <1>4, <1>6 DEF LinkedSet, LinksLeft
  <1>7. ASSUME FewFiles, disk = seen PROVE r.exited = "none"
    <2>1. CASE Cardinality(F \ R) > 1
      <3>1. h.list_size > 1
        BY <1>1, <1>4, <1>7, <2>1 DEF LinkedSet, LinksLeft
      <3> QED BY <1>5, <1>6, <1>7, <3>1
    <2>2. CASE ~(Cardinality(F \ R) > 1)
      <3>1. h.list_size = 0
        BY <1>1, <1>4, <1>7, <2>2 DEF LinkedSet, LinksLeft
      <3>2. \A e, f \in F : hash[e] = hash[f]
        <4>1. \A e, f \in F : seen[e] = seen[f]
          BY <1>1, <1>2, <1>7, <2>2, OneLeft
        <4> QED BY <1>3, <4>1
      <3>3. Alone(hash) = {}
        <4> SUFFICES ASSUME NEW e \in Alone(hash) PROVE FALSE
          OBVIOUS
        <4>1. e \in F /\ \A f \in F \ {e} : hash[f] # hash[e]
          BY <1>5 DEF GroupedBy
        <4>2. F = {e}
          BY <3>2, <4>1
        <4> QED BY <1>2, <4>2, FS_Singleton
      <3> QED BY <1>5, <1>6, <1>7, <3>1, <3>3
    <2> QED BY <2>1, <2>2
  <1> QED BY <1>5, <1>6, <1>7 DEF hash

\* The cache deciding a set, or not, keeps it.
LEMMA CacheKeeps ==
  ASSUME SetsInv, ProcessCachedSet
  PROVE  SetsInv' /\ \A s \in Sizes : FilesOfSize(s)' = FilesOfSize(s)
  <1>1. PICK s : s = size_list[size_node]
    OBVIOUS
  <1>2. PICK F : F = DOMAIN head[s].entry
    OBVIOUS
  <1>3. /\ phase = "cached" /\ exited = "none" /\ size_node <= Len(size_list)
        /\ size_node' = size_node + 1
        /\ UNCHANGED <<given, disk, changes, found, treevars, size_list, have_cached_hashes,
                       blocks, read_block_counter, inode_read_list, phase, read_list>>
    BY DEF ProcessCachedSet
  <1>4. \/ ~have_cached_hashes[s] /\ UNCHANGED <<head, exited>>
        \/ /\ have_cached_hashes[s] /\ \A f \in F : CacheHashFound(f)
           /\ head' = [head EXCEPT ![s] = process_cached(@, Contents(F))]
           /\ exited' = head'[s].exited
        \/ /\ have_cached_hashes[s] /\ ~ \A f \in F : CacheHashFound(f)
           /\ exited' = "cache entry disappeared" /\ UNCHANGED head
    BY <1>1, <1>2 DEF ProcessCachedSet, Contents
  <1>5. ScanOK /\ size_node \in Nat \ {0}
    BY DEF SetsInv, ScanOK, ScanTyped
  <1>6. /\ size_list \in Seq(DOMAIN head) /\ Len(size_list) \in Nat
        /\ \A k \in 1 .. Len(size_list) : size_list[k] \in DOMAIN head
    <2>1. size_list \in Seq(DOMAIN head)
      BY <1>5 DEF ScanOK, SetsOK
    <2> QED BY <2>1, ElementOfSeq, LenProperties
  <1>7. size_node \in 1 .. Len(size_list) /\ s \in DOMAIN head
    BY <1>1, <1>3, <1>5, <1>6
  <1>8. /\ LinkedFor(s) /\ \A t \in DOMAIN head : LinkedFor(t) \/ DecidedFor(t)
        /\ \A k \in 1 .. Len(size_list) : k >= size_node => LinkedFor(size_list[k])
    <2>1. size_node >= size_node
      BY <1>5
    <2> QED BY <1>1, <1>3, <1>7, <2>1 DEF SetsInv, LateOK
  <1>9. PICK r : r = process_cached(head[s], Contents(F))
    OBVIOUS
  <1>10. /\ DecidedBy(F, Contents(F), r) /\ (FewFiles => r.state = "PLS_DONE")
         /\ FewFiles /\ disk = seen => r.exited = "none"
    BY <1>2, <1>7, <1>8, <1>9, DecideSet
  <1>11. DOMAIN r.entry = F
    <2>1. r \in PathListType(F)
      BY <1>10 DEF DecidedBy
    <2>2. r.entry \in [F -> EntryType]
      BY <2>1, Zenon DEF PathListType
    <2> QED BY <2>2
  <1>12. /\ DOMAIN head' = DOMAIN head /\ \A t \in DOMAIN head : t # s => head'[t] = head[t]
         /\ head'[s] = head[s] \/ head'[s] = r
         /\ head'[s] = r => DOMAIN head'[s].entry = F
    BY <1>4, <1>7, <1>9, <1>11
  <1>13. \A t \in DOMAIN head : DOMAIN head'[t].entry = DOMAIN head[t].entry
    <2> SUFFICES ASSUME NEW t \in DOMAIN head PROVE DOMAIN head'[t].entry = DOMAIN head[t].entry
      OBVIOUS
    <2>1. CASE head'[t] = head[t]
      BY <2>1
    <2>2. CASE head'[t] # head[t]
      BY <1>2, <1>12, <2>2
    <2> QED BY <2>1, <2>2
  <1>14. ScanOK' /\ \A t \in Sizes : FilesOfSize(t)' = FilesOfSize(t)
    <2>1. size_node' \in Nat \ {0} /\ phase' \in {"cached", "ready"}
      BY <1>3, <1>5
    <2> QED BY <1>3, <1>5, <1>12, <1>13, <2>1, SetsStay DEF treevars
  <1>15. ASSUME NEW t, head'[t] = head[t], LinkedFor(t) PROVE LinkedFor(t)'
    <2>1. \A R \in SUBSET DOMAIN head[t].entry :
            Marked(DOMAIN head[t].entry, R) => Marked(DOMAIN head[t].entry, R)'
      BY <1>3, <1>15 DEF Marked, given
    <2> QED BY <1>15, <2>1, LinkedStays
  <1>16. ASSUME NEW t, head'[t] = head[t], DecidedFor(t) PROVE DecidedFor(t)'
    BY <1>3, <1>16, DecidedStays DEF given
  <1>17. head'[s] = r => DecidedFor(s)'
    <2>1. Contents(F)' = Contents(F)
      BY <1>3 DEF Contents, given
    <2> QED BY <1>10, <1>12, <2>1 DEF DecidedFor
  <1>18. LateOK'
    <2>1. \A t \in DOMAIN head : LinkedFor(t)' \/ DecidedFor(t)'
      BY <1>8, <1>12, <1>15, <1>16, <1>17
    <2>2. ASSUME NEW k \in 1 .. Len(size_list), k >= size_node + 1, NEW t, t = size_list[k]
          PROVE  LinkedFor(t)'
      <3>1. k # size_node /\ k >= size_node
        BY <1>5, <2>2
      <3>2. t # s
        BY <1>1, <1>5, <1>7, <2>2, <3>1 DEF ScanOK, SetsOK
      <3>3. LinkedFor(t) /\ t \in DOMAIN head
        BY <1>6, <1>8, <2>2, <3>1
      <3> QED BY <1>12, <1>15, <3>2, <3>3
    <2>3. size_list' = size_list /\ phase' = phase /\ size_node' = size_node + 1
      BY <1>3
    <2> QED BY <1>12, <2>1, <2>2, <2>3 DEF LateOK
  <1>19. ExitsOK'
    <2> SUFFICES ASSUME FewFiles, exited' # "none" PROVE \E f \in Files : disk[f] # seen[f]
      BY <1>3 DEF ExitsOK, ExitsForMissing, given
    <2>1. CASE \A f \in F : CacheHashFound(f)
      <3>1. exited' = r.exited
        BY <1>3, <1>4, <1>7, <1>9, <2>1
      <3>2. disk # seen
        BY <1>10, <3>1
      <3>3. disk = [f \in Files |-> disk[f]] /\ seen = [f \in Files |-> seen[f]]
        BY <1>5 DEF ScanOK, ScanTyped
      <3> QED BY <3>2, <3>3
    <2>2. CASE ~ \A f \in F : CacheHashFound(f)
      <3>1. have_cached_hashes[s]
        BY <1>3, <1>4, <2>2
      <3>2. F \subseteq cached /\ F \subseteq Files
        <4>1. F \subseteq Files
          BY <1>2, <1>5, <1>7, SetFiles
        <4>2. SetsOK
          BY <1>5 DEF ScanOK
        <4>3. F \subseteq cached
          BY <1>2, <1>3, <1>7, <3>1, <4>2 DEF SetsOK
        <4> QED BY <4>1, <4>3
      <3> QED BY <2>2, <3>2 DEF CacheHashFound
    <2> QED BY <2>1, <2>2
  <1> QED BY <1>14, <1>18, <1>19 DEF SetsInv

\* The end of the cached sets, and doing nothing.
LEMMA RestKeeps ==
  ASSUME SetsInv, CachedDone \/ Finished \/ UNCHANGED vars
  PROVE  SetsInv' /\ \A s \in Sizes : FilesOfSize(s)' = FilesOfSize(s)
  <1>1. UNCHANGED <<given, disk, changes, found, treevars, listvars, exited, size_node>>
    BY DEF CachedDone, Finished, vars, scanvars
  <1>2. UNCHANGED <<seen, cached, hardlink_is_unique, using_fiemap, tip, node, size_list, head,
                    have_cached_hashes, blocks, read_block_counter, inode_read_list>>
    BY <1>1 DEF given, treevars, listvars
  <1>3. phase' = phase \/ (phase = "cached" /\ phase' = "ready")
    BY DEF CachedDone, Finished, vars
  <1>4. ScanOK'
    <2>1. ScanTyped'
      BY <1>1, <1>2, <1>3 DEF SetsInv, ScanOK, ScanTyped
    <2>2. TreeOK' /\ SetsOK' /\ BlocksOK'
      BY <1>1, <1>2 DEF SetsInv, ScanOK, TreeOK, SetsOK, BlocksOK, ChecksCache
    <2>3. SizesOK'
      BY <1>1, <1>2 DEF SetsInv, ScanOK, SizesOK, FilesOfSize
    <2>4. phase' = "scan" => phase = "scan"
      BY <1>3
    <2>5. FreshOK'
      BY <1>2, <2>4 DEF SetsInv, ScanOK, FreshOK
    <2>6. InodesOK'
      BY <1>1, <1>2, <2>4 DEF SetsInv, ScanOK, InodesOK, Inodelist
    <2> QED BY <2>1, <2>2, <2>3, <2>5, <2>6 DEF ScanOK
  <1>5. \A s : (LinkedFor(s) => LinkedFor(s)') /\ (DecidedFor(s) => DecidedFor(s)')
    BY <1>1, <1>2 DEF LinkedFor, Marked, DecidedFor, Contents
  <1>6. LateOK'
    BY <1>1, <1>2, <1>3, <1>5 DEF SetsInv, LateOK
  <1>7. ExitsOK'
    BY <1>1, <1>2 DEF SetsInv, ExitsOK, ExitsForMissing
  <1> QED BY <1>2, <1>4, <1>6, <1>7 DEF SetsInv, FilesOfSize

\* It holds at first.
LEMMA SetsInit ==
  ASSUME Init
  PROVE  SetsInv /\ \A s \in Sizes : FilesOfSize(s) = {}
  <1>1. /\ disk = seen /\ found = 0 /\ tip = NULL /\ node = Empty /\ size_list = << >>
        /\ head = Empty /\ have_cached_hashes = Empty /\ blocks = Empty
        /\ read_block_counter = 0 /\ inode_read_list = << >> /\ exited = "none"
        /\ phase = "scan" /\ size_node = 1
    BY DEF Init, ScanInit
  <1>2. /\ seen \in [Files -> Inodes] /\ cached \subseteq Files
        /\ hardlink_is_unique \in BOOLEAN /\ using_fiemap \in BOOLEAN
    <2>1. PICK i \in Instances :
            /\ seen = i.seen /\ cached = i.cached
            /\ hardlink_is_unique = i.hardlink_is_unique /\ using_fiemap = i.using_fiemap
      BY DEF Init, ScanInit
    <2>2. /\ i.seen \in [Files -> Inodes] /\ i.cached \subseteq Files
          /\ {i.hardlink_is_unique, i.using_fiemap} \subseteq BOOLEAN
      BY SizeTreeAssumption
    <2> QED BY <2>1, <2>2
  <1>3. /\ DOMAIN node = {} /\ DOMAIN head = {} /\ DOMAIN blocks = {}
        /\ DOMAIN have_cached_hashes = {} /\ DOMAIN Empty = {}
    BY <1>1 DEF Empty
  <1>4. Cardinality(Files) \in Nat
    BY SizeTreeAssumption, FS_CardinalityType
  <1>5. ScanTyped
    <2>1. disk \in [Files -> Inodes \cup {Missing}] /\ 0 \in 0 .. Cardinality(Files)
      BY <1>1, <1>2, <1>4
    <2> QED BY <1>1, <1>2, <2>1 DEF ScanTyped
  <1>6. TreeOK
    <2>1. node \in [DOMAIN node -> NodeType]
      BY <1>1, <1>3 DEF Empty
    <2>2. Ranked(node, 0)
      <3>1. node \in [DOMAIN node -> 0 .. 0]
        BY <1>1, <1>3 DEF Empty
      <3> QED BY <1>3, <3>1 DEF Ranked
    <2> QED BY <1>1, <1>3, <2>1, <2>2 DEF TreeOK, Tree
  <1>7. \A s \in Sizes : FilesOfSize(s) = {}
    BY <1>3 DEF FilesOfSize
  <1>8. SizesOK
    BY <1>3, <1>7 DEF SizesOK
  <1>9. SetsOK
    <2>1. size_list \in Seq(DOMAIN head) /\ Len(size_list) = 0
      BY <1>1, EmptySeq
    <2> QED BY <1>3, <2>1 DEF SetsOK
  <1>10. FreshOK
    BY <1>3 DEF FreshOK
  <1>11. BlocksOK
    <2>1. UNION {DOMAIN head[s].entry : s \in DOMAIN head} = {}
      BY <1>3
    <2>2. read_block_counter = SumFunctionOnSet([f \in DOMAIN blocks |-> Len(blocks[f])], DOMAIN blocks)
      <3>1. IsFiniteSet(DOMAIN blocks) /\ DOMAIN blocks = {}
        BY <1>3, FS_EmptySet
      <3> QED BY <1>1, <3>1, SumUnfolds
    <2> QED BY <1>3, <2>1, <2>2 DEF BlocksOK, Counts
  <1>12. InodesOK
    <2>1. Inodelist(<< >>, {})
      <3>1. << >> \in Seq([file : Files, inode : Inodes]) /\ Len(<< >>) = 0
        BY EmptySeq
      <3> QED BY <3>1 DEF Inodelist
    <2> QED BY <1>1, <1>3, <2>1 DEF InodesOK
  <1>13. LateOK /\ ExitsOK
    BY <1>1 DEF LateOK, ExitsOK, ExitsForMissing
  <1> QED BY <1>5, <1>6, <1>7, <1>8, <1>9, <1>10, <1>11, <1>12, <1>13 DEF ScanOK, SetsInv

-----------------------------------------------------------------------------
(* The theorems. *)

\* Every step keeps the invariant.
LEMMA SetsNext ==
  ASSUME SetsInv, [Next]_vars
  PROVE  SetsInv'
  <1>1. CASE Scan
    BY <1>1, ScanKeeps
  <1>2. CASE SortReadList
    BY <1>2, SortKeeps
  <1>3. CASE ProcessCachedSet
    BY <1>3, CacheKeeps
  <1>4. CASE Change
    BY <1>4, ChangeKeeps DEF Change
  <1>5. CASE CachedDone \/ Finished \/ UNCHANGED vars
    BY <1>5, RestKeeps
  <1> QED BY <1>1, <1>2, <1>3, <1>4, <1>5 DEF Next

(* In every state the tree and the sets have their form, the blocks and inodes
   of the files of sets are listed, and after the scan each set has had its
   links left out or was decided by the cache: what the theorems below follow
   from. *)
THEOREM SetsInvariant == Spec => []SetsInv
  <1>1. Init => SetsInv
    BY SetsInit
  <1>2. SetsInv /\ [Next]_vars => SetsInv'
    BY SetsNext
  <1> QED BY <1>1, <1>2, PTL DEF Spec

\* A list that has each element of a set once is as long as the set is large.
LEMMA ListsEach ==
  ASSUME NEW n \in Nat, NEW v, NEW D, {v[i] : i \in 1 .. n} = D,
         \A i, j \in 1 .. n : v[i] = v[j] => i = j
  PROVE  n = Cardinality(D)
  <1> DEFINE g == [i \in 1 .. n |-> v[i]]
  <1>1. g \in Bijection(1 .. n, D)
    BY DEF Bijection, Injection, Surjection, IsInjective
  <1>2. IsFiniteSet(1 .. n) /\ Cardinality(1 .. n) = n
    BY FS_Interval
  <1> HIDE DEF g
  <1>3. ExistsBijection(1 .. n, D)
    BY <1>1 DEF ExistsBijection
  <1> QED BY <1>2, <1>3, FS_Bijection

(* Every file of a set has its blocks counted for the read list, once, and its
   inode noted, once: when the first path of a size becomes one of a set it is
   neither forgotten nor counted twice. *)
THEOREM BlocksAlwaysCounted == Spec => []BlocksCounted
  <1>1. SetsInv => BlocksCounted
    <2> SUFFICES ASSUME SetsInv, exited = "none" PROVE BlocksCounted
      BY DEF BlocksCounted
    <2>1. /\ DOMAIN blocks = UNION {DOMAIN head[s].entry : s \in DOMAIN head}
          /\ read_block_counter = SumFunctionOnSet([f \in DOMAIN blocks |-> Len(blocks[f])],
                                                  DOMAIN blocks)
          /\ \A f \in DOMAIN blocks : blocks[f] # << >>
      BY DEF SetsInv, ScanOK, BlocksOK, Counts
    <2>2. ASSUME hardlink_is_unique, phase = "scan"
          PROVE  /\ Len(inode_read_list) = Cardinality(DOMAIN blocks)
                 /\ {inode_read_list[i].file : i \in 1 .. Len(inode_read_list)} = DOMAIN blocks
      <3>1. Inodelist(inode_read_list, DOMAIN blocks)
        BY <2>2 DEF SetsInv, ScanOK, InodesOK
      <3>2. Len(inode_read_list) \in Nat
        BY <3>1, LenProperties DEF Inodelist
      <3>3. PICK n \in Nat : n = Len(inode_read_list)
        BY <3>2
      <3> DEFINE v == [i \in 1 .. n |-> inode_read_list[i].file]
      <3>4. {inode_read_list[i].file : i \in 1 .. n} = DOMAIN blocks
            /\ \A i, j \in 1 .. n : inode_read_list[i].file = inode_read_list[j].file => i = j
        BY <2>2, <3>1, <3>3 DEF Inodelist
      <3>5. {v[i] : i \in 1 .. n} = DOMAIN blocks /\ \A i, j \in 1 .. n : v[i] = v[j] => i = j
        BY <3>4
      <3>6. n = Cardinality(DOMAIN blocks)
        <4> HIDE DEF v
        <4> QED BY <3>5, ListsEach
      <3> QED BY <3>3, <3>4, <3>6
    <2> QED BY <2>1, <2>2 DEF BlocksCounted
  <1> QED BY <1>1, SetsInvariant, PTL

Grouping == [s \in Sizes |-> FilesOfSize(s)]

\* The scan adds a file to the group of its size, or to none.
LEMMA ScanGroups ==
  ASSUME SetsInv, Scan
  PROVE  [G!GroupsNext]_<<Grouping, size_list>>
  <1>1. phase = "scan" /\ ScanOK
    BY DEF Scan, SetsInv
  <1>2. PICK f \in Files :
          /\ f = found + 1 /\ found' = f /\ exited = "none" /\ UNCHANGED <<given, disk, changes>>
          /\ \/ Skipped
             \/ \E s \in Sizes : Waits(f, s) \/ Gathers(f, s)
    BY <1>1, AddFileIs DEF Scan
  <1>3. CASE Skipped
    <2>1. UNCHANGED <<size_list, head, node>>
      BY <1>3 DEF Skipped, listvars
    <2> QED BY <2>1 DEF Grouping, FilesOfSize
  <1>4. ASSUME NEW s \in Sizes, Waits(f, s) \/ Gathers(f, s)
        PROVE  G!Group(f, s)
    <2>1. found \in Nat /\ \A t \in Sizes : FilesOfSize(t) \subseteq 1 .. found
      <3>1. found \in Nat
        BY <1>1, SizeTreeAssumption, FS_CardinalityType DEF ScanOK, ScanTyped
      <3> QED BY <1>1, <3>1, FilesOfSizeAre DEF ScanOK
    <2>2. \A t \in Sizes : f \notin FilesOfSize(t)
      BY <1>2, <2>1
    <2>3. GrowsAt(f, s)
      BY <1>1, <1>4, WaitsGrows, GathersGrows
    <2>4. Grouping' = [Grouping EXCEPT ![s] = @ \cup {f}]
      BY <2>3 DEF GrowsAt, Grouping
    <2>5. /\ s \in DOMAIN head => Cardinality(FilesOfSize(s)) > 1
          /\ s \in DOMAIN node \ DOMAIN head => Cardinality(FilesOfSize(s)) = 1
          /\ s \notin DOMAIN node => Cardinality(FilesOfSize(s)) = 0
          /\ Cardinality(FilesOfSize(s)) \in Nat
      BY <1>1, FilesOfSizeAre DEF ScanOK
    <2>6. size_list' = IF Cardinality(FilesOfSize(s)) = 1 THEN Append(size_list, s) ELSE size_list
      <3>1. CASE Waits(f, s)
        BY <2>5, <3>1 DEF Waits, listvars
      <3>2. CASE Gathers(f, s)
        <4>1. /\ s \in DOMAIN node
              /\ size_list' = IF s \in DOMAIN head THEN size_list ELSE Append(size_list, s)
          BY <3>2 DEF Gathers, Joins, UpdateLists
        <4> QED BY <2>5, <4>1
      <3> QED BY <1>4, <3>1, <3>2
    <2>7. /\ \A t \in Sizes : f \notin Grouping[t]
          /\ size_list' = IF \E e \in Files : Grouping[s] = {e} THEN Append(size_list, s)
                          ELSE size_list
      <3>1. IsFiniteSet(FilesOfSize(s)) /\ FilesOfSize(s) \subseteq Files
        BY <1>1, FilesOfSizeAre DEF ScanOK
      <3>2. Cardinality(FilesOfSize(s)) = 1 <=> \E e \in Files : FilesOfSize(s) = {e}
        <4>1. Cardinality(FilesOfSize(s)) = 1 <=> \E e : FilesOfSize(s) = {e}
          BY <3>1, FS_Singleton
        <4> QED BY <3>1, <4>1
      <3> QED BY <2>2, <2>6, <3>2 DEF Grouping
    <2>8. /\ Grouping = [t \in Sizes |-> FilesOfSize(t)]
          /\ Grouping' = [t \in Sizes |-> FilesOfSize(t)']
      BY DEF Grouping
    <2> QED BY <2>4, <2>7, <2>8, Zenon DEF G!Group
  <1> QED BY <1>2, <1>3, <1>4 DEF G!GroupsNext

(* The tree misses no two files of a size: what it and the sets hold is, all
   the time, the files added so far grouped by size, and the size list has the
   sizes in the order in which they got their second file.  Sorting the read
   list, the cache and changes of the file system leave the groups alone. *)
THEOREM FilesGroupedBySize == Spec => GroupsBySize
  <1>1. Init => G!GroupsInit
    BY SetsInit DEF G!GroupsInit, Init, ScanInit
  <1>2. SetsInv /\ [Next]_vars => [G!GroupsNext]_<<Grouping, size_list>>
    <2> SUFFICES ASSUME SetsInv, [Next]_vars PROVE [G!GroupsNext]_<<Grouping, size_list>>
      OBVIOUS
    <2>1. CASE Scan
      BY <2>1, ScanGroups
    <2>2. ASSUME \A s \in Sizes : FilesOfSize(s)' = FilesOfSize(s), size_list' = size_list
          PROVE  UNCHANGED <<Grouping, size_list>>
      BY <2>2 DEF Grouping
    <2>3. CASE SortReadList
      BY <2>2, <2>3, SortKeeps DEF SortReadList
    <2>4. CASE ProcessCachedSet
      BY <2>2, <2>4, CacheKeeps DEF ProcessCachedSet
    <2>5. CASE Change
      BY <2>2, <2>5, ChangeKeeps DEF Change, ChangeDisk, listvars
    <2>6. CASE CachedDone \/ Finished \/ UNCHANGED vars
      BY <2>2, <2>6, RestKeeps DEF CachedDone, Finished, vars, scanvars, listvars
    <2> QED BY <2>1, <2>3, <2>4, <2>5, <2>6 DEF Next
  <1>3. Grouping = [s \in Sizes |-> FilesOfSize(s)]
    BY DEF Grouping
  <1> QED BY <1>1, <1>2, <1>3, SetsInvariant, PTL DEF Spec, GroupsBySize, G!GroupsSpec, Grouping

(* What the cache says of the set h of the files F with the contents c is
   right. *)
Verdicts(F, h, c) ==
  /\ \A f, g \in InState(h, {"FS_DONE"}) : c[f] = c[g] <=> \E p \in h.published : {f, g} \subseteq p
  /\ UNION h.published = InState(h, {"FS_DONE"})
  /\ \A f \in InState(h, {"FS_UNIQUE"}) : \A g \in F \ {f} : c[f] # c[g]

(* What the cache decides is right for the files that were seen: the groups
   published are those of equal content, and what is taken for unique has no
   equal.  So it is for hard links that were left out before, which the cache
   decides again. *)
THEOREM CacheDecidesRight == Spec => []CachedVerdicts
  <1>1. SetsInv => CachedVerdicts
    <2> SUFFICES ASSUME SetsInv, NEW s \in DOMAIN head, head[s].processed > 0
                 PROVE  Verdicts(DOMAIN head[s].entry, head[s], Contents(DOMAIN head[s].entry))
      BY DEF CachedVerdicts, Contents, Verdicts
    <2>0. PICK F, h, c : F = DOMAIN head[s].entry /\ h = head[s] /\ c = Contents(F)
      OBVIOUS
    <2>1. IsFiniteSet(F) /\ DOMAIN c = F
      BY <2>0, SetFiles DEF SetsInv, Contents
    <2>2. phase # "scan"
      <3> SUFFICES ASSUME phase = "scan" PROVE FALSE
        OBVIOUS
      <3>1. head[s].processed = 0
        BY DEF SetsInv, ScanOK, FreshOK, FreshSet
      <3> QED BY <3>1
    <2>3. DecidedBy(F, c, h)
      <3>1. CASE LinkedFor(s)
        BY <2>0, <3>1 DEF LinkedFor, LinkedSet, Undecided
      <3>2. CASE DecidedFor(s)
        BY <2>0, <3>2 DEF DecidedFor
      <3> QED BY <2>2, <3>1, <3>2 DEF SetsInv, LateOK
    <2>4. PICK A, P : A = Alone(c) /\ P = Shared(c)
      OBVIOUS
    <2>5. GroupedBy(c, F, A, P)
      BY <2>1, <2>4, GroupsAre
    <2>6. /\ UNION P = F \ A
          /\ \A f \in A, g \in F : c[g] = c[f] => g = f
          /\ \A p \in P : /\ p \subseteq F
                          /\ \A f, g \in p : c[f] = c[g]
                          /\ \A f \in p, g \in F : c[g] = c[f] => g \in p
      BY <2>5 DEF GroupedBy
    <2>7. h.published = P /\ \A f \in F : h.entry[f].state = "FS_DONE" <=> f \notin A
      BY <2>3, <2>4 DEF DecidedBy
    <2>8. InState(h, {"FS_DONE"}) = F \ A
      BY <2>0, <2>7 DEF InState
    <2>9. InState(h, {"FS_UNIQUE"}) \subseteq A
      BY <2>0, <2>7 DEF InState
    <2>10. ASSUME NEW f \in F \ A, NEW g \in F \ A
           PROVE  c[f] = c[g] <=> \E p \in P : {f, g} \subseteq p
      <3>1. PICK p \in P : f \in p
        BY <2>6
      <3> QED BY <2>6, <3>1
    <2>11. ASSUME NEW f \in A, NEW g \in F \ {f} PROVE c[f] # c[g]
      BY <2>6
    <2>12. Verdicts(F, h, c)
      BY <2>6, <2>7, <2>8, <2>9, <2>10, <2>11 DEF Verdicts
    <2> QED BY <2>0, <2>12
  <1> QED BY <1>1, SetsInvariant, PTL

(* When there are not so many files that a count of them is taken for -1, the
   scan stops only when a file it had found is gone or was replaced: leaving
   out links and deciding sets from the cache trip none of the checks. *)
THEOREM StopsOnlyForMissing == FewFiles => (Spec => []ExitsForMissing)
  <1> SUFFICES ASSUME FewFiles PROVE Spec => []ExitsForMissing
    OBVIOUS
  <1>1. SetsInv => ExitsForMissing
    BY DEF SetsInv, ExitsOK
  <1> QED BY <1>1, SetsInvariant, PTL

(* The states of a set that was looked at after the scan. *)
SetIs(s, F) ==
  LET left == InState(head[s], {"FS_NEED_DATA"})
      out  == InState(head[s], {"FS_IGNORE_HL"})
  IN  \/ /\ left = {} /\ out = {} /\ head[s].state = "PLS_DONE"
      \/ /\ left \subseteq F /\ out \subseteq F
         /\ head[s].state = "PLS_DONE" <=> left = {}
         /\ left # {} =>
              /\ left = F \ out /\ Cardinality(left) > 1 /\ Marked(F, out)
              /\ head[s].list_size = Cardinality(left) /\ head[s].wanted_bufsize = FirstBufsize(s)
              /\ \A f \in left : head[s].entry[f] = NewEntry
         /\ left = {} => /\ \E g \in F : g \notin out
                         /\ disk = seen => \A e, f \in F : seen[e] = seen[f]

\* Which they are when there are few files.
LEMMA SetsAre ==
  ASSUME FewFiles, SetsInv, phase # "scan", NEW s \in DOMAIN head,
         NEW F, F = DOMAIN head[s].entry
  PROVE  SetIs(s, F)
  <1> DEFINE h == head[s]
             left == InState(h, {"FS_NEED_DATA"})
             out == InState(h, {"FS_IGNORE_HL"})
  <1>1. IsFiniteSet(F) /\ Cardinality(F) > 1
    BY SetFiles DEF SetsInv
  <1>2. left = {f \in F : h.entry[f].state = "FS_NEED_DATA"}
        /\ out = {f \in F : h.entry[f].state = "FS_IGNORE_HL"}
    BY DEF InState
  <1>3. CASE DecidedFor(s)
    <2>1. h.state = "PLS_DONE" /\ \A f \in F : h.entry[f].state \in {"FS_DONE", "FS_UNIQUE", "FS_CACHE_DONE"}
      BY <1>3 DEF DecidedFor, DecidedBy
    <2>2. left = {} /\ out = {}
      BY <1>2, <2>1
    <2> QED BY <2>1, <2>2 DEF SetIs
  <1>4. CASE LinkedFor(s)
    <2>1. PICK R \in SUBSET F : LinksLeft(F, h, R, FirstBufsize(s)) /\ Marked(F, R)
      BY <1>4 DEF LinkedFor, LinkedSet
    <2>2. CASE Cardinality(F \ R) > 1
      <3>1. /\ h.state = "PLS_NEED_DATA" /\ h.list_size = Cardinality(F \ R)
            /\ h.wanted_bufsize = FirstBufsize(s)
            /\ \A f \in F \ R : h.entry[f] = NewEntry
            /\ \A f \in R : h.entry[f].state = "FS_IGNORE_HL"
        BY <2>1, <2>2 DEF LinksLeft
      <3>2. NewEntry.state = "FS_NEED_DATA"
        BY DEF NewEntry
      <3>3. left = F \ R /\ out = R
        BY <1>2, <3>1, <3>2
      <3>4. F \ R # {}
        BY <2>2, FS_EmptySet
      <3> QED BY <2>1, <2>2, <3>1, <3>3, <3>4 DEF SetIs
    <2>3. CASE ~(Cardinality(F \ R) > 1)
      <3>1. /\ h.state = "PLS_DONE"
            /\ \A f \in F : h.entry[f].state \in {"FS_UNIQUE", "FS_IGNORE_HL"}
            /\ \E f \in F : h.entry[f].state = "FS_UNIQUE"
        BY <2>1, <2>3 DEF LinksLeft
      <3>2. left = {} /\ out \subseteq F /\ \E g \in F : g \notin out
        BY <1>2, <3>1
      <3>3. disk = seen => \A e, f \in F : seen[e] = seen[f]
        BY <1>1, <2>1, <2>3, OneLeft
      <3> QED BY <3>1, <3>2, <3>3 DEF SetIs
    <2> QED BY <2>2, <2>3
  <1> QED BY <1>3, <1>4 DEF SetsInv, LateOK

(* The sets that are not done when the threads start are what the reading
   begins with: two files or more, counted right, none of them touched, and
   the others hard links. *)
THEOREM SetsReadyToRead == FewFiles => (Spec => []ReadyToRead)
  <1> SUFFICES ASSUME FewFiles PROVE Spec => []ReadyToRead
    OBVIOUS
  <1>1. SetsInv => ReadyToRead
    <2> SUFFICES ASSUME SetsInv, phase = "ready", NEW s \in DOMAIN head, head[s].state # "PLS_DONE",
                        NEW left, left = InState(head[s], {"FS_NEED_DATA"}),
                        NEW F, F = DOMAIN head[s].entry
                 PROVE  /\ Cardinality(left) > 1 /\ head[s].list_size = Cardinality(left)
                        /\ head[s].wanted_bufsize = FirstBufsize(s)
                        /\ \A f \in left : head[s].entry[f] = NewEntry
                        /\ \A f \in F \ left : head[s].entry[f].state = "FS_IGNORE_HL"
      BY DEF ReadyToRead
    <2>1. SetIs(s, F)
      BY SetsAre
    <2>2. PICK out : out = InState(head[s], {"FS_IGNORE_HL"})
      OBVIOUS
    <2>3. \A f \in out : head[s].entry[f].state = "FS_IGNORE_HL"
      BY <2>2 DEF InState
    <2> QED BY <2>1, <2>2, <2>3 DEF SetIs
  <1> QED BY <1>1, SetsInvariant, PTL

(* Of the paths to one file exactly one is read, and none of them is left out
   for good; that the order of the list, by which links are found, compares
   inodes by the low half of their difference needs inodes that are not far
   apart. *)
THEOREM OnePathRead == FewFiles /\ CloseInodes => (Spec => []OnePathPerInode)
  <1> SUFFICES ASSUME FewFiles, CloseInodes PROVE Spec => []OnePathPerInode
    OBVIOUS
  <1>1. SetsInv => OnePathPerInode
    <2> SUFFICES ASSUME SetsInv, hardlink_is_unique, phase # "scan", exited = "none"
                 PROVE  OnePathPerInode
      BY DEF OnePathPerInode
    <2> DEFINE E(s) == DOMAIN head[s].entry
               Left(s) == InState(head[s], {"FS_NEED_DATA"})
               Out(s) == InState(head[s], {"FS_IGNORE_HL"})
    <2>1. \A s \in DOMAIN head : Left(s) \subseteq E(s) /\ Out(s) \subseteq E(s)
      BY DEF InState
    <2>2. \A s \in DOMAIN head : SetIs(s, E(s))
      BY SetsAre
    <2>3. \A s \in DOMAIN head : \A f \in E(s) :
            /\ f \in Files /\ SizeOfSet[f] = s
            /\ disk[f] = seen[f] => sizeOf[seen[f]] = s
      <3> SUFFICES ASSUME NEW s \in DOMAIN head, NEW f \in E(s)
                   PROVE  /\ f \in Files /\ SizeOfSet[f] = s
                          /\ disk[f] = seen[f] => sizeOf[seen[f]] = s
        OBVIOUS
      <3>1. SizeOfSet[f] = s
        BY SizeOfSetIs DEF SetsInv, ScanOK
      <3>2. E(s) \subseteq Files /\ \A g \in E(s) : disk[g] = seen[g] => sizeOf[seen[g]] = s
        BY SetFiles DEF SetsInv
      <3> QED BY <3>1, <3>2
    <2>4. ASSUME NEW e \in ToRead, NEW f \in ToRead, e # f, disk[e] = seen[e], disk[f] = seen[f],
                 seen[e] = seen[f]
          PROVE  FALSE
      <3>1. PICK s \in DOMAIN head, t \in DOMAIN head : e \in Left(s) /\ f \in Left(t)
        BY DEF ToRead
      <3>2. s = t
        BY <2>1, <2>3, <2>4, <3>1
      <3>3. Left(s) # {} /\ Left(s) = E(s) \ Out(s) /\ Marked(E(s), Out(s))
        BY <2>2, <3>1 DEF SetIs
      <3> QED BY <2>4, <3>1, <3>2, <3>3 DEF Marked
    <2>5. ASSUME disk = seen, NEW f \in LinksOut
          PROVE  \E g \in DOMAIN head[SizeOfSet[f]].entry \ LinksOut : seen[g] = seen[f]
      <3>1. PICK s \in DOMAIN head : f \in Out(s)
        BY DEF LinksOut
      <3>2. f \in E(s) /\ SizeOfSet[f] = s
        BY <2>1, <2>3, <3>1
      <3>3. \A g \in E(s) : g \in LinksOut => g \in Out(s)
        <4> SUFFICES ASSUME NEW g \in E(s), NEW t \in DOMAIN head, g \in Out(t) PROVE g \in Out(s)
          BY DEF LinksOut
        <4>1. t = s
          BY <2>1, <2>3
        <4> QED BY <4>1
      <3>4. \E g \in E(s) \ Out(s) : seen[g] = seen[f]
        <4>1. CASE Left(s) = {}
          <5>1. /\ \E g \in E(s) : g \notin Out(s)
                /\ \A a, b \in E(s) : seen[a] = seen[b]
            BY <2>2, <2>5, <3>1, <4>1 DEF SetIs
          <5> QED BY <3>2, <5>1
        <4>2. CASE Left(s) # {}
          <5>1. Marked(E(s), Out(s))
            BY <2>2, <4>2 DEF SetIs
          <5> QED BY <2>5, <3>1, <5>1 DEF Marked
        <4> QED BY <4>1, <4>2
      <3> QED BY <3>2, <3>3, <3>4
    <2> QED BY <2>4, <2>5 DEF OnePathPerInode
  <1> QED BY <1>1, SetsInvariant, PTL
=============================================================================
