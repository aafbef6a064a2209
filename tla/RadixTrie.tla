------------------------------ MODULE RadixTrie ------------------------------
(* The path-compressed token trie of server/prompt_cache/trie.rs, one per      *)
(* (model, lora, template, media) bucket.  A node is named by the tokens on    *)
(* its path from the root, so a trie is a function from paths to the digests   *)
(* stored exactly there and the node's own subtree_count.  An edge label is    *)
(* what a path adds to its parent's path; fusing two edges removes the node    *)
(* between them.                                                               *)
EXTENDS Integers, Sequences, FiniteSets, SequencesExt

Root == << >>

EmptyTrie == [p \in {Root} |-> [entries |-> {}, count |-> 0]]

Common(a, b) == LongestCommonPrefix({a, b})

Longest(P) == CHOOSE p \in P : \A q \in P : Len(q) =< Len(p)

(* The nodes a descent along `tokens` passes. *)
PathTo(t, tokens) == {p \in DOMAIN t : IsPrefix(p, tokens)}

Children(t, p) ==
  {q \in DOMAIN t : /\ IsStrictPrefix(p, q)
                    /\ \A r \in DOMAIN t : IsStrictPrefix(p, r) => ~IsStrictPrefix(r, q)}

(* children.get(&first_tok): the child map is keyed by the edge's first token. *)
ChildOn(t, p, tokens) ==
  {q \in Children(t, p) : Len(p) < Len(tokens) /\ q[Len(p) + 1] = tokens[Len(p) + 1]}

Without(t, p) == [q \in DOMAIN t \ {p} |-> t[q]]

RecomputeSubtreeCount(t, p) ==
  [t EXCEPT ![p].count = Cardinality(t[p].entries)
                           + MapThenSumSet(LAMBDA q : t[q].count, Children(t, p))]

(* `step` at every node of P, deepest first. *)
BottomUp(step(_, _), t, P) ==
  FoldLeft(step, t, SetToSortSeq(P, LAMBDA p, q : Len(p) > Len(q)))

(* insert_into without its count repair: append at the node, hang a fresh      *)
(* leaf, or split the edge that diverges.                                      *)
Attach(t, tokens, d) ==
  LET at   == Longest(PathTo(t, tokens))
      leaf == tokens :> [entries |-> {d}, count |-> 1]
  IN IF at = tokens THEN [t EXCEPT ![at].entries = @ \cup {d}]
     ELSE IF ChildOn(t, at, tokens) = {} THEN leaf @@ t
     ELSE LET child  == CHOOSE c \in ChildOn(t, at, tokens) : TRUE
              middle == Common(child, tokens) :> [entries |-> {}, count |-> 0]
          IN leaf @@ middle @@ t

InsertInto(t, tokens, d) ==
  LET t1 == Attach(t, tokens, d)
  IN BottomUp(RecomputeSubtreeCount, t1, PathTo(t1, tokens))

MergeOnlyChildIfEmpty_StaleCount(t, p) ==
  IF p # Root /\ t[p].entries = {} /\ Cardinality(Children(t, p)) = 1 THEN Without(t, p) ELSE t

(* merge_only_child_if_empty, then the count of the node that is left. *)
MergeOnlyChildIfEmpty(t, p) ==
  LET only == CHOOSE c \in Children(t, p) : TRUE
  IN IF p # Root /\ t[p].entries = {} /\ Cardinality(Children(t, p)) = 1
     THEN RecomputeSubtreeCount(Without(t, p), only)
     ELSE RecomputeSubtreeCount(t, p)

(* One ancestor p of the way back up from the node of `tokens`. *)
Unwind(t, p, tokens) ==
  LET child == CHOOSE c \in ChildOn(t, p, tokens) : TRUE
      empty == t[child].entries = {} /\ Children(t, child) = {}
  IN MergeOnlyChildIfEmpty(IF empty THEN Without(t, child) ELSE t, p)

RemoveFrom(t, tokens, d) ==
  IF tokens \notin DOMAIN t THEN t
  ELSE IF d \notin t[tokens].entries THEN t
  ELSE BottomUp(LAMBDA u, p : Unwind(u, p, tokens),
                RecomputeSubtreeCount([t EXCEPT ![tokens].entries = @ \ {d}], tokens),
                PathTo(t, tokens) \ {tokens})

WalkLongest_WholeEdges(t, tokens) ==
  LET at == Longest(PathTo(t, tokens))
  IN [depth |-> Len(at), subtree |-> at]

(* walk_longest: how many of the request's tokens the trie follows and the     *)
(* node whose subtree shares them; depth 0 is a miss.                          *)
WalkLongest(t, tokens) ==
  LET at   == Longest(PathTo(t, tokens))
      next == ChildOn(t, at, tokens)
      into == CHOOSE c \in next : TRUE
  IN IF t[Root].count = 0 THEN [depth |-> 0, subtree |-> Root]
     ELSE IF next = {} THEN [depth |-> Len(at), subtree |-> at]
     ELSE [depth |-> Len(Common(into, tokens)), subtree |-> into]

(* for_each_candidate: every digest under the matched node. *)
Candidates(t, p) == UNION {t[q].entries : q \in {r \in DOMAIN t : IsPrefix(p, r)}}
==============================================================================
