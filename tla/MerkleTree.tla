------------------------------- MODULE MerkleTree ------------------------------
(***************************************************************************)
(* The hash trees of the transparency log: the RFC 6962 tree of events     *)
(* (tree.rs, verifier.rs) with its inclusion and consistency proofs, and   *)
(* the sparse tree of the identifiers' current state (state_map.rs).       *)
(*                                                                         *)
(* Abstractions.  A hash is the term it is computed from: a leaf is a      *)
(* model value, a node the pair of its children, so hashing is injective.  *)
(* Hex encoding is dropped.  A key of the sparse tree has Depth bits (256  *)
(* in the code).                                                           *)
(***************************************************************************)
EXTENDS Integers, Sequences, SequencesExt, FiniteSetsExt

CONSTANTS
    Empty,  \* the hash of nothing
    Depth   \* bits of a key of the state map

node_hash(left, right) == <<left, right>>

--------------------------------------------------------------------------------
(* The tree of events *)

largest_power_of_two_less_than(n) == Max({2 ^ e : e \in {e \in 0 .. n : 2 ^ e < n}})

First(leaves, k) == SubSeq(leaves, 1, k)
After(leaves, k) == SubSeq(leaves, k + 1, Len(leaves))

RECURSIVE merkle_root(_)
merkle_root(leaves) ==
    CASE Len(leaves) = 0 -> Empty
      [] Len(leaves) = 1 -> leaves[1]
      [] OTHER -> LET k == largest_power_of_two_less_than(Len(leaves))
                  IN  node_hash(merkle_root(First(leaves, k)), merkle_root(After(leaves, k)))

\* The siblings on the way from the leaf at an index, counted from 0, to the root.
RECURSIVE inclusion_path(_, _)
inclusion_path(leaves, index) ==
    IF Len(leaves) <= 1 THEN <<>>
    ELSE LET k == largest_power_of_two_less_than(Len(leaves))
         IN  IF index < k
             THEN Append(inclusion_path(First(leaves, k), index), merkle_root(After(leaves, k)))
             ELSE Append(inclusion_path(After(leaves, k), index - k), merkle_root(First(leaves, k)))

inclusion_proof(leaves, index) ==
    [index |-> index, size |-> Len(leaves), leaf |-> leaves[index + 1],
     path |-> inclusion_path(leaves, index), root |-> merkle_root(leaves)]

\* Halve the index and the last index until the index is odd or 0.
RECURSIVE ClimbEven(_, _)
ClimbEven(index, last) ==
    IF index % 2 = 0 /\ index # 0 THEN ClimbEven(index \div 2, last \div 2)
    ELSE [index |-> index, last |-> last]

\* Mutant: a lone right edge climbs one level only.
ClimbSibling_OneLevel(state, sibling) ==
    LET joinsLeft == state.index % 2 = 1 \/ state.index = state.last
    IN  [hash |-> IF joinsLeft THEN node_hash(sibling, state.hash) ELSE node_hash(state.hash, sibling),
         index |-> state.index \div 2, last |-> state.last \div 2]

\* One sibling of an audit path is applied.
ClimbSibling(state, sibling) ==
    LET joinsLeft == state.index % 2 = 1 \/ state.index = state.last
        at == IF joinsLeft THEN ClimbEven(state.index, state.last)
              ELSE [index |-> state.index, last |-> state.last]
    IN  [hash |-> IF joinsLeft THEN node_hash(sibling, state.hash) ELSE node_hash(state.hash, sibling),
         index |-> at.index \div 2, last |-> at.last \div 2]

verify_inclusion_proof(proof) ==
    /\ proof.size # 0 /\ proof.index < proof.size
    /\ LET end == FoldLeft(ClimbSibling,
                           [hash |-> proof.leaf, index |-> proof.index, last |-> proof.size - 1],
                           proof.path)
       IN  end.hash = proof.root /\ end.last = 0

\* The nodes that let a verifier rebuild both roots; b: the old tree is a subtree of the new.
RECURSIVE sub_proof(_, _, _)
sub_proof(leaves, m, b) ==
    IF m = Len(leaves) THEN IF b THEN <<>> ELSE <<merkle_root(leaves)>>
    ELSE LET k == largest_power_of_two_less_than(Len(leaves))
         IN  IF m <= k
             THEN Append(sub_proof(First(leaves, k), m, b), merkle_root(After(leaves, k)))
             ELSE Append(sub_proof(After(leaves, k), m - k, FALSE), merkle_root(First(leaves, k)))

consistency_proof(leaves, old) ==
    IF old = Len(leaves) THEN <<>> ELSE sub_proof(leaves, old, TRUE)

RECURSIVE SkipOdd(_, _)
SkipOdd(fn, sn) ==
    IF fn % 2 = 1 THEN SkipOdd(fn \div 2, sn \div 2) ELSE [fn |-> fn, sn |-> sn]

\* The verifier's two loops as one: the old and the new root are rebuilt level by level until
\* both indices are 0; running out of proof is a failure.
RECURSIVE Rebuild(_, _, _, _, _)
Rebuild(fn, sn, fr, sr, proof) ==
    IF fn = 0 /\ sn = 0 THEN [ok |-> proof = <<>>, old |-> fr, new |-> sr]
    ELSE IF fn % 2 = 1 \/ fn < sn
    THEN IF proof = <<>> THEN [ok |-> FALSE, old |-> fr, new |-> sr]
         ELSE LET pr == Head(proof)
              IN  IF fn % 2 = 1
                  THEN Rebuild(fn \div 2, sn \div 2, node_hash(pr, fr), node_hash(pr, sr), Tail(proof))
                  ELSE Rebuild(fn \div 2, sn \div 2, fr, node_hash(sr, pr), Tail(proof))
    ELSE Rebuild(fn \div 2, sn \div 2, fr, sr, proof)

\* Mutant: the rebuilt old root is not compared.
verify_consistency_NewRootOnly(old, new, oldRoot, newRoot, proof) ==
    /\ old # 0 /\ old <= new
    /\ IF old = new THEN oldRoot = newRoot /\ proof = <<>>
       ELSE /\ proof # <<>>
            /\ LET at == SkipOdd(old - 1, new - 1)
                   r == IF at.fn = 0 THEN Rebuild(at.fn, at.sn, oldRoot, oldRoot, proof)
                        ELSE Rebuild(at.fn, at.sn, Head(proof), Head(proof), Tail(proof))
               IN  r.ok /\ r.new = newRoot

verify_consistency(old, new, oldRoot, newRoot, proof) ==
    /\ old # 0 /\ old <= new
    /\ IF old = new THEN oldRoot = newRoot /\ proof = <<>>
       ELSE /\ proof # <<>>
            /\ LET at == SkipOdd(old - 1, new - 1)
                   r == IF at.fn = 0 THEN Rebuild(at.fn, at.sn, oldRoot, oldRoot, proof)
                        ELSE Rebuild(at.fn, at.sn, Head(proof), Head(proof), Tail(proof))
               IN  r.ok /\ r.old = oldRoot /\ r.new = newRoot

--------------------------------------------------------------------------------
(* The state map *)

\* A key is its bits, the most significant first; get_bit counts depths from 0.
Keys == [1 .. Depth -> {0, 1}]
get_bit(key, depth) == key[depth + 1]

smt_leaf_hash(key, value) == <<"leaf", key, value>>

RECURSIVE empty_hash(_)
empty_hash(depth) ==
    IF depth = Depth THEN Empty ELSE node_hash(empty_hash(depth + 1), empty_hash(depth + 1))

\* Entries: a function from some keys to values.
RECURSIVE compute_subtree_root(_, _, _)
compute_subtree_root(depth, keys, entries) ==
    IF keys = {} THEN empty_hash(depth)
    ELSE IF depth = Depth THEN LET key == CHOOSE k \in keys : TRUE IN smt_leaf_hash(key, entries[key])
    ELSE LET Side(bit) == {k \in keys : get_bit(k, depth) = bit}
         IN  node_hash(compute_subtree_root(depth + 1, Side(0), entries),
                       compute_subtree_root(depth + 1, Side(1), entries))

MapRoot(entries) == compute_subtree_root(0, DOMAIN entries, entries)

\* The siblings of a key, from the top.
RECURSIVE generate_audit_path(_, _, _, _)
generate_audit_path(depth, target, keys, entries) ==
    IF depth = Depth THEN <<>>
    ELSE LET Side(bit) == {k \in keys : get_bit(k, depth) = bit}
             bit == get_bit(target, depth)
         IN  <<compute_subtree_root(depth + 1, Side(1 - bit), entries)>>
               \o generate_audit_path(depth + 1, target, Side(bit), entries)

\* The proof of what a key holds, None for a key that is absent; siblings from the bottom.
prove(key, entries, absent) ==
    [key |-> key, value |-> IF key \in DOMAIN entries THEN entries[key] ELSE absent,
     path |-> Reverse(generate_audit_path(0, key, DOMAIN entries, entries))]

\* Mutant: the path is read from the top.
PathSibling_FromTop(path, depth) == path[depth + 1]

\* The sibling at a depth.
PathSibling(path, depth) == path[Depth - depth]

RECURSIVE PathHash(_, _, _)
PathHash(proof, depth, hash) ==
    IF depth < 0 THEN hash
    ELSE LET sibling == PathSibling(proof.path, depth)
         IN  PathHash(proof, depth - 1, IF get_bit(proof.key, depth) = 0
                                        THEN node_hash(hash, sibling) ELSE node_hash(sibling, hash))

verify_state_map_proof(proof, root, absent) ==
    /\ Len(proof.path) = Depth
    /\ PathHash(proof, Depth - 1,
                IF proof.value = absent THEN empty_hash(Depth) ELSE smt_leaf_hash(proof.key, proof.value))
         = root

================================================================================
