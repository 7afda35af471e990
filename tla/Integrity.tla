----------------------------- MODULE Integrity -----------------------------
(***************************************************************************)
(* The Merkle tree over an agent's memories (integrity.ts): leaves with    *)
(* the index they were added at, their removal, the root, the proofs, and  *)
(* what compaction and a restart leave of them.  A hash is the term that   *)
(* was hashed: two hashes are equal only when their preimages are.         *)
(***************************************************************************)
EXTENDS Integers, Sequences, FiniteSets

CONSTANTS
    MemoryIds, Contents,    \* a content stands for a text with its timestamp
    MaxAdds, MaxRebuilds    \* bounds

VARIABLES
    leaves,     \* <<[hash, memoryId, index] or Removed>>
    leafMap,    \* memory -> position in leaves, or 0
    hashSet,
    snapshots,  \* the last snapshot, if any, with the contents as a ghost
    verdict,    \* [says, same] of the last comparison; same (ghost): the root was the snapshot's
    added,      \* ghost: memory -> what its current leaf was added with
    adds, rebuilds

vars == <<leaves, leafMap, hashSet, snapshots, verdict, added, adds, rebuilds>>

Removed == [hash |-> <<"none">>, memoryId |-> "none", index |-> 0]
Nothing == [m \in MemoryIds |-> "none"]

TypeOK ==
    /\ \A i \in DOMAIN leaves : leaves[i] = Removed \/ leaves[i].memoryId \in MemoryIds
    /\ leafMap \in [MemoryIds -> 0..Len(leaves)]
    /\ hashSet = {leaves[i].hash : i \in {j \in DOMAIN leaves : leaves[j] # Removed}}
    /\ added \in [MemoryIds -> Contents \cup {"none"}]
    /\ verdict.says \in {"none", "verified", "changed", "bad snapshot"} /\ verdict.same \in BOOLEAN
    /\ adds \in 0..MaxAdds /\ rebuilds \in 0..MaxRebuilds /\ Len(snapshots) <= 1

Init ==
    /\ leaves = <<>> /\ leafMap = [m \in MemoryIds |-> 0] /\ hashSet = {}
    /\ snapshots = <<>> /\ verdict = [says |-> "none", same |-> FALSE] /\ added = Nothing /\ adds = 0 /\ rebuilds = 0

-----------------------------------------------------------------------------
LeafHash(index, m, content) == <<"leaf", index, m, content>>
Node(left, right) == <<"node", left, right>>

\* The leaves that are left, in order: the k-th has k of them up to it.
Positions(ls) == {i \in DOMAIN ls : ls[i] # Removed}
Rank(ls, i)   == Cardinality({j \in Positions(ls) : j <= i})
Active(ls)    == [k \in 1..Cardinality(Positions(ls)) |-> ls[CHOOSE i \in Positions(ls) : Rank(ls, i) = k]]
Hashes(ls)    == [k \in DOMAIN Active(ls) |-> Active(ls)[k].hash]

\* The right half of the pair that starts at i; the last of an odd level is its own.
Right(level, i) == IF i < Len(level) THEN level[i + 1] ELSE level[i]
NextLevel(level) ==
    [k \in 1..((Len(level) + 1) \div 2) |-> Node(level[2 * k - 1], Right(level, 2 * k - 1))]

\* The levels of the tree, counted from the leaves, and how far up the root is.
Levels(level) == LET up[n \in 0..Len(level)] == IF n = 0 THEN level ELSE NextLevel(up[n - 1]) IN up
Height(level) == CHOOSE n \in 0..Len(level) : /\ Len(Levels(level)[n]) <= 1
                                              /\ \A k \in 0..(n - 1) : Len(Levels(level)[k]) > 1

RootOf(level) == IF level = <<>> THEN <<"empty">> ELSE Levels(level)[Height(level)][1]

Root == RootOf(Hashes(leaves))

SlipAlwaysRight(level, at) ==
    [hash |-> IF at % 2 = 1 THEN IF at < Len(level) THEN level[at + 1] ELSE level[at] ELSE level[at - 1], direction |-> "right"]

\* The sibling of the node at a position, and the side it is on.
Sibling(level, at) ==
    IF at % 2 = 1 THEN [hash |-> IF at < Len(level) THEN level[at + 1] ELSE level[at], direction |-> "right"]
    ELSE [hash |-> level[at - 1], direction |-> "left"]

\* Where the node above a position is, on each level.
Ancestors(level, at) ==
    LET up[n \in 0..Len(level)] == IF n = 0 THEN at ELSE (up[n - 1] + 1) \div 2 IN up

PathFrom(level, at) ==
    [n \in 1..Height(level) |-> Sibling(Levels(level)[n - 1], Ancestors(level, at)[n - 1])]

GetProof(m) ==
    LET leaf == leaves[leafMap[m]]
        at   == CHOOSE i \in DOMAIN Active(leaves) : Active(leaves)[i].memoryId = m
    IN  [leafHash |-> leaf.hash, path |-> PathFrom(Hashes(leaves), at), rootHash |-> Root]

Up(hash, step) == IF step.direction = "left" THEN Node(step.hash, hash) ELSE Node(hash, step.hash)

\* The hash after each step of a path.
Climbed(hash, path) ==
    LET current[n \in 0..Len(path)] == IF n = 0 THEN hash ELSE Up(current[n - 1], path[n]) IN current

VerifyProof(proof) == Climbed(proof.leafHash, proof.path)[Len(proof.path)] = proof.rootHash

VerifyMemory(m, content) ==
    leafMap[m] # 0 /\ leaves[leafMap[m]].hash = LeafHash(leaves[leafMap[m]].index, m, content)

\* verifyTreeIntegrity(): no hash twice, and every memory where the map says.
TreeIsValid ==
    /\ \A i, j \in DOMAIN Active(leaves) : Active(leaves)[i].hash = Active(leaves)[j].hash => i = j
    /\ \A m \in MemoryIds : leafMap[m] # 0 => leaves[leafMap[m]].memoryId = m

-----------------------------------------------------------------------------
Without(ls, m) == IF leafMap[m] = 0 THEN ls ELSE [ls EXCEPT ![leafMap[m]] = Removed]
LessHash(m) == IF leafMap[m] = 0 THEN hashSet ELSE hashSet \ {leaves[leafMap[m]].hash}

\* addLeaf(): an update of a memory removes its old leaf; a leaf whose hash is there is refused.
AddLeaf(m, content) ==
    LET hash == LeafHash(Len(leaves), m, content)
    IN  /\ adds < MaxAdds /\ adds' = adds + 1
        /\ hash \notin hashSet
        /\ leaves' = Append(Without(leaves, m), [hash |-> hash, memoryId |-> m, index |-> Len(leaves)])
        /\ leafMap' = [leafMap EXCEPT ![m] = Len(leaves) + 1]
        /\ hashSet' = LessHash(m) \cup {hash}
        /\ added' = [added EXCEPT ![m] = content]
        /\ UNCHANGED <<snapshots, verdict, rebuilds>>

RemoveLeaf(m) ==
    /\ leafMap[m] # 0
    /\ leaves' = Without(leaves, m)
    /\ leafMap' = [leafMap EXCEPT ![m] = 0]
    /\ hashSet' = LessHash(m)
    /\ added' = [added EXCEPT ![m] = "none"]
    /\ UNCHANGED <<snapshots, verdict, adds, rebuilds>>

\* Where each memory is once the active leaves are indexed anew.
MapOf(ls) == [m \in MemoryIds |-> IF \E i \in DOMAIN ls : ls[i].memoryId = m
                                  THEN CHOOSE i \in DOMAIN ls : ls[i].memoryId = m ELSE 0]

\* compact(), and a restart: deserialize(serialize()).  The hashes stay, the indices do not.
Rebuild ==
    /\ rebuilds < MaxRebuilds /\ rebuilds' = rebuilds + 1
    /\ leaves' = [i \in DOMAIN Active(leaves) |-> [Active(leaves)[i] EXCEPT !.index = i - 1]]
    /\ leafMap' = MapOf(Active(leaves))
    /\ UNCHANGED <<hashSet, snapshots, verdict, added, adds>>

SnapshotHash(root, count, at) == <<"snapshot", root, count, at>>
TakenAt(at) ==
    LET count == Len(Active(leaves))
    IN  [rootHash |-> Root, leafCount |-> count, timestamp |-> at,
         snapshotHash |-> SnapshotHash(Root, count, at), contents |-> added]

SlipComparesCounts(s) ==
    IF s.snapshotHash # SnapshotHash(s.rootHash, s.leafCount, s.timestamp) THEN "bad snapshot"
    ELSE IF Len(Active(leaves)) = s.leafCount THEN "verified" ELSE "changed"

DetectTampering(s) ==
    IF s.snapshotHash # SnapshotHash(s.rootHash, s.leafCount, s.timestamp) THEN "bad snapshot"
    ELSE IF Root = s.rootHash THEN "verified" ELSE "changed"

Same(s) == s.rootHash = Root

Snapshot ==
    /\ snapshots' = <<TakenAt("then")>>
    /\ verdict' = [says |-> "none", same |-> FALSE]
    /\ UNCHANGED <<leaves, leafMap, hashSet, added, adds, rebuilds>>

Compare ==
    /\ snapshots # <<>>
    /\ verdict' = [says |-> DetectTampering(snapshots[1]), same |-> Same(snapshots[1])]
    /\ UNCHANGED <<leaves, leafMap, hashSet, snapshots, added, adds, rebuilds>>

\* The tool memory_integrity_check, given the snapshot hash of an earlier answer:
\* the hash is all it is given, and stands for the root as well.
IntegrityCheck ==
    /\ snapshots # <<>>
    /\ LET h == snapshots[1].snapshotHash
       IN  verdict' = [says |-> DetectTampering([rootHash |-> h, snapshotHash |-> h, timestamp |-> "now",
                                                leafCount |-> Len(Active(leaves))]),
                       same |-> Same(snapshots[1])]
    /\ snapshots' = <<TakenAt("then")>>
    /\ UNCHANGED <<leaves, leafMap, hashSet, added, adds, rebuilds>>

Next ==
    \/ \E m \in MemoryIds : RemoveLeaf(m) \/ \E content \in Contents : AddLeaf(m, content)
    \/ Rebuild \/ Snapshot \/ Compare \/ IntegrityCheck

Spec == Init /\ [][Next]_vars

-----------------------------------------------------------------------------
(* integrity.ts:211 getProof() and 375 verifyTreeIntegrity(): whatever was  *)
(* added, updated, removed and rebuilt, the tree is found valid, and the    *)
(* proof of every memory in it links its leaf to the current root.          *)
ProofsVerify ==
    /\ TreeIsValid
    /\ \A m \in MemoryIds : leafMap[m] # 0 => VerifyProof(GetProof(m))

(* The tool memory_integrity_check takes the "previous snapshot hash to     *)
(* compare against" (mcp/server.ts:1365): an unchanged tree is verified.    *)
UnchangedIsVerified == verdict.same => verdict.says = "verified"

(* integrity.ts:281: verifyMemory() is to "verify a specific memory's       *)
(* content against the tree": what the current leaf was added with passes.  *)
VerifiesWhatWasAdded == \A m \in MemoryIds : leafMap[m] # 0 => VerifyMemory(m, added[m])
=============================================================================
