---------------------------- MODULE KnowledgeMesh ----------------------------
(* The Logic-Mesh of a memvid file (types/logic_mesh.rs, memvid/mesh.rs):     *)
(* entities and the links between them, kept in memory with an index from an  *)
(* entity to its links, written by a commit and read back by an open.         *)
(* An entity is its node id, the hash of its name and kind; nodes and edges   *)
(* are sorted by it when they are written.                                    *)
EXTENDS Integers, FiniteSets, Sequences, SequencesExt, FiniteSetsExt

CONSTANTS MeshNodes,      \* node ids, integers: their order is the order of the hashes
          NameOf,         \* canonical name of a node
          MeshFacts,      \* the links a caller may add: [from, to, link]
          MeshFrames,
          MaxMeshSaves,   \* bound: commits
          Hops            \* hops a caller follows


VARIABLES mesh,       \* nodes, edges and adjacency in memory
          savedMesh,  \* what the table of contents names: nodes and edges, or NoMesh
          meshDirty,  \* changed since the last commit
          freshMesh,  \* the adjacency was built from the edges there are
          meshSaves

meshVars == <<mesh, savedMesh, meshDirty, freshMesh, meshSaves>>

MeshLinks == {e.link : e \in MeshFacts}
NoMesh == [nodes |-> <<>>, edges |-> <<>>]
EmptyMesh == NoMesh @@ [adjacency |-> [n \in MeshNodes |-> <<>>]]
MeshIsEmpty(m) == m.nodes = <<>> /\ m.edges = <<>>

------------------------------------------------------------------------------
(* The graph *)

\* build_adjacency: per node, the edges at it, in the order of the edges.
BuildAdjacency(m) ==
  LET ends(e, i) == <<[node |-> e.from, edge |-> i, out |-> TRUE],
                      [node |-> e.to, edge |-> i, out |-> FALSE]>>
      all == FlattenSeq([i \in DOMAIN m.edges |-> ends(m.edges[i], i)])
  IN  [m EXCEPT !.adjacency = [n \in MeshNodes |-> SelectSeq(all, LAMBDA a : a.node = n)]]

HasNode(m, n) == \E i \in DOMAIN m.nodes : m.nodes[i].id = n
\* find_node: the first node of that name, of whatever kind.
FindNode(m, name) == SelectSeq(m.nodes, LAMBDA x : NameOf[x.id] = name)

\* merge_node: the same name and kind is the same node.
MergeNode(m, n, frame, conf) ==
  LET merged(x) == [x EXCEPT !.frames = IF frame \in @ THEN @ ELSE @ \cup {frame},
                             !.conf = IF conf > @ THEN conf ELSE @]
  IN  IF HasNode(m, n)
      THEN [m EXCEPT !.nodes = [i \in DOMAIN @ |-> IF @[i].id = n THEN merged(@[i]) ELSE @[i]]]
      ELSE [m EXCEPT !.nodes = Append(@, [id |-> n, frames |-> {frame}, conf |-> conf])]
SameEdge(e, f) == e.from = f.from /\ e.to = f.to /\ e.link = f.link
MergeEdge(m, e) ==
  IF \E i \in DOMAIN m.edges : SameEdge(m.edges[i], e) THEN m ELSE [m EXCEPT !.edges = Append(@, e)]

EdgeBefore(e, f) ==
  \/ e.from < f.from
  \/ e.from = f.from /\ e.to < f.to
  \/ e.from = f.from /\ e.to = f.to /\ e.link < f.link
SortedMesh(m) ==
  [m EXCEPT !.nodes = SortSeq(@, LAMBDA x, y : x.id < y.id), !.edges = SortSeq(@, EdgeBefore)]
\* Mutant: sorted only.
SortedOnly(m) == SortedMesh(m)
\* finalize: sorted, and the adjacency built anew.
Finalized(m) == BuildAdjacency(SortedMesh(m))

\* follow: depth first, the last neighbour found first; a node is expanded the
\* first time it is popped.  found gathers <<node, path length>>.
Neighbours(m, n, link) ==
  LET at == SelectSeq(m.adjacency[n], LAMBDA a : m.edges[a.edge].link = link)
      far(a) == IF a.out THEN m.edges[a.edge].to ELSE m.edges[a.edge].from
  IN  SelectSeq([i \in DOMAIN at |-> far(at[i])], LAMBDA x : HasNode(m, x))
Expanded(m, link, hops, w) ==
  LET top == Last(w.frontier)
      next == Neighbours(m, top.node, link)
      deeper == IF top.depth + 1 < hops
                THEN [i \in DOMAIN next |-> [node |-> next[i], depth |-> top.depth + 1]] ELSE <<>>
  IN  IF top.depth >= hops \/ top.node \in w.visited
      THEN [w EXCEPT !.frontier = Front(@)]
      ELSE [frontier |-> Front(w.frontier) \o deeper,
            visited |-> w.visited \cup {top.node},
            found |-> w.found \cup {<<next[i], top.depth + 1>> : i \in DOMAIN next}]
\* Each pop takes one entry off the frontier; there are never more than one per
\* edge end and the start.
Follow(m, name, link, hops) ==
  LET start == FindNode(m, name)
      after[k \in 0..(2 * Len(m.edges) + 1)] ==
        IF k = 0 THEN [frontier |-> <<[node |-> start[1].id, depth |-> 0]>>, visited |-> {}, found |-> {}]
        ELSE IF after[k - 1].frontier = <<>> THEN after[k - 1]
        ELSE Expanded(m, link, hops, after[k - 1])
  IN  IF start = <<>> THEN {} ELSE after[2 * Len(m.edges) + 1].found


------------------------------------------------------------------------------
(* Operations *)

AddMeshNode == \E n \in MeshNodes, f \in MeshFrames :
  /\ mesh' = MergeNode(mesh, n, f, 1) /\ mesh' # mesh
  /\ meshDirty' = TRUE /\ UNCHANGED <<savedMesh, freshMesh, meshSaves>>
\* An edge goes behind the others: the adjacency stays as it is.
AddMeshEdge == \E e \in MeshFacts :
  /\ mesh' = MergeEdge(mesh, e) /\ mesh' # mesh
  /\ meshDirty' = TRUE /\ freshMesh' = FALSE /\ UNCHANGED <<savedMesh, meshSaves>>
FinalizeMesh ==
  /\ mesh' = Finalized(mesh) /\ mesh' # mesh
  /\ meshDirty' = TRUE /\ freshMesh' = TRUE /\ UNCHANGED <<savedMesh, meshSaves>>
\* set_logic_mesh, here with the mesh of a memory that has nothing to link.
ReplaceMesh ==
  /\ mesh # EmptyMesh /\ mesh' = EmptyMesh
  /\ meshDirty' = TRUE /\ freshMesh' = TRUE /\ UNCHANGED <<savedMesh, meshSaves>>

\* Mutant: rebuilding the indexes forgets the mesh.
WrittenUnlessRebuilt(inserted) ==
  IF inserted THEN NoMesh ELSE [nodes |-> mesh.nodes, edges |-> mesh.edges]
\* A commit writes a mesh that has something in it, and forgets the written one
\* only when frames were inserted: the indexes are rebuilt then.
WrittenMesh(inserted) ==
  LET s == SortedMesh(mesh) IN
  IF ~MeshIsEmpty(mesh) THEN [nodes |-> s.nodes, edges |-> s.edges]
  ELSE IF inserted THEN NoMesh ELSE savedMesh
CommitMesh == \E inserted \in BOOLEAN :
  /\ meshDirty /\ meshSaves < MaxMeshSaves
  /\ savedMesh' = WrittenMesh(inserted)
  /\ meshDirty' = FALSE /\ meshSaves' = meshSaves + 1
  /\ UNCHANGED <<mesh, freshMesh>>
\* Mutant: the adjacency, which is not written, is not built again.
LoadedBare == savedMesh @@ EmptyMesh
\* load_logic_mesh, deserialize
LoadedMesh == IF savedMesh = NoMesh THEN EmptyMesh ELSE BuildAdjacency(savedMesh @@ EmptyMesh)
ReopenMesh == /\ mesh # LoadedMesh \/ meshDirty
              /\ mesh' = LoadedMesh
              /\ meshDirty' = FALSE /\ freshMesh' = TRUE
              /\ UNCHANGED <<savedMesh, meshSaves>>

MeshInit == /\ mesh = EmptyMesh /\ savedMesh = NoMesh /\ meshDirty = FALSE
            /\ freshMesh = TRUE /\ meshSaves = 0
MeshNext == \/ AddMeshNode \/ AddMeshEdge \/ FinalizeMesh \/ ReplaceMesh \/ CommitMesh \/ ReopenMesh
MeshSpec == MeshInit /\ [][MeshNext]_meshVars

------------------------------------------------------------------------------
\* What can be reached over the links there are, in exactly k steps.
Walks(link, from) ==
  LET linked == {x \in MeshNodes : HasNode(mesh, x)}
      step(S) == {b \in linked : \E i \in DOMAIN mesh.edges : mesh.edges[i].link = link
                     /\ \E a \in S : \/ mesh.edges[i].from = a /\ mesh.edges[i].to = b
                                     \/ mesh.edges[i].to = a /\ mesh.edges[i].from = b}
      at[k \in 0..Hops] == IF k = 0 THEN {from} ELSE step(at[k - 1])
  IN at
Reachable(link, from) == UNION {Walks(link, from)[k] : k \in 1..Hops}
FoundFrom(n, link, hops) == {p[1] : p \in Follow(mesh, NameOf[n], link, hops)}
Starts == {x \in MeshNodes : HasNode(mesh, x) /\ FindNode(mesh, NameOf[x])[1].id = x}

\* Whatever was added since the adjacency was built, following a link never
\* leads to an entity the links do not lead to in so many steps.
FollowsOnlyLinks ==
  \A n \in Starts, l \in MeshLinks : \A p \in Follow(mesh, NameOf[n], l, Hops) :
    p[1] \in Walks(l, n)[p[2]]
\* A mesh just finalized or read back finds every entity up to two steps away.
NearbyFound ==
  freshMesh => \A n \in Starts, l \in MeshLinks :
    Walks(l, n)[1] \cup Walks(l, n)[2] \subseteq FoundFrom(n, l, 2)
\* What a commit wrote, opening the memory brings back: the same entities with
\* the frames that mention them, and the same links.
ReadsBack ==
  ~meshDirty /\ ~MeshIsEmpty(mesh) /\ meshSaves > 0 =>
    /\ ToSet(LoadedMesh.nodes) = ToSet(mesh.nodes)
    /\ ToSet(LoadedMesh.edges) = ToSet(mesh.edges)
\* "following edges of the specified type up to the given number of hops"
\* (memvid/mesh.rs:86): every entity that near is found.
FollowsAll ==
  freshMesh => \A n \in Starts, l \in MeshLinks : Reachable(l, n) \subseteq FoundFrom(n, l, Hops)
=============================================================================
