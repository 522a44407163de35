--------------------------- MODULE MCMemvidAgent ---------------------------
(****************************************************************************)
(* What a memory knows and what the agent that uses it believes: the mesh   *)
(* and the cards of the memory engine and the parts of the agent memory,    *)
(* side by side for TLC: a behaviour is one of a part, so that the state    *)
(* graph is the sum of theirs. The inputs of every part are at the end.     *)
(*                                                                          *)
(* Beliefs, the governed write path, procedures and versions are extended:  *)
(* the definitions the runs check are those their theorems are about.       *)
(****************************************************************************)
EXTENDS AgentBeliefs, AgentIngest, AgentProcedures, AgentVersions

CONSTANTS Parts,   \* the components that are looked at
  MeshNodes, NameOf, MeshFacts, MeshFrames, MaxMeshSaves, Hops,
  Extracted, EngineVersions, CardsByHand, CardLimit, ReopenLimit,
  Worlds, TopKs, Today

VARIABLES part,    \* the component of this behaviour
  mesh, savedMesh, meshDirty, freshMesh, meshSaves,
  track, savedTrack, schemas, strictCards, cardReopens,
  recallAsk, recallGot

\* The logic mesh: entities, links, follow and its persistence.
Mesh == INSTANCE KnowledgeMesh
\* Memory cards, their enrichment stamps and inferred schemas.
CardTrack == INSTANCE MemoryCards
\* Retrieval by intent and its ranking.
Recall == INSTANCE MemoryRetrieval

meshPart == <<mesh, savedMesh, meshDirty, freshMesh, meshSaves>>
cardsPart == <<track, savedTrack, schemas, strictCards, cardReopens>>
recallPart == <<recallAsk, recallGot>>
vars == <<part, meshPart, cardsPart, beliefVars, ingestVars, procVars,
          recallPart, versionVars>>

\* One component runs, the others stay as they start.
Init ==
  /\ part \in Parts
  /\ Mesh!MeshInit
  /\ CardTrack!CardInit
  /\ BeliefInit
  /\ IF part = "ingest" THEN TRUE ELSE slot = CHOOSE s \in Slots : TRUE
  /\ IngestInit
  /\ ProcInit
  /\ Recall!RecallInit
  /\ VersionInit

Next ==
  /\ UNCHANGED part
  /\ IF part = "mesh" THEN Mesh!MeshNext ELSE UNCHANGED meshPart
  /\ IF part = "cards" THEN CardTrack!CardNext ELSE UNCHANGED cardsPart
  /\ IF part = "beliefs" THEN BeliefNext ELSE UNCHANGED beliefVars
  /\ IF part = "ingest" THEN IngestNext ELSE UNCHANGED ingestVars
  /\ IF part = "procedures" THEN ProcNext ELSE UNCHANGED procVars
  /\ IF part = "recall" THEN Recall!RecallNext ELSE UNCHANGED recallPart
  /\ IF part = "versions" THEN VersionNext ELSE UNCHANGED versionVars

Spec == Init /\ [][Next]_vars

-----------------------------------------------------------------------------
\* follow walks along links of the mesh only, finds every entity within one
\* hop, and a reopened mesh answers as the written one did
\* (types/logic_mesh.rs).
MeshAnswers ==
  part = "mesh" => Mesh!FollowsOnlyLinks /\ Mesh!NearbyFound /\ Mesh!ReadsBack

\* A frame is enriched once per engine version, and the current card of a
\* slot is one that was not replaced or retracted at that time
\* (types/memories_track.rs); a schema that is inferred admits every value its
\* slot has (memvid/memory.rs).
CardsStand ==
  /\ [](part = "cards" => CardTrack!EnrichedOnce /\ CardTrack!CurrentStands)
  /\ CardTrack!InferredAdmits

\* A question about the present is answered by the active belief first
\* (agent_memory/memory_retriever.rs, ranker.rs).
ActiveBeliefFirst ==
  part = "recall" => Recall!ActiveBeliefFirst

-----------------------------------------------------------------------------
MeshNames == <<"ann", "bob", "bob", "dee", "eve">>
MeshLink(a, b, l) == [from |-> a, to |-> b, link |-> l]
\* A triangle of two kinds of link; bob is also the name of node 3.
Triangle == {MeshLink(1, 2, 1), MeshLink(3, 1, 1), MeshLink(2, 3, 2)}

Five == {"number", "integer"}
One == {"number", "integer", "boolean"}
Tokyo == {"capitalT"}
ADate == {"dash"}
CardFacts == << <<[slot |-> "age", value |-> Five, relation |-> "sets", date |-> 1]>>,
            <<[slot |-> "city", value |-> Tokyo, relation |-> "updates", date |-> 2],
              [slot |-> "age", value |-> Tokyo, relation |-> "sets", date |-> 1]>> >>
ByHand == {[slot |-> "city", value |-> ADate, relation |-> "sets", date |-> 1],
           [slot |-> "age", value |-> One, relation |-> "retracts", date |-> 3]}

Obs == {[value |-> "a", retract |-> FALSE, source |-> "chat", trust |-> 75, conf |-> 70],
        [value |-> "b", retract |-> FALSE, source |-> "chat", trust |-> 75, conf |-> 90],
        [value |-> "b", retract |-> FALSE, source |-> "file", trust |-> 90, conf |-> 80]}
ObsR == Obs \cup {[value |-> "a", retract |-> TRUE, source |-> "chat", trust |-> 75, conf |-> 70]}

Candidate == [layer |-> "unset", value |-> "a", triple |-> TRUE, events |-> 0, acts |-> 0,
              conf |-> 70, sal |-> 50, source |-> "chat", trust |-> 75, verified |-> FALSE,
              seeded |-> FALSE, durable |-> TRUE, goalTerms |-> FALSE, flow |-> FALSE, good |-> FALSE]
Mixed == UNION {{[Candidate EXCEPT !.value = v],
                 [Candidate EXCEPT !.value = v, !.layer = "self_model", !.conf = 95],
                 [Candidate EXCEPT !.value = v, !.layer = "self_model", !.source = "tool", !.trust = 95]}
                : v \in {"a", "b"}}
         \cup {[Candidate EXCEPT !.layer = "procedure", !.conf = 80, !.flow = TRUE, !.good = TRUE],
               [Candidate EXCEPT !.triple = FALSE, !.conf = 20, !.sal = 10],
               [Candidate EXCEPT !.triple = FALSE, !.conf = 40]}

Directive == [id |-> 0, layer |-> "self_model", value |-> "b", triple |-> TRUE, conf |-> 90,
              trust |-> 75, source |-> "chat", flow |-> FALSE, good |-> FALSE, status |-> "active",
              count |-> 1, forced |-> FALSE, cites |-> 0]
SomeDirectives == {Directive}

SlotKinds == {[hint |-> "other", strict |-> TRUE, stable |-> TRUE],
              [hint |-> "preference", strict |-> TRUE, stable |-> FALSE],
              [hint |-> "goal", strict |-> FALSE, stable |-> FALSE]}

\* For the repetition of what an untrusted source says.
Chatter == {[Candidate EXCEPT !.conf = 90]}
PlainSlot == {[hint |-> "other", strict |-> FALSE, stable |-> FALSE]}
NoDirectives == {}

SomeSeeds == {[succ |-> 0, fail |-> 0, status |-> "active"], [succ |-> 1, fail |-> 4, status |-> "active"],
              [succ |-> 0, fail |-> 9, status |-> "cooling_down"]}

(* A store of up to three of ten memories next to the belief of the slot.     *)

Blank == [id |-> 0, layer |-> "episode", slot |-> "s", value |-> "v1", lex |-> 50,
          confidence |-> 70, salience |-> 50, day |-> 90, status |-> "none", workflow |-> "none",
          tags |-> {}, supports |-> {}, opposing |-> {}, success |-> 0, src |-> "chat1",
          expired |-> FALSE, raw |-> 50]
Held == [Blank EXCEPT !.id = 11, !.layer = "held", !.status = "active", !.src = "m1", !.raw = 0,
                      !.confidence = 60, !.salience = 0, !.lex = 0]
RecallPool ==
  { [Blank EXCEPT !.id = 1, !.layer = "belief", !.supports = {3}, !.lex = 100, !.raw = 100,
                  !.confidence = 100, !.salience = 100, !.day = 100],
    [Blank EXCEPT !.id = 2, !.layer = "belief", !.value = "v2", !.src = "chat2", !.raw = 800],
    [Blank EXCEPT !.id = 3, !.status = "success", !.workflow = "wf", !.lex = 100, !.raw = 100,
                  !.day = 100, !.confidence = 100, !.salience = 100],
    [Blank EXCEPT !.id = 4, !.slot = "t", !.tags = {"s"}, !.expired = TRUE],
    [Blank EXCEPT !.id = 5, !.layer = "self", !.day = 60, !.lex = 100],
    [Blank EXCEPT !.id = 6, !.layer = "self", !.value = "v2", !.day = 80, !.lex = 0,
                  !.supports = {3}],
    [Blank EXCEPT !.id = 7, !.layer = "goal", !.status = "blocked", !.workflow = "wf",
                  !.supports = {3}, !.tags = {"u"}],
    [Blank EXCEPT !.id = 8, !.layer = "procedure", !.status = "cooling", !.workflow = "wf",
                  !.slot = "t", !.success = 75, !.tags = {"s"}],
    [Blank EXCEPT !.id = 9, !.layer = "procedure", !.status = "retired", !.workflow = "wf",
                  !.tags = {"s"}],
    [Blank EXCEPT !.id = 10, !.layer = "trace", !.status = "status_changed"] }
HeldBeliefs == {{}, {Held}, {[Held EXCEPT !.status = "disputed", !.opposing = {2}]}}
StoreWorlds == {b \cup few : b \in HeldBeliefs, few \in UNION {kSubset(k, RecallPool) : k \in 0..3}}

=============================================================================
