--------------------------- MODULE StoreContract ---------------------------
(****************************************************************************)
(* What a memory promises its caller: a list of frames that only grows, in  *)
(* which a put adds a frame, an update retires one frame for a new one that *)
(* may keep its bytes, and a delete retires one.  Nothing else changes it.  *)
(****************************************************************************)
EXTENDS Naturals, Sequences

CONSTANT Payloads          \* what the caller's frames may hold

VARIABLE memory            \* Seq of [pay, status, role]

Fresh == Payloads \ {memory[i].pay : i \in DOMAIN memory}
Active(i) == memory[i].status = "active"
Entry(p, role) == [pay |-> p, status |-> "active", role |-> role]
Retired(i, how) == [memory EXCEPT ![i].status = how]

\* A new document, or a chunk of one.
Put ==
  \E p \in Fresh, role \in {"doc", "chunked", "chunk"} :
    memory' = Append(memory, Entry(p, role))

\* A new version of an active frame, with new bytes or with the old ones.
Update ==
  \E i \in DOMAIN memory :
    /\ Active(i)
    /\ \E p \in Fresh \cup {memory[i].pay}, role \in {"doc", "chunked"} :
         memory' = Append(Retired(i, "superseded"), Entry(p, role))

Delete ==
  \E i \in DOMAIN memory :
    /\ Active(i)
    /\ memory' = Retired(i, "deleted")

Init == memory = << >>
Next == Put \/ Update \/ Delete
Spec == Init /\ [][Next]_memory
=============================================================================
