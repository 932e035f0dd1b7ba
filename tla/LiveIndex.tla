------------------------------ MODULE LiveIndex ------------------------------
(***************************************************************************)
(* What retrieval is promised about the documents of a source (SPEC-03 and *)
(* SPEC-05 section 5, the live_chunks view): each document is hidden, or   *)
(* one whole version of it is visible.  One step publishes one version of  *)
(* one document or hides documents; nothing in between is ever seen.       *)
(***************************************************************************)
CONSTANTS Docs, Hashes, TextOf, Models, NoHash

VARIABLE live

Hidden == [hash |-> NoHash, chunks |-> {}]

\* The chunks of content h, every one embedded of its own text by model m.
Whole(h, m) == {[text |-> t, model |-> m, vec |-> [of |-> t, by |-> m]] : t \in TextOf[h]}

Init == live = [d \in Docs |-> Hidden]

\* A version becomes the visible one: first, changed, rolled back to or restored.
Publish(d, h, m) == live' = [live EXCEPT ![d] = [hash |-> h, chunks |-> Whole(h, m)]]

\* Documents are soft-deleted, collected or removed with their source.
Hide(S) == live' = [d \in Docs |-> IF d \in S THEN Hidden ELSE live[d]]

Next == \/ \E d \in Docs, h \in Hashes, m \in Models : Publish(d, h, m)
        \/ \E S \in SUBSET Docs : Hide(S)

Spec == Init /\ [][Next]_live
=============================================================================
