--------------------------- MODULE AtomicEpisodes ---------------------------
(***************************************************************************)
(* What the Neo4j mutation guard promises to the rest of the newsroom: the *)
(* Graphiti generation behaves as if each episode were applied in one      *)
(* indivisible step.  `content' is the generation a reader may rely on, an *)
(* object being present with its own properties ("clean"), with someone    *)
(* else's ("drift") or absent; `sealed' is the set of episodes whose       *)
(* accepted result is final.  Failed, interrupted and rolled-back attempts *)
(* leave no trace here.                                                    *)
(***************************************************************************)
CONSTANTS Episodes,     \* the source units; each contributes its own object
          Existing      \* the objects the generation holds before any of them

VARIABLES content, sealed

avars == <<content, sealed>>

Init == /\ content = [o \in Episodes \cup Existing |->
                        IF o \in Existing THEN "clean" ELSE "absent"]
        /\ sealed = {}

\* The episode's result becomes final together with its object, the only one
\* that changes.
Seal(e) == /\ e \notin sealed
           /\ sealed' = sealed \cup {e}
           /\ content' = [content EXCEPT ![e] = "clean"]

Next == \E e \in Episodes : Seal(e)

Spec == Init /\ [][Next]_avars
=============================================================================
