---------------------------- MODULE Reachability ----------------------------
(***************************************************************************)
(* What a garbage-collecting link promises (libsld/src/layout.rs,          *)
(* find_required_sections), whatever the tasks and the order in which they *)
(* work: what is kept grows one node at a time along the references that   *)
(* lead from the roots; the traversal returns when nothing that is kept    *)
(* refers to anything else, or reports an error when it meets a node that  *)
(* cannot be kept.                                                         *)
(***************************************************************************)
CONSTANTS
    Node,        \* sections, symbols and copy relocations
    Root,        \* the nodes that the inputs ask for
    Successors,  \* [Node -> SUBSET Node]: what a kept node needs
    Faulty,      \* nodes with a reference that is an error
    FaultyRoot   \* whether what the inputs ask for includes an error

VARIABLES kept, phase

Frontier == Root \cup UNION {Successors[n] : n \in kept}

Init ==
    /\ kept = {}
    /\ phase = "running"

Keep ==
    /\ phase = "running"
    /\ \E n \in Frontier : kept' = kept \cup {n}
    /\ UNCHANGED phase

\* Something that is needed is an error; what was kept no longer matters.
Fail ==
    /\ phase = "running"
    /\ FaultyRoot \/ (Frontier \cup kept) \cap Faulty # {}
    /\ phase' = "failing"
    /\ kept' = {}

Report == phase = "failing" /\ phase' = "failed" /\ UNCHANGED kept

\* Everything needed is kept, and nothing else is.
Return ==
    /\ phase = "running"
    /\ Frontier \subseteq kept
    /\ ~FaultyRoot /\ kept \cap Faulty = {}
    /\ phase' = "returned"
    /\ UNCHANGED kept

Next == Keep \/ Fail \/ Report \/ Return

Spec == Init /\ [][Next]_<<kept, phase>>

Ends == <>(phase \in {"returned", "failed"})
=============================================================================
