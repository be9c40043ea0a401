------------------------- MODULE MCIncrementalLink -------------------------
(***************************************************************************)
(* Instances of IncrementalLink for TLC.                                   *)
(***************************************************************************)
EXTENDS IncrementalLink, TLC

CONSTANTS l1, l2, l3, i1, i2

TwoLinks == {l1, l2}
ThreeLinks == {l1, l2, l3}
OneInput == {i1}
TwoInputs == {i1, i2}

SameArgs == [l \in Link |-> "A"]
OtherArgs == [l \in Link |-> IF l = l1 THEN "A" ELSE "B"]
FirstVersion == [i \in Input |-> "v1"]

\* Links with the same arguments are interchangeable, in circumstances that come in every
\* permutation of the links.
LinkSymmetry == Permutations(Link)

In(links, foreground, edited, env, seconds) ==
    [links |-> links, foreground |-> foreground, edited |-> edited, env |-> env,
     seconds |-> seconds]

-----------------------------------------------------------------------------
(* Links made one after the other. *)

\* Any linker process may die at any point, and the output may be changed between links.
SerialLinks == {In(Link, {}, {i1}, {"unsupported_patch", "modified_output", "crash"}, 2)}

\* Two inputs, one of them snapshotted by a hardlink, are replaced while links run; one of the
\* two links publishes its state before it reports.
EditsDuringLink ==
    {In({a, b}, {a}, Input, {"edits_during_link"}, 2)
       : <<a, b>> \in {p \in Link \X Link : p[1] # p[2]}}

\* Timestamps are whole seconds and an edit may overwrite a file in place; every link writes
\* its state before it reports and every changed input can be patched.
CoarseClock == {In(Link, Link, {i1}, {"coarse_clock", "in_place_edits"}, 3)}

LinksInTurn == SerialLinks \cup EditsDuringLink \cup CoarseClock

-----------------------------------------------------------------------------
(* Links made at the same time, and any of them may die while the others wait for its lock. *)

ConcurrentLinks == {In(Link, {}, Input, {"concurrent_links", "crash"}, 1)}

-----------------------------------------------------------------------------
(* Circumstances in which a stale output is reused. *)

\* As CoarseClock, and a changed input may be one that cannot be patched.
SameSecondEdit ==
    {In(Link, Link, Input, {"coarse_clock", "in_place_edits", "unsupported_patch"}, 3)}

\* An input is overwritten in place while the linker that has reported success still
\* publishes its state.
EditWhilePublishing == {In(Link, {}, Input, {"in_place_edits"}, 2)}

=============================================================================
