--------------------------- MODULE MCAllocation ---------------------------
(***************************************************************************)
(* Links for TLC: a symbol of every nature, and a second one whose entries *)
(* come after those of the first in the same group, which is not the group *)
(* of the references.                                                      *)
(***************************************************************************)
EXTENDS Allocation

OrdinaryVariable == [from |-> "object", type |-> "data", vis |-> "default"]
ProtectedTls == [from |-> "object", type |-> "tls", vis |-> "protected"]

FirstNature ==
    {n \in Nature :
        /\ n.from = "shared" => n.vis = "default" /\ n.type \in {"data", "func", "tls"}
        /\ n.from = "undefined" => n.type \in {"func", "tls"} /\ n.vis # "protected"}

SameGroup == [s \in 1 .. 2 |-> 1]

AllLinks ==
    {l \in [kind : Kind, relr : BOOLEAN, relax : BOOLEAN,
            sym : {<<n, m>> : n \in FirstNature, m \in {OrdinaryVariable, ProtectedTls}},
            marked : {{}, {1}}, exported : {{}, {1}}] :
        /\ l.sym[1].from = "shared" => ~IsStatic(l.kind)
        /\ l.marked # {} => l.sym[1].from = "object" /\ l.sym[1].type \in {"func", "ifunc"}
        /\ l.exported # {} => /\ ~IsStatic(l.kind) /\ l.kind # "SharedObject"
                              /\ l.sym[1].from = "object" /\ l.sym[1].vis # "hidden"
        /\ l.relr => IsRelocatable(l.kind)}

=============================================================================
