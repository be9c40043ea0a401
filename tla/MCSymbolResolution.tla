------------------------ MODULE MCSymbolResolution ------------------------
(***************************************************************************)
(* Instances of SymbolResolution for TLC: small sets of files given as     *)
(* tables of what each file says of each name.                             *)
(***************************************************************************)
EXTENDS SymbolResolution, TLC

E(k) == [kind |-> k, size |-> 0, vis |-> "Default"]
H(k) == [kind |-> k, size |-> 0, vis |-> "Hidden"]
P(k) == [kind |-> k, size |-> 0, vis |-> "Protected"]
Common(s) == [kind |-> "Common", size |-> s, vis |-> "Default"]

\* A table names what is there; everything else is absent.
Table(t) == [f \in File |-> [n \in Name |->
    IF f \in DOMAIN t /\ n \in DOMAIN t[f] THEN t[f][n] ELSE E("absent")]]

\* A link of those symbols.
Given(table, optional, dynamic, unreadable) ==
    [sym |-> table, optional |-> optional, dynamic |-> dynamic, unreadable |-> unreadable]

-----------------------------------------------------------------------------
(* Archive members that need each other, wanted by several objects at once, and an as-needed
   shared object that a shared object alone does not load. *)

ArchiveNames == {"entry", "a", "b", "c", "d", "s", "w"}
ArchiveChunks == [n \in ArchiveNames |-> IF n \in {"a", "w"} THEN 2 ELSE 1]
ArchiveLinks == {Given(Table(
    0 :> ("entry" :> E("ref"))
 @@ 1 :> ("entry" :> E("Strong") @@ "a" :> E("ref") @@ "s" :> E("ref") @@ "w" :> E("weakref"))
 @@ 2 :> ("a" :> E("Strong") @@ "b" :> E("ref") @@ "c" :> E("weakref"))
 @@ 3 :> ("b" :> E("Weak") @@ "a" :> E("ref") @@ "w" :> E("Strong"))
 @@ 4 :> ("c" :> E("Strong") @@ "b" :> E("Weak"))
 @@ 5 :> ("b" :> E("ref") @@ "a" :> E("ref") @@ "s" :> H("weakref") @@ "c" :> E("weakref"))
 @@ 6 :> ("d" :> E("ref") @@ "a" :> E("ref"))
 @@ 7 :> ("d" :> E("Strong"))),
    {2, 3, 4, 7}, {6, 7}, {})}

\* Symbols that cannot be read, in objects and in members several of them want; the members
\* 5 to 7 hold nothing.
FailingLinks ==
    {Given(Table(
        1 :> ("a" :> E("ref") @@ "w" :> E(kind))
     @@ 2 :> ("a" :> E("ref") @@ "b" :> E("ref"))
     @@ 3 :> ("a" :> E("Strong") @@ "b" :> E("ref") @@ "w" :> E("ref"))
     @@ 4 :> ("b" :> E("Strong") @@ "w" :> E("Strong"))),
        {3, 4, 5, 6, 7}, {}, unreadable)
       : kind \in {"Strong", "Weak"},
         unreadable \in SUBSET {<<1, "a">>, <<2, "b">>, <<3, "b">>, <<3, "w">>}}

SelectionLinks == ArchiveLinks \cup FailingLinks

-----------------------------------------------------------------------------
(* Every way in which three files after a reference can define its name, refer to it or not
   mention it, as objects, archive members, shared objects and as-needed shared objects. *)

Kinds == [placed : {"object"},
          entry : {E("absent"), E("ref"), E("Weak"), E("Strong"), E("Comdat"),
                   Common(1), Common(2)}]
    \cup [placed : {"member"}, entry : {E("Weak"), E("Strong"), H("Comdat"), Common(2)}]
    \cup [placed : {"shared"}, entry : {E("Strong"), E("ref")}]
    \cup [placed : {"as-needed"}, entry : {E("Strong")}]

Reference == {E("ref"), H("ref"), E("weakref"), P("weakref")}

ChoiceLinks ==
    {Given([f \in File |-> [n \in Name |->
              IF n # "a" \/ f \notin 1 .. 4 THEN E("absent")
              ELSE IF f = 1 THEN ref ELSE k[f].entry]],
           {f \in 2 .. 4 : k[f].placed \in {"member", "as-needed"}},
           {f \in 2 .. 4 : k[f].placed \in {"shared", "as-needed"}}, {})
       : k \in [2 .. 4 -> Kinds], ref \in Reference}

AllLinks == SelectionLinks \cup ChoiceLinks

=============================================================================
