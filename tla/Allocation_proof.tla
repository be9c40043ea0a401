-------------------------- MODULE Allocation_proof --------------------------
(***************************************************************************)
(* Proofs about Allocation: for any symbols, groups, links and relocations *)
(* in any order, what the scan and the flags allocate of the GOT, the PLT  *)
(* and the dynamic relocation tables is what the writer takes of them,     *)
(* unless a relocation is of a kind the linker does not support; and once  *)
(* the output is written every reference leads to its symbol.              *)
(***************************************************************************)
EXTENDS Allocation, FiniteSetTheorems, WellFoundedInduction, TLAPS

-----------------------------------------------------------------------------
(* The inductive invariant *)

\* The flags of a symbol that the input decides, and what they mean.
Base(s) == InitialFlags(kind, Sym[s])

\* The entries of table p that the scan of relocation r allocates: one or none.
RefSize(r, p) == AllocatedForRelocation(r, flags[r.sym], RelKind(r, flags[r.sym]))[p]
Sized(rels, p) == {r \in rels : RefSize(r, p) = 1}

\* The entries of table p that the symbols of group g get.
SymbolSizes(g, p) == [s \in Symbol |-> IF Home[s] = g THEN AllocateSymbol(flags[s])[p] ELSE 0]

\* No reference is of a kind the linker does not support.
Supported == \A r \in refs : ~Unsupported(r)

\* A reference to s of one of these types is processed as that kind.
Scanned(s, types, kd) == \E r \in refs : r.sym = s /\ r.type \in types /\ RelKind(r, flags[s]) = kd

\* What the scan makes of the flags of a symbol: those of the input stay, and the others come
\* from a reference, a mark or an export.
SymbolOK(s) ==
    LET f == flags[s]
        n == Sym[s]
    IN  /\ f \cap StaticFlag = Base(s)
        /\ "PLT" \in f => "GOT" \in f /\ n.type \in {"func", "ifunc"}
        /\ "GOT" \in f => n.type # "tls"
        /\ IsTls(f) => n.type = "tls"
        /\ "IFUNC_GOT_FOR_ADDRESS" \in f =>
             /\ n.type = "ifunc" /\ "GOT" \in f /\ ~IsRelocatable(kind)
             /\ "PLT" \in f \/ Scanned(s, {"GOTPCREL", "REX_GOTPCRELX"}, "GotRelative")
        /\ "COPY_RELOCATION" \in f =>
             n.from = "shared" /\ IsExecutable(kind) /\ n.type \notin {"func", "tls"}
        /\ kind = "StaticExe" /\ n.type = "ifunc" /\ s \notin link.marked /\ HasResolution(f) =>
             "PLT" \in f
        /\ "GOT_TLS_OFFSET" \in f => Scanned(s, {"GOTTPOFF", "TLSGD", "TLSDESC"}, "GotTpOff")
        /\ "GOT_TLS_MODULE" \in f => Scanned(s, {"TLSGD"}, "TlsGd")
        /\ "GOT_TLS_DESCRIPTOR" \in f => Scanned(s, {"TLSDESC"}, "TlsDesc")
        /\ "EXPORT_DYNAMIC" \in f => MustExport(s) /\ s \in defs
        /\ s \in defs => "EXPORT_DYNAMIC" \in f \/ "COPY_RELOCATION" \in f
FlagsOK == \A s \in Symbol : SymbolOK(s)

\* A reference is one an assembler makes, has asked for its flags and has not stopped the scan.
ReferenceOK(r) ==
    LET f == flags[r.sym]
        kd == RelKind(r, f)
    IN  /\ Sensible(r)
        /\ phase # "bailed" =>
             /\ ~Bails(r, f, kd)
             /\ FlagsToAdd(r, f, kd) \subseteq f
             /\ kd = "TlsLd" => usesTlsld
RefsOK == \A r \in refs : ReferenceOK(r)

Scanning == phase \in {"scan", "bailed"}
Addressed == phase \notin {"scan", "bailed", "layout"}

\* Once the sizes are final: which symbols are exported, and what each group has of each table.
SizesOK ==
    IF Scanning
    THEN phase = "scan" =>
         \A g \in Group, p \in Part :
             sizes[g][p] = IF g = Referrer THEN Cardinality(Sized(refs, p)) ELSE 0
    ELSE /\ \A s \in Symbol : MustExport(s) \/ "COPY_RELOCATION" \in flags[s] => s \in defs
         /\ \A g \in Group, p \in Part :
              sizes[g][p] = (IF g = Referrer THEN Cardinality(Sized(refs, p)) ELSE 0)
                            + (IF g = Prelude THEN AllocatePrelude[p] ELSE 0)
                            + Total(NumSymbols, SymbolSizes(g, p))

\* The addresses that were given out.
AddressesOK ==
    Addressed =>
        \A s \in Symbol :
            /\ plt[s] = ("PLT" \in flags[s])
            /\ got[s] = IF GotCount(flags[s]) = 0 THEN 0
                        ELSE GotStart(Home[s])
                             + Total(s - 1, [t \in Symbol |-> IF Home[t] = Home[s]
                                                              THEN GotCount(flags[t]) ELSE 0])

\* The tables whose entries are counted exactly whatever the references are.
PltPart == {"GOT", "PLT_GOT", "RELA_PLT"}

\* What the writer of group g has left of table p: what the symbols and relocations need that
\* are still to be written.
LeftIs(g, p) ==
    left[g][p] + Total(next - 1, SymbolSizes(g, p)) =
        Total(NumSymbols, SymbolSizes(g, p))
        + (IF g = Referrer THEN Cardinality(Sized(todo, p)) ELSE 0)

LeftOK ==
    /\ phase \in {"scan", "bailed", "layout", "prelude"} => next = 1
    /\ phase = "prelude" => left = sizes /\ todo = refs
    /\ phase \in {"write", "done"} =>
         \A g \in Group, p \in Part : p \in PltPart \/ Supported => LeftIs(g, p)
    /\ phase = "done" => todo = {} /\ next = NumSymbols + 1

AllocInv ==
    /\ TypeOK /\ IsFiniteSet(refs) /\ FlagsOK /\ RefsOK /\ SizesOK /\ AddressesOK /\ LeftOK
    /\ OnlyUnsupportedFails
-----------------------------------------------------------------------------
(* Induction over numbers, in the form the backends can use *)

LEMMA Induction ==
    ASSUME NEW S, 0 \in S, \A n \in Nat : n \in S => n + 1 \in S
    PROVE  Nat \subseteq S
<1> DEFINE T == Nat \ S
           R == OpToRel(<, Nat)
<1> SUFFICES ASSUME T # {} PROVE FALSE
  OBVIOUS
<1>1. IsWellFoundedOn(R, Nat)
  BY NatLessThanWellFounded
<1>2. T \subseteq Nat
  OBVIOUS
<1>3. R = {p \in Nat \X Nat : p[1] < p[2]}
  BY DEF OpToRel
<1> HIDE DEF T, R
<1>4. PICK n \in T : \A k \in T : <<k, n>> \notin R
  BY <1>1, <1>2, WFMin
<1>5. n \in Nat /\ n \notin S /\ n # 0
  BY DEF T
<1>6. n - 1 \in S
  <2>1. n - 1 \in Nat /\ n - 1 < n
    BY <1>5
  <2>2. <<n - 1, n>> \in R
    BY <1>3, <1>5, <2>1
  <2> QED
    BY <1>4, <2>1, <2>2 DEF T
<1>7. (n - 1) + 1 \in S
  BY <1>5, <1>6
<1> QED
  BY <1>5, <1>7

-----------------------------------------------------------------------------
(* Sums *)

\* t holds the sums of the first k sizes, for all k up to n.
Sums(t, n, size) == t = [k \in 0 .. n |-> IF k = 0 THEN 0 ELSE t[k - 1] + size[k]]

LEMMA SumsExist ==
    ASSUME NEW N \in Nat, NEW size \in [1 .. N -> Nat]
    PROVE  \A n \in 0 .. N : \E t \in [0 .. n -> Nat] : Sums(t, n, size)
<1> DEFINE S == {n \in Nat : n <= N => \E t \in [0 .. n -> Nat] : Sums(t, n, size)}
<1>1. 0 \in S
  <2> DEFINE t == [k \in 0 .. 0 |-> 0]
  <2>1. t \in [0 .. 0 -> Nat] /\ Sums(t, 0, size)
    BY DEF Sums
  <2> QED
    BY <2>1
<1>2. ASSUME NEW n \in Nat, n \in S PROVE n + 1 \in S
  <2> SUFFICES ASSUME n + 1 <= N PROVE \E t \in [0 .. n + 1 -> Nat] : Sums(t, n + 1, size)
    OBVIOUS
  <2>1. PICK t \in [0 .. n -> Nat] : Sums(t, n, size)
    BY <1>2
  <2> DEFINE u == [k \in 0 .. n + 1 |-> IF k = n + 1 THEN t[n] + size[n + 1] ELSE t[k]]
  <2>2. u \in [0 .. n + 1 -> Nat]
    OBVIOUS
  <2>3. \A k \in 0 .. n : t[k] = IF k = 0 THEN 0 ELSE t[k - 1] + size[k]
    BY <2>1 DEF Sums
  <2>4. ASSUME NEW k \in 0 .. n + 1 PROVE u[k] = IF k = 0 THEN 0 ELSE u[k - 1] + size[k]
    <3>1. CASE k = n + 1
      BY <3>1
    <3>2. CASE k \in 0 .. n
      BY <2>3, <3>2
    <3> QED
      BY <3>1, <3>2
  <2>5. Sums(u, n + 1, size)
    BY <2>2, <2>4 DEF Sums
  <2> QED
    BY <2>2, <2>5
<1>3. Nat \subseteq S
  <2> HIDE DEF S
  <2> QED
    BY <1>1, <1>2, Induction
<1> SUFFICES ASSUME NEW n \in 0 .. N PROVE \E t \in [0 .. n -> Nat] : Sums(t, n, size)
  OBVIOUS
<1>4. n \in Nat /\ n <= N
  OBVIOUS
<1> QED
  BY <1>3, <1>4

LEMMA SumsAgree ==
    ASSUME NEW N \in Nat, NEW size \in [1 .. N -> Nat], NEW n \in 1 .. N,
           NEW t, NEW u, Sums(t, n, size), Sums(u, n - 1, size)
    PROVE  t[n - 1] = u[n - 1]
<1> DEFINE S == {k \in Nat : k <= n - 1 => t[k] = u[k]}
<1>0. /\ \A k \in 0 .. n : t[k] = IF k = 0 THEN 0 ELSE t[k - 1] + size[k]
      /\ \A k \in 0 .. n - 1 : u[k] = IF k = 0 THEN 0 ELSE u[k - 1] + size[k]
  BY DEF Sums
<1>1. 0 \in S
  BY <1>0
<1>2. ASSUME NEW k \in Nat, k \in S PROVE k + 1 \in S
  BY <1>0, <1>2
<1>3. Nat \subseteq S
  <2> HIDE DEF S
  <2> QED
    BY <1>1, <1>2, Induction
<1>4. n - 1 \in Nat
  OBVIOUS
<1> QED
  BY <1>3, <1>4

LEMMA SumsSame ==
    ASSUME NEW N \in Nat, NEW size \in [1 .. N -> Nat], NEW n \in 0 .. N,
           NEW t, NEW u, Sums(t, n, size), Sums(u, n, size)
    PROVE  \A k \in 0 .. n : t[k] = u[k]
<1> DEFINE S == {k \in Nat : k <= n => t[k] = u[k]}
<1>0. \A k \in 0 .. n : /\ t[k] = IF k = 0 THEN 0 ELSE t[k - 1] + size[k]
                        /\ u[k] = IF k = 0 THEN 0 ELSE u[k - 1] + size[k]
  BY DEF Sums
<1>1. 0 \in S
  BY <1>0
<1>2. ASSUME NEW k \in Nat, k \in S PROVE k + 1 \in S
  BY <1>0, <1>2
<1>3. Nat \subseteq S
  <2> HIDE DEF S
  <2> QED
    BY <1>1, <1>2, Induction
<1> QED
  BY <1>3

LEMMA TotalSums ==
    ASSUME NEW N \in Nat, NEW size \in [1 .. N -> Nat]
    PROVE  /\ Total(0, size) = 0
           /\ \A n \in 0 .. N : Total(n, size) \in Nat
           /\ \A n \in 1 .. N : Total(n, size) = Total(n - 1, size) + size[n]
<1>1. ASSUME NEW n \in 0 .. N
      PROVE  \E t \in [0 .. n -> Nat] : Sums(t, n, size) /\ Total(n, size) = t[n]
  <2> DEFINE t == CHOOSE t : Sums(t, n, size)
  <2>1. PICK u \in [0 .. n -> Nat] : Sums(u, n, size)
    BY SumsExist
  <2>2. Sums(t, n, size)
    BY <2>1
  <2>3. Total(n, size) = t[n]
    BY DEF Total, Sums
  <2>4. \A k \in 0 .. n : t[k] = u[k]
    <3> HIDE DEF t
    <3> QED
      BY <2>1, <2>2, SumsSame
  <2>5. t \in [0 .. n -> Nat]
    <3>1. t = [k \in 0 .. n |-> IF k = 0 THEN 0 ELSE t[k - 1] + size[k]]
      <4> HIDE DEF t
      <4> QED
        BY <2>2 DEF Sums
    <3> HIDE DEF t
    <3>2. t = [k \in 0 .. n |-> t[k]]
      BY <3>1
    <3> QED
      BY <2>4, <3>2
  <2> HIDE DEF t
  <2> QED
    BY <2>2, <2>3, <2>5
<1>2. Total(0, size) = 0
  <2>0. 0 \in 0 .. N
    OBVIOUS
  <2>1. PICK t \in [0 .. 0 -> Nat] : Sums(t, 0, size) /\ Total(0, size) = t[0]
    BY <1>1, <2>0, Zenon
  <2> QED
    BY <2>1 DEF Sums
<1>3. ASSUME NEW n \in 1 .. N PROVE Total(n, size) = Total(n - 1, size) + size[n]
  <2>0. n \in 0 .. N /\ n - 1 \in 0 .. N
    OBVIOUS
  <2>1. PICK t \in [0 .. n -> Nat] : Sums(t, n, size) /\ Total(n, size) = t[n]
    BY <1>1, <2>0, Zenon
  <2>2. PICK u \in [0 .. n - 1 -> Nat] : Sums(u, n - 1, size) /\ Total(n - 1, size) = u[n - 1]
    BY <1>1, <2>0, Zenon
  <2>3. t[n - 1] = u[n - 1]
    <3>1. Sums(t, n, size) /\ Sums(u, n - 1, size)
      BY <2>1, <2>2
    <3> QED
      BY <3>1, SumsAgree
  <2> QED
    BY <2>1, <2>2, <2>3 DEF Sums
<1>4. \A n \in 0 .. N : Total(n, size) \in Nat
  <2> SUFFICES ASSUME NEW n \in 0 .. N PROVE Total(n, size) \in Nat
    OBVIOUS
  <2>1. PICK t \in [0 .. n -> Nat] : Total(n, size) = t[n]
    BY <1>1, Zenon
  <2> QED
    BY <2>1
<1> QED
  BY <1>2, <1>3, <1>4

LEMMA TotalGrows ==
    ASSUME NEW N \in Nat, NEW size \in [1 .. N -> Nat], NEW m \in 0 .. N
    PROVE  \A n \in Nat : m <= n /\ n <= N => Total(m, size) <= Total(n, size)
<1> DEFINE S == {n \in Nat : m <= n /\ n <= N => Total(m, size) <= Total(n, size)}
<1>0. \A n \in 0 .. N : Total(n, size) \in Nat
  BY TotalSums
<1>1. 0 \in S
  BY <1>0
<1>2. ASSUME NEW n \in Nat, n \in S PROVE n + 1 \in S
  <2> SUFFICES ASSUME m <= n + 1, n + 1 <= N PROVE Total(m, size) <= Total(n + 1, size)
    OBVIOUS
  <2>0. Total(m, size) \in Nat
    BY <1>0
  <2>1. CASE m = n + 1
    BY <2>0, <2>1
  <2>2. CASE m <= n
    <3>0. n \in 0 .. N /\ n + 1 \in 1 .. N /\ Total(n, size) \in Nat /\ (n + 1) - 1 = n
      BY <1>0
    <3>1. Total(n + 1, size) = Total(n, size) + size[n + 1]
      BY <3>0, TotalSums
    <3>2. size[n + 1] \in Nat
      BY <3>0
    <3>3. Total(m, size) <= Total(n, size)
      BY <1>2, <2>2, <3>0
    <3> QED
      BY <2>0, <3>0, <3>1, <3>2, <3>3
  <2> QED
    BY <2>1, <2>2
<1>3. Nat \subseteq S
  <2> HIDE DEF S
  <2> QED
    BY <1>1, <1>2, Induction
<1> QED
  BY <1>3

-----------------------------------------------------------------------------
(* What the flags that the input decides say of a symbol *)

LEMMA SameStatic ==
    ASSUME NEW f, NEW g, f \cap StaticFlag = g \cap StaticFlag
    PROVE  /\ IsDynamic(f) = IsDynamic(g) /\ IsIfunc(f) = IsIfunc(g)
           /\ IsAbsolute(f) = IsAbsolute(g) /\ IsInterposable(f) = IsInterposable(g)
           /\ IsAddress(f) = IsAddress(g) /\ ("FUNCTION" \in f) = ("FUNCTION" \in g)
<1>1. \A x \in StaticFlag : (x \in f) = (x \in g)
  OBVIOUS
<1>2. {"ABSOLUTE", "DYNAMIC", "IFUNC", "NON_INTERPOSABLE", "FUNCTION"} \subseteq StaticFlag
  BY DEF StaticFlag
<1>3. f \cap {"IFUNC", "DYNAMIC", "ABSOLUTE"} = g \cap {"IFUNC", "DYNAMIC", "ABSOLUTE"}
  BY <1>1, <1>2
<1> QED
  BY <1>1, <1>2, <1>3 DEF IsDynamic, IsIfunc, IsAbsolute, IsInterposable, IsAddress

\* A relocation is scanned the same way whatever was asked of its symbol before.
LEMMA ScanStatic ==
    ASSUME NEW f, NEW g, f \cap StaticFlag = g \cap StaticFlag, NEW r
    PROVE  /\ RelKind(r, f) = RelKind(r, g)
           /\ \A kd : /\ Bails(r, f, kd) = Bails(r, g, kd)
                      /\ AllocatedForRelocation(r, f, kd) = AllocatedForRelocation(r, g, kd)
                      /\ FlagsToAdd(r, f, kd) = FlagsToAdd(r, g, kd)
<1>1. /\ IsDynamic(f) = IsDynamic(g) /\ IsIfunc(f) = IsIfunc(g)
      /\ IsAbsolute(f) = IsAbsolute(g) /\ IsInterposable(f) = IsInterposable(g)
      /\ IsAddress(f) = IsAddress(g) /\ ("FUNCTION" \in f) = ("FUNCTION" \in g)
  BY SameStatic
<1>2. Relaxation(kind, f, r.type) = Relaxation(kind, g, r.type)
  BY <1>1 DEF Relaxation
<1>3. RelKind(r, f) = RelKind(r, g)
  BY <1>1, <1>2 DEF RelKind
<1>4. ASSUME NEW kd PROVE DirectInterposable(r, f, kd) = DirectInterposable(r, g, kd)
  BY <1>1 DEF DirectInterposable
<1>5. ASSUME NEW kd PROVE Bails(r, f, kd) = Bails(r, g, kd)
  BY <1>1, <1>4 DEF Bails
<1>6. ASSUME NEW kd PROVE AllocatedForRelocation(r, f, kd) = AllocatedForRelocation(r, g, kd)
  BY <1>1, <1>4 DEF AllocatedForRelocation
<1>7. ASSUME NEW kd PROVE FlagsToAdd(r, f, kd) = FlagsToAdd(r, g, kd)
  BY <1>1, <1>4 DEF FlagsToAdd
<1> QED
  BY <1>3, <1>5, <1>6, <1>7

LEMMA SymbolFacts ==
    ASSUME TypeOK, NEW s \in Symbol
    PROVE  /\ kind \in Kind /\ Sym[s] \in Nature
           /\ link.relr \in BOOLEAN /\ link.relax \in BOOLEAN
           /\ Sym[s].from = "shared" =>
                ~IsStatic(kind) /\ Sym[s].vis = "default" /\ Sym[s].type # "ifunc"
           /\ Sym[s].from = "undefined" => Sym[s].type \in {"func", "tls"}
           /\ Sym[s].from \in {"object", "shared", "undefined"}
           /\ Sym[s].type \in {"data", "func", "ifunc", "tls", "absolute"}
           /\ Sym[s].vis \in {"default", "protected", "hidden"}
           /\ link.exported # {} => NeedsDynsym(kind)
<1>1. link \in Link /\ link \in LinkInput
  BY LinkAssumption DEF TypeOK
<1> QED
  BY <1>1, LinkAssumption DEF LinkInput, Nature, kind, Sym

LEMMA BaseFlags ==
    ASSUME TypeOK, NEW s \in Symbol, NEW f, f \cap StaticFlag = Base(s)
    PROVE  /\ IsAbsolute(f) <=> \/ Sym[s].from = "undefined"
                                \/ Sym[s].from = "object" /\ Sym[s].type = "absolute"
           /\ IsIfunc(f) <=> Sym[s].type = "ifunc"
           /\ Sym[s].type = "ifunc" => Sym[s].from = "object"
           /\ IsDynamic(f) <=> Sym[s].from = "shared" \/ (Sym[s].from = "undefined" /\ Preemptible(s))
           /\ IsInterposable(f) <=> Preemptible(s)
           /\ IsAddress(f) <=> Sym[s].from = "object" /\ Sym[s].type \notin {"absolute", "ifunc"}
           /\ "FUNCTION" \in f <=> Sym[s].from = "shared" /\ Sym[s].type = "func"
<1> DEFINE n == Sym[s]
<1>0. /\ kind \in Kind
      /\ n.from = "shared" => ~IsStatic(kind) /\ n.vis = "default" /\ n.type # "ifunc"
      /\ n.from = "undefined" => n.type \in {"func", "tls"}
      /\ n.from \in {"object", "shared", "undefined"}
      /\ n.type \in {"data", "func", "ifunc", "tls", "absolute"}
      /\ n.vis \in {"default", "protected", "hidden"}
  BY SymbolFacts
<1>1. Base(s) = InitialFlags(kind, n)
  BY DEF Base
<1>2. \A x \in StaticFlag : x \in f <=> x \in Base(s)
  OBVIOUS
<1>3. /\ "ABSOLUTE" \in f <=> "ABSOLUTE" \in Base(s)
      /\ "DYNAMIC" \in f <=> "DYNAMIC" \in Base(s)
      /\ "IFUNC" \in f <=> "IFUNC" \in Base(s)
      /\ "NON_INTERPOSABLE" \in f <=> "NON_INTERPOSABLE" \in Base(s)
      /\ "FUNCTION" \in f <=> "FUNCTION" \in Base(s)
  BY <1>2 DEF StaticFlag
<1> HIDE DEF n
<1>4. CASE n.from = "object"
  <2>1. Base(s) = ObjectFlags(kind, n)
    BY <1>1, <1>4 DEF InitialFlags
  <2>2. /\ "ABSOLUTE" \in Base(s) <=> n.type = "absolute"
        /\ "IFUNC" \in Base(s) <=> n.type = "ifunc"
        /\ "DYNAMIC" \notin Base(s) /\ "FUNCTION" \notin Base(s)
        /\ "NON_INTERPOSABLE" \in Base(s) <=> n.vis # "default" \/ IsStatic(kind) \/ IsExecutable(kind)
    BY <1>0, <1>4, <2>1 DEF ObjectFlags
  <2>3. Preemptible(s) <=> n.vis = "default" /\ ~IsStatic(kind) /\ kind = "SharedObject"
    BY <1>4 DEF Preemptible, n
  <2> QED
    BY <1>0, <1>3, <1>4, <2>2, <2>3 DEF IsAbsolute, IsIfunc, IsDynamic, IsInterposable, IsAddress,
          IsExecutable, IsStatic, Kind, n
<1>5. CASE n.from = "undefined"
  <2>1. Base(s) = ObjectFlags(kind, n) \cup UndefinedFlags(kind, n)
    BY <1>1, <1>5 DEF InitialFlags
  <2>2. /\ "ABSOLUTE" \in Base(s) /\ "IFUNC" \notin Base(s) /\ "FUNCTION" \notin Base(s)
        /\ "DYNAMIC" \in Base(s) <=> n.vis = "default" /\ ~IsStatic(kind)
        /\ "NON_INTERPOSABLE" \in Base(s) <=> ~(n.vis = "default" /\ ~IsStatic(kind))
    BY <1>0, <1>5, <2>1 DEF ObjectFlags, UndefinedFlags
  <2>3. Preemptible(s) <=> n.vis = "default" /\ ~IsStatic(kind)
    BY <1>5 DEF Preemptible, n
  <2> QED
    BY <1>0, <1>3, <1>5, <2>2, <2>3 DEF IsAbsolute, IsIfunc, IsDynamic, IsInterposable, IsAddress, n
<1>6. CASE n.from = "shared"
  <2>1. Base(s) = SharedFlags(n)
    BY <1>1, <1>6 DEF InitialFlags
  <2>2. /\ "ABSOLUTE" \notin Base(s) /\ "IFUNC" \notin Base(s) /\ "DYNAMIC" \in Base(s)
        /\ "FUNCTION" \in Base(s) <=> n.type = "func"
        /\ "NON_INTERPOSABLE" \notin Base(s)
    BY <1>0, <1>6, <2>1 DEF SharedFlags
  <2>3. Preemptible(s)
    BY <1>0, <1>6 DEF Preemptible, n
  <2> QED
    BY <1>0, <1>3, <1>6, <2>2, <2>3 DEF IsAbsolute, IsIfunc, IsDynamic, IsInterposable, IsAddress, n
<1> QED
  BY <1>0, <1>4, <1>5, <1>6

\* What a relocation is processed as.
KindOK(r, f, kd) ==
    LET own == ~Preemptible(r.sym)
        ifunc == Sym[r.sym].type = "ifunc"
    IN  CASE r.type = "64" -> kd = "Absolute"
          [] r.type = "PC32" -> kd = IF ifunc THEN "PltRelative" ELSE "Relative"
          [] r.type = "PLT32" -> kd = "PltRelative" \/ (kd = "Relative" /\ own /\ ~ifunc)
          [] r.type = "GOTPCREL" -> kd = "GotRelative"
          [] r.type = "REX_GOTPCRELX" ->
               \/ kd = "GotRelative"
               \/ kd = "Absolute" /\ IsAbsolute(f) /\ ~IsDynamic(f)
               \/ kd = "Absolute" /\ IsAddress(f) /\ ~IsRelocatable(kind)
               \/ kd = "Relative" /\ own /\ ~ifunc
          [] r.type = "TLSGD" ->
               \/ kd = "TlsGd" /\ ~IsStatic(kind)
               \/ kd = (IF own THEN "TpOff" ELSE "GotTpOff") /\ IsExecutable(kind)
          [] r.type = "TLSLD" -> \/ kd = "TlsLd" /\ ~IsStatic(kind)
                                 \/ kd = "None" /\ IsExecutable(kind)
          [] r.type = "GOTTPOFF" -> kd = "GotTpOff" \/ (kd = "TpOff" /\ own /\ IsExecutable(kind))
          [] r.type = "TLSDESC" ->
               \/ kd = "TlsDesc" /\ ~IsStatic(kind)
               \/ kd = (IF own THEN "TpOff" ELSE "GotTpOff") /\ IsExecutable(kind)

LEMMA KindFacts ==
    ASSUME TypeOK, NEW r \in Reference, Sensible(r), NEW f, f \cap StaticFlag = Base(r.sym)
    PROVE  KindOK(r, f, RelKind(r, f))
<1> DEFINE kd == RelKind(r, f)
           relaxed == {x \in Relaxation(kind, f, r.type) : r.sec = "text" /\ (link.relax \/ x.mandatory)}
           own == ~Preemptible(r.sym)
<1>0. r.sym \in Symbol /\ r.type \in RelType
  BY DEF Reference
<1>1. /\ IsIfunc(f) <=> Sym[r.sym].type = "ifunc"
      /\ IsInterposable(f) <=> ~own
      /\ kind \in Kind
  BY <1>0, BaseFlags, SymbolFacts
<1>2. /\ IsStatic(kind) => IsExecutable(kind)
      /\ IsStatic(kind) => own
  BY <1>1 DEF IsStatic, IsExecutable, Kind, Preemptible
<1>3. CASE IsIfunc(f)
  <2>1. kd = IF r.type = "PC32" THEN "PltRelative" ELSE RawKind(r.type)
    BY <1>3 DEF RelKind
  <2>2. Sym[r.sym].type = "ifunc" /\ r.type \in {"64", "PC32", "PLT32", "GOTPCREL", "REX_GOTPCRELX"}
    BY <1>1, <1>3 DEF Sensible
  <2> HIDE DEF kd, relaxed, own
  <2> QED
    BY <2>1, <2>2 DEF KindOK, RawKind, kd, own
<1>4. CASE ~IsIfunc(f)
  <2>1. \/ relaxed = {} /\ kd = RawKind(r.type)
        \/ \E x \in relaxed : kd = x.kind
    BY <1>4 DEF RelKind
  <2>2. Sym[r.sym].type = "tls" => r.sec = "text"
    BY DEF Sensible
  <2>3. Sym[r.sym].type # "tls" => r.type \in {"64", "PC32", "PLT32", "GOTPCREL", "REX_GOTPCRELX"}
    BY DEF Sensible
  <2>4. r.type \in {"TLSGD", "TLSLD", "GOTTPOFF", "TLSDESC"} => r.sec = "text"
    BY <2>2, <2>3
  <2>5. CASE r.type \in {"64", "PC32", "GOTPCREL"}
    <3>1. Relaxation(kind, f, r.type) = {}
      BY <2>5 DEF Relaxation
    <3>2. kd = RawKind(r.type)
      BY <2>1, <3>1
    <3> HIDE DEF kd, relaxed, own
    <3> QED
      BY <1>1, <1>4, <2>5, <3>2 DEF KindOK, RawKind, kd
  <2>6. CASE r.type = "PLT32"
    <3>1. \A x \in Relaxation(kind, f, r.type) : x.kind = "Relative" /\ ~IsInterposable(f)
      BY <2>6 DEF Relaxation
    <3>2. kd = "PltRelative" \/ (kd = "Relative" /\ own)
      BY <1>1, <2>1, <2>6, <3>1 DEF RawKind
    <3> HIDE DEF kd, relaxed, own
    <3> QED
      BY <1>1, <1>4, <2>6, <3>2 DEF KindOK, kd, own
  <2>7. CASE r.type = "REX_GOTPCRELX"
    <3>1. \A x \in Relaxation(kind, f, r.type) :
            \/ x.kind = "Absolute" /\ IsAbsolute(f) /\ ~IsDynamic(f)
            \/ x.kind = "Absolute" /\ IsAddress(f) /\ ~IsRelocatable(kind)
            \/ x.kind = "Relative" /\ ~IsInterposable(f)
      BY <2>7 DEF Relaxation
    <3>2. \/ kd = "GotRelative"
          \/ kd = "Absolute" /\ IsAbsolute(f) /\ ~IsDynamic(f)
          \/ kd = "Absolute" /\ IsAddress(f) /\ ~IsRelocatable(kind)
          \/ kd = "Relative" /\ own
      BY <1>1, <2>1, <2>7, <3>1 DEF RawKind
    <3> HIDE DEF kd, relaxed, own
    <3> QED
      BY <1>1, <1>4, <2>7, <3>2 DEF KindOK, kd, own
  <2>8. CASE r.type = "TLSGD"
    <3>1. Relaxation(kind, f, r.type) =
            IF IsExecutable(kind)
            THEN IF IsInterposable(f) THEN {[kind |-> "GotTpOff", mandatory |-> FALSE]}
                 ELSE {[kind |-> "TpOff", mandatory |-> IsStatic(kind)]}
            ELSE {}
      BY <2>8 DEF Relaxation
    <3>3. IsStatic(kind) => relaxed # {}
      <4> SUFFICES ASSUME IsStatic(kind) PROVE relaxed # {}
        OBVIOUS
      <4> DEFINE e == [kind |-> "TpOff", mandatory |-> IsStatic(kind)]
      <4>1. e \in Relaxation(kind, f, r.type)
        BY <1>1, <1>2, <3>1
      <4>2. e.mandatory /\ r.sec = "text"
        BY <2>4, <2>8
      <4> HIDE DEF e
      <4> QED
        BY <4>1, <4>2
    <3>4. \A x \in Relaxation(kind, f, r.type) : IsExecutable(kind) /\ x.kind = (IF own THEN "TpOff" ELSE "GotTpOff")
      BY <1>1, <3>1
    <3>2. \/ kd = "TlsGd" /\ ~IsStatic(kind)
          \/ kd = (IF own THEN "TpOff" ELSE "GotTpOff") /\ IsExecutable(kind)
      <4>1. CASE relaxed = {}
        BY <2>1, <2>8, <3>3, <4>1 DEF RawKind
      <4>2. CASE relaxed # {}
        <5>1. PICK x \in relaxed : kd = x.kind
          BY <2>1, <4>2
        <5> QED
          BY <3>4, <5>1
      <4> QED
        BY <4>1, <4>2
    <3> HIDE DEF kd, relaxed, own
    <3> QED
      BY <2>8, <3>2 DEF KindOK, kd, own
  <2>9. CASE r.type = "TLSLD"
    <3>1. Relaxation(kind, f, r.type) =
            IF IsExecutable(kind) THEN {[kind |-> "None", mandatory |-> IsStatic(kind)]} ELSE {}
      BY <2>9 DEF Relaxation
    <3>3. IsStatic(kind) => relaxed # {}
      <4> SUFFICES ASSUME IsStatic(kind) PROVE relaxed # {}
        OBVIOUS
      <4> DEFINE e == [kind |-> "None", mandatory |-> IsStatic(kind)]
      <4>1. e \in Relaxation(kind, f, r.type)
        BY <1>1, <1>2, <3>1
      <4>2. e.mandatory /\ r.sec = "text"
        BY <2>4, <2>9
      <4> HIDE DEF e
      <4> QED
        BY <4>1, <4>2
    <3>4. \A x \in Relaxation(kind, f, r.type) : IsExecutable(kind) /\ x.kind = "None"
      BY <1>1, <3>1
    <3>2. \/ kd = "TlsLd" /\ ~IsStatic(kind)
          \/ kd = "None" /\ IsExecutable(kind)
      <4>1. CASE relaxed = {}
        BY <2>1, <2>9, <3>3, <4>1 DEF RawKind
      <4>2. CASE relaxed # {}
        <5>1. PICK x \in relaxed : kd = x.kind
          BY <2>1, <4>2
        <5> QED
          BY <3>4, <5>1
      <4> QED
        BY <4>1, <4>2
    <3> HIDE DEF kd, relaxed, own
    <3> QED
      BY <2>9, <3>2 DEF KindOK, kd, own
  <2>10. CASE r.type = "GOTTPOFF"
    <3>1. Relaxation(kind, f, r.type) =
            IF IsExecutable(kind) /\ ~IsInterposable(f)
            THEN {[kind |-> "TpOff", mandatory |-> FALSE]} ELSE {}
      BY <2>10 DEF Relaxation
    <3>2. kd = "GotTpOff" \/ (kd = "TpOff" /\ own /\ IsExecutable(kind))
      BY <1>1, <1>2, <2>1, <2>4, <2>10, <3>1 DEF RawKind
    <3> HIDE DEF kd, relaxed, own
    <3> QED
      BY <2>10, <3>2 DEF KindOK, kd, own
  <2>11. CASE r.type = "TLSDESC"
    <3>1. Relaxation(kind, f, r.type) =
            IF IsExecutable(kind)
            THEN {[kind |-> IF IsInterposable(f) THEN "GotTpOff" ELSE "TpOff", mandatory |-> IsStatic(kind)]}
            ELSE {}
      BY <2>11 DEF Relaxation
    <3>3. IsStatic(kind) => relaxed # {}
      <4> SUFFICES ASSUME IsStatic(kind) PROVE relaxed # {}
        OBVIOUS
      <4> DEFINE e == [kind |-> "TpOff", mandatory |-> IsStatic(kind)]
      <4>1. e \in Relaxation(kind, f, r.type)
        BY <1>1, <1>2, <3>1
      <4>2. e.mandatory /\ r.sec = "text"
        BY <2>4, <2>11
      <4> HIDE DEF e
      <4> QED
        BY <4>1, <4>2
    <3>4. \A x \in Relaxation(kind, f, r.type) : IsExecutable(kind) /\ x.kind = (IF own THEN "TpOff" ELSE "GotTpOff")
      BY <1>1, <3>1
    <3>2. \/ kd = "TlsDesc" /\ ~IsStatic(kind)
          \/ kd = (IF own THEN "TpOff" ELSE "GotTpOff") /\ IsExecutable(kind)
      <4>1. CASE relaxed = {}
        BY <2>1, <2>11, <3>3, <4>1 DEF RawKind
      <4>2. CASE relaxed # {}
        <5>1. PICK x \in relaxed : kd = x.kind
          BY <2>1, <4>2
        <5> QED
          BY <3>4, <5>1
      <4> QED
        BY <4>1, <4>2
    <3> HIDE DEF kd, relaxed, own
    <3> QED
      BY <2>11, <3>2 DEF KindOK, kd, own
  <2> QED
    BY <1>0, <2>5, <2>6, <2>7, <2>8, <2>9, <2>10, <2>11 DEF RelType
<1> QED
  BY <1>3, <1>4

-----------------------------------------------------------------------------
(* What the scan of a reference adds to the flags of its symbol *)

LEMMA AddedFlags ==
    ASSUME TypeOK, NEW r \in Reference, Sensible(r), NEW f, f \cap StaticFlag = Base(r.sym),
           NEW kd, kd = RelKind(r, f), ~Bails(r, f, kd)
    PROVE  LET add == FlagsToAdd(r, f, kd)
               n == Sym[r.sym]
           IN  /\ add \subseteq ResolutionFlag \ {"EXPORT_DYNAMIC"}
               /\ "PLT" \in add => "GOT" \in add /\ n.type \in {"func", "ifunc"}
               /\ "GOT" \in add => n.type # "tls"
               /\ "GOT_TLS_OFFSET" \in add =>
                    n.type = "tls" /\ kd = "GotTpOff" /\ r.type \in {"GOTTPOFF", "TLSGD", "TLSDESC"}
               /\ "GOT_TLS_MODULE" \in add => n.type = "tls" /\ kd = "TlsGd" /\ r.type = "TLSGD"
               /\ "GOT_TLS_DESCRIPTOR" \in add => n.type = "tls" /\ kd = "TlsDesc" /\ r.type = "TLSDESC"
               /\ "IFUNC_GOT_FOR_ADDRESS" \in add =>
                    /\ n.type = "ifunc" /\ "GOT" \in add /\ ~IsRelocatable(kind)
                    /\ \/ "PLT" \in add
                       \/ kd = "GotRelative" /\ r.type \in {"GOTPCREL", "REX_GOTPCRELX"}
               /\ "COPY_RELOCATION" \in add =>
                    n.from = "shared" /\ IsExecutable(kind) /\ n.type \notin {"func", "tls"}
<1> DEFINE add == FlagsToAdd(r, f, kd)
           n == Sym[r.sym]
<1>0. r.sym \in Symbol /\ r.type \in RelType
  BY DEF Reference
<1>1. /\ IsIfunc(f) <=> n.type = "ifunc"
      /\ IsInterposable(f) <=> Preemptible(r.sym)
      /\ IsAbsolute(f) <=> n.from = "undefined" \/ (n.from = "object" /\ n.type = "absolute")
      /\ "FUNCTION" \in f <=> n.from = "shared" /\ n.type = "func"
      /\ kind \in Kind
      /\ n.from \in {"object", "shared", "undefined"}
  BY <1>0, BaseFlags, SymbolFacts
<1>2. KindOK(r, f, kd)
  BY KindFacts
<1>3. /\ n.type = "tls" => r.type \in {"TLSGD", "TLSLD", "GOTTPOFF", "TLSDESC"}
      /\ n.type # "tls" => r.type \in {"64", "PC32", "PLT32", "GOTPCREL", "REX_GOTPCRELX"}
      /\ r.type = "PLT32" => n.type \in {"func", "ifunc"}
  BY DEF Sensible
<1>4. /\ n.type = "tls" => kd \in {"TlsGd", "TlsLd", "GotTpOff", "TlsDesc", "TpOff", "None"}
      /\ n.type # "tls" => kd \in {"Absolute", "Relative", "PltRelative", "GotRelative"}
      /\ kd = "GotTpOff" => r.type \in {"GOTTPOFF", "TLSGD", "TLSDESC"}
      /\ kd = "TlsGd" => r.type = "TLSGD"
      /\ kd = "TlsDesc" => r.type = "TLSDESC"
      /\ kd = "GotRelative" => r.type \in {"GOTPCREL", "REX_GOTPCRELX"}
      /\ kd = "PltRelative" => n.type \in {"func", "ifunc"}
  BY <1>0, <1>2, <1>3 DEF KindOK, RelType
<1> HIDE DEF n
<1>5. CASE n.type = "tls"
  <2>1. ~DirectInterposable(r, f, kd) \/ IsTlsKind(kd)
    BY <1>4, <1>5 DEF DirectInterposable, NeededFlags, IsTlsKind
  <2>2. add = NeededFlags(kd)
    <3>1. ~IsIfunc(f)
      BY <1>1, <1>5
    <3> QED
      BY <2>1, <3>1 DEF FlagsToAdd
  <2>3. NeededFlags(kd) = CASE kd = "GotTpOff" -> {"GOT_TLS_OFFSET"}
                            [] kd = "TlsGd" -> {"GOT_TLS_MODULE"}
                            [] kd = "TlsDesc" -> {"GOT_TLS_DESCRIPTOR"}
                            [] kd = "TpOff" -> {"DIRECT"}
                            [] OTHER -> {}
    BY <1>4, <1>5 DEF NeededFlags
  <2>4. \A x \in add : \/ x = "GOT_TLS_OFFSET" /\ kd = "GotTpOff"
                       \/ x = "GOT_TLS_MODULE" /\ kd = "TlsGd"
                       \/ x = "GOT_TLS_DESCRIPTOR" /\ kd = "TlsDesc"
                       \/ x = "DIRECT"
    BY <1>4, <1>5, <2>2, <2>3
  <2> HIDE DEF add
  <2> QED
    BY <1>4, <1>5, <2>4 DEF ResolutionFlag, add, n
<1>6. CASE n.type # "tls"
  <2>1. NeededFlags(kd) = CASE kd = "PltRelative" -> {"PLT", "GOT"}
                            [] kd = "GotRelative" -> {"GOT"}
                            [] OTHER -> {"DIRECT"}
    BY <1>4, <1>6 DEF NeededFlags
  <2>2. ~IsTlsKind(kd)
    BY <1>4, <1>6 DEF IsTlsKind
  <2> DEFINE viaPlt == ~IsTlsKind(kd) /\ DirectInterposable(r, f, kd) /\ ~Writable(r)
             direct == IF viaPlt /\ "FUNCTION" \in f THEN (NeededFlags(kd) \ {"DIRECT"}) \cup {"PLT", "GOT"}
                       ELSE IF viaPlt /\ ~IsAbsolute(f) THEN NeededFlags(kd) \cup {"COPY_RELOCATION"}
                       ELSE NeededFlags(kd)
  <2>3. add = direct \cup (IF IsIfunc(f) /\ ~IsStatic(kind) THEN {"GOT", "PLT"} ELSE {})
                     \cup (IF IsIfunc(f) /\ "GOT" \in direct /\ ~IsRelocatable(kind)
                           THEN {"IFUNC_GOT_FOR_ADDRESS"} ELSE {})
    BY DEF FlagsToAdd
  <2>4. /\ direct \subseteq {"DIRECT", "PLT", "GOT", "COPY_RELOCATION"}
        /\ "PLT" \in direct => "GOT" \in direct /\ (kd = "PltRelative" \/ "FUNCTION" \in f)
        /\ "GOT" \in direct => "PLT" \in direct \/ kd = "GotRelative"
        /\ "COPY_RELOCATION" \in direct => viaPlt /\ "FUNCTION" \notin f /\ ~IsAbsolute(f)
    BY <1>4, <1>6, <2>1
  <2>5. viaPlt /\ "FUNCTION" \notin f /\ ~IsAbsolute(f) =>
            n.from = "shared" /\ IsExecutable(kind) /\ n.type # "func"
    <3> SUFFICES ASSUME viaPlt, "FUNCTION" \notin f, ~IsAbsolute(f)
                 PROVE  n.from = "shared" /\ IsExecutable(kind) /\ n.type # "func"
      OBVIOUS
    <3>1. CopyAllowed
      BY DEF Bails
    <3>2. IsExecutable(kind)
      BY <3>1 DEF CopyAllowed
    <3>3. Preemptible(r.sym)
      BY <1>1 DEF DirectInterposable
    <3>4. n.from # "object"
      BY <3>2, <3>3 DEF Preemptible, IsExecutable, n
    <3> QED
      BY <1>1, <3>2, <3>4
  <2> HIDE DEF direct, viaPlt, add
  <2> QED
    BY <1>1, <1>4, <1>6, <2>3, <2>4, <2>5 DEF ResolutionFlag, add, n
<1> QED
  BY <1>5, <1>6

-----------------------------------------------------------------------------
(* The link does not change, nor how its relocations are processed *)

LEMMA InputSame ==
    ASSUME link' = link
    PROVE  /\ kind' = kind /\ Sym' = Sym
           /\ \A s : /\ Base(s)' = Base(s) /\ Preemptible(s)' = Preemptible(s)
                     /\ MustExport(s)' = MustExport(s)
           /\ \A r : Sensible(r)' = Sensible(r) /\ Unsupported(r)' = Unsupported(r)
<1>1. kind' = kind /\ Sym' = Sym
  BY DEF kind, Sym
<1>2. \A s : Base(s)' = Base(s) /\ Preemptible(s)' = Preemptible(s) /\ MustExport(s)' = MustExport(s)
  BY <1>1 DEF Base, Preemptible, MustExport
<1>3. \A r : Sensible(r)' = Sensible(r)
  BY <1>1 DEF Sensible
<1>4. ASSUME NEW r PROVE Unsupported(r)' = Unsupported(r)
  <2>1. Preemptible(r.sym)' = Preemptible(r.sym)
    BY <1>2
  <2> QED
    BY <1>1, <2>1 DEF Unsupported, ParityDiffers
<1> QED
  BY <1>1, <1>2, <1>3, <1>4

LEMMA ProcessedSame ==
    ASSUME link' = link, NEW r, flags'[r.sym] \cap StaticFlag = flags[r.sym] \cap StaticFlag
    PROVE  LET f == flags[r.sym]
               kd == RelKind(r, f)
           IN  /\ kd' = kd
               /\ Bails(r, f, kd)' = Bails(r, f, kd)
               /\ FlagsToAdd(r, f, kd)' = FlagsToAdd(r, f, kd)
               /\ \A p : RefSize(r, p)' = RefSize(r, p)
<1> DEFINE f == flags[r.sym]
           g == flags'[r.sym]
<1>1. kind' = kind /\ link' = link
  BY InputSame
<1>2. RelKind(r, f)' = RelKind(r, g)
  BY <1>1 DEF RelKind
<1>3. RelKind(r, g) = RelKind(r, f)
  BY ScanStatic
<1>4. RelKind(r, f)' = RelKind(r, f)
  BY <1>2, <1>3
<1>5. CopyAllowed' = CopyAllowed /\ RelativePart(r.even)' = RelativePart(r.even)
  BY <1>1 DEF CopyAllowed, RelativePart
<1>6. Bails(r, f, RelKind(r, f))' = Bails(r, g, RelKind(r, f))
  BY <1>1, <1>4, <1>5 DEF Bails, DirectInterposable
<1>7. FlagsToAdd(r, f, RelKind(r, f))' = FlagsToAdd(r, g, RelKind(r, f))
  BY <1>1, <1>4 DEF FlagsToAdd, DirectInterposable
<1>8. AllocatedForRelocation(r, f, RelKind(r, f))' = AllocatedForRelocation(r, g, RelKind(r, f))
  BY <1>1, <1>4, <1>5 DEF AllocatedForRelocation, DirectInterposable, One
<1>9. ASSUME NEW p PROVE RefSize(r, p)' = RefSize(r, p)
  BY <1>8, ScanStatic DEF RefSize
<1> QED
  BY <1>4, <1>6, <1>7, <1>9, ScanStatic

-----------------------------------------------------------------------------
(* The scan *)

LEMMA FlagKinds == ResolutionFlag \cap StaticFlag = {}
  BY DEF ResolutionFlag, StaticFlag

LEMMA ScannedGrows ==
    ASSUME link' = link, refs \subseteq refs', NEW s, NEW types, NEW k,
           flags'[s] \cap StaticFlag = flags[s] \cap StaticFlag, Scanned(s, types, k)
    PROVE  Scanned(s, types, k)'
<1>1. PICK r \in refs : r.sym = s /\ r.type \in types /\ RelKind(r, flags[s]) = k
  BY DEF Scanned
<1>2. RelKind(r, flags[r.sym])' = RelKind(r, flags[r.sym])
  BY <1>1, ProcessedSame
<1>3. RelKind(r, flags[s])' = k
  BY <1>1, <1>2
<1> QED
  BY <1>1, <1>3 DEF Scanned

\* What a step may do to a symbol: references are added, and flags, none of which is one that
\* the input decides or a reference asks for.
LEMMA SymbolKept ==
    ASSUME link' = link, refs \subseteq refs', NEW s \in Symbol, SymbolOK(s),
           flags'[s] \ {"DIRECT", "EXPORT_DYNAMIC"} = flags[s] \ {"DIRECT", "EXPORT_DYNAMIC"},
           HasResolution(flags'[s]) =>
              HasResolution(flags[s]) \/ s \in link.marked \/ kind # "StaticExe",
           "EXPORT_DYNAMIC" \in flags'[s] => MustExport(s) /\ s \in defs',
           s \in defs' => "EXPORT_DYNAMIC" \in flags'[s] \/ "COPY_RELOCATION" \in flags[s]
    PROVE  SymbolOK(s)'
<1> DEFINE f == flags[s]
           g == flags'[s]
<1>1. \A x : x \notin {"DIRECT", "EXPORT_DYNAMIC"} => (x \in g <=> x \in f)
  OBVIOUS
<1>2. g \cap StaticFlag = f \cap StaticFlag
  BY <1>1 DEF StaticFlag
<1>3. \A types, k : Scanned(s, types, k) => Scanned(s, types, k)'
  BY <1>2, ScannedGrows
<1>4. /\ kind' = kind /\ Sym' = Sym /\ Base(s)' = Base(s) /\ MustExport(s)' = MustExport(s)
  BY InputSame
<1>5. /\ "PLT" \in g <=> "PLT" \in f
      /\ "GOT" \in g <=> "GOT" \in f
      /\ "IFUNC_GOT_FOR_ADDRESS" \in g <=> "IFUNC_GOT_FOR_ADDRESS" \in f
      /\ "COPY_RELOCATION" \in g <=> "COPY_RELOCATION" \in f
      /\ "GOT_TLS_OFFSET" \in g <=> "GOT_TLS_OFFSET" \in f
      /\ "GOT_TLS_MODULE" \in g <=> "GOT_TLS_MODULE" \in f
      /\ "GOT_TLS_DESCRIPTOR" \in g <=> "GOT_TLS_DESCRIPTOR" \in f
  BY <1>1
<1>6. IsTls(g) <=> IsTls(f)
  BY <1>5 DEF IsTls, TlsFlag
<1> QED
  BY <1>2, <1>3, <1>4, <1>5, <1>6 DEF SymbolOK

LEMMA SymbolProcessed ==
    ASSUME TypeOK, link' = link, defs' = defs, NEW r \in Reference, Sensible(r), SymbolOK(r.sym),
           refs' = refs \cup {r},
           ~Bails(r, flags[r.sym], RelKind(r, flags[r.sym])),
           flags'[r.sym] = flags[r.sym] \cup FlagsToAdd(r, flags[r.sym], RelKind(r, flags[r.sym]))
                                        \cup FirstRequestFlags(flags[r.sym])
    PROVE  SymbolOK(r.sym)'
<1> DEFINE s == r.sym
           f == flags[s]
           g == flags'[s]
           n == Sym[s]
<1>0. s \in Symbol
  BY DEF Reference
<1>a. PICK kd : kd = RelKind(r, f)
  OBVIOUS
<1>b. PICK add : add = FlagsToAdd(r, f, kd)
  OBVIOUS
<1>c. PICK first : first = FirstRequestFlags(f)
  OBVIOUS
<1>1. g = f \cup add \cup first
  BY <1>a, <1>b, <1>c
<1>2. f \cap StaticFlag = Base(s)
  BY DEF SymbolOK
<1>3. /\ add \subseteq ResolutionFlag \ {"EXPORT_DYNAMIC"}
      /\ "PLT" \in add => "GOT" \in add /\ n.type \in {"func", "ifunc"}
      /\ "GOT" \in add => n.type # "tls"
      /\ "GOT_TLS_OFFSET" \in add =>
           n.type = "tls" /\ kd = "GotTpOff" /\ r.type \in {"GOTTPOFF", "TLSGD", "TLSDESC"}
      /\ "GOT_TLS_MODULE" \in add => n.type = "tls" /\ kd = "TlsGd" /\ r.type = "TLSGD"
      /\ "GOT_TLS_DESCRIPTOR" \in add => n.type = "tls" /\ kd = "TlsDesc" /\ r.type = "TLSDESC"
      /\ "IFUNC_GOT_FOR_ADDRESS" \in add =>
           /\ n.type = "ifunc" /\ "GOT" \in add /\ ~IsRelocatable(kind)
           /\ "PLT" \in add \/ (kd = "GotRelative" /\ r.type \in {"GOTPCREL", "REX_GOTPCRELX"})
      /\ "COPY_RELOCATION" \in add =>
           n.from = "shared" /\ IsExecutable(kind) /\ n.type \notin {"func", "tls"}
  BY <1>2, <1>a, <1>b, AddedFlags
<1>4. /\ first \subseteq {"GOT", "PLT"}
      /\ "GOT" \in first <=> "PLT" \in first
      /\ "GOT" \in first => n.type = "ifunc"
      /\ ~HasResolution(f) /\ n.type = "ifunc" /\ IsStatic(kind) => "PLT" \in first
  BY <1>0, <1>2, <1>c, BaseFlags DEF FirstRequestFlags
<1>5. g \cap StaticFlag = f \cap StaticFlag
  BY <1>1, <1>3, <1>4, FlagKinds DEF ResolutionFlag, StaticFlag
<1>6. \A types, k : Scanned(s, types, k) => Scanned(s, types, k)'
  BY <1>5, ScannedGrows
<1>7. RelKind(r, f)' = kd
  BY <1>5, <1>a, ProcessedSame
<1>8. \A types : r.type \in types => Scanned(s, types, kd)'
  BY <1>7 DEF Scanned
<1>9. /\ kind' = kind /\ Sym' = Sym /\ Base(s)' = Base(s) /\ MustExport(s)' = MustExport(s)
  BY InputSame
<1>10. \A x \in TlsFlag : x \in g => x \in f \/ x \in add
  BY <1>1, <1>4 DEF TlsFlag
<1>11. IsTls(g) => n.type = "tls"
  <2> SUFFICES ASSUME NEW x \in TlsFlag, x \in g PROVE n.type = "tls"
    BY DEF IsTls
  <2>1. CASE x \in f
    <3>1. IsTls(f)
      BY <2>1 DEF IsTls
    <3> QED
      BY <3>1 DEF SymbolOK
  <2>2. CASE x \in add
    BY <1>3, <2>2 DEF TlsFlag
  <2> QED
    BY <1>10, <2>1, <2>2
<1>12. /\ "PLT" \in g => "GOT" \in g /\ n.type \in {"func", "ifunc"}
       /\ "GOT" \in g => n.type # "tls"
       /\ "COPY_RELOCATION" \in g =>
            n.from = "shared" /\ IsExecutable(kind) /\ n.type \notin {"func", "tls"}
       /\ "EXPORT_DYNAMIC" \in g => MustExport(s) /\ s \in defs
       /\ s \in defs => "EXPORT_DYNAMIC" \in g \/ "COPY_RELOCATION" \in g
  BY <1>1, <1>3, <1>4 DEF SymbolOK
<1>13. "IFUNC_GOT_FOR_ADDRESS" \in g =>
         /\ n.type = "ifunc" /\ "GOT" \in g /\ ~IsRelocatable(kind)
         /\ "PLT" \in g \/ Scanned(s, {"GOTPCREL", "REX_GOTPCRELX"}, "GotRelative")'
  <2> SUFFICES ASSUME "IFUNC_GOT_FOR_ADDRESS" \in g
               PROVE  /\ n.type = "ifunc" /\ "GOT" \in g /\ ~IsRelocatable(kind)
                      /\ "PLT" \in g \/ Scanned(s, {"GOTPCREL", "REX_GOTPCRELX"}, "GotRelative")'
    OBVIOUS
  <2>1. CASE "IFUNC_GOT_FOR_ADDRESS" \in f
    BY <1>1, <1>6, <2>1 DEF SymbolOK
  <2>2. CASE "IFUNC_GOT_FOR_ADDRESS" \in add
    BY <1>1, <1>3, <1>8, <2>2
  <2> QED
    BY <1>1, <1>4, <2>1, <2>2
<1>14. /\ "GOT_TLS_OFFSET" \in g => Scanned(s, {"GOTTPOFF", "TLSGD", "TLSDESC"}, "GotTpOff")'
       /\ "GOT_TLS_MODULE" \in g => Scanned(s, {"TLSGD"}, "TlsGd")'
       /\ "GOT_TLS_DESCRIPTOR" \in g => Scanned(s, {"TLSDESC"}, "TlsDesc")'
  <2>1. "GOT_TLS_OFFSET" \in g => Scanned(s, {"GOTTPOFF", "TLSGD", "TLSDESC"}, "GotTpOff")'
    BY <1>1, <1>3, <1>4, <1>6, <1>8 DEF SymbolOK
  <2>2. "GOT_TLS_MODULE" \in g => Scanned(s, {"TLSGD"}, "TlsGd")'
    BY <1>1, <1>3, <1>4, <1>6, <1>8 DEF SymbolOK
  <2>3. "GOT_TLS_DESCRIPTOR" \in g => Scanned(s, {"TLSDESC"}, "TlsDesc")'
    BY <1>1, <1>3, <1>4, <1>6, <1>8 DEF SymbolOK
  <2> QED
    BY <2>1, <2>2, <2>3
<1>15. kind = "StaticExe" /\ n.type = "ifunc" /\ s \notin link.marked => "PLT" \in g
  <2>1. kind = "StaticExe" => IsStatic(kind)
    BY DEF IsStatic
  <2> QED
    BY <1>1, <1>4, <2>1 DEF SymbolOK
<1> HIDE DEF s, f, g, n
<1> QED
  BY <1>2, <1>5, <1>9, <1>11, <1>12, <1>13, <1>14, <1>15 DEF SymbolOK, s, f, g, n

LEMMA ReferenceKept ==
    ASSUME link' = link, NEW r, ReferenceOK(r), phase' # "bailed" => phase # "bailed",
           flags[r.sym] \subseteq flags'[r.sym],
           flags'[r.sym] \cap StaticFlag = flags[r.sym] \cap StaticFlag, usesTlsld => usesTlsld'
    PROVE  ReferenceOK(r)'
<1> DEFINE f == flags[r.sym]
<1>1. Sensible(r)' = Sensible(r)
  BY InputSame
<1>2. /\ RelKind(r, f)' = RelKind(r, f)
      /\ Bails(r, f, RelKind(r, f))' = Bails(r, f, RelKind(r, f))
      /\ FlagsToAdd(r, f, RelKind(r, f))' = FlagsToAdd(r, f, RelKind(r, f))
  BY ProcessedSame
<1> QED
  BY <1>1, <1>2 DEF ReferenceOK

ScanInv == IsFiniteSet(refs) /\ FlagsOK /\ RefsOK

LEMMA ScanSame ==
    ASSUME TypeOK, ScanInv, UNCHANGED <<link, flags, defs, refs, usesTlsld>>,
           phase' # "bailed" => phase # "bailed"
    PROVE  ScanInv'
<1>1. FlagsOK'
  <2> SUFFICES ASSUME NEW s \in Symbol PROVE SymbolOK(s)'
    BY DEF FlagsOK
  <2>1. SymbolOK(s)
    BY DEF ScanInv, FlagsOK
  <2> QED
    BY <2>1, SymbolKept DEF SymbolOK
<1>2. RefsOK'
  <2> SUFFICES ASSUME NEW r \in refs PROVE ReferenceOK(r)'
    BY DEF RefsOK
  <2> QED
    BY ReferenceKept DEF ScanInv, RefsOK
<1> QED
  BY <1>1, <1>2 DEF ScanInv

\* Flags are only added, in the scan.
LEMMA ScanGrows ==
    ASSUME TypeOK, ScanInv, link' = link, NEW r,
           refs' \subseteq refs \cup {r}, r \in refs' => ReferenceOK(r)',
           phase' # "bailed" => phase # "bailed", usesTlsld => usesTlsld',
           \A s \in Symbol : flags[s] \subseteq flags'[s] /\ flags'[s] \cap StaticFlag = flags[s] \cap StaticFlag
    PROVE  RefsOK' /\ IsFiniteSet(refs')
<1>1. ASSUME NEW q \in refs PROVE ReferenceOK(q)'
  <2>1. q.sym \in Symbol
    BY DEF TypeOK, Reference
  <2> QED
    BY <2>1, ReferenceKept DEF ScanInv, RefsOK
<1>2. RefsOK'
  BY <1>1 DEF RefsOK
<1>3. IsFiniteSet(refs')
  BY FS_AddElement, FS_Subset DEF ScanInv
<1> QED
  BY <1>2, <1>3

LEMMA ScanProcess ==
    ASSUME TypeOK, ScanInv, NEW r \in Reference, ProcessRelocation(r)
    PROVE  ScanInv'
<1> DEFINE s == r.sym
           f == flags[s]
<1>a. PICK kd : kd = RelKind(r, f)
  OBVIOUS
<1>0. /\ link' = link /\ defs' = defs /\ refs' = refs \cup {r} /\ Sensible(r) /\ phase = "scan"
      /\ s \in Symbol /\ s \in DOMAIN flags
  BY DEF ProcessRelocation, Reference, TypeOK
<1>1. CASE Bails(r, f, kd)
  <2>1. UNCHANGED <<flags, usesTlsld>> /\ phase' = "bailed"
    BY <1>1, <1>a DEF ProcessRelocation
  <2>2. ReferenceOK(r)'
    BY <1>0, <2>1, InputSame DEF ReferenceOK
  <2>3. RefsOK' /\ IsFiniteSet(refs')
    BY <1>0, <2>1, <2>2, ScanGrows
  <2>4. ASSUME NEW t \in Symbol PROVE SymbolOK(t)'
    <3>1. SymbolOK(t)
      BY DEF ScanInv, FlagsOK
    <3> QED
      BY <1>0, <2>1, <3>1, SymbolKept DEF SymbolOK
  <2> QED
    BY <2>3, <2>4 DEF ScanInv, FlagsOK
<1>2. CASE ~Bails(r, f, kd)
  <2>1. /\ flags' = [flags EXCEPT ![s] = @ \cup FlagsToAdd(r, f, kd) \cup FirstRequestFlags(f)]
        /\ usesTlsld' = (usesTlsld \/ kd = "TlsLd")
        /\ phase' = phase
    BY <1>2, <1>a DEF ProcessRelocation
  <2>2. flags'[s] = f \cup FlagsToAdd(r, f, kd) \cup FirstRequestFlags(f)
    BY <1>0, <2>1
  <2>3. \A t \in Symbol : t # s => flags'[t] = flags[t]
    BY <2>1 DEF TypeOK
  <2>4. SymbolOK(s)
    BY <1>0 DEF ScanInv, FlagsOK
  <2>5. SymbolOK(s)'
    BY <1>0, <1>2, <1>a, <2>2, <2>4, SymbolProcessed
  <2>6. f \cap StaticFlag = Base(s) /\ flags'[s] \cap StaticFlag = Base(s)
    <3>1. (flags[s] \cap StaticFlag)' = flags'[s] \cap StaticFlag
      OBVIOUS
    <3>2. Base(s)' = Base(s)
      BY <1>0, InputSame
    <3> QED
      BY <2>4, <2>5, <3>1, <3>2 DEF SymbolOK
  <2>7. ASSUME NEW t \in Symbol, t # s PROVE SymbolOK(t)'
    <3>1. SymbolOK(t) /\ flags'[t] = flags[t]
      BY <2>3, <2>7 DEF ScanInv, FlagsOK
    <3> QED
      BY <1>0, <3>1, SymbolKept DEF SymbolOK
  <2>8. \A q \in Symbol : flags[q] \subseteq flags'[q] /\ flags'[q] \cap StaticFlag = flags[q] \cap StaticFlag
    BY <2>2, <2>3, <2>6
  <2>9. ReferenceOK(r)'
    <3>1. /\ RelKind(r, f)' = kd
          /\ Bails(r, f, RelKind(r, f))' = Bails(r, f, kd)
          /\ FlagsToAdd(r, f, RelKind(r, f))' = FlagsToAdd(r, f, kd)
      BY <1>0, <1>a, <2>6, ProcessedSame
    <3>2. Sensible(r)'
      BY <1>0, InputSame
    <3> QED
      BY <1>2, <2>1, <2>2, <3>1, <3>2 DEF ReferenceOK
  <2>10. RefsOK' /\ IsFiniteSet(refs')
    BY <1>0, <2>1, <2>8, <2>9, ScanGrows
  <2> QED
    BY <2>5, <2>7, <2>10 DEF ScanInv, FlagsOK
<1> QED
  BY <1>1, <1>2

LEMMA ScanMarks ==
    ASSUME TypeOK, ScanInv, NEW s \in Symbol, MarkUsed(s) \/ ExportDynamic(s)
    PROVE  ScanInv'
<1> PICK x : (x = "DIRECT" /\ MarkUsed(s)) \/ (x = "EXPORT_DYNAMIC" /\ ExportDynamic(s))
  OBVIOUS
<1>0. /\ link' = link /\ refs' = refs /\ usesTlsld' = usesTlsld /\ phase' = phase
      /\ s \in DOMAIN flags
      /\ flags' = [flags EXCEPT ![s] = @ \cup {x}]
      /\ x = "DIRECT" => s \in link.marked /\ defs' = defs
      /\ x = "EXPORT_DYNAMIC" => MustExport(s) /\ defs' = defs \cup {s}
      /\ x \in {"DIRECT", "EXPORT_DYNAMIC"}
  BY DEF MarkUsed, ExportDynamic, TypeOK
<1>1. flags'[s] = flags[s] \cup {x} /\ \A t \in Symbol : t # s => flags'[t] = flags[t]
  BY <1>0 DEF TypeOK
<1>2. \A t \in Symbol : flags[t] \subseteq flags'[t] /\ flags'[t] \cap StaticFlag = flags[t] \cap StaticFlag
  BY <1>0, <1>1 DEF StaticFlag
<1>3. MustExport(s) => kind # "StaticExe"
  BY SymbolFacts DEF MustExport, NeedsDynsym
<1>4. ASSUME NEW t \in Symbol PROVE SymbolOK(t)'
  <2>1. SymbolOK(t)
    BY DEF ScanInv, FlagsOK
  <2>2. CASE t # s
    <3>1. flags'[t] = flags[t]
      BY <1>1, <2>2
    <3>2. (t \in defs') <=> (t \in defs)
      BY <1>0, <2>2
    <3> QED
      BY <1>0, <2>1, <3>1, <3>2, SymbolKept DEF SymbolOK
  <2>3. CASE t = s
    <3>1. flags'[s] \ {"DIRECT", "EXPORT_DYNAMIC"} = flags[s] \ {"DIRECT", "EXPORT_DYNAMIC"}
      BY <1>0, <1>1
    <3>2. HasResolution(flags'[s]) => HasResolution(flags[s]) \/ s \in link.marked \/ kind # "StaticExe"
      BY <1>0, <1>3
    <3>3. "EXPORT_DYNAMIC" \in flags'[s] => MustExport(s) /\ s \in defs'
      BY <1>0, <1>1, <2>1, <2>3 DEF SymbolOK
    <3>4. s \in defs' => "EXPORT_DYNAMIC" \in flags'[s] \/ "COPY_RELOCATION" \in flags[s]
      BY <1>0, <1>1, <2>1, <2>3 DEF SymbolOK
    <3> QED
      BY <1>0, <2>1, <2>3, <3>1, <3>2, <3>3, <3>4, SymbolKept
  <2> QED
    BY <2>2, <2>3
<1>5. ASSUME NEW r \in refs PROVE ReferenceOK(r)'
  <2>1. r.sym \in Symbol
    BY DEF TypeOK, Reference
  <2> QED
    BY <1>0, <1>2, <2>1, ReferenceKept DEF ScanInv, RefsOK
<1> QED
  BY <1>0, <1>4, <1>5 DEF ScanInv, FlagsOK, RefsOK

LEMMA ScanFinalise ==
    ASSUME TypeOK, ScanInv, FinaliseSizes
    PROVE  ScanInv'
<1>0. /\ UNCHANGED <<link, flags, refs, usesTlsld>> /\ phase = "scan"
      /\ defs' = defs \cup {s \in Symbol : "COPY_RELOCATION" \in flags[s]}
  BY DEF FinaliseSizes
<1>1. ASSUME NEW s \in Symbol PROVE SymbolOK(s)'
  <2>1. SymbolOK(s)
    BY DEF ScanInv, FlagsOK
  <2> QED
    BY <1>0, <2>1, SymbolKept DEF SymbolOK
<1>2. ASSUME NEW r \in refs PROVE ReferenceOK(r)'
  BY <1>0, ReferenceKept DEF ScanInv, RefsOK
<1> QED
  BY <1>0, <1>1, <1>2 DEF ScanInv, FlagsOK, RefsOK


-----------------------------------------------------------------------------
(* What the writer puts out for a symbol *)

WrittenRelocation == [at : Nat, part : Part, rel : Relocated]

WellFormed(out) ==
    /\ out.words \in Seq(Stored)
    /\ out.rels \subseteq WrittenRelocation /\ IsFiniteSet(out.rels)
    /\ out.error \in {"ok", "missing", "static_tlsdesc"}

\* The dynamic relocations of an output in table p.
InTable(out, p) == Cardinality({x \in out.rels : x.part = p})

LEMMA OneWord == ASSUME NEW S, NEW w \in S PROVE <<w>> \in Seq(S) /\ Len(<<w>>) = 1
  OBVIOUS

LEMMA TwoWords ==
    ASSUME NEW S, NEW v \in S, NEW w \in S PROVE <<v, w>> \in Seq(S) /\ Len(<<v, w>>) = 2
  OBVIOUS

LEMMA NoWord == ASSUME NEW S PROVE <<>> \in Seq(S) /\ Len(<<>>) = 0
  OBVIOUS

LEMMA MoreWords ==
    ASSUME NEW S, NEW a \in Seq(S), NEW b \in Seq(S)
    PROVE  a \o b \in Seq(S) /\ Len(a \o b) = Len(a) + Len(b)
  OBVIOUS

LEMMA OutputIs ==
    ASSUME NEW words, NEW rels, NEW err
    PROVE  /\ Output(words, rels, err).words = words
           /\ Output(words, rels, err).rels = rels
           /\ Output(words, rels, err).error = err
  BY DEF Output

LEMMA NoRelocations ==
    ASSUME NEW out, out.rels = {}
    PROVE  IsFiniteSet(out.rels) /\ \A p : InTable(out, p) = 0
<1>1. \A p : {x \in out.rels : x.part = p} = {}
  OBVIOUS
<1> QED
  BY <1>1, FS_EmptySet DEF InTable

LEMMA OneRelocation ==
    ASSUME NEW out, NEW x, out.rels = {x}
    PROVE  IsFiniteSet(out.rels) /\ \A p : InTable(out, p) = Count(x.part = p)
<1>1. IsFiniteSet(out.rels)
  BY FS_Singleton
<1>2. ASSUME NEW p PROVE InTable(out, p) = Count(x.part = p)
  <2>1. CASE x.part = p
    <3>1. {y \in out.rels : y.part = p} = {x}
      BY <2>1
    <3>2. InTable(out, p) = 1
      BY <3>1, FS_Singleton DEF InTable
    <3> QED
      BY <2>1, <3>2 DEF Count
  <2>2. CASE x.part # p
    <3>1. {y \in out.rels : y.part = p} = {}
      BY <2>2
    <3>2. InTable(out, p) = 0
      BY <3>1, FS_EmptySet DEF InTable
    <3> QED
      BY <2>2, <3>2 DEF Count
  <2> QED
    BY <2>1, <2>2
<1> QED
  BY <1>1, <1>2

LEMMA ThenBoth ==
    ASSUME NEW a, NEW b, WellFormed(a), WellFormed(b)
    PROVE  /\ WellFormed(Then(a, b))
           /\ Len(Then(a, b).words) = Len(a.words) + Len(b.words)
           /\ Then(a, b).words = a.words \o b.words
           /\ Then(a, b).rels = a.rels \cup b.rels
           /\ Then(a, b).error = IF a.error # "ok" THEN a.error ELSE b.error
           /\ a.rels \cap b.rels = {} =>
                \A p : InTable(Then(a, b), p) = InTable(a, p) + InTable(b, p)
<1>1. /\ Then(a, b).words = a.words \o b.words
      /\ Then(a, b).rels = a.rels \cup b.rels
      /\ Then(a, b).error = IF a.error # "ok" THEN a.error ELSE b.error
  BY DEF Then, Output
<1>0. /\ a.words \in Seq(Stored) /\ b.words \in Seq(Stored)
      /\ IsFiniteSet(a.rels) /\ IsFiniteSet(b.rels)
  BY DEF WellFormed
<1>2. IsFiniteSet(a.rels \cup b.rels)
  BY <1>0, FS_Union
<1>3. a.words \o b.words \in Seq(Stored) /\ Len(a.words \o b.words) = Len(a.words) + Len(b.words)
  BY <1>0, MoreWords
<1>4. WellFormed(Then(a, b))
  BY <1>1, <1>2, <1>3 DEF WellFormed
<1>5. ASSUME NEW p, a.rels \cap b.rels = {}
      PROVE  InTable(Then(a, b), p) = InTable(a, p) + InTable(b, p)
  <2> DEFINE A == {x \in a.rels : x.part = p}
             B == {x \in b.rels : x.part = p}
  <2>1. IsFiniteSet(A) /\ IsFiniteSet(B)
    BY <1>0, FS_Subset
  <2>2. A \cap B = {} /\ {x \in Then(a, b).rels : x.part = p} = A \cup B
    BY <1>1, <1>5
  <2> HIDE DEF A, B
  <2>3. Cardinality(A) \in Nat /\ Cardinality(B) \in Nat
    BY <2>1, FS_CardinalityType
  <2>5. Cardinality(A \cup B) = Cardinality(A) + Cardinality(B) - Cardinality(A \cap B)
    BY <2>1, FS_Union
  <2>6. Cardinality(A \cap B) = 0
    BY <2>2, FS_EmptySet
  <2>4. Cardinality(A \cup B) = Cardinality(A) + Cardinality(B)
    BY <2>3, <2>5, <2>6
  <2> QED
    BY <2>2, <2>4 DEF InTable, A, B
<1> QED
  BY <1>1, <1>3, <1>4, <1>5

LEMMA RawValueStored == ASSUME NEW s PROVE RawValue(s) \in Stored
<1>1. RawValue(s) \in {"stub", "copy", "number", "address", "zero"}
  BY Zenon DEF RawValue
<1> QED
  BY <1>1 DEF Stored

\* The table for a relative relocation of a word of the GOT.
EvenPart == RelativePart(TRUE)

LEMMA RelativePartIs ==
    ASSUME NEW even
    PROVE  RelativePart(even) \in {"RELR_DYN", "RELA_DYN_RELATIVE"}
  BY DEF RelativePart

Placed(at, part, rel) == [at |-> at, part |-> part, rel |-> rel]

LEMMA PlacedIs ==
    ASSUME NEW at \in Nat, NEW part \in Part, NEW rel \in Relocated
    PROVE  /\ Placed(at, part, rel) \in WrittenRelocation
           /\ Placed(at, part, rel).at = at /\ Placed(at, part, rel).part = part
           /\ Placed(at, part, rel).rel = rel
  BY DEF Placed, WrittenRelocation

LEMMA GeneralIs ==
    ASSUME NEW at, NEW rel
    PROVE  General(at, rel) = {Placed(at, "RELA_DYN_GENERAL", rel)}
  BY Zenon DEF General, Placed

LEMMA EvenPartIs == EvenPart \in {"RELR_DYN", "RELA_DYN_RELATIVE"} /\ EvenPart \in Part
  BY RelativePartIs DEF EvenPart, Part

LEMMA RelativeIs ==
    ASSUME NEW at
    PROVE  Relative(at) = {Placed(at, EvenPart, "relative")}
  BY Zenon DEF Relative, Placed, EvenPart

\* Nothing, or one relocation.
AtMostOne(rels) == rels = {} \/ \E x \in WrittenRelocation : rels = {x}

LEMMA AtMostOneIs ==
    ASSUME NEW rels, AtMostOne(rels)
    PROVE  IsFiniteSet(rels) /\ rels \subseteq WrittenRelocation
<1>1. CASE rels = {}
  BY <1>1, FS_EmptySet
<1>2. CASE \E x \in WrittenRelocation : rels = {x}
  <2>1. PICK x \in WrittenRelocation : rels = {x}
    BY <1>2
  <2>2. IsFiniteSet({x})
    BY FS_Singleton
  <2> QED
    BY <2>1, <2>2
<1> QED
  BY <1>1, <1>2 DEF AtMostOne

\* One word, and at most one relocation.
LEMMA WordIs ==
    ASSUME NEW w \in Stored, NEW rels, NEW err \in {"ok", "missing"}, AtMostOne(rels)
    PROVE  WellFormed(Output(<<w>>, rels, err)) /\ Len(Output(<<w>>, rels, err).words) = 1
<1>1. <<w>> \in Seq(Stored) /\ Len(<<w>>) = 1
  BY OneWord
<1>2. IsFiniteSet(rels) /\ rels \subseteq WrittenRelocation
  BY AtMostOneIs
<1> DEFINE out == Output(<<w>>, rels, err)
<1>3. out.words = <<w>> /\ out.rels = rels /\ out.error = err
  BY DEF Output
<1> HIDE DEF out
<1>4. WellFormed(out) /\ Len(out.words) = 1
  BY <1>1, <1>2, <1>3 DEF WellFormed
<1> QED
  BY <1>4 DEF out

\* The words and relocations of a call that starts at a place and takes n entries of the GOT.
Piece(out, at, n, general) ==
    /\ WellFormed(out) /\ Len(out.words) = n
    /\ \A x \in out.rels : at <= x.at /\ x.at < at + n
    /\ \A p : InTable(out, p) = IF p = "RELA_DYN_GENERAL" THEN general ELSE 0

LEMMA NoPiece ==
    ASSUME NEW at \in Nat
    PROVE  Piece(Output(<<>>, {}, "ok"), at, 0, 0) /\ Output(<<>>, {}, "ok").error = "ok"
<1> DEFINE out == Output(<<>>, {}, "ok")
<1>1. out.words = <<>> /\ out.rels = {} /\ out.error = "ok"
  BY DEF Output
<1> HIDE DEF out
<1>2. WellFormed(out) /\ Len(out.words) = 0
  BY <1>1, NoWord, FS_EmptySet DEF WellFormed
<1>3. \A p : InTable(out, p) = 0
  BY <1>1, NoRelocations
<1>4. Piece(out, at, 0, 0)
  BY <1>1, <1>2, <1>3 DEF Piece
<1> QED
  BY <1>1, <1>4 DEF out

LEMMA PiecesThen ==
    ASSUME NEW at \in Nat, NEW n \in Nat, NEW m \in Nat, NEW g, NEW h, NEW a, NEW b,
           Piece(a, at, n, g), Piece(b, at + n, m, h), g \in Nat, h \in Nat
    PROVE  Piece(Then(a, b), at, n + m, g + h)
<1> DEFINE out == Then(a, b)
<1>1. WellFormed(a) /\ WellFormed(b)
  BY DEF Piece
<1>2. /\ WellFormed(out) /\ Len(out.words) = Len(a.words) + Len(b.words)
      /\ out.rels = a.rels \cup b.rels
      /\ a.rels \cap b.rels = {} => \A p : InTable(out, p) = InTable(a, p) + InTable(b, p)
  BY <1>1, ThenBoth
<1>3. /\ \A x \in a.rels : at <= x.at /\ x.at < at + n
      /\ \A x \in b.rels : at + n <= x.at /\ x.at < at + n + m
  BY DEF Piece
<1>4. \A x \in a.rels \cup b.rels : x.at \in Nat
  BY <1>1 DEF WellFormed, WrittenRelocation
<1>5. a.rels \cap b.rels = {}
  BY <1>3, <1>4
<1> HIDE DEF out
<1>6. \A x \in out.rels : at <= x.at /\ x.at < at + (n + m)
  BY <1>2, <1>3, <1>4
<1>7. \A p : InTable(out, p) = IF p = "RELA_DYN_GENERAL" THEN g + h ELSE 0
  <2>1. \A p : InTable(out, p) = InTable(a, p) + InTable(b, p)
    BY <1>2, <1>5
  <2>2. \A p : /\ InTable(a, p) = IF p = "RELA_DYN_GENERAL" THEN g ELSE 0
               /\ InTable(b, p) = IF p = "RELA_DYN_GENERAL" THEN h ELSE 0
    BY DEF Piece
  <2> QED
    BY <2>1, <2>2
<1>8. Len(out.words) = n + m
  BY <1>2 DEF Piece
<1>9. Piece(out, at, n + m, g + h)
  BY <1>2, <1>6, <1>7, <1>8 DEF Piece
<1> QED
  BY <1>9 DEF out

\* One word, with a relocation in the general table or without one.
LEMMA OnePiece ==
    ASSUME NEW at \in Nat, NEW w \in Stored, NEW err \in {"ok", "missing"}, NEW rel \in Relocated
    PROVE  /\ Piece(Output(<<w>>, {}, err), at, 1, 0)
           /\ Piece(Output(<<w>>, General(at, rel), err), at, 1, 1)
<1>1. Piece(Output(<<w>>, {}, err), at, 1, 0)
  <2> DEFINE out == Output(<<w>>, {}, err)
  <2>1. out.rels = {}
    BY DEF Output
  <2>2. WellFormed(out) /\ Len(out.words) = 1
    BY WordIs DEF AtMostOne
  <2> HIDE DEF out
  <2>3. \A p : InTable(out, p) = 0
    BY <2>1, NoRelocations
  <2>4. Piece(out, at, 1, 0)
    BY <2>1, <2>2, <2>3 DEF Piece
  <2> QED
    BY <2>4 DEF out
<1>2. Piece(Output(<<w>>, General(at, rel), err), at, 1, 1)
  <2> DEFINE out == Output(<<w>>, General(at, rel), err)
  <2>1. PICK x : General(at, rel) = {x} /\ x = Placed(at, "RELA_DYN_GENERAL", rel)
    BY GeneralIs
  <2>p. "RELA_DYN_GENERAL" \in Part
    BY DEF Part
  <2>x. x \in WrittenRelocation /\ x.at = at /\ x.part = "RELA_DYN_GENERAL"
    BY <2>p, <2>1 DEF Placed, WrittenRelocation
  <2>2. out.rels = {x}
    BY <2>1 DEF Output
  <2>3. AtMostOne(General(at, rel))
    BY <2>1, <2>x DEF AtMostOne
  <2>4. WellFormed(out) /\ Len(out.words) = 1
    BY <2>3, WordIs
  <2> HIDE DEF out
  <2>5. \A p : InTable(out, p) = Count(x.part = p)
    BY <2>2, OneRelocation
  <2>6. \A p : InTable(out, p) = IF p = "RELA_DYN_GENERAL" THEN 1 ELSE 0
    BY <2>x, <2>5 DEF Count
  <2>8. \A y \in out.rels : at <= y.at /\ y.at < at + 1
    <3>1. SUFFICES ASSUME NEW y \in out.rels PROVE at <= y.at /\ y.at < at + 1
      OBVIOUS
    <3>4. y = x
      BY <2>2
    <3>2. y.at = at
      BY <2>x, <3>4
    <3>3. at <= at /\ at < at + 1
      OBVIOUS
    <3> QED
      BY <3>2, <3>3
  <2>7. Piece(out, at, 1, 1)
    BY <2>8, <2>4, <2>6 DEF Piece
  <2> QED
    BY <2>7 DEF out
<1> QED
  BY <1>1, <1>2

LEMMA UnlessIs ==
    ASSUME NEW b \in BOOLEAN, NEW err
    PROVE  Unless(b, err) \in {"ok", err} /\ (b => Unless(b, err) = "ok")
  BY DEF Unless

LEMMA TlsOffsetIs ==
    ASSUME NEW s, NEW at \in Nat
    PROVE  /\ Piece(TlsOffset(s, at), at, 1,
                    Count(HasDynamicSymbol(flags[s])
                          \/ (RawValue(s) # "zero" /\ ~IsExecutable(kind))))
           /\ (HasDynamicSymbol(flags[s]) => HasIndex(s)) => TlsOffset(s, at).error = "ok"
<1> DEFINE f == flags[s]
           index == Unless(HasIndex(s), "missing")
<1>0. /\ "zero" \in Stored /\ "tpoff" \in Stored
      /\ "tpoff lookup" \in Relocated /\ "tpoff own" \in Relocated
  BY DEF Stored, Relocated
<1>p. \A w \in Stored, rel \in Relocated, err \in {"ok", "missing"} :
        /\ Piece(Output(<<w>>, {}, err), at, 1, 0) /\ Output(<<w>>, {}, err).error = err
        /\ Piece(Output(<<w>>, General(at, rel), err), at, 1, 1)
        /\ Output(<<w>>, General(at, rel), err).error = err
  BY OnePiece DEF Output
<1>1. CASE HasDynamicSymbol(f)
  <2>1. TlsOffset(s, at) = Output(<<"zero">>, General(at, "tpoff lookup"), index)
    BY <1>1, Zenon DEF TlsOffset
  <2>2. index \in {"ok", "missing"} /\ (HasIndex(s) => index = "ok")
    BY DEF Unless
  <2>3. Piece(TlsOffset(s, at), at, 1, 1) /\ TlsOffset(s, at).error = index
    BY <1>0, <2>1, <2>2, <1>p
  <2>4. Count(HasDynamicSymbol(f) \/ (RawValue(s) # "zero" /\ ~IsExecutable(kind))) = 1
    BY <1>1 DEF Count
  <2> QED
    BY <1>1, <2>2, <2>3, <2>4
<1>2. CASE ~HasDynamicSymbol(f) /\ (RawValue(s) = "zero" \/ IsExecutable(kind))
  <2>1. \/ TlsOffset(s, at) = Output(<<"zero">>, {}, "ok")
        \/ TlsOffset(s, at) = Output(<<"tpoff">>, {}, "ok")
    BY <1>2, Zenon DEF TlsOffset
  <2>3. Piece(TlsOffset(s, at), at, 1, 0) /\ TlsOffset(s, at).error = "ok"
    BY <1>0, <2>1, <1>p
  <2>4. Count(HasDynamicSymbol(f) \/ (RawValue(s) # "zero" /\ ~IsExecutable(kind))) = 0
    BY <1>2 DEF Count
  <2> QED
    BY <2>3, <2>4
<1>3. CASE ~HasDynamicSymbol(f) /\ RawValue(s) # "zero" /\ ~IsExecutable(kind)
  <2>1. TlsOffset(s, at) = Output(<<"zero">>, General(at, "tpoff own"), "ok")
    BY <1>3, Zenon DEF TlsOffset
  <2>3. Piece(TlsOffset(s, at), at, 1, 1) /\ TlsOffset(s, at).error = "ok"
    BY <1>0, <2>1, <1>p
  <2>4. Count(HasDynamicSymbol(f) \/ (RawValue(s) # "zero" /\ ~IsExecutable(kind))) = 1
    BY <1>3 DEF Count
  <2> QED
    BY <2>3, <2>4
<1> QED
  BY <1>1, <1>2, <1>3

LEMMA TlsModAndOffsetIs ==
    ASSUME NEW s, NEW at \in Nat
    PROVE  /\ Piece(TlsModAndOffset(s, at), at, 2,
                    Count(~IsExecutable(kind) \/ IsDynamic(flags[s]))
                    + Count(HasIndex(s) /\ IsInterposable(flags[s])))
           /\ HasIndex(s) \/ IsAddress(flags[s]) => TlsModAndOffset(s, at).error = "ok"
<1> DEFINE f == flags[s]
           g == Count(~IsExecutable(kind) \/ IsDynamic(f))
           h == Count(HasIndex(s) /\ IsInterposable(f))
           found == Unless(IsAddress(f), "missing")
<1>0. /\ "zero" \in Stored /\ "module" \in Stored /\ "dtpoff" \in Stored
      /\ "dtpmod" \in Relocated /\ "dtpoff lookup" \in Relocated
      /\ at + 1 \in Nat
  BY DEF Stored, Relocated
<1>1. PICK module : module = IF IsExecutable(kind) /\ ~IsDynamic(f) THEN Output(<<"module">>, {}, "ok")
                             ELSE Output(<<"zero">>, General(at, "dtpmod"), "ok")
  OBVIOUS
<1>2. PICK offset : offset = IF HasIndex(s)
                  THEN Output(<<"zero">>,
                              IF IsInterposable(f) THEN General(at + 1, "dtpoff lookup") ELSE {}, "ok")
                  ELSE Output(<<"dtpoff">>, {}, found)
  OBVIOUS
<1>3. TlsModAndOffset(s, at) = Then(module, offset)
  BY <1>1, <1>2, Zenon DEF TlsModAndOffset
<1>p. \A w \in Stored, rel \in Relocated, b \in {at, at + 1}, err \in {"ok", "missing"} :
        /\ Piece(Output(<<w>>, {}, err), b, 1, 0)
        /\ Piece(Output(<<w>>, General(b, rel), err), b, 1, 1)
  BY <1>0, OnePiece
<1>4. Piece(module, at, 1, g) /\ module.error = "ok"
  <2>1. CASE IsExecutable(kind) /\ ~IsDynamic(f)
    <3>1. module = Output(<<"module">>, {}, "ok") /\ g = 0
      BY <1>1, <2>1 DEF Count
    <3> QED
      BY <1>0, <3>1, OnePiece DEF Output
  <2>2. CASE ~(IsExecutable(kind) /\ ~IsDynamic(f))
    <3>1. module = Output(<<"zero">>, General(at, "dtpmod"), "ok") /\ g = 1
      BY <1>1, <2>2 DEF Count
    <3> QED
      BY <1>0, <3>1, OnePiece DEF Output
  <2> QED
    BY <2>1, <2>2
<1>5. Piece(offset, at + 1, 1, h) /\ (HasIndex(s) \/ IsAddress(f) => offset.error = "ok")
  <2>1. CASE HasIndex(s) /\ IsInterposable(f)
    <3>1. offset = Output(<<"zero">>, General(at + 1, "dtpoff lookup"), "ok") /\ h = 1
      BY <1>2, <2>1 DEF Count
    <3> QED
      BY <1>0, <3>1, OnePiece DEF Output
  <2>2. CASE HasIndex(s) /\ ~IsInterposable(f)
    <3>1. offset = Output(<<"zero">>, {}, "ok") /\ h = 0
      BY <1>2, <2>2 DEF Count
    <3> QED
      BY <1>0, <3>1, OnePiece DEF Output
  <2>3. CASE ~HasIndex(s)
    <3>1. offset = Output(<<"dtpoff">>, {}, found) /\ h = 0
      BY <1>2, <2>3 DEF Count
    <3>2. found \in {"ok", "missing"} /\ (IsAddress(f) => found = "ok")
      BY DEF Unless
    <3> QED
      BY <1>0, <2>3, <3>1, <3>2, OnePiece DEF Output
  <2> QED
    BY <2>1, <2>2, <2>3
<1>6. g \in Nat /\ h \in Nat
  BY DEF Count
<1> HIDE DEF g, h, f
<1>7. Piece(Then(module, offset), at, 1 + 1, g + h)
  BY <1>4, <1>5, <1>6, PiecesThen
<1>8. Then(module, offset).error = IF module.error # "ok" THEN module.error ELSE offset.error
  BY <1>4, <1>5, ThenBoth DEF Piece
<1>9. Piece(TlsModAndOffset(s, at), at, 2, g + h)
  BY <1>3, <1>7
<1>10. HasIndex(s) \/ IsAddress(f) => TlsModAndOffset(s, at).error = "ok"
  BY <1>3, <1>4, <1>5, <1>8
<1> QED
  BY <1>9, <1>10 DEF g, h, f

LEMMA TlsDescriptorIs ==
    ASSUME NEW s, NEW at \in Nat
    PROVE  /\ Piece(TlsDescriptor(s, at), at, 2, 1)
           /\ ~IsStatic(kind) => TlsDescriptor(s, at).error = "ok"
<1> DEFINE err == Unless(~IsStatic(kind), "static_tlsdesc")
           out == Output(<<"zero", "zero">>, General(at, "tlsdesc"), err)
<1>1. TlsDescriptor(s, at) = out
  BY Zenon DEF TlsDescriptor
<1>2. err \in {"ok", "static_tlsdesc"} /\ (~IsStatic(kind) => err = "ok")
  BY DEF Unless
<1>3. out.words = <<"zero", "zero">> /\ out.rels = General(at, "tlsdesc") /\ out.error = err
  BY DEF Output
<1>4. PICK x : General(at, "tlsdesc") = {x} /\ x = Placed(at, "RELA_DYN_GENERAL", "tlsdesc")
  BY GeneralIs
<1>p. "RELA_DYN_GENERAL" \in Part /\ "tlsdesc" \in Relocated
  BY DEF Part, Relocated
<1>x. x \in WrittenRelocation /\ x.at = at /\ x.part = "RELA_DYN_GENERAL"
  BY <1>p, <1>4 DEF Placed, WrittenRelocation
<1>5. "zero" \in Stored
  BY DEF Stored
<1> HIDE DEF out, err
<1>6. out.words \in Seq(Stored) /\ Len(out.words) = 2
  BY <1>3, <1>5, TwoWords
<1>7. out.rels = {x}
  BY <1>3, <1>4
<1>8. IsFiniteSet(out.rels) /\ \A p : InTable(out, p) = Count(x.part = p)
  BY <1>7, OneRelocation
<1>9. WellFormed(out)
  BY <1>x, <1>2, <1>3, <1>6, <1>7, <1>8 DEF WellFormed
<1>11. \A y \in out.rels : at <= y.at /\ y.at < at + 2
  BY <1>x, <1>7
<1>12. \A p : InTable(out, p) = IF p = "RELA_DYN_GENERAL" THEN 1 ELSE 0
  BY <1>x, <1>8 DEF Count
<1>10. Piece(out, at, 2, 1)
  BY <1>6, <1>9, <1>11, <1>12 DEF Piece
<1> QED
  BY <1>1, <1>2, <1>3, <1>10

\* One word without a relocation, and with one.
LEMMA BareWord ==
    ASSUME NEW w \in Stored, NEW err \in {"ok", "missing"}, NEW out, out = Output(<<w>>, {}, err)
    PROVE  /\ WellFormed(out) /\ Len(out.words) = 1 /\ out.rels = {} /\ out.error = err
           /\ \A p : InTable(out, p) = 0
<1>1. AtMostOne({})
  BY DEF AtMostOne
<1>2. WellFormed(out) /\ Len(out.words) = 1
  BY <1>1, WordIs
<1>3. out.rels = {} /\ out.error = err
  BY DEF Output
<1>4. \A p : InTable(out, p) = 0
  BY <1>3, NoRelocations
<1> QED
  BY <1>2, <1>3, <1>4

LEMMA PlacedWord ==
    ASSUME NEW w \in Stored, NEW err \in {"ok", "missing"}, NEW part \in Part, NEW rel \in Relocated,
           NEW at \in Nat, NEW out, out = Output(<<w>>, {Placed(at, part, rel)}, err)
    PROVE  /\ WellFormed(out) /\ Len(out.words) = 1 /\ out.error = err
           /\ \A x \in out.rels : x.at = at
           /\ \A p : InTable(out, p) = Count(part = p)
<1>1. PICK x : x = Placed(at, part, rel)
  OBVIOUS
<1>2. x \in WrittenRelocation /\ x.at = at /\ x.part = part
  BY <1>1, PlacedIs
<1>5. AtMostOne({x})
  BY <1>2 DEF AtMostOne
<1>6. WellFormed(out) /\ Len(out.words) = 1
  BY <1>1, <1>5, WordIs
<1>7. out.rels = {x} /\ out.error = err
  BY <1>1 DEF Output
<1>9. \A p : InTable(out, p) = Count(x.part = p)
  BY <1>7, OneRelocation
<1>10. \A y \in out.rels : y.at = at
  BY <1>2, <1>7
<1> QED
  BY <1>2, <1>6, <1>7, <1>9, <1>10

\* The entry of the address.
LEMMA FirstPlainEntry ==
    ASSUME NEW s, NEW first,
           first = CASE HasDynamicSymbol(flags[s]) /\ ~IsIfunc(flags[s]) ->
                          Output(<<"zero">>, General(0, "lookup"), Unless(HasIndex(s), "missing"))
                     [] IsIfunc(flags[s]) ->
                          Output(<<"zero">>,
                                 {[at |-> 0, part |-> "RELA_PLT", rel |-> "irelative"]}, "ok")
                     [] OTHER ->
                          Output(<<RawValue(s)>>,
                                 IF IsAddress(flags[s]) /\ IsRelocatable(kind)
                                 THEN Relative(0) ELSE {}, "ok")
    PROVE  /\ WellFormed(first) /\ Len(first.words) = 1 /\ \A x \in first.rels : x.at = 0
           /\ (HasDynamicSymbol(flags[s]) => HasIndex(s)) => first.error = "ok"
           /\ InTable(first, "RELA_DYN_GENERAL") =
                Count(~IsIfunc(flags[s]) /\ HasDynamicSymbol(flags[s]))
           /\ InTable(first, "RELA_PLT") = Count(IsIfunc(flags[s]))
           /\ InTable(first, EvenPart) =
                IF IsRelocatable(kind)
                THEN Count(~IsIfunc(flags[s]) /\ ~HasDynamicSymbol(flags[s]) /\ IsAddress(flags[s]))
                ELSE 0
           /\ \A p : p \notin {"RELA_DYN_GENERAL", "RELA_PLT", EvenPart} =>
                InTable(first, p) = 0
<1> DEFINE f == flags[s]
           index == Unless(HasIndex(s), "missing")
<1>a. /\ "zero" \in Stored /\ "lookup" \in Relocated /\ "irelative" \in Relocated
      /\ "relative" \in Relocated /\ "RELA_DYN_GENERAL" \in Part /\ "RELA_PLT" \in Part
  BY DEF Stored, Relocated, Part
<1>b. /\ EvenPart \in Part
      /\ EvenPart \notin {"RELA_DYN_GENERAL", "RELA_PLT"}
  BY EvenPartIs
<1>d. "ok" \in {"ok", "missing"}
  OBVIOUS
<1>c. RawValue(s) \in Stored /\ 0 \in Nat /\ "RELA_DYN_GENERAL" # "RELA_PLT"
  BY RawValueStored
<1>1. CASE HasDynamicSymbol(f) /\ ~IsIfunc(f)
  <2>1. first = Output(<<"zero">>, General(0, "lookup"), index)
    BY <1>1, Zenon
  <2>2. first = Output(<<"zero">>, {Placed(0, "RELA_DYN_GENERAL", "lookup")}, index)
    BY <2>1, GeneralIs
  <2>3. index \in {"ok", "missing"} /\ (HasIndex(s) => index = "ok")
    BY DEF Unless
  <2>4. /\ WellFormed(first) /\ Len(first.words) = 1 /\ first.error = index
        /\ \A x \in first.rels : x.at = 0
        /\ \A p : InTable(first, p) = Count("RELA_DYN_GENERAL" = p)
    BY <2>2, <2>3, <1>a, <1>c, <1>d, PlacedWord
  <2>5. \A p : InTable(first, p) = IF p = "RELA_DYN_GENERAL" THEN 1 ELSE 0
    BY <2>4 DEF Count
  <2>6. /\ Count(~IsIfunc(f) /\ HasDynamicSymbol(f)) = 1 /\ Count(IsIfunc(f)) = 0
        /\ Count(~IsIfunc(f) /\ ~HasDynamicSymbol(f) /\ IsAddress(f)) = 0
    BY <1>1 DEF Count
  <2> QED
    BY <1>1, <1>b, <1>c, <2>3, <2>4, <2>5, <2>6
<1>2. CASE IsIfunc(f)
  <2>1. first = Output(<<"zero">>, {[at |-> 0, part |-> "RELA_PLT", rel |-> "irelative"]}, "ok")
    BY <1>2, Zenon
  <2>2. first = Output(<<"zero">>, {Placed(0, "RELA_PLT", "irelative")}, "ok")
    BY <2>1, Zenon DEF Placed
  <2>4. /\ WellFormed(first) /\ Len(first.words) = 1 /\ first.error = "ok"
        /\ \A x \in first.rels : x.at = 0
        /\ \A p : InTable(first, p) = Count("RELA_PLT" = p)
    BY <2>2, <1>a, <1>c, <1>d, PlacedWord
  <2>5. \A p : InTable(first, p) = IF p = "RELA_PLT" THEN 1 ELSE 0
    BY <2>4 DEF Count
  <2>6. /\ Count(~IsIfunc(f) /\ HasDynamicSymbol(f)) = 0 /\ Count(IsIfunc(f)) = 1
        /\ Count(~IsIfunc(f) /\ ~HasDynamicSymbol(f) /\ IsAddress(f)) = 0
    BY <1>2 DEF Count
  <2> QED
    BY <1>2, <1>b, <1>c, <2>4, <2>5, <2>6
<1>3. CASE ~IsIfunc(f) /\ ~HasDynamicSymbol(f) /\ IsAddress(f) /\ IsRelocatable(kind)
  <2>1. first = Output(<<RawValue(s)>>, Relative(0), "ok")
    BY <1>3, Zenon
  <2>2. first = Output(<<RawValue(s)>>, {Placed(0, EvenPart, "relative")}, "ok")
    BY <2>1, RelativeIs
  <2>4. /\ WellFormed(first) /\ Len(first.words) = 1 /\ first.error = "ok"
        /\ \A x \in first.rels : x.at = 0
        /\ \A p : InTable(first, p) = Count(EvenPart = p)
    <3>1. PICK part : part = EvenPart
      OBVIOUS
    <3>2. first = Output(<<RawValue(s)>>, {Placed(0, part, "relative")}, "ok") /\ part \in Part
      BY <2>2, <3>1, <1>b
    <3>3. /\ WellFormed(first) /\ Len(first.words) = 1 /\ first.error = "ok"
          /\ \A x \in first.rels : x.at = 0
          /\ \A p : InTable(first, p) = Count(part = p)
      BY <3>2, <1>a, <1>c, <1>d, PlacedWord
    <3> QED
      BY <3>1, <3>3
  <2>5. \A p : InTable(first, p) = IF p = EvenPart THEN 1 ELSE 0
    BY <2>4 DEF Count
  <2>6. /\ Count(~IsIfunc(f) /\ HasDynamicSymbol(f)) = 0 /\ Count(IsIfunc(f)) = 0
        /\ Count(~IsIfunc(f) /\ ~HasDynamicSymbol(f) /\ IsAddress(f)) = 1
    BY <1>3 DEF Count
  <2> QED
    BY <1>3, <1>b, <1>c, <2>4, <2>5, <2>6
<1>4. CASE ~IsIfunc(f) /\ ~HasDynamicSymbol(f) /\ ~(IsAddress(f) /\ IsRelocatable(kind))
  <2>1. first = Output(<<RawValue(s)>>, {}, "ok")
    BY <1>4, Zenon
  <2>4. /\ WellFormed(first) /\ Len(first.words) = 1 /\ first.error = "ok" /\ first.rels = {}
        /\ \A p : InTable(first, p) = 0
    BY <2>1, <1>a, <1>c, <1>d, BareWord
  <2>6. /\ Count(~IsIfunc(f) /\ HasDynamicSymbol(f)) = 0 /\ Count(IsIfunc(f)) = 0
        /\ IsRelocatable(kind) => Count(~IsIfunc(f) /\ ~HasDynamicSymbol(f) /\ IsAddress(f)) = 0
    BY <1>4 DEF Count
  <2> QED
    BY <1>4, <1>b, <1>c, <2>4, <2>6
<1> QED
  BY <1>1, <1>2, <1>3, <1>4

\* The entry of the address of the PLT entry.
LEMMA SecondPlainEntry ==
    ASSUME NEW s, NEW second,
           second = Output(<<"stub">>, IF IsRelocatable(kind) THEN Relative(1) ELSE {},
                           Unless(plt[s], "missing"))
    PROVE  /\ WellFormed(second) /\ Len(second.words) = 1 /\ \A x \in second.rels : x.at = 1
           /\ plt[s] => second.error = "ok"
           /\ InTable(second, EvenPart) = IF IsRelocatable(kind) THEN 1 ELSE 0
           /\ \A p : p # EvenPart => InTable(second, p) = 0
<1> DEFINE stub == Unless(plt[s], "missing")
<1>a. "stub" \in Stored /\ "relative" \in Relocated /\ EvenPart \in Part /\ 1 \in Nat
  BY EvenPartIs DEF Stored, Relocated
<1>b. stub \in {"ok", "missing"} /\ (plt[s] => stub = "ok")
  BY DEF Unless
<1>1. CASE IsRelocatable(kind)
  <2>1. second = Output(<<"stub">>, {Placed(1, EvenPart, "relative")}, stub)
    BY <1>1, RelativeIs
  <2>2. /\ WellFormed(second) /\ Len(second.words) = 1 /\ second.error = stub
        /\ \A x \in second.rels : x.at = 1
        /\ \A p : InTable(second, p) = Count(EvenPart = p)
    <3>1. PICK part : part = EvenPart
      OBVIOUS
    <3>2. second = Output(<<"stub">>, {Placed(1, part, "relative")}, stub) /\ part \in Part
      BY <2>1, <3>1, <1>a
    <3>3. /\ WellFormed(second) /\ Len(second.words) = 1 /\ second.error = stub
          /\ \A x \in second.rels : x.at = 1
          /\ \A p : InTable(second, p) = Count(part = p)
      BY <3>2, <1>a, <1>b, PlacedWord
    <3> QED
      BY <3>1, <3>3
  <2>3. \A p : InTable(second, p) = IF p = EvenPart THEN 1 ELSE 0
    BY <2>2 DEF Count
  <2> QED
    BY <1>1, <1>b, <2>2, <2>3
<1>2. CASE ~IsRelocatable(kind)
  <2>1. second = Output(<<"stub">>, {}, stub)
    BY <1>2
  <2>2. /\ WellFormed(second) /\ Len(second.words) = 1 /\ second.error = stub /\ second.rels = {}
        /\ \A p : InTable(second, p) = 0
    BY <2>1, <1>a, <1>b, BareWord
  <2> QED
    BY <1>2, <1>b, <2>2
<1> QED
  BY <1>1, <1>2

LEMMA PlainEntriesIs ==
    ASSUME NEW s, NEW out, out = PlainEntries(s)
    PROVE  /\ WellFormed(out)
           /\ Len(out.words) = 1 + Count("IFUNC_GOT_FOR_ADDRESS" \in flags[s])
           /\ (HasDynamicSymbol(flags[s]) => HasIndex(s))
              /\ ("IFUNC_GOT_FOR_ADDRESS" \in flags[s] => plt[s]) => out.error = "ok"
           /\ InTable(out, "RELA_DYN_GENERAL") =
                Count(~IsIfunc(flags[s]) /\ HasDynamicSymbol(flags[s]))
           /\ InTable(out, "RELA_PLT") = Count(IsIfunc(flags[s]))
           /\ InTable(out, EvenPart) =
                IF IsRelocatable(kind)
                THEN Count(~IsIfunc(flags[s]) /\ ~HasDynamicSymbol(flags[s]) /\ IsAddress(flags[s]))
                     + Count("IFUNC_GOT_FOR_ADDRESS" \in flags[s])
                ELSE 0
           /\ \A p : p \notin {"RELA_DYN_GENERAL", "RELA_PLT", EvenPart} =>
                InTable(out, p) = 0
<1> DEFINE f == flags[s]
<1>1. PICK first :
        first = CASE HasDynamicSymbol(f) /\ ~IsIfunc(f) ->
                        Output(<<"zero">>, General(0, "lookup"), Unless(HasIndex(s), "missing"))
                   [] IsIfunc(f) ->
                        Output(<<"zero">>,
                               {[at |-> 0, part |-> "RELA_PLT", rel |-> "irelative"]}, "ok")
                   [] OTHER ->
                        Output(<<RawValue(s)>>,
                               IF IsAddress(f) /\ IsRelocatable(kind) THEN Relative(0) ELSE {}, "ok")
  OBVIOUS
<1>2. PICK second : second = Output(<<"stub">>, IF IsRelocatable(kind) THEN Relative(1) ELSE {},
                                    Unless(plt[s], "missing"))
  OBVIOUS
<1>3. out = IF "IFUNC_GOT_FOR_ADDRESS" \in f THEN Then(first, second) ELSE first
  BY <1>1, <1>2, Zenon DEF PlainEntries
<1>4. /\ WellFormed(first) /\ Len(first.words) = 1 /\ \A x \in first.rels : x.at = 0
      /\ (HasDynamicSymbol(f) => HasIndex(s)) => first.error = "ok"
      /\ InTable(first, "RELA_DYN_GENERAL") = Count(~IsIfunc(f) /\ HasDynamicSymbol(f))
      /\ InTable(first, "RELA_PLT") = Count(IsIfunc(f))
      /\ InTable(first, EvenPart) =
           IF IsRelocatable(kind)
           THEN Count(~IsIfunc(f) /\ ~HasDynamicSymbol(f) /\ IsAddress(f)) ELSE 0
      /\ \A p : p \notin {"RELA_DYN_GENERAL", "RELA_PLT", EvenPart} =>
           InTable(first, p) = 0
  BY <1>1, FirstPlainEntry, Zenon
<1>5. /\ WellFormed(second) /\ Len(second.words) = 1 /\ \A x \in second.rels : x.at = 1
      /\ plt[s] => second.error = "ok"
      /\ InTable(second, EvenPart) = IF IsRelocatable(kind) THEN 1 ELSE 0
      /\ \A p : p # EvenPart => InTable(second, p) = 0
  BY <1>2, SecondPlainEntry, Zenon
<1>6. CASE "IFUNC_GOT_FOR_ADDRESS" \notin f
  <2>1. out = first /\ Count("IFUNC_GOT_FOR_ADDRESS" \in f) = 0
    BY <1>3, <1>6 DEF Count
  <2>2. Count(~IsIfunc(f) /\ ~HasDynamicSymbol(f) /\ IsAddress(f)) \in Nat
    BY DEF Count
  <2>3. InTable(out, EvenPart) =
          IF IsRelocatable(kind)
          THEN Count(~IsIfunc(f) /\ ~HasDynamicSymbol(f) /\ IsAddress(f))
               + Count("IFUNC_GOT_FOR_ADDRESS" \in f)
          ELSE 0
    BY <1>4, <2>1, <2>2
  <2>4. Len(out.words) = 1 + Count("IFUNC_GOT_FOR_ADDRESS" \in f)
    <3>1. PICK n : n = Count("IFUNC_GOT_FOR_ADDRESS" \in f)
      OBVIOUS
    <3>2. n = 0 /\ Len(out.words) = 1
      BY <1>4, <2>1, <3>1, Zenon
    <3>3. Len(out.words) = 1 + n
      BY <3>2
    <3> QED
      BY <3>1, <3>3
  <2> QED
    BY <1>4, <1>6, <2>1, <2>3, <2>4
<1>7. CASE "IFUNC_GOT_FOR_ADDRESS" \in f
  <2>1. out = Then(first, second) /\ Count("IFUNC_GOT_FOR_ADDRESS" \in f) = 1
    BY <1>3, <1>7 DEF Count
  <2>2. first.rels \cap second.rels = {}
    BY <1>4, <1>5
  <2>3. /\ WellFormed(out) /\ Len(out.words) = Len(first.words) + Len(second.words)
        /\ out.error = IF first.error # "ok" THEN first.error ELSE second.error
        /\ \A p : InTable(out, p) = InTable(first, p) + InTable(second, p)
    <3>1. WellFormed(first) /\ WellFormed(second)
      BY <1>4, <1>5
    <3>2. /\ WellFormed(Then(first, second))
          /\ Len(Then(first, second).words) = Len(first.words) + Len(second.words)
          /\ Then(first, second).error = IF first.error # "ok" THEN first.error ELSE second.error
          /\ \A p : InTable(Then(first, second), p) = InTable(first, p) + InTable(second, p)
      BY <3>1, <2>2, ThenBoth
    <3> QED
      BY <2>1, <3>2
  <2>4. /\ Count(~IsIfunc(f) /\ HasDynamicSymbol(f)) \in Nat /\ Count(IsIfunc(f)) \in Nat
        /\ Count(~IsIfunc(f) /\ ~HasDynamicSymbol(f) /\ IsAddress(f)) \in Nat
    BY DEF Count
  <2>5. EvenPart \notin {"RELA_DYN_GENERAL", "RELA_PLT"}
    BY EvenPartIs
  <2>6. Len(out.words) = 2
    BY <1>4, <1>5, <2>3
  <2>7. /\ InTable(second, "RELA_DYN_GENERAL") = 0 /\ InTable(second, "RELA_PLT") = 0
        /\ \A p : p \notin {"RELA_DYN_GENERAL", "RELA_PLT", EvenPart} =>
             InTable(first, p) = 0 /\ InTable(second, p) = 0
    BY <1>4, <1>5, <2>5
  <2>8. \A p : p \notin {"RELA_DYN_GENERAL", "RELA_PLT", EvenPart} => InTable(out, p) = 0
    BY <2>3, <2>7
  <2>9. /\ InTable(out, "RELA_DYN_GENERAL") = Count(~IsIfunc(f) /\ HasDynamicSymbol(f))
        /\ InTable(out, "RELA_PLT") = Count(IsIfunc(f))
    BY <1>4, <2>3, <2>4, <2>7
  <2>10. InTable(out, EvenPart) =
           IF IsRelocatable(kind)
           THEN Count(~IsIfunc(f) /\ ~HasDynamicSymbol(f) /\ IsAddress(f)) + 1 ELSE 0
    BY <1>4, <1>5, <2>3
  <2> QED
    BY <1>4, <1>5, <1>7, <2>1, <2>3, <2>6, <2>8, <2>9, <2>10
<1> QED
  BY <1>6, <1>7

\* What allocate_resolution and allocate_for_copy_relocations give a symbol of each table.
LEMMA AllocatedIs ==
    ASSUME NEW f
    PROVE  /\ AllocateSymbol(f)["GOT"] =
                Count("GOT" \in f /\ ~IsTls(f)) + Count("IFUNC_GOT_FOR_ADDRESS" \in f)
                + Count("GOT_TLS_OFFSET" \in f) + 2 * Count("GOT_TLS_MODULE" \in f)
                + 2 * Count("GOT_TLS_DESCRIPTOR" \in f)
           /\ AllocateSymbol(f)["PLT_GOT"] = Count("GOT" \in f /\ ~IsTls(f) /\ "PLT" \in f)
           /\ AllocateSymbol(f)["RELA_PLT"] = Count("GOT" \in f /\ ~IsTls(f) /\ IsIfunc(f))
           /\ AllocateSymbol(f)["RELA_DYN_GENERAL"] =
                Count("GOT" \in f /\ ~IsTls(f) /\ ~IsIfunc(f) /\ HasDynamicSymbol(f))
                + Count("GOT_TLS_OFFSET" \in f /\ (IsInterposable(f) \/ kind = "SharedObject"))
                + Count("GOT_TLS_MODULE" \in f /\ (~IsExecutable(kind) \/ IsDynamic(f)))
                + Count("GOT_TLS_MODULE" \in f /\ HasDynamicSymbol(f))
                + Count("GOT_TLS_DESCRIPTOR" \in f)
                + Count("COPY_RELOCATION" \in f)
           /\ AllocateSymbol(f)[EvenPart] =
                IF IsRelocatable(kind)
                THEN Count("GOT" \in f /\ ~IsTls(f) /\ ~IsIfunc(f) /\ ~HasDynamicSymbol(f)
                           /\ IsAddress(f))
                     + Count("IFUNC_GOT_FOR_ADDRESS" \in f)
                ELSE 0
           /\ \A p \in Part : p \in {"RELR_DYN", "RELA_DYN_RELATIVE"} \ {EvenPart} =>
                AllocateSymbol(f)[p] = 0
           /\ \A p \in Part : AllocateSymbol(f)[p] \in Nat
           /\ \A p \in Part :
                AllocateCopy(f)[p] = IF p = "RELA_DYN_GENERAL" THEN Count("COPY_RELOCATION" \in f) ELSE 0
<1>1. PICK rp : rp = EvenPart
  OBVIOUS
<1>2. rp \in {"RELR_DYN", "RELA_DYN_RELATIVE"}
  BY <1>1, EvenPartIs
<1>3. Part = {"GOT", "PLT_GOT", "RELA_PLT", "RELA_DYN_GENERAL", "RELA_DYN_RELATIVE", "RELR_DYN"}
  BY DEF Part
<1>4. PICK a, b, c, d, e :
        /\ a = Count("GOT" \in f /\ ~IsTls(f)) + Count("IFUNC_GOT_FOR_ADDRESS" \in f)
                + Count("GOT_TLS_OFFSET" \in f) + 2 * Count("GOT_TLS_MODULE" \in f)
                + 2 * Count("GOT_TLS_DESCRIPTOR" \in f)
        /\ b = Count("GOT" \in f /\ ~IsTls(f) /\ "PLT" \in f)
        /\ c = Count("GOT" \in f /\ ~IsTls(f) /\ IsIfunc(f))
        /\ d = Count("GOT" \in f /\ ~IsTls(f) /\ ~IsIfunc(f) /\ HasDynamicSymbol(f))
                + Count("GOT_TLS_OFFSET" \in f /\ (IsInterposable(f) \/ kind = "SharedObject"))
                + Count("GOT_TLS_MODULE" \in f /\ (~IsExecutable(kind) \/ IsDynamic(f)))
                + Count("GOT_TLS_MODULE" \in f /\ HasDynamicSymbol(f))
                + Count("GOT_TLS_DESCRIPTOR" \in f)
        /\ e = IF IsRelocatable(kind)
                THEN Count("GOT" \in f /\ ~IsTls(f) /\ ~IsIfunc(f) /\ ~HasDynamicSymbol(f)
                           /\ IsAddress(f))
                     + Count("IFUNC_GOT_FOR_ADDRESS" \in f)
                ELSE 0
  OBVIOUS
<1>5. a \in Nat /\ b \in Nat /\ c \in Nat /\ d \in Nat /\ e \in Nat
  BY <1>4 DEF Count
<1>6. AllocateResolution(f) = [Nothing EXCEPT !["GOT"] = a, !["PLT_GOT"] = b, !["RELA_PLT"] = c,
                                              ![rp] = e, !["RELA_DYN_GENERAL"] = d]
  <2> DEFINE plain == "GOT" \in f /\ ~IsTls(f)
             relative == plain /\ ~IsIfunc(f) /\ ~HasDynamicSymbol(f) /\ IsAddress(f)
  <2>2. AllocateResolution(f) =
          [Nothing EXCEPT
            !["GOT"] = Count(plain) + Count("IFUNC_GOT_FOR_ADDRESS" \in f)
                       + Count("GOT_TLS_OFFSET" \in f) + 2 * Count("GOT_TLS_MODULE" \in f)
                       + 2 * Count("GOT_TLS_DESCRIPTOR" \in f),
            !["PLT_GOT"] = Count(plain /\ "PLT" \in f),
            !["RELA_PLT"] = Count(plain /\ IsIfunc(f)),
            ![EvenPart] =
                IF IsRelocatable(kind)
                THEN Count(relative) + Count("IFUNC_GOT_FOR_ADDRESS" \in f) ELSE 0,
            !["RELA_DYN_GENERAL"] =
                Count(plain /\ ~IsIfunc(f) /\ HasDynamicSymbol(f))
                + Count("GOT_TLS_OFFSET" \in f /\ (IsInterposable(f) \/ kind = "SharedObject"))
                + Count("GOT_TLS_MODULE" \in f /\ (~IsExecutable(kind) \/ IsDynamic(f)))
                + Count("GOT_TLS_MODULE" \in f /\ HasDynamicSymbol(f))
                + Count("GOT_TLS_DESCRIPTOR" \in f)]
    BY DEF AllocateResolution, EvenPart
  <2>3. /\ Count(plain) = Count("GOT" \in f /\ ~IsTls(f))
        /\ Count(plain /\ "PLT" \in f) = b /\ Count(plain /\ IsIfunc(f)) = c
        /\ Count(relative) = Count("GOT" \in f /\ ~IsTls(f) /\ ~IsIfunc(f)
                                    /\ ~HasDynamicSymbol(f) /\ IsAddress(f))
        /\ Count(plain /\ ~IsIfunc(f) /\ HasDynamicSymbol(f)) =
             Count("GOT" \in f /\ ~IsTls(f) /\ ~IsIfunc(f) /\ HasDynamicSymbol(f))
    BY <1>4 DEF Count
  <2> HIDE DEF plain, relative
  <2>4. /\ a = Count(plain) + Count("IFUNC_GOT_FOR_ADDRESS" \in f)
                       + Count("GOT_TLS_OFFSET" \in f) + 2 * Count("GOT_TLS_MODULE" \in f)
                       + 2 * Count("GOT_TLS_DESCRIPTOR" \in f)
        /\ e = IF IsRelocatable(kind)
                THEN Count(relative) + Count("IFUNC_GOT_FOR_ADDRESS" \in f) ELSE 0
        /\ d = Count(plain /\ ~IsIfunc(f) /\ HasDynamicSymbol(f))
                + Count("GOT_TLS_OFFSET" \in f /\ (IsInterposable(f) \/ kind = "SharedObject"))
                + Count("GOT_TLS_MODULE" \in f /\ (~IsExecutable(kind) \/ IsDynamic(f)))
                + Count("GOT_TLS_MODULE" \in f /\ HasDynamicSymbol(f))
                + Count("GOT_TLS_DESCRIPTOR" \in f)
    BY <1>4, <2>3, Zenon
  <2>5. rp = EvenPart /\ b = Count(plain /\ "PLT" \in f) /\ c = Count(plain /\ IsIfunc(f))
    BY <1>1, <2>3
  <2> QED
    BY <2>2, <2>4, <2>5, Zenon
<1>7. Nothing = [p \in Part |-> 0]
  BY DEF Nothing
<1>8. AllocateResolution(f) = [p \in Part |->
        IF p = "GOT" THEN a ELSE IF p = "PLT_GOT" THEN b ELSE IF p = "RELA_PLT" THEN c
        ELSE IF p = rp THEN e ELSE IF p = "RELA_DYN_GENERAL" THEN d ELSE 0]
  BY <1>2, <1>3, <1>6, <1>7
<1>9. PICK n : n = Count("COPY_RELOCATION" \in f)
  OBVIOUS
<1>10. n \in Nat
  BY <1>9 DEF Count
<1>11. AllocateCopy(f) = [p \in Part |-> IF p = "RELA_DYN_GENERAL" THEN n ELSE 0]
  <2>1. CASE "COPY_RELOCATION" \in f
    <3>1. AllocateCopy(f) = [[p \in Part |-> 0] EXCEPT !["RELA_DYN_GENERAL"] = 1] /\ n = 1
      BY <2>1, <1>9 DEF AllocateCopy, One, Nothing, Count
    <3> QED
      BY <3>1, <1>3
  <2>2. CASE "COPY_RELOCATION" \notin f
    <3>1. AllocateCopy(f) = [p \in Part |-> 0] /\ n = 0
      BY <2>2, <1>9 DEF AllocateCopy, Nothing, Count
    <3> QED
      BY <3>1
  <2> QED
    BY <2>1, <2>2
<1>12. \A p \in Part : AllocateSymbol(f)[p] = AllocateResolution(f)[p] + AllocateCopy(f)[p]
  BY Zenon DEF AllocateSymbol, Plus
<1>13. /\ AllocateSymbol(f)["GOT"] = a /\ AllocateSymbol(f)["PLT_GOT"] = b
       /\ AllocateSymbol(f)["RELA_PLT"] = c /\ AllocateSymbol(f)[rp] = e
       /\ AllocateSymbol(f)["RELA_DYN_GENERAL"] = d + n
       /\ \A p \in Part : p \in {"RELR_DYN", "RELA_DYN_RELATIVE"} \ {rp} => AllocateSymbol(f)[p] = 0
       /\ \A p \in Part : AllocateSymbol(f)[p] \in Nat
       /\ \A p \in Part : AllocateCopy(f)[p] = IF p = "RELA_DYN_GENERAL" THEN n ELSE 0
  BY <1>2, <1>3, <1>5, <1>8, <1>10, <1>11, <1>12
<1> QED
  BY <1>1, <1>4, <1>9, <1>13, Zenon

\* The relocations process_resolution writes for the entries of a TLS variable.
OffsetTaken(s) ==
    IF "GOT_TLS_OFFSET" \in flags[s]
    THEN Count(HasDynamicSymbol(flags[s]) \/ (RawValue(s) # "zero" /\ ~IsExecutable(kind))) ELSE 0
ModuleTaken(s) ==
    IF "GOT_TLS_MODULE" \in flags[s]
    THEN Count(~IsExecutable(kind) \/ IsDynamic(flags[s]))
         + Count(HasIndex(s) /\ IsInterposable(flags[s])) ELSE 0

LEMMA TlsEntriesIs ==
    ASSUME NEW s, NEW out,
           out = LET f == flags[s]
                     none == Output(<<>>, {}, "ok")
                     after == Count("GOT_TLS_OFFSET" \in f)
                 IN  Then(IF "GOT_TLS_OFFSET" \in f THEN TlsOffset(s, 0) ELSE none,
                          Then(IF "GOT_TLS_MODULE" \in f THEN TlsModAndOffset(s, after) ELSE none,
                               IF "GOT_TLS_DESCRIPTOR" \in f
                               THEN TlsDescriptor(s, after + 2 * Count("GOT_TLS_MODULE" \in f))
                               ELSE none))
    PROVE  /\ Piece(out, 0, Count("GOT_TLS_OFFSET" \in flags[s])
                            + (2 * Count("GOT_TLS_MODULE" \in flags[s])
                               + 2 * Count("GOT_TLS_DESCRIPTOR" \in flags[s])),
                    OffsetTaken(s) + (ModuleTaken(s) + Count("GOT_TLS_DESCRIPTOR" \in flags[s])))
           /\ /\ HasDynamicSymbol(flags[s]) => HasIndex(s)
              /\ "GOT_TLS_MODULE" \in flags[s] => HasIndex(s) \/ IsAddress(flags[s])
              /\ "GOT_TLS_DESCRIPTOR" \in flags[s] => ~IsStatic(kind)
              => out.error = "ok"
<1> DEFINE f == flags[s]
           none == Output(<<>>, {}, "ok")
<1>1. PICK o, m, d : /\ o = Count("GOT_TLS_OFFSET" \in f) /\ m = Count("GOT_TLS_MODULE" \in f)
                     /\ d = Count("GOT_TLS_DESCRIPTOR" \in f)
  OBVIOUS
<1>2. /\ o \in Nat /\ m \in Nat /\ d \in Nat
      /\ o = IF "GOT_TLS_OFFSET" \in f THEN 1 ELSE 0
      /\ m = IF "GOT_TLS_MODULE" \in f THEN 1 ELSE 0
      /\ d = IF "GOT_TLS_DESCRIPTOR" \in f THEN 1 ELSE 0
  BY <1>1 DEF Count
<1>3. PICK a, b, c :
        /\ a = IF "GOT_TLS_OFFSET" \in f THEN TlsOffset(s, 0) ELSE none
        /\ b = IF "GOT_TLS_MODULE" \in f THEN TlsModAndOffset(s, o) ELSE none
        /\ c = IF "GOT_TLS_DESCRIPTOR" \in f THEN TlsDescriptor(s, o + 2 * m) ELSE none
  OBVIOUS
<1>4. out = Then(a, Then(b, c))
  BY <1>1, <1>3, Zenon
<1>5. PICK g, h : g = OffsetTaken(s) /\ h = ModuleTaken(s)
  OBVIOUS
<1>6. /\ 0 \in Nat /\ 0 + o = o /\ o + 2 * m \in Nat /\ 2 * m \in Nat /\ 2 * d \in Nat
      /\ 2 * m + 2 * d \in Nat
  BY <1>2
<1>7. /\ Piece(none, 0, 0, 0) /\ Piece(none, o, 0, 0) /\ Piece(none, o + 2 * m, 0, 0)
      /\ none.error = "ok"
  BY <1>2, <1>6, NoPiece
<1>8. g \in Nat /\ h \in Nat
  BY <1>5 DEF OffsetTaken, ModuleTaken, Count
<1> HIDE DEF none
<1>9. Piece(a, 0, o, g) /\ ((HasDynamicSymbol(f) => HasIndex(s)) => a.error = "ok")
  <2>1. CASE "GOT_TLS_OFFSET" \in f
    <3>1. a = TlsOffset(s, 0) /\ o = 1
      BY <1>2, <1>3, <2>1
    <3>2. g = Count(HasDynamicSymbol(f) \/ (RawValue(s) # "zero" /\ ~IsExecutable(kind)))
      BY <1>5, <2>1 DEF OffsetTaken
    <3>3. /\ Piece(TlsOffset(s, 0), 0, 1,
                   Count(HasDynamicSymbol(f) \/ (RawValue(s) # "zero" /\ ~IsExecutable(kind))))
          /\ (HasDynamicSymbol(f) => HasIndex(s)) => TlsOffset(s, 0).error = "ok"
      BY <1>6, TlsOffsetIs
    <3> QED
      BY <3>1, <3>2, <3>3
  <2>2. CASE "GOT_TLS_OFFSET" \notin f
    <3>1. a = none /\ o = 0
      BY <1>2, <1>3, <2>2
    <3>2. g = 0
      BY <1>5, <2>2 DEF OffsetTaken
    <3> QED
      BY <1>7, <3>1, <3>2
  <2> QED
    BY <2>1, <2>2
<1>10. /\ Piece(b, o, 2 * m, h)
       /\ ("GOT_TLS_MODULE" \in f => HasIndex(s) \/ IsAddress(f)) => b.error = "ok"
  <2>1. CASE "GOT_TLS_MODULE" \in f
    <3>1. b = TlsModAndOffset(s, o) /\ 2 * m = 2
      BY <1>2, <1>3, <2>1
    <3>2. h = Count(~IsExecutable(kind) \/ IsDynamic(f)) + Count(HasIndex(s) /\ IsInterposable(f))
      BY <1>5, <2>1 DEF ModuleTaken
    <3>3. /\ Piece(TlsModAndOffset(s, o), o, 2,
                   Count(~IsExecutable(kind) \/ IsDynamic(f))
                   + Count(HasIndex(s) /\ IsInterposable(f)))
          /\ HasIndex(s) \/ IsAddress(f) => TlsModAndOffset(s, o).error = "ok"
      BY <1>2, TlsModAndOffsetIs
    <3> QED
      BY <2>1, <3>1, <3>2, <3>3
  <2>2. CASE "GOT_TLS_MODULE" \notin f
    <3>1. b = none /\ 2 * m = 0
      BY <1>2, <1>3, <2>2
    <3>2. h = 0
      BY <1>5, <2>2 DEF ModuleTaken
    <3> QED
      BY <1>7, <3>1, <3>2
  <2> QED
    BY <2>1, <2>2
<1>11. /\ Piece(c, o + 2 * m, 2 * d, d)
       /\ ("GOT_TLS_DESCRIPTOR" \in f => ~IsStatic(kind)) => c.error = "ok"
  <2>1. CASE "GOT_TLS_DESCRIPTOR" \in f
    <3>1. c = TlsDescriptor(s, o + 2 * m) /\ 2 * d = 2 /\ d = 1
      BY <1>2, <1>3, <2>1
    <3>3. /\ Piece(TlsDescriptor(s, o + 2 * m), o + 2 * m, 2, 1)
          /\ ~IsStatic(kind) => TlsDescriptor(s, o + 2 * m).error = "ok"
      BY <1>6, TlsDescriptorIs
    <3> QED
      BY <2>1, <3>1, <3>3
  <2>2. CASE "GOT_TLS_DESCRIPTOR" \notin f
    <3>1. c = none /\ 2 * d = 0 /\ d = 0
      BY <1>2, <1>3, <2>2
    <3> QED
      BY <1>7, <3>1
  <2> QED
    BY <2>1, <2>2
<1>12. Piece(Then(b, c), o, 2 * m + 2 * d, h + d)
  BY <1>2, <1>6, <1>8, <1>10, <1>11, PiecesThen
<1>13. Piece(Then(b, c), 0 + o, 2 * m + 2 * d, h + d) /\ h + d \in Nat
  BY <1>2, <1>6, <1>8, <1>12
<1>14. Piece(out, 0, o + (2 * m + 2 * d), g + (h + d))
  <2>1. PICK n, i, rest : n = 2 * m + 2 * d /\ i = h + d /\ rest = Then(b, c)
    OBVIOUS
  <2>2. /\ n \in Nat /\ i \in Nat /\ o \in Nat /\ g \in Nat /\ 0 \in Nat
        /\ Piece(a, 0, o, g) /\ Piece(rest, 0 + o, n, i)
    BY <1>2, <1>6, <1>8, <1>9, <1>13, <2>1
  <2>3. Piece(Then(a, rest), 0, o + n, g + i)
    BY <2>2, PiecesThen
  <2> QED
    BY <1>4, <2>1, <2>3
<1>15. /\ Then(b, c).error = IF b.error # "ok" THEN b.error ELSE c.error
       /\ out.error = IF a.error # "ok" THEN a.error ELSE Then(b, c).error
  <2>1. \A x, y : Then(x, y).error = IF x.error # "ok" THEN x.error ELSE y.error
    BY DEF Then, Output
  <2> QED
    BY <1>4, <2>1
<1>16. /\ HasDynamicSymbol(f) => HasIndex(s)
       /\ "GOT_TLS_MODULE" \in f => HasIndex(s) \/ IsAddress(f)
       /\ "GOT_TLS_DESCRIPTOR" \in f => ~IsStatic(kind)
       => out.error = "ok"
  BY <1>9, <1>10, <1>11, <1>15
<1> QED
  BY <1>1, <1>5, <1>14, <1>16

-----------------------------------------------------------------------------
(* What a symbol takes of the tables, and what it was given *)

\* Addresses were given out for what the scan left.
Laid ==
    TypeOK /\ IsFiniteSet(refs) /\ FlagsOK /\ RefsOK /\ SizesOK /\ AddressesOK /\ Addressed

\* What WriteResolution takes of each table.
Demand(s) ==
    [p \in Part |->
       CASE p = "GOT" -> Len(ProcessResolution(s).words)
         [] p = "PLT_GOT" -> Count(got[s] # 0 /\ ~IsTls(flags[s]) /\ plt[s])
         [] OTHER -> InTable(ProcessResolution(s), p) + AllocateCopy(flags[s])[p]]

LEMMA StartIsPositive ==
    ASSUME TypeOK, NEW g \in Group
    PROVE  GotStart(g) \in Nat /\ GotStart(g) >= 1
<1> DEFINE size == [h \in 1 .. g |-> sizes[h - 1]["GOT"]]
<1>1. g \in Nat /\ g \in 0 .. g /\ \A h \in 1 .. g : h - 1 \in Group
  BY DEF Group
<1>2. sizes \in [Group -> [Part -> Nat]] /\ "GOT" \in Part
  BY DEF TypeOK, Part
<1>3. size \in [1 .. g -> Nat]
  BY <1>1, <1>2
<1> HIDE DEF size
<1>4. Total(g, size) \in Nat
  BY <1>1, <1>3, TotalSums
<1>5. GotStart(g) = 1 + Total(g, size)
  BY Zenon DEF GotStart, size
<1> QED
  BY <1>4, <1>5

\* The GOT entries of the symbols of a group.
GotCounts(g) == [t \in Symbol |-> IF Home[t] = g THEN GotCount(flags[t]) ELSE 0]

LEMMA GotCountsAre ==
    ASSUME NEW g
    PROVE  GotCounts(g) \in [1 .. NumSymbols -> Nat] /\ \A f : GotCount(f) \in Nat
<1>1. \A f : GotCount(f) \in Nat
  BY DEF GotCount, Count
<1> QED
  BY <1>1 DEF GotCounts, Symbol

LEMMA SymbolLaid ==
    ASSUME Laid, NEW s \in Symbol
    PROVE  /\ plt[s] <=> "PLT" \in flags[s]
           /\ got[s] \in Nat
           /\ got[s] # 0 <=> "GOT" \in flags[s] \/ IsTls(flags[s])
           /\ "GOT" \in flags[s] => ~IsTls(flags[s]) /\ Sym[s].type # "tls"
           /\ "PLT" \in flags[s] \/ "IFUNC_GOT_FOR_ADDRESS" \in flags[s] => "GOT" \in flags[s]
           /\ HasDynamicSymbol(flags[s]) /\ HasResolution(flags[s]) => HasIndex(s)
<1> DEFINE f == flags[s]
<1>1. SymbolOK(s) /\ TypeOK /\ Home[s] \in Group /\ s - 1 \in 0 .. NumSymbols
  BY SymbolsAssumption DEF Laid, FlagsOK, Symbol
<1>2. /\ plt[s] = ("PLT" \in f)
      /\ got[s] = IF GotCount(f) = 0 THEN 0
                  ELSE GotStart(Home[s]) + Total(s - 1, GotCounts(Home[s]))
  BY Zenon DEF Laid, AddressesOK, GotCounts
<1>3. Total(s - 1, GotCounts(Home[s])) \in Nat
  <2>1. GotCounts(Home[s]) \in [1 .. NumSymbols -> Nat] /\ NumSymbols \in Nat
    BY GotCountsAre, SymbolsAssumption
  <2> QED
    BY <1>1, <2>1, TotalSums
<1>4. GotStart(Home[s]) \in Nat /\ GotStart(Home[s]) >= 1
  BY <1>1, StartIsPositive
<1>5. got[s] \in Nat /\ (got[s] # 0 <=> GotCount(f) # 0)
  BY <1>2, <1>3, <1>4
<1>6. /\ "GOT" \in f => ~IsTls(f) /\ Sym[s].type # "tls"
      /\ "PLT" \in f \/ "IFUNC_GOT_FOR_ADDRESS" \in f => "GOT" \in f
  BY <1>1 DEF SymbolOK
<1>7. GotCount(f) # 0 <=> "GOT" \in f \/ IsTls(f)
  <2>1. IsTls(f) <=> \/ "GOT_TLS_OFFSET" \in f \/ "GOT_TLS_MODULE" \in f
                     \/ "GOT_TLS_DESCRIPTOR" \in f
    BY DEF IsTls, TlsFlag
  <2> QED
    BY <1>6, <2>1 DEF GotCount, Count
<1>8. HasDynamicSymbol(f) /\ HasResolution(f) => HasIndex(s)
  BY <1>1 DEF HasDynamicSymbol, HasIndex, SymbolOK
<1> QED
  BY <1>2, <1>5, <1>6, <1>7, <1>8

\* What the writer puts out is well-formed, and it takes of these tables what the symbol was given.
LEMMA SymbolWritten ==
    ASSUME Laid, NEW s \in Symbol
    PROVE  /\ WellFormed(ProcessResolution(s))
           /\ \A p \in Part : Demand(s)[p] \in Nat
           /\ \A p \in PltPart : Demand(s)[p] = AllocateSymbol(flags[s])[p]
<1> DEFINE f == flags[s]
<1>1. PICK out : out = ProcessResolution(s)
  OBVIOUS
<1>2. /\ plt[s] <=> "PLT" \in f
      /\ got[s] # 0 <=> "GOT" \in f \/ IsTls(f)
      /\ "GOT" \in f => ~IsTls(f)
      /\ "PLT" \in f \/ "IFUNC_GOT_FOR_ADDRESS" \in f => "GOT" \in f
  BY SymbolLaid
<1>3. PICK i, o, m, d, c :
        /\ i = Count("IFUNC_GOT_FOR_ADDRESS" \in f) /\ o = Count("GOT_TLS_OFFSET" \in f)
        /\ m = Count("GOT_TLS_MODULE" \in f) /\ d = Count("GOT_TLS_DESCRIPTOR" \in f)
        /\ c = Count("COPY_RELOCATION" \in f)
  OBVIOUS
<1>4. /\ i = IF "IFUNC_GOT_FOR_ADDRESS" \in f THEN 1 ELSE 0
      /\ o = IF "GOT_TLS_OFFSET" \in f THEN 1 ELSE 0
      /\ m = IF "GOT_TLS_MODULE" \in f THEN 1 ELSE 0
      /\ d = IF "GOT_TLS_DESCRIPTOR" \in f THEN 1 ELSE 0
      /\ c = IF "COPY_RELOCATION" \in f THEN 1 ELSE 0
  BY <1>3 DEF Count
<1>5. PICK a : a = AllocateSymbol(f)
  OBVIOUS
<1>6. /\ a["GOT"] = Count("GOT" \in f /\ ~IsTls(f)) + i + o + 2 * m + 2 * d
      /\ a["PLT_GOT"] = Count("GOT" \in f /\ ~IsTls(f) /\ "PLT" \in f)
      /\ a["RELA_PLT"] = Count("GOT" \in f /\ ~IsTls(f) /\ IsIfunc(f))
  BY <1>3, <1>5, AllocatedIs
<1>7. IsTls(f) <=> \/ "GOT_TLS_OFFSET" \in f \/ "GOT_TLS_MODULE" \in f
                   \/ "GOT_TLS_DESCRIPTOR" \in f
  BY DEF IsTls, TlsFlag
<1>8. /\ WellFormed(out)
      /\ Len(out.words) = a["GOT"]
      /\ InTable(out, "RELA_PLT") = a["RELA_PLT"]
  <2>1. CASE got[s] = 0
    <3>1. out = Output(<<>>, {}, "ok")
      BY <1>1, <2>1, Zenon DEF ProcessResolution
    <3>2. Piece(out, 0, 0, 0)
      BY <3>1, NoPiece
    <3>3. a["GOT"] = 0 /\ a["RELA_PLT"] = 0
      BY <1>2, <1>4, <1>6, <1>7, <2>1 DEF Count
    <3>4. WellFormed(out) /\ Len(out.words) = 0 /\ InTable(out, "RELA_PLT") = 0
      BY <3>2 DEF Piece
    <3> QED
      BY <3>3, <3>4
  <2>2. CASE got[s] # 0 /\ ~IsTls(f)
    <3>1. out = PlainEntries(s)
      BY <1>1, <2>2, Zenon DEF ProcessResolution
    <3>2. /\ WellFormed(out) /\ Len(out.words) = 1 + i
          /\ InTable(out, "RELA_PLT") = Count(IsIfunc(f))
      BY <1>3, <3>1, PlainEntriesIs
    <3>3. "GOT" \in f /\ o = 0 /\ m = 0 /\ d = 0 /\ i \in Nat
      BY <1>2, <1>4, <1>7, <2>2
    <3>4. a["GOT"] = 1 + i
      <4>1. Count("GOT" \in f /\ ~IsTls(f)) = 1
        BY <2>2, <3>3 DEF Count
      <4> QED
        BY <1>6, <3>3, <4>1
    <3>5. a["RELA_PLT"] = Count(IsIfunc(f))
      BY <1>6, <2>2, <3>3 DEF Count
    <3> QED
      BY <3>2, <3>4, <3>5
  <2>3. CASE got[s] # 0 /\ IsTls(f)
    <3>1. out = LET none == Output(<<>>, {}, "ok")
                    after == Count("GOT_TLS_OFFSET" \in f)
                IN  Then(IF "GOT_TLS_OFFSET" \in f THEN TlsOffset(s, 0) ELSE none,
                         Then(IF "GOT_TLS_MODULE" \in f THEN TlsModAndOffset(s, after) ELSE none,
                              IF "GOT_TLS_DESCRIPTOR" \in f
                              THEN TlsDescriptor(s, after + 2 * Count("GOT_TLS_MODULE" \in f))
                              ELSE none))
      BY <1>1, <2>3, Zenon DEF ProcessResolution
    <3>2. Piece(out, 0, Count("GOT_TLS_OFFSET" \in f)
                        + (2 * Count("GOT_TLS_MODULE" \in f) + 2 * Count("GOT_TLS_DESCRIPTOR" \in f)),
                OffsetTaken(s) + (ModuleTaken(s) + Count("GOT_TLS_DESCRIPTOR" \in f)))
      BY <3>1, TlsEntriesIs
    <3>3. /\ WellFormed(out) /\ InTable(out, "RELA_PLT") = 0
          /\ Len(out.words) = o + (2 * m + 2 * d)
      BY <1>3, <3>2 DEF Piece
    <3>4. "GOT" \notin f /\ i = 0
      BY <1>2, <1>4, <2>3
    <3>5. Count("GOT" \in f /\ ~IsTls(f)) = 0 /\ a["RELA_PLT"] = 0
      BY <1>6, <3>4 DEF Count
    <3>6. o \in Nat /\ m \in Nat /\ d \in Nat
      BY <1>4
    <3> QED
      BY <1>6, <3>3, <3>4, <3>5, <3>6
  <2> QED
    BY <2>1, <2>2, <2>3
<1>9. Count(got[s] # 0 /\ ~IsTls(f) /\ plt[s]) = a["PLT_GOT"]
  BY <1>2, <1>6 DEF Count
<1>10. AllocateCopy(f)["RELA_PLT"] = 0 /\ \A p \in Part : AllocateCopy(f)[p] \in Nat
  <2>1. \A p \in Part : AllocateCopy(f)[p] = IF p = "RELA_DYN_GENERAL" THEN c ELSE 0
    BY <1>3, AllocatedIs
  <2>2. "RELA_PLT" \in Part /\ c \in Nat
    BY <1>4 DEF Part
  <2> QED
    BY <2>1, <2>2
<1>11. \A p : InTable(out, p) \in Nat
  <2>1. ASSUME NEW p PROVE InTable(out, p) \in Nat
    <3>1. IsFiniteSet({x \in out.rels : x.part = p})
      BY <1>8, FS_Subset DEF WellFormed
    <3> QED
      BY <3>1, FS_CardinalityType DEF InTable
  <2> QED
    BY <2>1
<1>12. /\ Len(out.words) \in Nat
       /\ Count(got[s] # 0 /\ ~IsTls(f) /\ plt[s]) \in Nat
  BY <1>8 DEF WellFormed, Count
<1>13. \A p \in Part : Demand(s)[p] =
         IF p = "GOT" THEN Len(out.words)
         ELSE IF p = "PLT_GOT" THEN Count(got[s] # 0 /\ ~IsTls(f) /\ plt[s])
         ELSE InTable(out, p) + AllocateCopy(f)[p]
  BY <1>1 DEF Demand
<1>14. \A p \in Part : Demand(s)[p] \in Nat
  BY <1>10, <1>11, <1>12, <1>13
<1>15. PltPart = {"GOT", "PLT_GOT", "RELA_PLT"} /\ PltPart \subseteq Part
  BY DEF PltPart, Part
<1>16. \A p \in PltPart : Demand(s)[p] = a[p]
  <2>1. InTable(out, "RELA_PLT") + AllocateCopy(f)["RELA_PLT"] = a["RELA_PLT"]
    BY <1>8, <1>10, <1>11
  <2>2. /\ Demand(s)["GOT"] = Len(out.words)
        /\ Demand(s)["PLT_GOT"] = Count(got[s] # 0 /\ ~IsTls(f) /\ plt[s])
        /\ Demand(s)["RELA_PLT"] = InTable(out, "RELA_PLT") + AllocateCopy(f)["RELA_PLT"]
    BY <1>13, <1>15
  <2> QED
    BY <1>8, <1>9, <1>15, <2>1, <2>2
<1> QED
  BY <1>1, <1>5, <1>8, <1>14, <1>16

\* With the references that are supported a symbol takes of every table what it was given.
LEMMA SymbolSupported ==
    ASSUME Laid, Supported, NEW s \in Symbol
    PROVE  /\ ProcessResolution(s).error = "ok"
           /\ \A p \in Part : Demand(s)[p] = AllocateSymbol(flags[s])[p]
<1> DEFINE f == flags[s]
<1>1. PICK out : out = ProcessResolution(s)
  OBVIOUS
<1>2. /\ plt[s] <=> "PLT" \in f
      /\ got[s] # 0 <=> "GOT" \in f \/ IsTls(f)
      /\ "GOT" \in f => ~IsTls(f)
      /\ "PLT" \in f \/ "IFUNC_GOT_FOR_ADDRESS" \in f => "GOT" \in f
      /\ HasDynamicSymbol(f) /\ HasResolution(f) => HasIndex(s)
  BY SymbolLaid
<1>3. SymbolOK(s) /\ TypeOK /\ f \cap StaticFlag = Base(s)
  BY DEF Laid, FlagsOK, SymbolOK
<1>4. /\ IsAbsolute(f) <=> \/ Sym[s].from = "undefined"
                           \/ Sym[s].from = "object" /\ Sym[s].type = "absolute"
      /\ IsIfunc(f) <=> Sym[s].type = "ifunc"
      /\ IsDynamic(f) <=> Sym[s].from = "shared" \/ (Sym[s].from = "undefined" /\ Preemptible(s))
      /\ IsInterposable(f) <=> Preemptible(s)
      /\ IsAddress(f) <=> Sym[s].from = "object" /\ Sym[s].type \notin {"absolute", "ifunc"}
  BY <1>3, BaseFlags
<1>5. /\ kind \in Kind /\ Sym[s].from \in {"object", "shared", "undefined"}
      /\ Sym[s].from = "shared" => Preemptible(s)
      /\ IsExecutable(kind) <=> kind # "SharedObject"
      /\ IsStatic(kind) => IsExecutable(kind) /\ ~Preemptible(s)
  BY <1>3, SymbolFacts DEF Preemptible, IsExecutable, IsStatic, Kind
<1>6. Preemptible(s) /\ Sym[s].from = "object" =>
        s \in defs /\ "EXPORT_DYNAMIC" \in f /\ kind = "SharedObject"
  <2>1. MustExport(s) => s \in defs
    BY DEF Laid, SizesOK, Addressed, Scanning
  <2>2. Preemptible(s) /\ Sym[s].from = "object" => MustExport(s) /\ kind = "SharedObject"
    BY DEF Preemptible, MustExport
  <2>3. s \in defs /\ Sym[s].from = "object" => "EXPORT_DYNAMIC" \in f
    BY <1>3 DEF SymbolOK
  <2> QED
    BY <2>1, <2>2, <2>3
<1>7. \A r \in refs : ~Unsupported(r) /\ ReferenceOK(r) /\ r \in Reference
  BY <1>3 DEF Laid, RefsOK, Supported, TypeOK
<1>8. "IFUNC_GOT_FOR_ADDRESS" \in f => "PLT" \in f
  <2> SUFFICES ASSUME "IFUNC_GOT_FOR_ADDRESS" \in f, "PLT" \notin f PROVE FALSE
    OBVIOUS
  <2>1. /\ Sym[s].type = "ifunc" /\ "GOT" \in f /\ ~IsRelocatable(kind)
        /\ Scanned(s, {"GOTPCREL", "REX_GOTPCRELX"}, "GotRelative")
    BY <1>3 DEF SymbolOK
  <2>2. PICK r \in refs : r.sym = s /\ r.type \in {"GOTPCREL", "REX_GOTPCRELX"}
    BY <2>1 DEF Scanned
  <2>3. FlagsToAdd(r, f, RelKind(r, f)) \subseteq f
    BY <1>7, <2>2 DEF ReferenceOK, Laid, Addressed
  <2>4. IsStatic(kind)
    BY <1>4, <2>1, <2>3 DEF FlagsToAdd
  <2>5. kind = "StaticExe"
    BY <2>1, <2>4 DEF IsStatic, IsRelocatable
  <2>6. HasResolution(f)
    BY <2>1 DEF HasResolution, ResolutionFlag
  <2>7. s \in link.marked
    BY <1>3, <2>1, <2>5, <2>6 DEF SymbolOK
  <2> QED
    BY <1>7, <2>1, <2>2, <2>5, <2>7 DEF Unsupported
<1>9. /\ "GOT_TLS_OFFSET" \in f =>
           Sym[s].type = "tls"
           /\ (Sym[s].from = "undefined" /\ ~Preemptible(s) => kind # "SharedObject")
      /\ "GOT_TLS_MODULE" \in f =>
           Sym[s].type = "tls" /\ ~(Sym[s].from = "undefined" /\ ~Preemptible(s))
      /\ "GOT_TLS_DESCRIPTOR" \in f => ~IsStatic(kind)
  <2>1. IsTls(f) => Sym[s].type = "tls"
    BY <1>3 DEF SymbolOK
  <2>2. ASSUME "GOT_TLS_OFFSET" \in f
        PROVE  Sym[s].type = "tls"
               /\ (Sym[s].from = "undefined" /\ ~Preemptible(s) => kind # "SharedObject")
    <3>1. Sym[s].type = "tls"
      BY <2>1, <2>2 DEF IsTls, TlsFlag
    <3>2. PICK r \in refs : r.sym = s
      BY <1>3, <2>2 DEF SymbolOK, Scanned
    <3> QED
      BY <1>7, <3>1, <3>2 DEF Unsupported
  <2>3. ASSUME "GOT_TLS_MODULE" \in f
        PROVE  Sym[s].type = "tls" /\ ~(Sym[s].from = "undefined" /\ ~Preemptible(s))
    <3>1. Sym[s].type = "tls"
      BY <2>1, <2>3 DEF IsTls, TlsFlag
    <3>2. PICK r \in refs : r.sym = s /\ r.type = "TLSGD"
      BY <1>3, <2>3 DEF SymbolOK, Scanned
    <3> QED
      BY <1>7, <3>1, <3>2 DEF Unsupported
  <2>4. ASSUME "GOT_TLS_DESCRIPTOR" \in f PROVE ~IsStatic(kind)
    <3>1. PICK r \in refs : r.sym = s /\ r.type = "TLSDESC" /\ RelKind(r, f) = "TlsDesc"
      BY <1>3, <2>4 DEF SymbolOK, Scanned
    <3>2. KindOK(r, f, RelKind(r, f))
      BY <1>3, <1>7, <3>1, KindFacts DEF ReferenceOK
    <3> QED
      BY <3>1, <3>2 DEF KindOK
  <2> QED
    BY <2>2, <2>3, <2>4
<1>10. HasResolution(f) => (HasDynamicSymbol(f) => HasIndex(s))
  BY <1>2
<1>11. /\ "GOT" \in f \/ IsTls(f) => HasResolution(f)
       /\ IsTls(f) <=> \/ "GOT_TLS_OFFSET" \in f \/ "GOT_TLS_MODULE" \in f
                       \/ "GOT_TLS_DESCRIPTOR" \in f
  BY DEF HasResolution, ResolutionFlag, IsTls, TlsFlag
<1>12. IsInterposable(f) => HasDynamicSymbol(f)
  BY <1>4, <1>5, <1>6 DEF HasDynamicSymbol
<1>13. OffsetTaken(s) = Count("GOT_TLS_OFFSET" \in f /\ (IsInterposable(f) \/ kind = "SharedObject"))
  <2>1. CASE "GOT_TLS_OFFSET" \notin f
    BY <2>1 DEF OffsetTaken, Count
  <2>2. CASE "GOT_TLS_OFFSET" \in f /\ IsInterposable(f)
    BY <1>12, <2>2 DEF OffsetTaken, Count
  <2>3. CASE "GOT_TLS_OFFSET" \in f /\ ~IsInterposable(f)
    <3>1. ~HasDynamicSymbol(f)
      BY <1>4, <1>5, <2>3 DEF HasDynamicSymbol
    <3>2. ~IsExecutable(kind) => RawValue(s) # "zero"
      <4>1. SUFFICES ASSUME ~IsExecutable(kind) PROVE RawValue(s) # "zero"
        OBVIOUS
      <4>2. Sym[s].from = "object"
        BY <1>4, <1>5, <1>9, <2>3, <4>1
      <4>3. RawValue(s) \in {"stub", "copy", "number", "address"}
        BY <4>2, Zenon DEF RawValue
      <4> QED
        BY <4>3
    <3> QED
      BY <1>5, <2>3, <3>1, <3>2 DEF OffsetTaken, Count
  <2> QED
    BY <2>1, <2>2, <2>3
<1>14. ModuleTaken(s) = Count("GOT_TLS_MODULE" \in f /\ (~IsExecutable(kind) \/ IsDynamic(f)))
                        + Count("GOT_TLS_MODULE" \in f /\ HasDynamicSymbol(f))
  <2>1. CASE "GOT_TLS_MODULE" \notin f
    BY <2>1 DEF ModuleTaken, Count
  <2>2. CASE "GOT_TLS_MODULE" \in f /\ IsInterposable(f)
    <3>1. HasDynamicSymbol(f) /\ HasIndex(s)
      BY <1>10, <1>11, <1>12, <2>2
    <3> QED
      BY <2>2, <3>1 DEF ModuleTaken, Count
  <2>3. CASE "GOT_TLS_MODULE" \in f /\ ~IsInterposable(f)
    <3>1. ~HasDynamicSymbol(f)
      BY <1>4, <1>5, <2>3 DEF HasDynamicSymbol
    <3> QED
      BY <2>3, <3>1 DEF ModuleTaken, Count
  <2> QED
    BY <2>1, <2>2, <2>3
<1>15. "GOT_TLS_MODULE" \in f => HasIndex(s) \/ IsAddress(f)
  <2> SUFFICES ASSUME "GOT_TLS_MODULE" \in f, ~HasIndex(s) PROVE IsAddress(f)
    OBVIOUS
  <2>1. ~HasDynamicSymbol(f)
    BY <1>10, <1>11
  <2>2. ~IsInterposable(f)
    BY <1>12, <2>1
  <2> QED
    BY <1>4, <1>5, <1>9, <2>2
<1>16. PICK i, d, c, x, y, z, w :
         /\ i = Count("IFUNC_GOT_FOR_ADDRESS" \in f) /\ d = Count("GOT_TLS_DESCRIPTOR" \in f)
         /\ c = Count("COPY_RELOCATION" \in f)
         /\ x = Count("GOT" \in f /\ ~IsTls(f) /\ ~IsIfunc(f) /\ HasDynamicSymbol(f))
         /\ y = OffsetTaken(s) /\ z = ModuleTaken(s)
         /\ w = Count("GOT" \in f /\ ~IsTls(f) /\ ~IsIfunc(f) /\ ~HasDynamicSymbol(f) /\ IsAddress(f))
  OBVIOUS
<1>17. PICK a : a = AllocateSymbol(f)
  OBVIOUS
<1>18. PICK cp : cp = AllocateCopy(f)
  OBVIOUS
<1>19. /\ c \in Nat /\ i \in Nat /\ d \in Nat /\ x \in Nat /\ w \in Nat
       /\ y \in Nat /\ z \in Nat
       /\ i = IF "IFUNC_GOT_FOR_ADDRESS" \in f THEN 1 ELSE 0
       /\ d = IF "GOT_TLS_DESCRIPTOR" \in f THEN 1 ELSE 0
  BY <1>16 DEF Count, OffsetTaken, ModuleTaken
<1>20. /\ a["RELA_DYN_GENERAL"] = x + y + z + d + c
       /\ a[EvenPart] = IF IsRelocatable(kind) THEN w + i ELSE 0
       /\ \A p \in Part : p \in {"RELR_DYN", "RELA_DYN_RELATIVE"} \ {EvenPart} => a[p] = 0
       /\ \A p \in Part : cp[p] = IF p = "RELA_DYN_GENERAL" THEN c ELSE 0
  <2>1. PICK u, v : /\ u = Count("GOT_TLS_MODULE" \in f /\ (~IsExecutable(kind) \/ IsDynamic(f)))
                    /\ v = Count("GOT_TLS_MODULE" \in f /\ HasDynamicSymbol(f))
    OBVIOUS
  <2>2. u \in Nat /\ v \in Nat /\ z = u + v
    BY <1>14, <1>16, <2>1 DEF Count
  <2>3. a["RELA_DYN_GENERAL"] = x + y + u + v + d + c
    BY <1>13, <1>16, <1>17, <2>1, AllocatedIs
  <2>4. a["RELA_DYN_GENERAL"] = x + y + z + d + c
    BY <1>19, <2>2, <2>3
  <2> QED
    BY <1>16, <1>17, <1>18, <2>4, AllocatedIs
<1>21. /\ out.error = "ok"
       /\ InTable(out, "RELA_DYN_GENERAL") = x + y + z + d
       /\ InTable(out, EvenPart) = IF IsRelocatable(kind) THEN w + i ELSE 0
       /\ \A p \in {"RELR_DYN", "RELA_DYN_RELATIVE"} \ {EvenPart} : InTable(out, p) = 0
  <2>1. CASE got[s] = 0
    <3>1. out = Output(<<>>, {}, "ok")
      BY <1>1, <2>1, Zenon DEF ProcessResolution
    <3>2. Piece(out, 0, 0, 0) /\ out.error = "ok"
      BY <3>1, NoPiece
    <3>3. \A p : InTable(out, p) = 0
      BY <3>2 DEF Piece
    <3>4. "GOT" \notin f /\ ~IsTls(f)
      BY <1>2, <2>1
    <3>5. x = 0 /\ w = 0
      BY <1>16, <3>4 DEF Count
    <3>6. y = 0 /\ z = 0 /\ d = 0 /\ i = 0
      BY <1>2, <1>11, <1>16, <1>19, <3>4 DEF OffsetTaken, ModuleTaken
    <3> QED
      BY <3>2, <3>3, <3>5, <3>6
  <2>2. CASE got[s] # 0 /\ ~IsTls(f)
    <3>1. out = PlainEntries(s)
      BY <1>1, <2>2, Zenon DEF ProcessResolution
    <3>2. "GOT" \in f /\ (HasDynamicSymbol(f) => HasIndex(s))
      BY <1>2, <1>10, <1>11, <2>2
    <3>3. out.error = "ok"
      <4>1. "IFUNC_GOT_FOR_ADDRESS" \in f => plt[s]
        BY <1>2, <1>8
      <4> QED
        BY <3>1, <3>2, <4>1, PlainEntriesIs
    <3>4. /\ x = Count(~IsIfunc(f) /\ HasDynamicSymbol(f))
          /\ w = Count(~IsIfunc(f) /\ ~HasDynamicSymbol(f) /\ IsAddress(f))
      BY <1>16, <2>2, <3>2 DEF Count
    <3>5. /\ InTable(out, "RELA_DYN_GENERAL") = x
          /\ InTable(out, EvenPart) = IF IsRelocatable(kind) THEN w + i ELSE 0
          /\ \A p : p \notin {"RELA_DYN_GENERAL", "RELA_PLT", EvenPart} => InTable(out, p) = 0
      BY <1>16, <3>1, <3>4, PlainEntriesIs
    <3>6. y = 0 /\ z = 0 /\ d = 0
      BY <1>11, <1>16, <1>19, <2>2 DEF OffsetTaken, ModuleTaken
    <3>7. InTable(out, "RELA_DYN_GENERAL") = x + y + z + d
      BY <1>19, <3>5, <3>6
    <3> QED
      BY <3>3, <3>5, <3>7
  <2>3. CASE got[s] # 0 /\ IsTls(f)
    <3>1. out = LET none == Output(<<>>, {}, "ok")
                    after == Count("GOT_TLS_OFFSET" \in f)
                IN  Then(IF "GOT_TLS_OFFSET" \in f THEN TlsOffset(s, 0) ELSE none,
                         Then(IF "GOT_TLS_MODULE" \in f THEN TlsModAndOffset(s, after) ELSE none,
                              IF "GOT_TLS_DESCRIPTOR" \in f
                              THEN TlsDescriptor(s, after + 2 * Count("GOT_TLS_MODULE" \in f))
                              ELSE none))
      BY <1>1, <2>3, Zenon DEF ProcessResolution
    <3>2. /\ Piece(out, 0, Count("GOT_TLS_OFFSET" \in f)
                        + (2 * Count("GOT_TLS_MODULE" \in f) + 2 * Count("GOT_TLS_DESCRIPTOR" \in f)),
                   OffsetTaken(s) + (ModuleTaken(s) + Count("GOT_TLS_DESCRIPTOR" \in f)))
          /\ /\ HasDynamicSymbol(f) => HasIndex(s)
             /\ "GOT_TLS_MODULE" \in f => HasIndex(s) \/ IsAddress(f)
             /\ "GOT_TLS_DESCRIPTOR" \in f => ~IsStatic(kind)
             => out.error = "ok"
      BY <3>1, TlsEntriesIs
    <3>3. out.error = "ok"
      BY <1>9, <1>10, <1>11, <1>15, <2>3, <3>2
    <3>4. \A p : InTable(out, p) = IF p = "RELA_DYN_GENERAL" THEN y + (z + d) ELSE 0
      BY <1>16, <3>2 DEF Piece
    <3>5. "GOT" \notin f /\ i = 0
      BY <1>2, <1>19, <2>3
    <3>6. x = 0 /\ w = 0
      BY <1>16, <3>5 DEF Count
    <3>7. EvenPart # "RELA_DYN_GENERAL"
      BY EvenPartIs
    <3>8. InTable(out, "RELA_DYN_GENERAL") = x + y + z + d
      BY <1>19, <3>4, <3>6
    <3>9. InTable(out, EvenPart) = IF IsRelocatable(kind) THEN w + i ELSE 0
      BY <3>4, <3>5, <3>6, <3>7
    <3> QED
      BY <3>3, <3>4, <3>8, <3>9
  <2> QED
    BY <2>1, <2>2, <2>3
<1>22. ASSUME NEW p \in Part PROVE Demand(s)[p] = a[p]
  <2>1. CASE p \in PltPart
    BY <1>17, <2>1, SymbolWritten
  <2>2. CASE p \notin PltPart
    <3>1. p \in {"RELA_DYN_GENERAL", "RELA_DYN_RELATIVE", "RELR_DYN"}
      BY <2>2 DEF Part, PltPart
    <3>2. Demand(s)[p] = InTable(out, p) + cp[p]
      BY <1>1, <1>18, <3>1 DEF Demand
    <3>3. EvenPart # "RELA_DYN_GENERAL" /\ "RELA_DYN_GENERAL" \in Part
      BY EvenPartIs DEF Part
    <3>4. CASE p = "RELA_DYN_GENERAL"
      BY <1>19, <1>20, <1>21, <3>2, <3>3, <3>4
    <3>5. CASE p = EvenPart
      <4>1. cp[p] = 0
        BY <1>20, <3>3, <3>5
      <4>2. InTable(out, p) = a[p] /\ a[p] \in Nat
        BY <1>19, <1>20, <1>21, <3>5
      <4> QED
        BY <3>2, <4>1, <4>2
    <3>6. CASE p # "RELA_DYN_GENERAL" /\ p # EvenPart
      <4>1. cp[p] = 0 /\ a[p] = 0 /\ InTable(out, p) = 0
        BY <1>20, <1>21, <3>1, <3>6
      <4> QED
        BY <3>2, <4>1
    <3> QED
      BY <3>4, <3>5, <3>6
  <2> QED
    BY <2>1, <2>2
<1> QED
  BY <1>1, <1>17, <1>21, <1>22

-----------------------------------------------------------------------------
(* What a relocation takes of the tables, and what the scan allocated for it *)

\* What ApplyRelocation writes.
Result(r) ==
    LET s == r.sym
        kd == RelKind(r, flags[s])
    IN  CASE kd = "Absolute" -> WriteAbsolute(r)
          [] kd \in {"Relative", "PltRelative"} ->
               LET viaPlt == kd = "PltRelative" \/ IsIfunc(flags[s])
               IN  [word |-> IF viaPlt THEN "stub" ELSE RawValue(s), rel |-> "none",
                    part |-> "none", error |-> Unless(viaPlt => plt[s], "missing")]
          [] kd = "TpOff" -> [word |-> "tpoff", rel |-> "none", part |-> "none", error |-> "ok"]
          [] kd = "None" -> [word |-> "zero", rel |-> "none", part |-> "none", error |-> "ok"]
          [] OTHER -> [word |-> "entry", rel |-> "none", part |-> "none",
                       error |-> Unless(kd = "TlsLd" \/ got[s] # 0, "missing")]

LEMMA ApplyIs ==
    ASSUME NEW r, ApplyRelocation(r)
    PROVE  /\ phase = "write" /\ r \in todo
           /\ Take(Referrer, [p \in Part |-> Count(p = Result(r).part)], Result(r).error, "write")
           /\ word' = [word EXCEPT ![r] = [of |-> r.sym, word |-> Result(r).word, rel |-> Result(r).rel]]
           /\ todo' = todo \ {r}
           /\ UNCHANGED <<link, flags, defs, refs, usesTlsld, sizes, got, plt, entry, next>>
  BY Zenon DEF ApplyRelocation, Result

\* The table the scan allocated an entry of for the relocation itself.
RefPart(r, f, kd) ==
    IF IsTlsKind(kd) \/ ~Writable(r) THEN "none"
    ELSE IF DirectInterposable(r, f, kd) THEN "RELA_DYN_GENERAL"
    ELSE IF kd # "Absolute" \/ ~IsRelocatable(kind) THEN "none"
    ELSE IF IsIfunc(f) THEN "RELA_DYN_GENERAL"
    ELSE IF IsAddress(f) THEN RelativePart(r.even)
    ELSE "none"

LEMMA RefSizeIs ==
    ASSUME NEW r, NEW f, NEW kd, NEW p \in Part
    PROVE  /\ RefPart(r, f, kd) \in {"none", "RELA_DYN_GENERAL", "RELR_DYN", "RELA_DYN_RELATIVE"}
           /\ AllocatedForRelocation(r, f, kd)[p] = IF p = RefPart(r, f, kd) THEN 1 ELSE 0
<1>1. PICK rp : rp = RelativePart(r.even)
  OBVIOUS
<1>2. rp \in {"RELR_DYN", "RELA_DYN_RELATIVE"}
  BY <1>1, RelativePartIs
<1>3. Nothing[p] = 0 /\ \A q \in Part : One(q)[p] = IF p = q THEN 1 ELSE 0
  BY DEF Nothing, One
<1>4. p # "none" /\ "RELA_DYN_GENERAL" \in Part /\ rp \in Part
  BY <1>2 DEF Part
<1>5. \/ RefPart(r, f, kd) = "none" /\ AllocatedForRelocation(r, f, kd) = Nothing
      \/ RefPart(r, f, kd) = "RELA_DYN_GENERAL"
         /\ AllocatedForRelocation(r, f, kd) = One("RELA_DYN_GENERAL")
      \/ RefPart(r, f, kd) = rp /\ AllocatedForRelocation(r, f, kd) = One(rp)
  BY <1>1, Zenon DEF RefPart, AllocatedForRelocation
<1> QED
  BY <1>2, <1>3, <1>4, <1>5

LEMMA ResultForm ==
    ASSUME NEW r
    PROVE  LET res == Result(r)
               kd == RelKind(r, flags[r.sym])
           IN  kd # "Absolute" =>
                 /\ res.part = "none" /\ res.rel = "none" /\ res.word \in Stored
                 /\ res.error \in {"ok", "missing"}
                 /\ kd \in {"Relative", "PltRelative"} /\ (kd = "PltRelative" \/ IsIfunc(flags[r.sym])
                                                           => plt[r.sym])
                    => res.error = "ok"
                 /\ kd \in {"TpOff", "None", "TlsLd"} => res.error = "ok"
                 /\ got[r.sym] # 0 /\ kd \notin {"Relative", "PltRelative"} => res.error = "ok"
<1> DEFINE s == r.sym
<1>1. PICK kd : kd = RelKind(r, flags[s])
  OBVIOUS
<1>2. PICK res : res = Result(r)
  OBVIOUS
<1>3. PICK raw : raw = RawValue(s) /\ raw \in Stored
  BY RawValueStored
<1>4. SUFFICES ASSUME kd # "Absolute"
               PROVE  /\ res.part = "none" /\ res.rel = "none" /\ res.word \in Stored
                      /\ res.error \in {"ok", "missing"}
                      /\ kd \in {"Relative", "PltRelative"} /\ (kd = "PltRelative" \/ IsIfunc(flags[s])
                                                                => plt[s])
                         => res.error = "ok"
                      /\ kd \in {"TpOff", "None", "TlsLd"} => res.error = "ok"
                      /\ got[s] # 0 /\ kd \notin {"Relative", "PltRelative"} => res.error = "ok"
  BY <1>1, <1>2
<1>5. {"stub", "tpoff", "zero", "entry"} \subseteq Stored
  BY DEF Stored
<1>6. CASE kd \in {"Relative", "PltRelative"}
  <2>1. PICK viaPlt, err :
          /\ viaPlt = (kd = "PltRelative" \/ IsIfunc(flags[s]))
          /\ err = Unless(viaPlt => plt[s], "missing")
    OBVIOUS
  <2>2. res = [word |-> IF viaPlt THEN "stub" ELSE raw, rel |-> "none", part |-> "none", error |-> err]
    BY <1>1, <1>2, <1>3, <1>6, <2>1 DEF Result
  <2>3. err \in {"ok", "missing"} /\ ((viaPlt => plt[s]) => err = "ok")
    BY <2>1 DEF Unless
  <2> QED
    BY <1>3, <1>5, <1>6, <2>1, <2>2, <2>3
<1>7. CASE kd \in {"TpOff", "None"}
  <2>1. \/ res = [word |-> "tpoff", rel |-> "none", part |-> "none", error |-> "ok"]
        \/ res = [word |-> "zero", rel |-> "none", part |-> "none", error |-> "ok"]
    BY <1>1, <1>2, <1>7 DEF Result
  <2> QED
    BY <1>5, <1>7, <2>1
<1>8. CASE kd \notin {"Absolute", "Relative", "PltRelative", "TpOff", "None"}
  <2>1. PICK err : err = Unless(kd = "TlsLd" \/ got[s] # 0, "missing")
    OBVIOUS
  <2>2. res = [word |-> "entry", rel |-> "none", part |-> "none", error |-> err]
    BY <1>1, <1>2, <1>8, <2>1 DEF Result
  <2>3. err \in {"ok", "missing"} /\ (kd = "TlsLd" \/ got[s] # 0 => err = "ok")
    BY <2>1 DEF Unless
  <2> QED
    BY <1>5, <1>8, <2>2, <2>3
<1> QED
  BY <1>4, <1>6, <1>7, <1>8

\* write_absolute_relocation
LEMMA AbsoluteForm ==
    ASSUME NEW r, NEW f, f = flags[r.sym], NEW res, res = WriteAbsolute(r)
    PROVE  /\ res.word \in Stored /\ res.rel \in Relocated /\ res.error \in {"ok", "missing"}
           /\ res.part \in {"none", "RELA_DYN_GENERAL", "RELR_DYN", "RELA_DYN_RELATIVE"}
           /\ IsDynamic(f) /\ IsAbsolute(f) /\ ~Writable(r) => res.part = "none" /\ res.error = "ok"
           /\ IsInterposable(f) /\ Writable(r) =>
                res.part = "RELA_DYN_GENERAL" /\ (HasIndex(r.sym) => res.error = "ok")
           /\ ~IsInterposable(f) /\ IsIfunc(f) /\ Writable(r) /\ IsRelocatable(kind) =>
                res.part = "RELA_DYN_GENERAL" /\ res.error = "ok"
           /\ /\ ~(IsDynamic(f) /\ IsAbsolute(f) /\ ~Writable(r))
              /\ ~(IsInterposable(f) /\ Writable(r))
              /\ ~(~IsInterposable(f) /\ IsIfunc(f) /\ Writable(r) /\ IsRelocatable(kind))
              => /\ res.part = IF IsRelocatable(kind) /\ ~IsAbsolute(f) THEN RelativePart(PlaceEven(r)) ELSE "none"
                 /\ (IsIfunc(f) => plt[r.sym]) => res.error = "ok"
<1>1. PICK raw : raw = RawValue(r.sym) /\ raw \in Stored
  BY RawValueStored
<1>2. PICK rp : rp = RelativePart(PlaceEven(r))
  OBVIOUS
<1>3. rp \in {"RELR_DYN", "RELA_DYN_RELATIVE"}
  BY <1>2, RelativePartIs
<1>4. PICK value, err, index :
        /\ value = IF IsIfunc(f) THEN "stub" ELSE raw
        /\ err = Unless(IsIfunc(f) => plt[r.sym], "missing")
        /\ index = Unless(HasIndex(r.sym), "missing")
  OBVIOUS
<1>5. /\ err \in {"ok", "missing"} /\ ((IsIfunc(f) => plt[r.sym]) => err = "ok")
      /\ index \in {"ok", "missing"} /\ (HasIndex(r.sym) => index = "ok")
      /\ value \in Stored /\ "zero" \in Stored
      /\ {"none", "lookup", "irelative", "relative"} \subseteq Relocated
  BY <1>1, <1>4 DEF Unless, Stored, Relocated
<1>6. CASE IsDynamic(f) /\ IsAbsolute(f) /\ ~Writable(r)
  <2>1. res = [word |-> "zero", rel |-> "none", part |-> "none", error |-> "ok"]
    BY <1>6, Zenon DEF WriteAbsolute
  <2> QED
    BY <1>5, <1>6, <2>1
<1>7. CASE IsInterposable(f) /\ Writable(r)
  <2>1. res = [word |-> "zero", rel |-> "lookup", part |-> "RELA_DYN_GENERAL", error |-> index]
    BY <1>4, <1>7, Zenon DEF WriteAbsolute
  <2> QED
    BY <1>5, <1>7, <2>1
<1>8. CASE ~IsInterposable(f) /\ IsIfunc(f) /\ Writable(r) /\ IsRelocatable(kind)
  <2>1. res = [word |-> "zero", rel |-> "irelative", part |-> "RELA_DYN_GENERAL", error |-> "ok"]
    BY <1>8, Zenon DEF WriteAbsolute
  <2> QED
    BY <1>5, <1>8, <2>1
<1>9. CASE /\ ~(IsDynamic(f) /\ IsAbsolute(f) /\ ~Writable(r))
           /\ ~(IsInterposable(f) /\ Writable(r))
           /\ ~(~IsInterposable(f) /\ IsIfunc(f) /\ Writable(r) /\ IsRelocatable(kind))
  <2>1. res = IF IsRelocatable(kind) /\ ~IsAbsolute(f)
              THEN [word |-> value, rel |-> "relative", part |-> rp, error |-> err]
              ELSE [word |-> value, rel |-> "none", part |-> "none", error |-> err]
    BY <1>1, <1>2, <1>4, <1>9 DEF WriteAbsolute
  <2> QED
    BY <1>2, <1>3, <1>5, <1>9, <2>1
<1> QED
  BY <1>6, <1>7, <1>8, <1>9

\* A relocation takes none of the tables of the PLT, and with a supported reference it takes what
\* the scan allocated for it.
LEMMA RelocationWritten ==
    ASSUME Laid, NEW r \in refs
    PROVE  /\ Result(r).word \in Stored /\ Result(r).rel \in Relocated
           /\ Result(r).error \in {"ok", "missing"}
           /\ Result(r).part \notin PltPart
           /\ \A p \in Part : RefSize(r, p) \in {0, 1}
           /\ \A p \in PltPart : RefSize(r, p) = 0
           /\ ~Unsupported(r) => /\ Result(r).error = "ok"
                                 /\ \A p \in Part : RefSize(r, p) = Count(p = Result(r).part)
<1> DEFINE s == r.sym
           f == flags[s]
<1>1. PICK kd : kd = RelKind(r, f)
  OBVIOUS
<1>2. PICK res : res = Result(r)
  OBVIOUS
<1>3. PICK rp : rp = RefPart(r, f, kd)
  OBVIOUS
<1>4. PICK even, placed : even = RelativePart(r.even) /\ placed = RelativePart(PlaceEven(r))
  OBVIOUS
<1>5. even \in {"RELR_DYN", "RELA_DYN_RELATIVE"}
  BY <1>4, RelativePartIs
<1>6. /\ \A p \in Part : RefSize(r, p) = IF p = rp THEN 1 ELSE 0
      /\ rp \in {"none", "RELA_DYN_GENERAL", "RELR_DYN", "RELA_DYN_RELATIVE"}
  <2>1. ASSUME NEW p \in Part
        PROVE  /\ RefSize(r, p) = IF p = rp THEN 1 ELSE 0
               /\ rp \in {"none", "RELA_DYN_GENERAL", "RELR_DYN", "RELA_DYN_RELATIVE"}
    <3>1. RefSize(r, p) = AllocatedForRelocation(r, f, kd)[p]
      BY <1>1, Zenon DEF RefSize
    <3> QED
      BY <1>3, <3>1, RefSizeIs
  <2>2. "GOT" \in Part
    BY DEF Part
  <2> QED
    BY <2>1, <2>2
<1>7. /\ TypeOK /\ r \in Reference /\ s \in Symbol /\ ReferenceOK(r) /\ SymbolOK(s)
      /\ phase # "bailed"
  BY DEF Laid, TypeOK, Reference, RefsOK, FlagsOK, Addressed
<1>8. /\ Sensible(r) /\ ~Bails(r, f, kd) /\ FlagsToAdd(r, f, kd) \subseteq f
      /\ f \cap StaticFlag = Base(s)
  BY <1>1, <1>7 DEF ReferenceOK, SymbolOK
<1>9. KindOK(r, f, kd)
  BY <1>1, <1>7, <1>8, KindFacts
<1>10. /\ IsAbsolute(f) <=> \/ Sym[s].from = "undefined"
                            \/ Sym[s].from = "object" /\ Sym[s].type = "absolute"
       /\ IsIfunc(f) <=> Sym[s].type = "ifunc"
       /\ Sym[s].type = "ifunc" => Sym[s].from = "object"
       /\ IsDynamic(f) <=> Sym[s].from = "shared" \/ (Sym[s].from = "undefined" /\ Preemptible(s))
       /\ IsInterposable(f) <=> Preemptible(s)
       /\ IsAddress(f) <=> Sym[s].from = "object" /\ Sym[s].type \notin {"absolute", "ifunc"}
       /\ "FUNCTION" \in f <=> Sym[s].from = "shared" /\ Sym[s].type = "func"
  BY <1>7, <1>8, BaseFlags
<1>11. /\ kind \in Kind /\ Sym[s].from \in {"object", "shared", "undefined"}
       /\ Sym[s].from = "shared" => Preemptible(s)
       /\ Preemptible(s) /\ Sym[s].from = "object" => kind = "SharedObject"
       /\ IsExecutable(kind) <=> kind # "SharedObject"
       /\ IsStatic(kind) => IsExecutable(kind) /\ ~Preemptible(s)
       /\ IsRelocatable(kind) <=> kind \notin {"StaticExe", "DynamicExe"}
       /\ IsStatic(kind) <=> kind \in {"StaticExe", "StaticPie"}
  BY <1>7, SymbolFacts DEF Preemptible, IsExecutable, IsStatic, IsRelocatable, Kind
<1>12. /\ plt[s] <=> "PLT" \in f
       /\ got[s] # 0 <=> "GOT" \in f \/ IsTls(f)
       /\ HasDynamicSymbol(f) /\ HasResolution(f) => HasIndex(s)
  BY <1>7, SymbolLaid
<1>13. r.sec \in {"text", "rodata", "data", "packed"} /\ r.type \in RelType /\ (Writable(r) <=> r.sec \in {"data", "packed"})
  BY <1>7 DEF Reference, Writable
<1>14. SUFFICES /\ res.word \in Stored /\ res.rel \in Relocated /\ res.error \in {"ok", "missing"}
                /\ res.part \in {"none", "RELA_DYN_GENERAL", "RELR_DYN", "RELA_DYN_RELATIVE"}
                /\ ~Unsupported(r) => res.error = "ok" /\ res.part = rp
  BY <1>2, <1>5, <1>6 DEF PltPart, Part, Count
<1>15. CASE kd # "Absolute"
  <2>1. /\ res.part = "none" /\ res.rel = "none" /\ res.word \in Stored
        /\ res.error \in {"ok", "missing"}
        /\ kd \in {"Relative", "PltRelative"} /\ (kd = "PltRelative" \/ IsIfunc(f) => plt[s])
           => res.error = "ok"
        /\ kd \in {"TpOff", "None", "TlsLd"} => res.error = "ok"
        /\ got[s] # 0 /\ kd \notin {"Relative", "PltRelative"} => res.error = "ok"
    BY <1>1, <1>2, <1>15, ResultForm
  <2>2. "none" \in Relocated
    BY DEF Relocated
  <2>3. SUFFICES ASSUME ~Unsupported(r) PROVE res.error = "ok" /\ rp = "none"
    BY <2>1, <2>2
  <2>4. kd \in {"Relative", "PltRelative", "GotRelative", "TlsGd", "TlsLd", "GotTpOff", "TlsDesc",
                "TpOff", "None"}
    BY <1>9, <1>13, <1>15 DEF KindOK, RelType
  <2>5. CASE kd = "Relative"
    <3>1. ~IsIfunc(f)
      BY <1>9, <1>10, <1>13, <2>5 DEF KindOK, RelType
    <3>2. ~(Writable(r) /\ IsInterposable(f))
      <4>1. SUFFICES ASSUME Writable(r), Preemptible(s) PROVE FALSE
        BY <1>10
      <4>2. r.type = "PC32"
        BY <1>8, <1>9, <1>13, <2>5, <4>1 DEF Sensible, KindOK, RelType
      <4>3. r.sec = "data"
        BY <1>8, <1>13, <4>1, <4>2 DEF Sensible
      <4> QED
        BY <1>10, <2>3, <3>1, <4>1, <4>2, <4>3 DEF Unsupported
    <3>3. rp = "none"
      BY <1>3, <2>5, <3>2 DEF RefPart, DirectInterposable
    <3> QED
      BY <2>1, <2>5, <3>1, <3>3
  <2>6. CASE kd \in {"PltRelative", "GotRelative"}
    <3>1. /\ "GOT" \in f /\ (kd = "PltRelative" => "PLT" \in f)
      <4>1. NeededFlags(kd) = (IF kd = "PltRelative" THEN {"PLT", "GOT"} ELSE {"GOT"})
        BY <2>6 DEF NeededFlags
      <4>2. ~DirectInterposable(r, f, kd)
        BY <4>1 DEF DirectInterposable
      <4>3. NeededFlags(kd) \subseteq FlagsToAdd(r, f, kd)
        BY <4>2 DEF FlagsToAdd
      <4> QED
        BY <1>8, <4>1, <4>3
    <3>2. rp = "none"
      <4>1. ~DirectInterposable(r, f, kd)
        BY <2>6 DEF DirectInterposable, NeededFlags
      <4> QED
        BY <1>3, <2>6, <4>1 DEF RefPart
    <3>3. res.error = "ok"
      <4>1. CASE kd = "PltRelative"
        BY <1>12, <2>1, <3>1, <4>1
      <4>2. CASE kd = "GotRelative"
        BY <1>12, <2>1, <3>1, <4>2
      <4> QED
        BY <2>6, <4>1, <4>2
    <3> QED
      BY <3>2, <3>3
  <2>7. CASE kd \in {"TlsGd", "TlsLd", "GotTpOff", "TlsDesc", "TpOff", "None"}
    <3>1. rp = "none"
      <4>1. kd = "None" => ~DirectInterposable(r, f, kd)
        BY DEF DirectInterposable, NeededFlags
      <4> QED
        BY <1>3, <2>7, <4>1 DEF RefPart, IsTlsKind
    <3>2. kd \in {"TlsGd", "GotTpOff", "TlsDesc"} => got[s] # 0
      <4>1. SUFFICES ASSUME kd \in {"TlsGd", "GotTpOff", "TlsDesc"} PROVE IsTls(f)
        BY <1>12
      <4>2. NeededFlags(kd) \cap TlsFlag # {}
        BY <4>1 DEF NeededFlags, TlsFlag
      <4>3. IsTlsKind(kd)
        BY <4>1 DEF IsTlsKind
      <4>4. NeededFlags(kd) \subseteq FlagsToAdd(r, f, kd)
        BY <4>3 DEF FlagsToAdd
      <4> QED
        BY <1>8, <4>2, <4>4 DEF IsTls
    <3> QED
      BY <2>1, <2>7, <3>1, <3>2
  <2> QED
    BY <2>4, <2>5, <2>6, <2>7
<1>16. CASE kd = "Absolute"
  <2>1. res = WriteAbsolute(r)
    BY <1>1, <1>2, <1>16 DEF Result
  <2>2. /\ res.word \in Stored /\ res.rel \in Relocated /\ res.error \in {"ok", "missing"}
        /\ res.part \in {"none", "RELA_DYN_GENERAL", "RELR_DYN", "RELA_DYN_RELATIVE"}
        /\ IsDynamic(f) /\ IsAbsolute(f) /\ ~Writable(r) => res.part = "none" /\ res.error = "ok"
        /\ IsInterposable(f) /\ Writable(r) =>
             res.part = "RELA_DYN_GENERAL" /\ (HasIndex(s) => res.error = "ok")
        /\ ~IsInterposable(f) /\ IsIfunc(f) /\ Writable(r) /\ IsRelocatable(kind) =>
             res.part = "RELA_DYN_GENERAL" /\ res.error = "ok"
        /\ /\ ~(IsDynamic(f) /\ IsAbsolute(f) /\ ~Writable(r))
           /\ ~(IsInterposable(f) /\ Writable(r))
           /\ ~(~IsInterposable(f) /\ IsIfunc(f) /\ Writable(r) /\ IsRelocatable(kind))
           => /\ res.part = IF IsRelocatable(kind) /\ ~IsAbsolute(f) THEN placed ELSE "none"
              /\ (IsIfunc(f) => plt[s]) => res.error = "ok"
    BY <1>4, <2>1, AbsoluteForm
  <2>3. SUFFICES ASSUME ~Unsupported(r) PROVE res.error = "ok" /\ res.part = rp
    BY <2>2
  <2>4. rp = IF ~Writable(r) THEN "none"
             ELSE IF IsInterposable(f) THEN "RELA_DYN_GENERAL"
             ELSE IF ~IsRelocatable(kind) THEN "none"
             ELSE IF IsIfunc(f) THEN "RELA_DYN_GENERAL"
             ELSE IF IsAddress(f) THEN even ELSE "none"
    <3>1. ~IsTlsKind(kd) /\ (DirectInterposable(r, f, kd) <=> IsInterposable(f))
      BY <1>16 DEF IsTlsKind, DirectInterposable, NeededFlags
    <3> QED
      BY <1>3, <1>4, <1>16, <3>1 DEF RefPart
  <2>5. /\ \/ r.type = "64" /\ r.sec # "text"
           \/ /\ r.type = "REX_GOTPCRELX" /\ r.sec = "text"
              /\ (IsAbsolute(f) /\ ~IsDynamic(f)) \/ (IsAddress(f) /\ ~IsRelocatable(kind))
    <3>1. r.type \in {"64", "REX_GOTPCRELX"}
      BY <1>9, <1>13, <1>16 DEF KindOK, RelType
    <3>2. r.type = "REX_GOTPCRELX" =>
            (IsAbsolute(f) /\ ~IsDynamic(f)) \/ (IsAddress(f) /\ ~IsRelocatable(kind))
      <4>1. SUFFICES ASSUME r.type = "REX_GOTPCRELX"
                     PROVE  (IsAbsolute(f) /\ ~IsDynamic(f)) \/ (IsAddress(f) /\ ~IsRelocatable(kind))
        OBVIOUS
      <4>2. \/ kd = "GotRelative"
            \/ kd = "Absolute" /\ IsAbsolute(f) /\ ~IsDynamic(f)
            \/ kd = "Absolute" /\ IsAddress(f) /\ ~IsRelocatable(kind)
            \/ kd = "Relative" /\ ~Preemptible(s) /\ Sym[s].type # "ifunc"
        BY <1>9, <4>1 DEF KindOK
      <4> QED
        BY <1>16, <4>2
    <3>3. /\ r.type = "64" => r.sec # "text"
          /\ r.type = "REX_GOTPCRELX" => r.sec = "text"
      BY <1>8 DEF Sensible
    <3> QED
      BY <3>1, <3>2, <3>3
  <2>6. ~(IsInterposable(f) /\ ~Writable(r)) => "DIRECT" \in f
    <3>1. SUFFICES ASSUME ~(IsInterposable(f) /\ ~Writable(r)) PROVE "DIRECT" \in FlagsToAdd(r, f, kd)
      BY <1>8
    <3>2. "DIRECT" \in NeededFlags(kd)
      BY <1>16 DEF NeededFlags
    <3>3. ~(DirectInterposable(r, f, kd) /\ ~Writable(r))
      BY <3>1 DEF DirectInterposable
    <3> QED
      BY <3>2, <3>3 DEF FlagsToAdd
  <2>7. IsIfunc(f) /\ r.type = "64" /\ ~IsRelocatable(kind) => plt[s]
    <3> SUFFICES ASSUME IsIfunc(f), r.type = "64", ~IsRelocatable(kind) PROVE "PLT" \in f
      BY <1>12
    <3>1. CASE ~IsStatic(kind)
      <4>1. "PLT" \in FlagsToAdd(r, f, kd)
        BY <3>1 DEF FlagsToAdd
      <4> QED
        BY <1>8, <4>1
    <3>2. CASE IsStatic(kind)
      <4>1. kind = "StaticExe" /\ Sym[s].type = "ifunc" /\ ~IsInterposable(f)
        BY <1>10, <1>11, <3>2
      <4>2. HasResolution(f)
        BY <2>6, <4>1 DEF HasResolution, ResolutionFlag
      <4>3. s \notin link.marked
        BY <2>3, <4>1 DEF Unsupported
      <4> QED
        BY <1>7, <4>1, <4>2, <4>3 DEF SymbolOK
    <3> QED
      BY <3>1, <3>2
  <2>8. CASE r.type = "REX_GOTPCRELX"
    <3>1. ~Writable(r) /\ ~IsIfunc(f) /\ (IsAbsolute(f) \/ ~IsRelocatable(kind))
      BY <1>10, <1>13, <2>5, <2>8
    <3> QED
      BY <2>2, <2>4, <3>1
  <2>9. CASE r.type = "64" /\ Writable(r) /\ IsInterposable(f)
    <3>1. HasIndex(s)
      <4>1. CASE Sym[s].from = "object"
        <5>1. MustExport(s)
          BY <1>10, <1>11, <2>9, <4>1 DEF MustExport, Preemptible
        <5>2. s \in defs
          BY <1>7, <5>1 DEF Laid, SizesOK, Addressed, Scanning
        <5> QED
          BY <5>2 DEF HasIndex
      <4>2. CASE Sym[s].from # "object"
        <5>1. IsDynamic(f)
          BY <1>10, <1>11, <2>9, <4>2
        <5>2. HasResolution(f)
          BY <1>13, <2>6, <2>9 DEF HasResolution, ResolutionFlag
        <5> QED
          BY <5>1, <5>2 DEF HasIndex
      <4> QED
        BY <4>1, <4>2
    <3> QED
      BY <1>13, <2>2, <2>4, <2>9, <3>1
  <2>10. CASE r.type = "64" /\ Writable(r) /\ ~IsInterposable(f) /\ ~IsRelocatable(kind)
    BY <1>13, <2>2, <2>4, <2>7, <2>10
  <2>11. CASE r.type = "64" /\ Writable(r) /\ ~IsInterposable(f) /\ IsRelocatable(kind)
    <3>1. ~IsDynamic(f)
      BY <1>10, <1>11, <2>11
    <3>2. CASE IsIfunc(f)
      BY <1>13, <2>2, <2>4, <2>11, <3>2
    <3>3. CASE ~IsIfunc(f)
      <4>1. IsAddress(f) <=> ~IsAbsolute(f)
        BY <1>10, <1>11, <3>1, <3>3
      <4>2. ASSUME ~IsAbsolute(f) PROVE placed = even
        <5>1. Sym[s].from = "object" /\ Sym[s].type \notin {"absolute", "ifunc"} /\ ~Preemptible(s)
          BY <1>10, <1>11, <2>11, <3>1, <3>3, <4>2
        <5>2. Sym[s].type \in {"data", "func"}
          <6>1. Sym[s].type \in {"data", "func", "ifunc", "tls", "absolute"}
            BY <1>7, SymbolFacts
          <6>2. Sym[s].type # "tls"
            BY <1>8, <2>11 DEF Sensible
          <6> QED
            BY <5>1, <6>1, <6>2
        <5>3. ~(link.relr /\ r.sec = "packed")
          BY <2>3, <2>11, <5>1, <5>2 DEF Unsupported, ParityDiffers
        <5> QED
          BY <1>4, <5>3 DEF RelativePart, PlaceEven
      <4> QED
        BY <1>13, <2>2, <2>4, <2>11, <3>3, <4>1, <4>2
    <3> QED
      BY <3>2, <3>3
  <2>12. CASE r.type = "64" /\ r.sec = "rodata"
    <3>1. ~Writable(r) /\ rp = "none"
      BY <1>13, <2>4, <2>12
    <3>2. IsRelocatable(kind) => IsAbsolute(f)
      <4>1. SUFFICES ASSUME IsRelocatable(kind), ~IsAbsolute(f) PROVE FALSE
        OBVIOUS
      <4>2. Sym[s].from # "shared" /\ Sym[s].type # "ifunc"
        BY <2>3, <2>12, <4>1 DEF Unsupported
      <4>3. IsAddress(f) /\ Sym[s].from = "object"
        BY <1>10, <1>11, <4>1, <4>2
      <4>4. ~IsTlsKind(kd) /\ (DirectInterposable(r, f, kd) <=> IsInterposable(f))
        BY <1>16 DEF IsTlsKind, DirectInterposable, NeededFlags
      <4>5. IsInterposable(f) => "FUNCTION" \notin f /\ ~CopyAllowed
        BY <1>10, <1>11, <4>3 DEF CopyAllowed
      <4> QED
        BY <1>8, <1>16, <3>1, <4>1, <4>3, <4>4, <4>5 DEF Bails
    <3>3. IsIfunc(f) => plt[s]
      BY <1>10, <2>7, <2>12, <3>2
    <3> QED
      BY <2>2, <3>1, <3>2, <3>3
  <2> QED
    BY <1>13, <2>5, <2>8, <2>9, <2>10, <2>11, <2>12
<1> QED
  BY <1>15, <1>16

-----------------------------------------------------------------------------
(* The sizes of the tables *)

LEMMA AllocatedTyped ==
    ASSUME NEW p \in Part
    PROVE  /\ \A f : AllocateSymbol(f)[p] \in Nat
           /\ AllocatePrelude[p] \in Nat
           /\ \A r : RefSize(r, p) \in {0, 1}
           /\ \A g : SymbolSizes(g, p) \in [1 .. NumSymbols -> Nat]
<1>1. \A b : Count(b) \in Nat
  BY DEF Count
<1>2. ASSUME NEW f PROVE AllocateSymbol(f)[p] \in Nat
  BY AllocatedIs
<1>3. AllocatePrelude[p] \in Nat
  BY <1>1 DEF AllocatePrelude, Nothing, Part
<1>4. ASSUME NEW r PROVE RefSize(r, p) \in {0, 1}
  BY RefSizeIs DEF RefSize
<1>5. ASSUME NEW g PROVE SymbolSizes(g, p) \in [1 .. NumSymbols -> Nat]
  BY <1>2 DEF SymbolSizes, Symbol
<1> QED
  BY <1>2, <1>3, <1>4, <1>5

\* Relocations that have been scanned keep their size.
LEMMA SizedKept ==
    ASSUME link' = link, NEW rels, NEW p,
           \A r \in rels : flags'[r.sym] \cap StaticFlag = flags[r.sym] \cap StaticFlag
    PROVE  /\ \A r \in rels : RefSize(r, p)' = RefSize(r, p)
           /\ {r \in rels : RefSize(r, p)' = 1} = Sized(rels, p)
<1>1. ASSUME NEW r \in rels PROVE RefSize(r, p)' = RefSize(r, p)
  BY ProcessedSame
<1> QED
  BY <1>1 DEF Sized

LEMMA SizedFinite ==
    ASSUME NEW rels, IsFiniteSet(rels), NEW p
    PROVE  /\ IsFiniteSet(Sized(rels, p)) /\ Cardinality(Sized(rels, p)) \in Nat
           /\ Cardinality(Sized(rels, p)) <= Cardinality(rels)
<1>1. Sized(rels, p) \subseteq rels
  BY DEF Sized
<1> QED
  BY <1>1, FS_Subset, FS_CardinalityType

\* One relocation more or less.
LEMMA SizedAdded ==
    ASSUME NEW rels, IsFiniteSet(rels), NEW r, NEW p \in Part
    PROVE  /\ r \notin rels =>
                Cardinality(Sized(rels \cup {r}, p)) = Cardinality(Sized(rels, p)) + RefSize(r, p)
           /\ r \in rels =>
                Cardinality(Sized(rels, p)) = Cardinality(Sized(rels \ {r}, p)) + RefSize(r, p)
<1>1. ASSUME NEW R, IsFiniteSet(R), r \notin R
      PROVE  Cardinality(Sized(R \cup {r}, p)) = Cardinality(Sized(R, p)) + RefSize(r, p)
  <2>1. IsFiniteSet(Sized(R, p)) /\ Cardinality(Sized(R, p)) \in Nat /\ r \notin Sized(R, p)
    BY <1>1, SizedFinite DEF Sized
  <2>2. CASE RefSize(r, p) = 1
    <3>1. Sized(R \cup {r}, p) = Sized(R, p) \cup {r}
      BY <2>2 DEF Sized
    <3> QED
      BY <2>1, <2>2, <3>1, FS_AddElement
  <2>3. CASE RefSize(r, p) = 0
    <3>1. Sized(R \cup {r}, p) = Sized(R, p)
      BY <2>3 DEF Sized
    <3> QED
      BY <2>1, <2>3, <3>1
  <2> QED
    BY <2>2, <2>3, AllocatedTyped
<1>2. ASSUME r \in rels
      PROVE  Cardinality(Sized(rels, p)) = Cardinality(Sized(rels \ {r}, p)) + RefSize(r, p)
  <2>1. (rels \ {r}) \cup {r} = rels /\ r \notin rels \ {r} /\ IsFiniteSet(rels \ {r})
    BY <1>2, FS_RemoveElement
  <2> QED
    BY <1>1, <2>1
<1> QED
  BY <1>1, <1>2

\* What is given to the symbols depends on the link and the flags only.
LEMMA AllocationKept ==
    ASSUME link' = link
    PROVE  /\ \A f : AllocateSymbol(f)' = AllocateSymbol(f)
           /\ flags' = flags => \A g, p : SymbolSizes(g, p)' = SymbolSizes(g, p)
           /\ usesTlsld' = usesTlsld => AllocatePrelude' = AllocatePrelude
<1>1. kind' = kind /\ RelativePart(TRUE)' = RelativePart(TRUE)
  BY Zenon DEF kind, RelativePart
<1>2. \A f : AllocateResolution(f)' = AllocateResolution(f)
  BY <1>1 DEF AllocateResolution, RelativePart, Count
<1>3. \A f : AllocateSymbol(f)' = AllocateSymbol(f)
  BY <1>2 DEF AllocateSymbol, AllocateCopy
<1>4. flags' = flags => \A g, p : SymbolSizes(g, p)' = SymbolSizes(g, p)
  BY <1>3 DEF SymbolSizes
<1>5. usesTlsld' = usesTlsld => AllocatePrelude' = AllocatePrelude
  BY <1>1 DEF AllocatePrelude, Count
<1> QED
  BY <1>3, <1>4, <1>5

LEMMA SizesProcess ==
    ASSUME TypeOK, ScanInv, SizesOK, NEW r \in Reference, ProcessRelocation(r), ScanInv'
    PROVE  SizesOK'
<1> DEFINE s == r.sym
           f == flags[s]
<1>1. PICK kd : kd = RelKind(r, f)
  OBVIOUS
<1>2. /\ link' = link /\ refs' = refs \cup {r} /\ phase = "scan" /\ r \notin refs
      /\ s \in Symbol
  BY DEF ProcessRelocation, Reference
<1>3. CASE Bails(r, f, kd)
  <2>1. phase' = "bailed"
    BY <1>1, <1>3 DEF ProcessRelocation
  <2> QED
    BY <2>1 DEF SizesOK, Scanning
<1>4. CASE ~Bails(r, f, kd)
  <2>1. /\ phase' = "scan"
        /\ sizes' = [sizes EXCEPT ![Referrer] = Plus(@, AllocatedForRelocation(r, f, kd))]
    BY <1>1, <1>2, <1>4 DEF ProcessRelocation
  <2>2. \A t \in Symbol : flags'[t] \cap StaticFlag = flags[t] \cap StaticFlag
    <3> SUFFICES ASSUME NEW t \in Symbol PROVE flags'[t] \cap StaticFlag = flags[t] \cap StaticFlag
      OBVIOUS
    <3>1. flags[t] \cap StaticFlag = Base(t)
      BY DEF ScanInv, FlagsOK, SymbolOK
    <3>2. (flags[t] \cap StaticFlag = Base(t))'
      BY DEF ScanInv, FlagsOK, SymbolOK
    <3>3. Base(t)' = Base(t)
      BY <1>2, InputSame
    <3> QED
      BY <3>1, <3>2, <3>3
  <2>3. ASSUME NEW g \in Group, NEW p \in Part
        PROVE  sizes'[g][p] = IF g = Referrer THEN Cardinality(Sized(refs, p)') ELSE 0
    <3>1. sizes[g][p] = IF g = Referrer THEN Cardinality(Sized(refs, p)) ELSE 0
      BY <1>2 DEF SizesOK, Scanning
    <3>2. g \in DOMAIN sizes
      BY DEF TypeOK
    <3>3. CASE g # Referrer
      BY <2>1, <3>1, <3>2, <3>3
    <3>4. CASE g = Referrer
      <4>1. sizes'[g][p] = sizes[g][p] + RefSize(r, p)
        BY <1>1, <2>1, <3>2, <3>4 DEF Plus, RefSize
      <4>2. \A q \in refs \cup {r} : q.sym \in Symbol
        BY <1>2 DEF TypeOK, Reference
      <4>3. Sized(refs, p)' = Sized(refs \cup {r}, p)
        <5>1. {q \in refs \cup {r} : RefSize(q, p)' = 1} = Sized(refs \cup {r}, p)
          BY <1>2, <2>2, <4>2, SizedKept
        <5> QED
          BY <1>2, <5>1 DEF Sized
      <4>4. Cardinality(Sized(refs \cup {r}, p)) = Cardinality(Sized(refs, p)) + RefSize(r, p)
        BY <1>2, SizedAdded DEF ScanInv
      <4> QED
        BY <3>1, <3>4, <4>1, <4>3, <4>4
    <3> QED
      BY <3>3, <3>4
  <2> QED
    BY <2>1, <2>3 DEF SizesOK, Scanning
<1> QED
  BY <1>3, <1>4

LEMMA SizesMark ==
    ASSUME TypeOK, ScanInv, SizesOK, NEW s \in Symbol, MarkUsed(s) \/ ExportDynamic(s)
    PROVE  SizesOK'
<1>1. /\ link' = link /\ refs' = refs /\ sizes' = sizes /\ phase = "scan" /\ phase' = phase
      /\ \E x \in {"DIRECT", "EXPORT_DYNAMIC"} : flags' = [flags EXCEPT ![s] = @ \cup {x}]
  BY DEF MarkUsed, ExportDynamic
<1>2. \A t \in Symbol : flags'[t] \cap StaticFlag = flags[t] \cap StaticFlag
  BY <1>1 DEF TypeOK, StaticFlag
<1>3. \A q \in refs : q.sym \in Symbol
  BY DEF TypeOK, Reference
<1>4. ASSUME NEW p PROVE Sized(refs, p)' = Sized(refs, p)
  <2>1. {q \in refs : RefSize(q, p)' = 1} = Sized(refs, p)
    BY <1>1, <1>2, <1>3, SizedKept
  <2> QED
    BY <1>1, <2>1 DEF Sized
<1> QED
  BY <1>1, <1>4 DEF SizesOK, Scanning

\* The scan is over: the relocations have their entries, the prelude and the symbols get theirs.
LEMMA SizesFinalise ==
    ASSUME TypeOK, ScanInv, SizesOK, FinaliseSizes
    PROVE  SizesOK'
<1>1. /\ UNCHANGED <<link, flags, refs, usesTlsld>> /\ phase = "scan" /\ phase' = "layout"
      /\ \A s \in Symbol : MustExport(s) => s \in defs
      /\ defs' = defs \cup {s \in Symbol : "COPY_RELOCATION" \in flags[s]}
  BY DEF FinaliseSizes
<1>2. ASSUME NEW s \in Symbol PROVE (MustExport(s) \/ "COPY_RELOCATION" \in flags[s] => s \in defs)'
  BY <1>1, InputSame
<1>3. ASSUME NEW p PROVE Sized(refs, p)' = Sized(refs, p)
  <2>1. {q \in refs : RefSize(q, p)' = 1} = Sized(refs, p)
    BY <1>1, SizedKept
  <2> QED
    BY <1>1, <2>1 DEF Sized
<1>4. ASSUME NEW g \in Group, NEW p \in Part
      PROVE  (sizes[g][p] = (IF g = Referrer THEN Cardinality(Sized(refs, p)) ELSE 0)
                            + (IF g = Prelude THEN AllocatePrelude[p] ELSE 0)
                            + Total(NumSymbols, SymbolSizes(g, p)))'
  <2>1. sizes'[g][p] = sizes[g][p] + (IF g = Prelude THEN AllocatePrelude[p] ELSE 0)
                       + Total(NumSymbols, SymbolSizes(g, p))
    BY Zenon DEF FinaliseSizes, SymbolSizes
  <2>2. sizes[g][p] = IF g = Referrer THEN Cardinality(Sized(refs, p)) ELSE 0
    BY <1>1 DEF SizesOK, Scanning
  <2>3. AllocatePrelude' = AllocatePrelude /\ SymbolSizes(g, p)' = SymbolSizes(g, p)
    BY <1>1, AllocationKept
  <2>4. Total(NumSymbols, SymbolSizes(g, p))' = Total(NumSymbols, SymbolSizes(g, p))
    BY <2>3
  <2> QED
    BY <1>3, <2>1, <2>2, <2>3, <2>4
<1> QED
  BY <1>1, <1>2, <1>4, Zenon DEF SizesOK, Scanning

\* Nothing is decided again after the sizes are final.
LEMMA SizesSame ==
    ASSUME SizesOK, UNCHANGED <<link, flags, defs, refs, usesTlsld, sizes>>, ~Scanning, ~Scanning'
    PROVE  SizesOK'
<1>1. \A s : MustExport(s)' = MustExport(s)
  BY InputSame
<1>2. ASSUME NEW p PROVE Sized(refs, p)' = Sized(refs, p)
  <2>1. {q \in refs : RefSize(q, p)' = 1} = Sized(refs, p)
    BY SizedKept
  <2> QED
    BY <2>1 DEF Sized
<1>3. AllocatePrelude' = AllocatePrelude /\ \A g, p : SymbolSizes(g, p)' = SymbolSizes(g, p)
  BY AllocationKept
<1>4. ASSUME NEW g \in Group, NEW p \in Part
      PROVE  (sizes[g][p] = (IF g = Referrer THEN Cardinality(Sized(refs, p)) ELSE 0)
                            + (IF g = Prelude THEN AllocatePrelude[p] ELSE 0)
                            + Total(NumSymbols, SymbolSizes(g, p)))'
  <2>1. sizes[g][p] = (IF g = Referrer THEN Cardinality(Sized(refs, p)) ELSE 0)
                      + (IF g = Prelude THEN AllocatePrelude[p] ELSE 0)
                      + Total(NumSymbols, SymbolSizes(g, p))
    BY Zenon DEF SizesOK
  <2>2. Total(NumSymbols, SymbolSizes(g, p))' = Total(NumSymbols, SymbolSizes(g, p))
    BY <1>3
  <2> QED
    BY <1>2, <1>3, <2>1, <2>2
<1>5. ASSUME NEW s \in Symbol PROVE (MustExport(s) \/ "COPY_RELOCATION" \in flags[s] => s \in defs)'
  BY <1>1 DEF SizesOK
<1> QED
  BY <1>4, <1>5, Zenon DEF SizesOK

LEMMA AddressesCreated ==
    ASSUME CreateResolutions
    PROVE  AddressesOK'
<1>1. flags' = flags /\ sizes' = sizes
  BY DEF CreateResolutions
<1>2. \A g : GotStart(g)' = GotStart(g) /\ GotCounts(g)' = GotCounts(g)
  BY <1>1 DEF GotStart, GotCounts
<1>3. ASSUME NEW s \in Symbol
      PROVE  /\ plt'[s] = ("PLT" \in flags[s])
             /\ got'[s] = IF GotCount(flags[s]) = 0 THEN 0
                          ELSE GotStart(Home[s]) + Total(s - 1, GotCounts(Home[s]))
  BY Zenon DEF CreateResolutions, GotCounts
<1>4. ASSUME NEW s \in Symbol
      PROVE  (/\ plt[s] = ("PLT" \in flags[s])
              /\ got[s] = IF GotCount(flags[s]) = 0 THEN 0
                          ELSE GotStart(Home[s]) + Total(s - 1, GotCounts(Home[s])))'
  BY <1>1, <1>2, <1>3
<1> QED
  BY <1>4, Zenon DEF AddressesOK, GotCounts

LEMMA AddressesSame ==
    ASSUME AddressesOK, UNCHANGED <<flags, sizes, got, plt>>, Addressed
    PROVE  AddressesOK'
<1>1. \A g : GotStart(g)' = GotStart(g) /\ GotCounts(g)' = GotCounts(g)
  BY DEF GotStart, GotCounts
<1>2. ASSUME NEW s \in Symbol
      PROVE  /\ plt[s] = ("PLT" \in flags[s])
             /\ got[s] = IF GotCount(flags[s]) = 0 THEN 0
                         ELSE GotStart(Home[s]) + Total(s - 1, GotCounts(Home[s]))
  BY Zenon DEF AddressesOK, GotCounts
<1>3. ASSUME NEW s \in Symbol
      PROVE  (/\ plt[s] = ("PLT" \in flags[s])
              /\ got[s] = IF GotCount(flags[s]) = 0 THEN 0
                          ELSE GotStart(Home[s]) + Total(s - 1, GotCounts(Home[s])))'
  BY <1>1, <1>2
<1> QED
  BY <1>3, Zenon DEF AddressesOK, GotCounts

\* After the scan its results do not change.
LEMMA WriteKeeps ==
    ASSUME Laid,
           WritePrelude \/ WriteResolution \/ ValidateEmpty \/ \E r \in todo : ApplyRelocation(r)
    PROVE  /\ UNCHANGED <<link, flags, defs, refs, usesTlsld, sizes, got, plt>>
           /\ phase \in {"prelude", "write"}
           /\ phase' \in {"write", "done"} \cup Failure
<1>1. CASE WritePrelude
  BY <1>1 DEF WritePrelude, Take, Failure
<1>2. CASE WriteResolution
  <2>1. next \in Symbol
    BY <1>2 DEF WriteResolution
  <2>2. ProcessResolution(next).error \in {"ok", "missing", "static_tlsdesc"}
    BY <2>1, SymbolWritten DEF WellFormed
  <2> QED
    BY <1>2, <2>2 DEF WriteResolution, Take, Failure
<1>3. CASE ValidateEmpty
  BY <1>3 DEF ValidateEmpty, Failure
<1>4. ASSUME NEW r \in todo, ApplyRelocation(r)
      PROVE  /\ UNCHANGED <<link, flags, defs, refs, usesTlsld, sizes, got, plt>>
             /\ phase \in {"prelude", "write"}
             /\ phase' \in {"write", "done"} \cup Failure
  <2>1. r \in refs
    BY DEF Laid, TypeOK
  <2>2. Result(r).error \in {"ok", "missing"}
    BY <2>1, RelocationWritten
  <2> QED
    BY <1>4, <2>2, ApplyIs DEF Take, Failure
<1> QED
  BY <1>1, <1>2, <1>3, <1>4

-----------------------------------------------------------------------------
(* What the writers have left *)

LEMMA StillToWrite ==
    ASSUME TypeOK, IsFiniteSet(refs), NEW g \in Group, NEW p \in Part
    PROVE  LET size == SymbolSizes(g, p)
           IN  /\ Total(0, size) = 0 /\ Total(NumSymbols, size) \in Nat
               /\ Total(next - 1, size) \in Nat /\ Total(next - 1, size) <= Total(NumSymbols, size)
               /\ next \in Symbol =>
                    /\ size[next] = IF Home[next] = g THEN AllocateSymbol(flags[next])[p] ELSE 0
                    /\ size[next] \in Nat
                    /\ Total(next, size) = Total(next - 1, size) + size[next]
                    /\ Total(next, size) <= Total(NumSymbols, size)
               /\ IsFiniteSet(todo) /\ Cardinality(Sized(todo, p)) \in Nat
<1> DEFINE size == SymbolSizes(g, p)
<1>1. NumSymbols \in Nat /\ next \in 1 .. NumSymbols + 1
  BY SymbolsAssumption DEF TypeOK
<1>2. size \in [1 .. NumSymbols -> Nat]
  BY AllocatedTyped
<1>3. next \in Symbol =>
        size[next] = IF Home[next] = g THEN AllocateSymbol(flags[next])[p] ELSE 0
  BY DEF SymbolSizes
<1>4. IsFiniteSet(todo) /\ Cardinality(Sized(todo, p)) \in Nat
  BY FS_Subset, SizedFinite DEF TypeOK
<1> HIDE DEF size
<1>5. /\ Total(0, size) = 0
      /\ \A n \in 0 .. NumSymbols : Total(n, size) \in Nat
      /\ \A n \in 1 .. NumSymbols : Total(n, size) = Total(n - 1, size) + size[n]
  BY <1>1, <1>2, TotalSums
<1>6. \A m \in 0 .. NumSymbols : Total(m, size) <= Total(NumSymbols, size)
  BY <1>1, <1>2, TotalGrows
<1>7. next - 1 \in 0 .. NumSymbols /\ NumSymbols \in 0 .. NumSymbols
      /\ (next \in Symbol => next \in 1 .. NumSymbols /\ next \in 0 .. NumSymbols)
  BY <1>1 DEF Symbol
<1> QED
  BY <1>2, <1>3, <1>4, <1>5, <1>6, <1>7 DEF size

LEMMA SupportedKept ==
    ASSUME UNCHANGED <<link, refs>>
    PROVE  Supported' = Supported
  BY InputSame DEF Supported

LEMMA LeftCreated ==
    ASSUME LeftOK, CreateResolutions
    PROVE  LeftOK'
  BY DEF LeftOK, CreateResolutions

\* The pair of entries of the prelude is what it was given.
LEMMA PreludeTakes ==
    ASSUME Laid, LeftOK, WritePrelude
    PROVE  /\ phase' = "write" /\ todo' = refs /\ next' = 1
           /\ left' \in [Group -> [Part -> Nat]]
           /\ \A g \in Group, p \in Part :
                left'[g][p] + (IF g = Prelude THEN AllocatePrelude[p] ELSE 0) = sizes[g][p]
<1> DEFINE out == IF IsExecutable(kind) THEN Output(<<"module", "dtpoff">>, {}, "ok")
                  ELSE Output(<<"zero", "zero">>, General(0, "dtpmod"), "ok")
           demand == [Nothing EXCEPT !["GOT"] = 2,
                                     !["RELA_DYN_GENERAL"] = Cardinality(out.rels)]
<1>1. /\ phase = "prelude" /\ left = sizes /\ todo' = refs /\ next' = 1
      /\ sizes \in [Group -> [Part -> Nat]]
  BY DEF WritePrelude, LeftOK, Laid, TypeOK
<1>2. Part = {"GOT", "PLT_GOT", "RELA_PLT", "RELA_DYN_GENERAL", "RELA_DYN_RELATIVE", "RELR_DYN"}
      /\ Prelude \in Group /\ Prelude # Referrer
  BY DEF Part, Prelude, Group, Referrer
<1>3. CASE ~usesTlsld
  <2>1. \A p \in Part : AllocatePrelude[p] = 0
    BY <1>2, <1>3 DEF AllocatePrelude, Count, Nothing
  <2>2. phase' = "write" /\ left' = left
    BY <1>3 DEF WritePrelude
  <2> QED
    BY <1>1, <2>1, <2>2
<1>4. CASE usesTlsld
  <2>1. Cardinality(out.rels) = Count(~IsExecutable(kind))
    <3>1. CASE IsExecutable(kind)
      <4>1. out = Output(<<"module", "dtpoff">>, {}, "ok")
        BY <3>1, Zenon
      <4>2. out.rels = {}
        BY <4>1, OutputIs
      <4> QED
        BY <3>1, <4>2, FS_EmptySet DEF Count
    <3>2. CASE ~IsExecutable(kind)
      <4>1. out = Output(<<"zero", "zero">>, General(0, "dtpmod"), "ok")
        BY <3>2, Zenon
      <4>2. out.rels = {[at |-> 0, part |-> "RELA_DYN_GENERAL", rel |-> "dtpmod"]}
        BY <4>1, OutputIs DEF General
      <4> QED
        BY <3>2, <4>2, FS_Singleton DEF Count
    <3> QED
      BY <3>1, <3>2
  <2>2. Take(Prelude, demand, "ok", "write")
    BY <1>4, Zenon DEF WritePrelude
  <2>3. \A p \in Part : demand[p] = AllocatePrelude[p] /\ AllocatePrelude[p] \in Nat
    <3>1. PICK c \in Nat : c = Cardinality(out.rels) /\ c = Count(~IsExecutable(kind))
      BY <2>1 DEF Count
    <3>2. Count(usesTlsld) = 1 /\ Count(usesTlsld /\ ~IsExecutable(kind)) = c
      BY <1>4, <3>1 DEF Count
    <3>3. demand = [Nothing EXCEPT !["GOT"] = 2, !["RELA_DYN_GENERAL"] = c]
      BY <3>1
    <3>4. AllocatePrelude = [Nothing EXCEPT !["GOT"] = 2 * 1, !["RELA_DYN_GENERAL"] = c]
      BY <3>2, Zenon DEF AllocatePrelude
    <3> QED
      BY <1>2, <3>3, <3>4, <3>1 DEF Nothing
  <2> HIDE DEF demand
  <2>4. \A p \in Part : AllocatePrelude[p] <= sizes[Prelude][p]
    <3> SUFFICES ASSUME NEW p \in Part PROVE AllocatePrelude[p] <= sizes[Prelude][p]
      OBVIOUS
    <3>1. sizes[Prelude][p] = 0 + AllocatePrelude[p] + Total(NumSymbols, SymbolSizes(Prelude, p))
      BY <1>2 DEF Laid, SizesOK, Addressed, Scanning
    <3>2. Total(NumSymbols, SymbolSizes(Prelude, p)) \in Nat
      BY <1>2, StillToWrite DEF Laid
    <3> QED
      BY <2>3, <3>1, <3>2
  <2>5. Fits(Prelude, demand)
    BY <1>1, <2>3, <2>4 DEF Fits
  <2>6. /\ phase' = "write"
        /\ left' = [left EXCEPT ![Prelude] = [p \in Part |-> @[p] - demand[p]]]
    BY <2>2, <2>5 DEF Take
  <2>7. \A p \in Part : left'[Prelude][p] = sizes[Prelude][p] - AllocatePrelude[p]
    BY <1>1, <1>2, <2>3, <2>6
  <2>8. \A g \in Group : g # Prelude => left'[g] = sizes[g]
    BY <1>1, <2>6
  <2>9. left' \in [Group -> [Part -> Nat]]
    BY <1>1, <1>2, <2>3, <2>4, <2>6
  <2> QED
    BY <1>1, <1>2, <2>3, <2>4, <2>6, <2>7, <2>8, <2>9
<1> QED
  BY <1>3, <1>4

LEMMA LeftNext ==
    ASSUME UNCHANGED <<link, flags>>, NEW g, NEW p, NEW rels, rels = todo'
    PROVE  LeftIs(g, p)' <=>
             left'[g][p] + Total(next' - 1, SymbolSizes(g, p)) =
                 Total(NumSymbols, SymbolSizes(g, p))
                 + (IF g = Referrer THEN Cardinality(Sized(rels, p)) ELSE 0)
<1>1. SymbolSizes(g, p)' = SymbolSizes(g, p)
  BY AllocationKept
<1>2. {q \in rels : RefSize(q, p)' = 1} = Sized(rels, p)
  BY SizedKept
<1>3. Sized(todo, p)' = Sized(rels, p)
  BY <1>2 DEF Sized
<1> QED
  BY <1>1, <1>3, Zenon DEF LeftIs

LEMMA LeftPrelude ==
    ASSUME Laid, LeftOK, WritePrelude
    PROVE  /\ LeftOK' /\ left' \in [Group -> [Part -> Nat]] /\ phase' = "write"
           /\ \A g \in Group, p \in Part : LeftIs(g, p)'
<1>1. /\ phase' = "write" /\ todo' = refs /\ next' = 1 /\ left' \in [Group -> [Part -> Nat]]
      /\ UNCHANGED <<link, flags>>
      /\ \A g \in Group, p \in Part :
           left'[g][p] + (IF g = Prelude THEN AllocatePrelude[p] ELSE 0) = sizes[g][p]
  BY PreludeTakes DEF WritePrelude
<1>2. ASSUME NEW g \in Group, NEW p \in Part PROVE LeftIs(g, p)'
  <2>1. sizes[g][p] = (IF g = Referrer THEN Cardinality(Sized(refs, p)) ELSE 0)
                      + (IF g = Prelude THEN AllocatePrelude[p] ELSE 0)
                      + Total(NumSymbols, SymbolSizes(g, p))
    BY Zenon DEF Laid, SizesOK, Addressed, Scanning
  <2>2. Total(0, SymbolSizes(g, p)) = 0 /\ Total(NumSymbols, SymbolSizes(g, p)) \in Nat
    BY StillToWrite DEF Laid
  <2>3. AllocatePrelude[p] \in Nat /\ Cardinality(Sized(refs, p)) \in Nat
    BY AllocatedTyped, SizedFinite DEF Laid
  <2>4. /\ left'[g][p] \in Nat
        /\ left'[g][p] + (IF g = Prelude THEN AllocatePrelude[p] ELSE 0) = sizes[g][p]
    BY <1>1
  <2>5. left'[g][p] + Total(0, SymbolSizes(g, p)) =
          Total(NumSymbols, SymbolSizes(g, p))
          + (IF g = Referrer THEN Cardinality(Sized(refs, p)) ELSE 0)
    <3>1. PICK c, q, t, m \in Nat :
            /\ c = IF g = Referrer THEN Cardinality(Sized(refs, p)) ELSE 0
            /\ q = IF g = Prelude THEN AllocatePrelude[p] ELSE 0
            /\ t = Total(NumSymbols, SymbolSizes(g, p)) /\ m = left'[g][p]
      BY <2>2, <2>3, <2>4
    <3>2. sizes[g][p] = c + q + t /\ m + q = sizes[g][p]
      BY <2>1, <2>4, <3>1
    <3> QED
      BY <2>2, <3>1, <3>2
  <2>6. next' - 1 = 0
    BY <1>1
  <2> QED
    BY <1>1, <2>5, <2>6, LeftNext
<1> QED
  BY <1>1, <1>2 DEF LeftOK

\* Taking what a writer has left.
LEMMA TakeIs ==
    ASSUME left \in [Group -> [Part -> Nat]], NEW g \in Group, NEW demand,
           \A p \in Part : demand[p] \in Nat, NEW err, Take(g, demand, err, "write")
    PROVE  /\ left' \in [Group -> [Part -> Nat]]
           /\ err = "ok" /\ (\A p \in Part : demand[p] <= left[g][p]) => phase' = "write"
           /\ phase' = "write" /\ err # "write" =>
                /\ \A p \in Part : left[g][p] = left'[g][p] + demand[p]
                /\ \A h \in Group : h # g => left'[h] = left[h]
<1>1. /\ phase' = CASE err # "ok" -> err
                    [] err = "ok" /\ ~Fits(g, demand) -> "short"
                    [] OTHER -> "write"
      /\ left' = IF err = "ok" /\ Fits(g, demand)
                 THEN [left EXCEPT ![g] = [p \in Part |-> @[p] - demand[p]]] ELSE left
  BY Zenon DEF Take
<1>2. Fits(g, demand) <=> \A p \in Part : demand[p] <= left[g][p]
  BY DEF Fits
<1>3. CASE err # "ok"
  BY <1>1, <1>3
<1>4. CASE err = "ok" /\ ~Fits(g, demand)
  BY <1>1, <1>2, <1>4
<1>5. CASE err = "ok" /\ Fits(g, demand)
  <2>1. phase' = "write" /\ left' = [left EXCEPT ![g] = [p \in Part |-> left[g][p] - demand[p]]]
    BY <1>1, <1>5
  <2>2. [p \in Part |-> left[g][p] - demand[p]] \in [Part -> Nat]
    BY <1>2, <1>5
  <2>3. left' \in [Group -> [Part -> Nat]]
    BY <2>1, <2>2
  <2>4. \A p \in Part : left'[g][p] = left[g][p] - demand[p]
    BY <2>1
  <2>5. \A p \in Part : left[g][p] = left'[g][p] + demand[p]
    BY <2>4
  <2> QED
    BY <2>1, <2>3, <2>5
<1> QED
  BY <1>3, <1>4, <1>5

LEMMA FailsUnsupported ==
    ASSUME UNCHANGED <<link, refs>>, Supported => phase' \notin Failure
    PROVE  OnlyUnsupportedFails'
<1>1. Supported' = Supported
  BY SupportedKept
<1> QED
  BY <1>1 DEF OnlyUnsupportedFails, Supported

LEMMA LeftRelocation ==
    ASSUME Laid, LeftOK, NEW r \in todo, ApplyRelocation(r)
    PROVE  LeftOK' /\ left' \in [Group -> [Part -> Nat]] /\ OnlyUnsupportedFails'
<1>1. r \in refs /\ todo \subseteq refs /\ TypeOK /\ left \in [Group -> [Part -> Nat]]
      /\ Referrer \in Group
  BY DEF Laid, TypeOK, Referrer, Group
<1>2. PICK res : res = Result(r)
  OBVIOUS
<1>3. /\ res.error \in {"ok", "missing"} /\ res.part \notin PltPart
      /\ \A p \in PltPart : RefSize(r, p) = 0
      /\ ~Unsupported(r) => res.error = "ok" /\ \A p \in Part : RefSize(r, p) = Count(p = res.part)
  BY <1>1, <1>2, RelocationWritten
<1>4. /\ phase = "write" /\ todo' = todo \ {r}
      /\ Take(Referrer, [p \in Part |-> Count(p = res.part)], res.error, "write")
      /\ UNCHANGED <<link, flags, refs, next>>
  BY <1>2, ApplyIs
<1>5. PICK demand : demand = [p \in Part |-> Count(p = res.part)]
  OBVIOUS
<1>6. \A p \in Part : demand[p] \in {0, 1} /\ demand[p] = Count(p = res.part)
  BY <1>5 DEF Count
<1>7. \A p \in Part : p \in PltPart \/ Supported => demand[p] = RefSize(r, p)
  <2> SUFFICES ASSUME NEW p \in Part, p \in PltPart \/ Supported PROVE demand[p] = RefSize(r, p)
    OBVIOUS
  <2>1. CASE p \in PltPart
    <3>1. p # res.part
      BY <1>3, <2>1
    <3>2. Count(p = res.part) = 0
      BY <3>1 DEF Count
    <3> QED
      BY <1>3, <1>6, <2>1, <3>2
  <2>2. CASE Supported
    BY <1>1, <1>3, <1>6, <2>2 DEF Supported
  <2> QED
    BY <2>1, <2>2
<1>8. Take(Referrer, demand, res.error, "write")
  BY <1>4, <1>5
<1>9. /\ left' \in [Group -> [Part -> Nat]]
      /\ res.error = "ok" /\ (\A p \in Part : demand[p] <= left[Referrer][p]) => phase' = "write"
      /\ phase' = "write" =>
           /\ \A p \in Part : left[Referrer][p] = left'[Referrer][p] + demand[p]
           /\ \A h \in Group : h # Referrer => left'[h] = left[h]
      /\ phase' \in {"write", "short", "missing"}
  <2>1. \A p \in Part : demand[p] \in Nat
    BY <1>6
  <2>2. phase' \in {"write", "short", "missing"}
    BY <1>3, <1>8 DEF Take
  <2> QED
    BY <1>1, <1>3, <1>8, <2>1, <2>2, TakeIs
<1>10. ASSUME NEW g \in Group, NEW p \in Part, p \in PltPart \/ Supported
       PROVE  /\ g = Referrer => demand[p] <= left[g][p]
              /\ phase' = "write" => LeftIs(g, p)'
  <2>1. LeftIs(g, p)
    BY <1>4, <1>10 DEF LeftOK
  <2>2. PICK t, m, c \in Nat : /\ t = Total(NumSymbols, SymbolSizes(g, p))
                               /\ m = Total(next - 1, SymbolSizes(g, p))
                               /\ c = Cardinality(Sized(todo, p)) /\ m <= t
    BY <1>1, StillToWrite DEF Laid
  <2>3. PICK rels : rels = todo \ {r}
    OBVIOUS
  <2>4. IsFiniteSet(todo) /\ IsFiniteSet(rels)
    BY <1>1, <2>3, FS_Subset DEF Laid
  <2>5. PICK d \in Nat : d = Cardinality(Sized(rels, p))
    BY <2>4, SizedFinite
  <2>6. c = d + demand[p] /\ demand[p] \in Nat
    <3>1. Cardinality(Sized(todo, p)) = Cardinality(Sized(rels, p)) + RefSize(r, p)
      BY <2>3, <2>4, SizedAdded
    <3> QED
      BY <1>6, <1>7, <1>10, <2>2, <2>5, <3>1
  <2>7. left[g][p] + m = t + (IF g = Referrer THEN c ELSE 0)
    BY <2>1, <2>2 DEF LeftIs
  <2>8. left[g][p] \in Nat /\ left'[g][p] \in Nat
    BY <1>1, <1>9
  <2>9. ASSUME phase' = "write" PROVE LeftIs(g, p)'
    <3>1. left[g][p] = left'[g][p] + (IF g = Referrer THEN demand[p] ELSE 0)
      BY <1>9, <2>8, <2>9
    <3>2. left'[g][p] + m = t + (IF g = Referrer THEN d ELSE 0)
      BY <2>6, <2>7, <2>8, <3>1
    <3>3. LeftIs(g, p)' <=>
            left'[g][p] + Total(next' - 1, SymbolSizes(g, p)) =
                Total(NumSymbols, SymbolSizes(g, p))
                + (IF g = Referrer THEN Cardinality(Sized(rels, p)) ELSE 0)
      BY <1>4, <2>3, LeftNext
    <3> QED
      BY <1>4, <2>2, <2>5, <3>2, <3>3
  <2> QED
    BY <2>2, <2>6, <2>7, <2>8, <2>9
<1>11. Supported => phase' = "write"
  <2> SUFFICES ASSUME Supported PROVE phase' = "write"
    OBVIOUS
  <2>1. \A p \in Part : demand[p] <= left[Referrer][p]
    BY <1>1, <1>10
  <2> QED
    BY <1>1, <1>3, <1>9, <2>1 DEF Supported
<1>12. OnlyUnsupportedFails'
  BY <1>4, <1>11, FailsUnsupported DEF Failure
<1>13. LeftOK'
  <2>1. Supported' = Supported
    BY <1>4, SupportedKept
  <2> QED
    BY <1>9, <1>10, <2>1 DEF LeftOK
<1> QED
  BY <1>9, <1>12, <1>13

\* WriteResolution in terms of the demand of its symbol.
LEMMA ResolutionIs ==
    ASSUME WriteResolution
    PROVE  /\ phase = "write" /\ todo = {} /\ next \in Symbol
           /\ Take(Home[next], Demand(next), ProcessResolution(next).error, "write")
           /\ entry' = EntriesWith(Home[next], next, got[next], ProcessResolution(next))
           /\ next' = next + 1
           /\ UNCHANGED <<link, flags, defs, refs, usesTlsld, sizes, got, plt, todo, word>>
  BY Zenon DEF WriteResolution, Demand, InTable

LEMMA LeftResolution ==
    ASSUME Laid, LeftOK, WriteResolution
    PROVE  LeftOK' /\ left' \in [Group -> [Part -> Nat]] /\ OnlyUnsupportedFails'
<1>1. /\ phase = "write" /\ todo = {} /\ todo' = {} /\ next' = next + 1
      /\ UNCHANGED <<link, flags, refs>>
  BY ResolutionIs
<1>2. PICK s, g, demand, err : /\ s = next /\ g = Home[s] /\ demand = Demand(s)
                               /\ err = ProcessResolution(s).error
  OBVIOUS
<1>3. s \in Symbol /\ Take(g, demand, err, "write")
  BY <1>2, ResolutionIs
<1>4. g \in Group /\ s \in Nat
  BY <1>2, <1>3, SymbolsAssumption DEF Symbol
<1>5. /\ err \in {"ok", "missing", "static_tlsdesc"}
      /\ \A p \in Part : demand[p] \in Nat
      /\ \A p \in PltPart : demand[p] = AllocateSymbol(flags[s])[p]
  BY <1>2, <1>3, SymbolWritten DEF WellFormed
<1>6. Supported => err = "ok" /\ \A p \in Part : demand[p] = AllocateSymbol(flags[s])[p]
  BY <1>2, <1>3, SymbolSupported
<1>7. TypeOK /\ IsFiniteSet(refs) /\ left \in [Group -> [Part -> Nat]]
  BY DEF Laid, TypeOK
<1>8. /\ left' \in [Group -> [Part -> Nat]]
      /\ err = "ok" /\ (\A p \in Part : demand[p] <= left[g][p]) => phase' = "write"
      /\ phase' = "write" =>
           /\ \A p \in Part : left[g][p] = left'[g][p] + demand[p]
           /\ \A h \in Group : h # g => left'[h] = left[h]
      /\ phase' \in {"write", "short", "missing", "static_tlsdesc"}
  <2>1. phase' \in {"write", "short", "missing", "static_tlsdesc"}
    BY <1>3, <1>5 DEF Take
  <2> QED
    BY <1>3, <1>4, <1>5, <1>7, <2>1, TakeIs
<1>9. ASSUME NEW h \in Group, NEW p \in Part, p \in PltPart \/ Supported
      PROVE  /\ h = g => demand[p] <= left[h][p]
             /\ phase' = "write" => LeftIs(h, p)'
  <2>1. LeftIs(h, p)
    BY <1>1, <1>9 DEF LeftOK
  <2>2. PICK size : size = SymbolSizes(h, p)
    OBVIOUS
  <2>3. /\ Total(NumSymbols, size) \in Nat /\ Total(s - 1, size) \in Nat
        /\ size[s] = IF Home[s] = h THEN AllocateSymbol(flags[s])[p] ELSE 0
        /\ size[s] \in Nat
        /\ Total(s, size) = Total(s - 1, size) + size[s]
        /\ Total(s, size) <= Total(NumSymbols, size)
    BY <1>2, <1>3, <1>7, <2>2, StillToWrite, Zenon
  <2>4. PICK t, m, n, k \in Nat : /\ t = Total(NumSymbols, size) /\ m = Total(s - 1, size)
                                  /\ n = Total(s, size) /\ k = size[s]
    BY <2>3
  <2>5. n = m + k /\ n <= t /\ k = IF h = g THEN demand[p] ELSE 0
    <3>1. demand[p] = AllocateSymbol(flags[s])[p]
      BY <1>5, <1>6, <1>9
    <3> QED
      BY <1>2, <2>3, <2>4, <3>1
  <2>6. Cardinality(Sized({}, p)) = 0
    <3>1. Sized({}, p) = {}
      BY DEF Sized
    <3> QED
      BY <3>1, FS_EmptySet
  <2>7. left[h][p] + m = t
    BY <1>1, <1>2, <2>1, <2>2, <2>4, <2>6 DEF LeftIs
  <2>8. left[h][p] \in Nat /\ left'[h][p] \in Nat
    BY <1>7, <1>8
  <2>9. ASSUME phase' = "write" PROVE LeftIs(h, p)'
    <3>1. left[h][p] = left'[h][p] + k
      BY <1>8, <2>5, <2>8, <2>9
    <3>2. left'[h][p] + n = t
      BY <2>5, <2>7, <2>8, <3>1
    <3>3. LeftIs(h, p)' <=>
            left'[h][p] + Total(next' - 1, SymbolSizes(h, p)) =
                Total(NumSymbols, SymbolSizes(h, p))
                + (IF h = Referrer THEN Cardinality(Sized({}, p)) ELSE 0)
      BY <1>1, LeftNext
    <3>4. next' - 1 = s
      BY <1>1, <1>2, <1>4
    <3> QED
      BY <2>2, <2>4, <2>6, <3>2, <3>3, <3>4
  <2> QED
    BY <2>5, <2>7, <2>8, <2>9
<1>10. Supported => phase' = "write"
  <2> SUFFICES ASSUME Supported PROVE phase' = "write"
    OBVIOUS
  <2>1. \A p \in Part : demand[p] <= left[g][p]
    BY <1>4, <1>9
  <2> QED
    BY <1>6, <1>8, <2>1
<1>11. OnlyUnsupportedFails'
  BY <1>1, <1>10, FailsUnsupported DEF Failure
<1>12. LeftOK'
  <2>1. Supported' = Supported
    BY <1>1, SupportedKept
  <2> QED
    BY <1>8, <1>9, <2>1 DEF LeftOK
<1> QED
  BY <1>8, <1>11, <1>12

\* Once everything is written, what is left of a table that was counted exactly is nothing.
LEMMA NothingLeft ==
    ASSUME TypeOK, IsFiniteSet(refs), LeftOK, todo = {}, next = NumSymbols + 1,
           phase \in {"write", "done"}
    PROVE  \A g \in Group, p \in Part : p \in PltPart \/ Supported => left[g][p] = 0
<1> SUFFICES ASSUME NEW g \in Group, NEW p \in Part, p \in PltPart \/ Supported
             PROVE  left[g][p] = 0
  OBVIOUS
<1>1. LeftIs(g, p)
  BY DEF LeftOK
<1>2. Total(NumSymbols, SymbolSizes(g, p)) \in Nat
  BY StillToWrite
<1>3. left[g][p] \in Nat
  BY DEF TypeOK
<1>4. Cardinality(Sized({}, p)) = 0
  <2>1. Sized({}, p) = {}
    BY DEF Sized
  <2> QED
    BY <2>1, FS_EmptySet
<1>5. next - 1 = NumSymbols
  BY SymbolsAssumption
<1> QED
  BY <1>1, <1>2, <1>3, <1>4, <1>5 DEF LeftIs

LEMMA LeftValidated ==
    ASSUME Laid, LeftOK, ValidateEmpty
    PROVE  LeftOK' /\ OnlyUnsupportedFails'
<1>1. /\ phase = "write" /\ todo = {} /\ next = NumSymbols + 1
      /\ phase' = IF \E g \in Group, p \in Part \ {"RELA_PLT", "PLT_GOT"} : left[g][p] > 0
                  THEN "excess" ELSE "done"
      /\ UNCHANGED <<link, flags, refs, left, todo, next>>
  BY DEF ValidateEmpty
<1>2. Supported => \A g \in Group, p \in Part : left[g][p] = 0
  BY <1>1, NothingLeft DEF Laid
<1>3. Supported => phase' = "done"
  BY <1>1, <1>2
<1>4. OnlyUnsupportedFails'
  BY <1>1, <1>3, FailsUnsupported DEF Failure
<1>5. ASSUME NEW g \in Group, NEW p \in Part, p \in PltPart \/ Supported
      PROVE  LeftIs(g, p)'
  <2>1. LeftIs(g, p)
    BY <1>1, <1>5 DEF LeftOK
  <2>2. LeftIs(g, p)' <=>
            left'[g][p] + Total(next' - 1, SymbolSizes(g, p)) =
                Total(NumSymbols, SymbolSizes(g, p))
                + (IF g = Referrer THEN Cardinality(Sized(todo, p)) ELSE 0)
    BY <1>1, LeftNext
  <2> QED
    BY <1>1, <2>1, <2>2 DEF LeftIs
<1>6. LeftOK'
  <2>1. Supported' = Supported /\ phase' \in {"done", "excess"}
    BY <1>1, SupportedKept
  <2> QED
    BY <1>1, <1>5, <2>1 DEF LeftOK
<1> QED
  BY <1>4, <1>6

-----------------------------------------------------------------------------
(* Types *)

LEMMA TypeProcess ==
    ASSUME TypeOK, ScanInv, NEW r \in Reference, ProcessRelocation(r)
    PROVE  TypeOK'
<1> DEFINE s == r.sym
           f == flags[s]
<1>1. PICK kd : kd = RelKind(r, f)
  OBVIOUS
<1>2. /\ Sensible(r) /\ s \in Symbol /\ refs' = refs \cup {r}
      /\ UNCHANGED <<link, defs, got, plt, entry, left, todo, word, next>>
  BY DEF ProcessRelocation, Reference
<1>3. CASE Bails(r, f, kd)
  <2>1. phase' = "bailed" /\ UNCHANGED <<flags, usesTlsld, sizes>>
    BY <1>1, <1>3 DEF ProcessRelocation
  <2> QED
    BY <1>2, <2>1 DEF TypeOK
<1>4. CASE ~Bails(r, f, kd)
  <2>1. /\ flags' = [flags EXCEPT ![s] = @ \cup FlagsToAdd(r, f, kd) \cup FirstRequestFlags(f)]
        /\ usesTlsld' = (usesTlsld \/ kd = "TlsLd")
        /\ sizes' = [sizes EXCEPT ![Referrer] = Plus(@, AllocatedForRelocation(r, f, kd))]
        /\ phase' = phase
    BY <1>1, <1>4 DEF ProcessRelocation
  <2>2. flags' \in [Symbol -> SUBSET (StaticFlag \cup ResolutionFlag)]
    <3>1. f \cap StaticFlag = Base(s)
      BY <1>2 DEF ScanInv, FlagsOK, SymbolOK
    <3>2. FlagsToAdd(r, f, kd) \subseteq ResolutionFlag
      BY <1>1, <1>2, <1>4, <3>1, AddedFlags
    <3>3. FirstRequestFlags(f) \subseteq ResolutionFlag
      BY DEF FirstRequestFlags, ResolutionFlag
    <3> QED
      BY <1>2, <2>1, <3>2, <3>3 DEF TypeOK
  <2>3. sizes' \in [Group -> [Part -> Nat]]
    <3>1. \A p \in Part : AllocatedForRelocation(r, f, kd)[p] \in Nat
      BY RefSizeIs
    <3>2. sizes \in [Group -> [Part -> Nat]] /\ Referrer \in Group
      BY DEF TypeOK, Referrer, Group
    <3>3. Plus(sizes[Referrer], AllocatedForRelocation(r, f, kd)) \in [Part -> Nat]
      BY <3>1, <3>2 DEF Plus
    <3> QED
      BY <2>1, <3>2, <3>3
  <2>4. usesTlsld' \in BOOLEAN
    BY <2>1 DEF TypeOK
  <2> QED
    BY <1>2, <2>1, <2>2, <2>3, <2>4 DEF TypeOK
<1> QED
  BY <1>3, <1>4

LEMMA TypeMark ==
    ASSUME TypeOK, NEW s \in Symbol, MarkUsed(s) \/ ExportDynamic(s)
    PROVE  TypeOK'
<1>1. /\ UNCHANGED <<link, refs, usesTlsld, sizes, got, plt, entry, left, todo, word, next, phase>>
      /\ defs' \subseteq defs \cup {s}
      /\ \E x \in {"DIRECT", "EXPORT_DYNAMIC"} : flags' = [flags EXCEPT ![s] = @ \cup {x}]
  BY DEF MarkUsed, ExportDynamic
<1>2. flags' \in [Symbol -> SUBSET (StaticFlag \cup ResolutionFlag)]
  BY <1>1 DEF TypeOK, ResolutionFlag
<1> QED
  BY <1>1, <1>2 DEF TypeOK

LEMMA TypeFinalise ==
    ASSUME TypeOK, IsFiniteSet(refs), FinaliseSizes
    PROVE  TypeOK'
<1>1. /\ UNCHANGED <<link, flags, refs, usesTlsld, got, plt, entry, left, todo, word, next>>
      /\ phase' = "layout"
      /\ defs' = defs \cup {s \in Symbol : "COPY_RELOCATION" \in flags[s]}
  BY DEF FinaliseSizes
<1>2. sizes' = [g \in Group |-> [p \in Part |->
                  sizes[g][p] + (IF g = Prelude THEN AllocatePrelude[p] ELSE 0)
                  + Total(NumSymbols, SymbolSizes(g, p))]]
  BY Zenon DEF FinaliseSizes, SymbolSizes
<1>3. ASSUME NEW g \in Group, NEW p \in Part
      PROVE  sizes[g][p] + (IF g = Prelude THEN AllocatePrelude[p] ELSE 0)
             + Total(NumSymbols, SymbolSizes(g, p)) \in Nat
  <2>1. sizes[g][p] \in Nat
    BY DEF TypeOK
  <2>2. AllocatePrelude[p] \in Nat /\ Total(NumSymbols, SymbolSizes(g, p)) \in Nat
    BY AllocatedTyped, StillToWrite
  <2> QED
    BY <2>1, <2>2
<1>4. sizes' \in [Group -> [Part -> Nat]]
  BY <1>2, <1>3
<1> QED
  BY <1>1, <1>4 DEF TypeOK

LEMMA TypeCreate ==
    ASSUME TypeOK, CreateResolutions
    PROVE  TypeOK'
<1>1. /\ UNCHANGED <<link, flags, defs, refs, usesTlsld, sizes, next>>
      /\ phase' = "prelude" /\ left' = sizes /\ todo' = refs
      /\ entry' = [i \in 1 .. GotStart(Referrer) + sizes[Referrer]["GOT"] - 1 |-> Unwritten]
      /\ word' = [r \in refs |-> Unwritten]
      /\ plt' = [s \in Symbol |-> "PLT" \in flags[s]]
  BY DEF CreateResolutions
<1>2. Unwritten \in Words
  BY DEF Unwritten, Words, Stored, Relocated
<1>3. got' = [s \in Symbol |-> IF GotCount(flags[s]) = 0 THEN 0
                               ELSE GotStart(Home[s]) + Total(s - 1, GotCounts(Home[s]))]
  BY Zenon DEF CreateResolutions, GotCounts
<1>4. ASSUME NEW s \in Symbol
      PROVE  GotStart(Home[s]) \in Nat /\ Total(s - 1, GotCounts(Home[s])) \in Nat
  <2>1. Home[s] \in Group /\ s - 1 \in 0 .. NumSymbols /\ NumSymbols \in Nat
    BY SymbolsAssumption DEF Symbol
  <2>2. PICK size : size = GotCounts(Home[s])
    OBVIOUS
  <2>3. size \in [1 .. NumSymbols -> Nat]
    BY <2>2, GotCountsAre
  <2>4. Total(s - 1, size) \in Nat
    BY <2>1, <2>3, TotalSums
  <2> QED
    BY <2>1, <2>2, <2>4, StartIsPositive
<1>5. got' \in [Symbol -> Nat]
  BY <1>3, <1>4
<1>6. plt' \in [Symbol -> BOOLEAN]
  BY <1>1
<1> QED
  BY <1>1, <1>2, <1>5, <1>6 DEF TypeOK

\* The GOT after an output.
LEMMA EntriesTyped ==
    ASSUME TypeOK, NEW g \in Group, NEW s \in Symbol \cup {0}, NEW at, NEW out,
           out.words \in Seq(Stored), \A x \in out.rels : x.rel \in Relocated
    PROVE  \A i \in DOMAIN EntriesWith(g, s, at, out) : EntriesWith(g, s, at, out)[i] \in Words
<1>1. PICK first : first = GotStart(g) + sizes[g]["GOT"] - left[g]["GOT"]
  OBVIOUS
<1>2. first \in Int
  <2>1. GotStart(g) \in Nat
    BY StartIsPositive
  <2>2. sizes[g]["GOT"] \in Nat /\ left[g]["GOT"] \in Nat
    BY DEF TypeOK, Part
  <2> QED
    BY <1>1, <2>1, <2>2
<1>3. PICK new : new = EntriesWith(g, s, at, out)
  OBVIOUS
<1>4. DOMAIN new = DOMAIN entry
  BY <1>3 DEF EntriesWith
<1>5. ASSUME NEW i \in DOMAIN entry PROVE new[i] \in Words
  <2>1. PICK rels : rels = {x \in out.rels : at + x.at = i}
    OBVIOUS
  <2>2. new[i] = [of |-> IF i \in first .. first + Len(out.words) - 1 THEN s ELSE entry[i].of,
                  word |-> IF i \in first .. first + Len(out.words) - 1
                           THEN out.words[i - first + 1] ELSE entry[i].word,
                  rel |-> IF rels # {} THEN (CHOOSE x \in rels : TRUE).rel ELSE entry[i].rel]
    BY <1>1, <1>3, <2>1, Zenon DEF EntriesWith
  <2>3. entry[i] \in Words
    BY DEF TypeOK
  <2>4. rels # {} => (CHOOSE x \in rels : TRUE).rel \in Relocated
    BY <2>1
  <2>5. i \in first .. first + Len(out.words) - 1 => out.words[i - first + 1] \in Stored
    <3> SUFFICES ASSUME i \in first .. first + Len(out.words) - 1
                 PROVE  out.words[i - first + 1] \in Stored
      OBVIOUS
    <3>1. i - first + 1 \in 1 .. Len(out.words)
      BY <1>2
    <3> QED
      BY <3>1
  <2> QED
    BY <2>2, <2>3, <2>4, <2>5 DEF Words
<1> QED
  BY <1>3, <1>4, <1>5

LEMMA TypePrelude ==
    ASSUME Laid, LeftOK, WritePrelude
    PROVE  TypeOK'
<1>1. /\ phase' = "write" /\ left' \in [Group -> [Part -> Nat]]
      /\ UNCHANGED <<link, flags, defs, refs, usesTlsld, sizes, got, plt, todo, word, next>>
  BY LeftPrelude DEF WritePrelude
<1>2. \A i \in DOMAIN entry' : entry'[i] \in Words
  <2>1. CASE ~usesTlsld
    BY <2>1 DEF WritePrelude, Laid, TypeOK
  <2>2. CASE usesTlsld
    <3>1. PICK out : /\ entry' = EntriesWith(Prelude, 0, 1, out)
                     /\ out = IF IsExecutable(kind) THEN Output(<<"module", "dtpoff">>, {}, "ok")
                              ELSE Output(<<"zero", "zero">>, General(0, "dtpmod"), "ok")
      BY <2>2, Zenon DEF WritePrelude
    <3>2. CASE IsExecutable(kind)
      <4>1. out.words = <<"module", "dtpoff">> /\ out.rels = {}
        BY <3>1, <3>2, OutputIs
      <4>2. out.words \in Seq(Stored)
        BY <4>1, TwoWords DEF Stored
      <4> QED
        BY <3>1, <4>1, <4>2, EntriesTyped DEF Laid, Prelude, Group
    <3>3. CASE ~IsExecutable(kind)
      <4>1. out.words = <<"zero", "zero">>
            /\ out.rels = {[at |-> 0, part |-> "RELA_DYN_GENERAL", rel |-> "dtpmod"]}
        BY <3>1, <3>3, OutputIs DEF General
      <4>2. out.words \in Seq(Stored) /\ \A x \in out.rels : x.rel \in Relocated
        <5>1. "zero" \in Stored /\ "dtpmod" \in Relocated
          BY DEF Stored, Relocated
        <5>2. <<"zero", "zero">> \in Seq(Stored)
          BY <5>1, TwoWords
        <5> QED
          BY <4>1, <5>1, <5>2
      <4>3. Prelude \in Group /\ TypeOK
        BY DEF Laid, Prelude, Group
      <4>4. \A i \in DOMAIN EntriesWith(Prelude, 0, 1, out) :
              EntriesWith(Prelude, 0, 1, out)[i] \in Words
        BY <4>2, <4>3, EntriesTyped
      <4> QED
        BY <3>1, <4>4
    <3> QED
      BY <3>2, <3>3
  <2> QED
    BY <2>1, <2>2 DEF Laid, TypeOK
<1> QED
  BY <1>1, <1>2 DEF Laid, TypeOK

LEMMA TypeRelocation ==
    ASSUME Laid, LeftOK, NEW r \in todo, ApplyRelocation(r)
    PROVE  TypeOK'
<1>1. /\ left' \in [Group -> [Part -> Nat]]
      /\ word' = [word EXCEPT ![r] = [of |-> r.sym, word |-> Result(r).word, rel |-> Result(r).rel]]
      /\ todo' = todo \ {r}
      /\ UNCHANGED <<link, flags, defs, refs, usesTlsld, sizes, got, plt, entry, next>>
  BY LeftRelocation, ApplyIs
<1>2. phase' \in {"write", "done"} \cup Failure
  BY WriteKeeps
<1>3. r \in refs /\ r.sym \in Symbol
  BY DEF Laid, TypeOK, Reference
<1>4. PICK w : w = [of |-> r.sym, word |-> Result(r).word, rel |-> Result(r).rel]
  OBVIOUS
<1>5. w \in Words
  <2>1. Result(r).word \in Stored /\ Result(r).rel \in Relocated
    BY <1>3, RelocationWritten
  <2> QED
    BY <1>3, <1>4, <2>1 DEF Words
<1>6. \A q \in DOMAIN word' : word'[q] \in Words
  <2>1. word' = [word EXCEPT ![r] = w] /\ \A q \in DOMAIN word : word[q] \in Words
    BY <1>1, <1>4 DEF Laid, TypeOK
  <2> QED
    BY <1>5, <2>1
<1> QED
  BY <1>1, <1>2, <1>6 DEF Laid, TypeOK

LEMMA TypeResolution ==
    ASSUME Laid, LeftOK, WriteResolution
    PROVE  TypeOK'
<1>1. /\ left' \in [Group -> [Part -> Nat]] /\ next \in Symbol
      /\ entry' = EntriesWith(Home[next], next, got[next], ProcessResolution(next))
      /\ next' = next + 1
      /\ UNCHANGED <<link, flags, defs, refs, usesTlsld, sizes, got, plt, todo, word>>
  BY LeftResolution, ResolutionIs
<1>2. phase' \in {"write", "done"} \cup Failure
  BY WriteKeeps
<1>3. next' \in 1 .. NumSymbols + 1
  BY <1>1, SymbolsAssumption DEF Symbol
<1>4. PICK out : out = ProcessResolution(next)
  OBVIOUS
<1>5. out.words \in Seq(Stored) /\ \A x \in out.rels : x.rel \in Relocated
  BY <1>1, <1>4, SymbolWritten DEF WellFormed, WrittenRelocation
<1>6. Home[next] \in Group
  BY <1>1, SymbolsAssumption
<1>7. \A i \in DOMAIN entry' : entry'[i] \in Words
  BY <1>1, <1>4, <1>5, <1>6, EntriesTyped DEF Laid
<1> QED
  BY <1>1, <1>2, <1>3, <1>7 DEF Laid, TypeOK

LEMMA TypeValidated ==
    ASSUME Laid, ValidateEmpty
    PROVE  TypeOK'
<1>1. /\ UNCHANGED <<link, flags, defs, refs, usesTlsld, sizes, got, plt, entry, left, todo, word,
                     next>>
      /\ phase' \in {"excess", "done"}
  BY DEF ValidateEmpty
<1> QED
  BY <1>1 DEF Laid, TypeOK, Failure

-----------------------------------------------------------------------------
(* The invariant *)

LEMMA InvInit == Init => AllocInv
<1> SUFFICES ASSUME Init PROVE AllocInv
  OBVIOUS
<1>1. /\ link \in Link /\ defs = {} /\ refs = {} /\ usesTlsld = FALSE /\ todo = {} /\ next = 1
      /\ phase = "scan" /\ entry = <<>> /\ word = <<>>
      /\ sizes = [g \in Group |-> Nothing] /\ left = [g \in Group |-> Nothing]
      /\ got = [s \in Symbol |-> 0] /\ plt = [s \in Symbol |-> FALSE]
      /\ flags = [s \in Symbol |-> Base(s)]
  BY DEF Init, Base, kind, Sym
<1>2. \A s \in Symbol : Base(s) \subseteq StaticFlag
  <2> SUFFICES ASSUME NEW s \in Symbol PROVE Base(s) \subseteq StaticFlag
    OBVIOUS
  <2>1. Sym[s].from \in {"object", "undefined", "shared"}
    BY <1>1, LinkAssumption DEF LinkInput, Nature, Sym
  <2>2. /\ ObjectFlags(kind, Sym[s]) \subseteq StaticFlag
        /\ UndefinedFlags(kind, Sym[s]) \subseteq StaticFlag
        /\ SharedFlags(Sym[s]) \subseteq StaticFlag
    BY DEF ObjectFlags, UndefinedFlags, SharedFlags, StaticFlag
  <2>3. Base(s) \in {ObjectFlags(kind, Sym[s]), SharedFlags(Sym[s]),
                     ObjectFlags(kind, Sym[s]) \cup UndefinedFlags(kind, Sym[s])}
    BY <2>1 DEF Base, InitialFlags
  <2> QED
    BY <2>2, <2>3
<1>3. Nothing \in [Part -> Nat] /\ \A p \in Part : Nothing[p] = 0
  BY DEF Nothing
<1>4. TypeOK
  <2>1. 1 \in 1 .. NumSymbols + 1
    BY SymbolsAssumption
  <2>2. flags \in [Symbol -> SUBSET (StaticFlag \cup ResolutionFlag)]
    BY <1>1, <1>2
  <2>3. DOMAIN entry = {} /\ DOMAIN word = {}
    BY <1>1
  <2> QED
    BY <1>1, <1>3, <2>1, <2>2, <2>3 DEF TypeOK
<1>5. IsFiniteSet(refs)
  BY <1>1, FS_EmptySet
<1>6. ASSUME NEW s \in Symbol PROVE SymbolOK(s)
  <2>1. flags[s] = Base(s) /\ Base(s) \subseteq StaticFlag
    BY <1>1, <1>2
  <2>2. \A x \in flags[s] : x \notin ResolutionFlag
    BY <2>1, FlagKinds
  <2>3. ~HasResolution(flags[s]) /\ ~IsTls(flags[s])
    BY <2>2 DEF HasResolution, IsTls, TlsFlag, ResolutionFlag
  <2> QED
    BY <1>1, <2>1, <2>2, <2>3, Zenon DEF SymbolOK, ResolutionFlag
<1>7. FlagsOK /\ RefsOK
  BY <1>1, <1>6 DEF FlagsOK, RefsOK
<1>8. SizesOK
  <2>1. \A p : Sized(refs, p) = {}
    BY <1>1 DEF Sized
  <2> QED
    BY <1>1, <1>3, <2>1, FS_EmptySet DEF SizesOK, Scanning
<1>9. AddressesOK /\ LeftOK /\ OnlyUnsupportedFails
  BY <1>1 DEF AddressesOK, Addressed, LeftOK, OnlyUnsupportedFails, Failure
<1> QED
  BY <1>4, <1>5, <1>7, <1>8, <1>9 DEF AllocInv

LEMMA ScanStep ==
    ASSUME AllocInv, NEW r \in Reference, NEW s \in Symbol,
           ProcessRelocation(r) \/ MarkUsed(s) \/ ExportDynamic(s) \/ FinaliseSizes
    PROVE  AllocInv'
<1>1. TypeOK /\ ScanInv /\ SizesOK /\ LeftOK /\ IsFiniteSet(refs)
  BY DEF AllocInv, ScanInv
<1>2. /\ phase = "scan" /\ phase' \in {"scan", "bailed", "layout"}
      /\ UNCHANGED <<left, todo, next>>
  <2>1. CASE ProcessRelocation(r)
    BY <2>1 DEF ProcessRelocation
  <2>2. CASE MarkUsed(s) \/ ExportDynamic(s)
    BY <2>2 DEF MarkUsed, ExportDynamic
  <2>3. CASE FinaliseSizes
    BY <2>3 DEF FinaliseSizes
  <2> QED
    BY <2>1, <2>2, <2>3
<1>3. TypeOK' /\ ScanInv' /\ SizesOK'
  <2>1. CASE ProcessRelocation(r)
    <3>1. ScanInv'
      BY <1>1, <2>1, ScanProcess
    <3> QED
      BY <1>1, <2>1, <3>1, SizesProcess, TypeProcess
  <2>2. CASE MarkUsed(s) \/ ExportDynamic(s)
    BY <1>1, <2>2, ScanMarks, SizesMark, TypeMark
  <2>3. CASE FinaliseSizes
    BY <1>1, <2>3, ScanFinalise, SizesFinalise, TypeFinalise
  <2> QED
    BY <2>1, <2>2, <2>3
<1>4. AddressesOK' /\ LeftOK' /\ OnlyUnsupportedFails'
  BY <1>1, <1>2 DEF AddressesOK, Addressed, LeftOK, OnlyUnsupportedFails, Failure
<1> QED
  BY <1>3, <1>4 DEF AllocInv, ScanInv

LEMMA CreateStep ==
    ASSUME AllocInv, CreateResolutions
    PROVE  AllocInv'
<1>1. TypeOK /\ ScanInv /\ SizesOK /\ LeftOK
  BY DEF AllocInv, ScanInv
<1>2. /\ UNCHANGED <<link, flags, defs, refs, usesTlsld, sizes>>
      /\ phase = "layout" /\ phase' = "prelude"
  BY DEF CreateResolutions
<1>3. ScanInv'
  BY <1>1, <1>2, ScanSame
<1>4. SizesOK'
  BY <1>1, <1>2, SizesSame DEF Scanning
<1>5. OnlyUnsupportedFails'
  BY <1>2 DEF OnlyUnsupportedFails, Failure
<1> QED
  BY <1>1, <1>3, <1>4, <1>5, TypeCreate, AddressesCreated, LeftCreated DEF AllocInv, ScanInv

LEMMA WriteStep ==
    ASSUME AllocInv,
           WritePrelude \/ WriteResolution \/ ValidateEmpty \/ \E r \in todo : ApplyRelocation(r)
    PROVE  AllocInv'
<1>1. Addressed
  BY DEF WritePrelude, WriteResolution, ValidateEmpty, ApplyRelocation, Addressed
<1>2. Laid /\ LeftOK /\ TypeOK /\ ScanInv /\ SizesOK /\ AddressesOK
  BY <1>1 DEF AllocInv, Laid, ScanInv
<1>3. /\ UNCHANGED <<link, flags, defs, refs, usesTlsld, sizes, got, plt>>
      /\ phase \in {"prelude", "write"} /\ phase' \in {"write", "done"} \cup Failure
  BY <1>2, WriteKeeps
<1>4. ScanInv' /\ SizesOK' /\ AddressesOK'
  BY <1>1, <1>2, <1>3, ScanSame, SizesSame, AddressesSame DEF Scanning, Failure
<1>5. TypeOK' /\ LeftOK' /\ OnlyUnsupportedFails'
  <2>1. CASE WritePrelude
    BY <1>2, <2>1, TypePrelude, LeftPrelude DEF OnlyUnsupportedFails, Failure
  <2>2. CASE WriteResolution
    BY <1>2, <2>2, TypeResolution, LeftResolution
  <2>3. CASE ValidateEmpty
    BY <1>2, <2>3, TypeValidated, LeftValidated
  <2>4. CASE \E r \in todo : ApplyRelocation(r)
    BY <1>2, <2>4, TypeRelocation, LeftRelocation
  <2> QED
    BY <2>1, <2>2, <2>3, <2>4
<1> QED
  BY <1>4, <1>5 DEF AllocInv, ScanInv

LEMMA InvStutter ==
    ASSUME AllocInv, UNCHANGED vars
    PROVE  AllocInv'
<1>1. UNCHANGED <<link, flags, defs, refs, usesTlsld, sizes, got, plt, entry, left, todo, word,
                  next, phase>>
  BY DEF vars
<1>2. TypeOK /\ ScanInv /\ SizesOK /\ LeftOK /\ AddressesOK /\ OnlyUnsupportedFails
  BY DEF AllocInv, ScanInv
<1>3. TypeOK'
  BY <1>1, <1>2 DEF TypeOK
<1>4. ScanInv'
  BY <1>1, <1>2, ScanSame
<1>5. \A p : Sized(refs, p)' = Sized(refs, p) /\ Sized(todo, p)' = Sized(todo, p)
  <2> SUFFICES ASSUME NEW p
               PROVE  Sized(refs, p)' = Sized(refs, p) /\ Sized(todo, p)' = Sized(todo, p)
    OBVIOUS
  <2>1. {q \in refs : RefSize(q, p)' = 1} = Sized(refs, p)
    BY <1>1, SizedKept
  <2>2. {q \in todo : RefSize(q, p)' = 1} = Sized(todo, p)
    BY <1>1, SizedKept
  <2> QED
    BY <1>1, <2>1, <2>2 DEF Sized
<1>6. SizesOK'
  <2>1. CASE Scanning
    BY <1>1, <1>2, <1>5, <2>1 DEF SizesOK, Scanning
  <2>2. CASE ~Scanning
    BY <1>1, <1>2, <2>2, SizesSame DEF Scanning
  <2> QED
    BY <2>1, <2>2
<1>7. AddressesOK'
  <2>1. CASE Addressed
    BY <1>1, <1>2, <2>1, AddressesSame
  <2>2. CASE ~Addressed
    BY <1>1, <2>2 DEF AddressesOK, Addressed
  <2> QED
    BY <2>1, <2>2
<1>8. LeftOK'
  <2>1. Supported' = Supported
    BY <1>1, SupportedKept
  <2>2. ASSUME NEW g \in Group, NEW p \in Part PROVE LeftIs(g, p)' <=> LeftIs(g, p)
    BY <1>1, LeftNext, Zenon DEF LeftIs
  <2> QED
    BY <1>1, <1>2, <2>1, <2>2 DEF LeftOK
<1>9. OnlyUnsupportedFails'
  BY <1>1, <1>2, InputSame DEF OnlyUnsupportedFails
<1> QED
  BY <1>3, <1>4, <1>6, <1>7, <1>8, <1>9 DEF AllocInv, ScanInv

LEMMA InvNext == AllocInv /\ [Next]_vars => AllocInv'
<1> SUFFICES ASSUME AllocInv, [Next]_vars PROVE AllocInv'
  OBVIOUS
<1>1. ASSUME NEW r \in Reference, ProcessRelocation(r) PROVE AllocInv'
  <2>1. 1 \in Symbol
    BY SymbolsAssumption DEF Symbol
  <2> QED
    BY <1>1, <2>1, ScanStep
<1>2. ASSUME NEW s \in Symbol, MarkUsed(s) \/ ExportDynamic(s) PROVE AllocInv'
  <2>1. PICK r : r \in Reference
    <3>1. [type |-> "64", sym |-> s, sec |-> "data", even |-> TRUE] \in Reference
      BY DEF Reference, RelType
    <3> QED
      BY <3>1
  <2> QED
    BY <1>2, <2>1, ScanStep
<1>3. CASE FinaliseSizes
  <2>1. 1 \in Symbol
    BY SymbolsAssumption DEF Symbol
  <2>2. [type |-> "64", sym |-> 1, sec |-> "data", even |-> TRUE] \in Reference
    BY <2>1 DEF Reference, RelType
  <2> QED
    BY <1>3, <2>1, <2>2, ScanStep
<1>4. CASE CreateResolutions
  BY <1>4, CreateStep
<1>5. CASE WritePrelude \/ WriteResolution \/ ValidateEmpty \/ \E r \in todo : ApplyRelocation(r)
  BY <1>5, WriteStep
<1>6. CASE UNCHANGED vars
  BY <1>6, InvStutter
<1> QED
  BY <1>1, <1>2, <1>3, <1>4, <1>5, <1>6 DEF Next

LEMMA Invariant == Spec => []AllocInv
  BY InvInit, InvNext, PTL DEF Spec

\* The three decisions on the GOT, the PLT and the dynamic relocation tables agree, for any
\* number of symbols and relocations, in whatever order they are scanned: the writer stops with
\* insufficient_allocation, excessive_allocation or a missing address (process_resolution,
\* write_absolute_relocation, validate_empty) only if a relocation is of a kind that the linker
\* does not support.
THEOREM AllocationsAgree == Spec => []OnlyUnsupportedFails
<1>1. AllocInv => OnlyUnsupportedFails
  BY DEF AllocInv
<1> QED
  BY <1>1, Invariant, PTL

\* No group has anything left of .plt.got and .rela.plt, which validate_empty does not look at:
\* what allocate_resolution counts in them is what process_resolution takes, even if some
\* relocation is not supported.
THEOREM PltTablesUsedUp == Spec => []PltTablesExact
<1>1. AllocInv => PltTablesExact
  <2> SUFFICES ASSUME AllocInv, phase = "done", NEW g \in Group
               PROVE  left[g]["PLT_GOT"] = 0 /\ left[g]["RELA_PLT"] = 0
    BY DEF PltTablesExact
  <2>1. todo = {} /\ next = NumSymbols + 1 /\ TypeOK /\ IsFiniteSet(refs) /\ LeftOK
    BY DEF AllocInv, LeftOK
  <2>2. {"PLT_GOT", "RELA_PLT"} \subseteq Part /\ {"PLT_GOT", "RELA_PLT"} \subseteq PltPart
    BY DEF Part, PltPart
  <2> QED
    BY <2>1, <2>2, NothingLeft
<1> QED
  BY <1>1, Invariant, PTL

\* Types: the sizes never become negative, the writer stays within the GOT it was given, and what
\* process_resolution and write_absolute_relocation write is a value they can store, with a
\* relocation that the loader knows.
THEOREM TypeCorrect == Spec => []TypeOK
<1>1. AllocInv => TypeOK
  BY DEF AllocInv
<1> QED
  BY <1>1, Invariant, PTL

-----------------------------------------------------------------------------
(* What the writers put out, once addresses are known *)

\* It depends on what no writer changes.
LEMMA OutputsKept ==
    ASSUME UNCHANGED <<link, flags, defs, got, plt>>
    PROVE  /\ kind' = kind /\ Sym' = Sym
           /\ \A s : /\ RawValue(s)' = RawValue(s) /\ HasIndex(s)' = HasIndex(s)
                     /\ ProcessResolution(s)' = ProcessResolution(s)
                     /\ Demand(s)' = Demand(s)
           /\ \A r : Result(r)' = Result(r) /\ RelKind(r, flags[r.sym])' = RelKind(r, flags[r.sym])
<1>1. kind' = kind /\ Sym' = Sym /\ link' = link
  BY DEF kind, Sym
<1>2. \A s : RawValue(s)' = RawValue(s) /\ HasIndex(s)' = HasIndex(s)
  BY <1>1 DEF RawValue, HasIndex
<1>3. \A at : Relative(at)' = Relative(at)
  BY <1>1 DEF Relative, RelativePart
<1>4. \A s, at : TlsOffset(s, at)' = TlsOffset(s, at)
  BY <1>1, <1>2 DEF TlsOffset
<1>5. \A s, at : TlsModAndOffset(s, at)' = TlsModAndOffset(s, at)
  BY <1>1, <1>2 DEF TlsModAndOffset
<1>6. \A s, at : TlsDescriptor(s, at)' = TlsDescriptor(s, at)
  BY <1>1 DEF TlsDescriptor
<1>7. \A s : PlainEntries(s)' = PlainEntries(s)
  BY <1>1, <1>2, <1>3 DEF PlainEntries
<1>8. \A s : ProcessResolution(s)' = ProcessResolution(s)
  BY <1>4, <1>5, <1>6, <1>7 DEF ProcessResolution
<1>9. \A s : Demand(s)' = Demand(s)
  BY <1>8 DEF Demand, InTable
<1>10. \A r, f : RelKind(r, f)' = RelKind(r, f)
  BY <1>1 DEF RelKind
<1>11. \A r : WriteAbsolute(r)' = WriteAbsolute(r)
  BY <1>1, <1>2 DEF WriteAbsolute, RelativePart, PlaceEven
<1>12. \A r : Result(r)' = Result(r)
  BY <1>2, <1>10, <1>11 DEF Result
<1>13. \A r : RelKind(r, flags[r.sym])' = RelKind(r, flags[r.sym])
  BY <1>10
<1> QED
  BY <1>1, <1>2, <1>8, <1>9, <1>12, <1>13

-----------------------------------------------------------------------------
(* What was written: the second part of the inductive invariant *)

\* The GOT entries of a symbol start here, and the dynamic relocation for the k-th of them.
Place(s) == GotStart(Home[s]) + Total(s - 1, SymbolSizes(Home[s], "GOT"))
RelOf(rels) == IF rels # {} THEN (CHOOSE x \in rels : TRUE).rel ELSE "none"
RelAt(out, k) == RelOf({x \in out.rels : x.at = k})

\* An entry or a word of the output.
Wrote(s, w, rel) == [of |-> s, word |-> w, rel |-> rel]

\* The pair of entries for TLSLD relocations.
PreludeWritten ==
    /\ entry[1] = IF IsExecutable(kind) THEN Wrote(0, "module", "none") ELSE Wrote(0, "zero", "dtpmod")
    /\ entry[2] = Wrote(0, IF IsExecutable(kind) THEN "dtpoff" ELSE "zero", "none")

\* The entries of a symbol are where its resolution says.
EntriesWritten(s) ==
    LET out == ProcessResolution(s)
    IN  /\ out.error = "ok"
        /\ got[s] # 0 => got[s] = Place(s)
        /\ \A k \in 1 .. Len(out.words) :
             entry[Place(s) + k - 1] = Wrote(s, out.words[k], RelAt(out, k - 1))

Writing == phase \in {"write", "done"}

\* The GOT, entry by entry: what was written is there, and from the next symbol on nothing is.
EntriesOK ==
    /\ Addressed => DOMAIN entry = 1 .. GotStart(Referrer) + sizes[Referrer]["GOT"] - 1
    /\ phase = "prelude" => \A i \in DOMAIN entry : entry[i] = Unwritten
    /\ Writing =>
         /\ usesTlsld => PreludeWritten
         /\ \A s \in Symbol : s < next => EntriesWritten(s)
         /\ next \in Symbol => \A i \in DOMAIN entry : i >= Place(next) => entry[i] = Unwritten
         /\ \A g \in Group : Total(next - 1, GotCounts(g)) = Total(next - 1, SymbolSizes(g, "GOT"))

\* The places of the relocations that were applied.
WordsOK ==
    /\ Addressed => DOMAIN word = refs
    /\ Writing => \A r \in refs \ todo :
                    Result(r).error = "ok" /\ word[r] = Wrote(r.sym, Result(r).word, Result(r).rel)

\* An entry of .rela.dyn was allocated by a relocation or a symbol that did not take it.
UnusedBy(r) == RefSize(r, "RELA_DYN_GENERAL") = 1 /\ Result(r).part # "RELA_DYN_GENERAL"
UnusedOf(s) == Demand(s)["RELA_DYN_GENERAL"] # AllocateSymbol(flags[s])["RELA_DYN_GENERAL"]

\* What a writer has left of .rela.dyn is at least what is still to be written, and more if an entry
\* was not used: validate_empty finds it.
UnusedLeft ==
    Writing => \A g \in Group :
        LET size == SymbolSizes(g, "RELA_DYN_GENERAL")
            has == left[g]["RELA_DYN_GENERAL"] + Total(next - 1, size)
            needs == Total(NumSymbols, size)
                     + (IF g = Referrer THEN Cardinality(Sized(todo, "RELA_DYN_GENERAL")) ELSE 0)
        IN  /\ has >= needs
            /\ \/ g = Referrer /\ \E r \in refs \ todo : UnusedBy(r)
               \/ \E s \in Symbol : s < next /\ Home[s] = g /\ UnusedOf(s)
               => has > needs
            /\ phase = "done" => left[g]["RELA_DYN_GENERAL"] = 0

WrittenInv == AllocInv /\ EntriesOK /\ WordsOK /\ UnusedLeft

-----------------------------------------------------------------------------
(* Where the entries of a symbol are: no two symbols share one *)

LEMMA GotStarts ==
    ASSUME TypeOK
    PROVE  /\ GotStart(0) = 1
           /\ GotStart(1) = 1 + sizes[0]["GOT"]
           /\ GotStart(2) = 1 + sizes[0]["GOT"] + sizes[1]["GOT"]
           /\ \A g \in Group : sizes[g]["GOT"] \in Nat
<1>1. \A g \in Group : sizes[g]["GOT"] \in Nat
  BY DEF TypeOK, Part
<1> DEFINE before(g) == [h \in 1 .. g |-> sizes[h - 1]["GOT"]]
<1>2. before(0) \in [1 .. 0 -> Nat] /\ before(1) \in [1 .. 1 -> Nat] /\ before(2) \in [1 .. 2 -> Nat]
  BY <1>1 DEF Group
<1>3. before(1)[1] = sizes[0]["GOT"] /\ before(2)[1] = sizes[0]["GOT"] /\ before(2)[2] = sizes[1]["GOT"]
  OBVIOUS
<1>4. GotStart(0) = 1 + Total(0, before(0)) /\ GotStart(1) = 1 + Total(1, before(1))
      /\ GotStart(2) = 1 + Total(2, before(2))
  BY Zenon DEF GotStart
<1> HIDE DEF before
<1>5. Total(0, before(0)) = 0
  BY <1>2, TotalSums
<1>6. Total(0, before(1)) = 0 /\ Total(1, before(1)) = Total(0, before(1)) + before(1)[1]
  <2>1. 1 \in 1 .. 1 /\ 1 - 1 = 0
    OBVIOUS
  <2> QED
    BY <1>2, <2>1, TotalSums
<1>7. /\ Total(0, before(2)) = 0 /\ Total(1, before(2)) = Total(0, before(2)) + before(2)[1]
      /\ Total(2, before(2)) = Total(1, before(2)) + before(2)[2]
  <2>1. 1 \in 1 .. 2 /\ 2 \in 1 .. 2 /\ 1 - 1 = 0 /\ 2 - 1 = 1
    OBVIOUS
  <2>2. /\ Total(0, before(2)) = 0
        /\ \A n \in 1 .. 2 : Total(n, before(2)) = Total(n - 1, before(2)) + before(2)[n]
    BY <1>2, TotalSums
  <2> QED
    BY <2>1, <2>2
<1> QED
  <2>1. sizes[0]["GOT"] \in Nat /\ sizes[1]["GOT"] \in Nat
    BY <1>1 DEF Group
  <2> QED
    BY <1>1, <1>3, <1>4, <1>5, <1>6, <1>7, <2>1

\* What each group has of the GOT.
LEMMA GotSizes ==
    ASSUME Laid, NEW g \in Group
    PROVE  /\ sizes[g]["GOT"] = (IF g = Prelude THEN 2 * Count(usesTlsld) ELSE 0)
                                + Total(NumSymbols, SymbolSizes(g, "GOT"))
           /\ Total(NumSymbols, SymbolSizes(g, "GOT")) \in Nat
           /\ Count(usesTlsld) = IF usesTlsld THEN 1 ELSE 0
<1>0. "GOT" \in Part /\ "GOT" \in PltPart /\ TypeOK /\ IsFiniteSet(refs)
  BY DEF Part, PltPart, Laid
<1>1. sizes[g]["GOT"] = (IF g = Referrer THEN Cardinality(Sized(refs, "GOT")) ELSE 0)
                        + (IF g = Prelude THEN AllocatePrelude["GOT"] ELSE 0)
                        + Total(NumSymbols, SymbolSizes(g, "GOT"))
  BY <1>0 DEF Laid, SizesOK, Addressed, Scanning
<1>2. Sized(refs, "GOT") = {}
  BY <1>0, RelocationWritten DEF Sized
<1>3. Cardinality(Sized(refs, "GOT")) = 0
  BY <1>2, FS_EmptySet
<1>4. AllocatePrelude["GOT"] = 2 * Count(usesTlsld)
  BY DEF AllocatePrelude, Nothing, Part
<1>5. Total(NumSymbols, SymbolSizes(g, "GOT")) \in Nat
  BY <1>0, StillToWrite
<1>6. Count(usesTlsld) = IF usesTlsld THEN 1 ELSE 0
  BY DEF Count
<1> QED
  BY <1>1, <1>3, <1>4, <1>5, <1>6

\* The entries a symbol gets.
GotNeed(s) == AllocateSymbol(flags[s])["GOT"]

LEMMA PlaceIs ==
    ASSUME Laid, NEW s \in Symbol
    PROVE  /\ Place(s) \in Nat /\ Place(s) >= 1 /\ GotNeed(s) \in Nat
           /\ usesTlsld => Place(s) >= 3
           /\ Place(s) + GotNeed(s) = GotStart(Home[s]) + Total(s, SymbolSizes(Home[s], "GOT"))
           /\ Place(s) + GotNeed(s) <= GotStart(Home[s]) + sizes[Home[s]]["GOT"]
           /\ Place(s) + GotNeed(s) <= GotStart(Referrer) + sizes[Referrer]["GOT"]
<1> DEFINE g == Home[s]
           size == SymbolSizes(g, "GOT")
<1>1. TypeOK /\ g \in {1, 2} /\ g \in Group /\ "GOT" \in Part
  BY SymbolsAssumption DEF Laid, Group, Prelude, Part
<1>2. NumSymbols \in Nat /\ s \in 1 .. NumSymbols /\ s - 1 \in 0 .. NumSymbols /\ s \in 0 .. NumSymbols
  BY SymbolsAssumption DEF Symbol
<1>3. size \in [1 .. NumSymbols -> Nat] /\ size[s] = GotNeed(s) /\ GotNeed(s) \in Nat
  BY <1>1, AllocatedTyped DEF SymbolSizes, GotNeed
<1> HIDE DEF size
<1>4. Total(s - 1, size) \in Nat /\ Total(s, size) = Total(s - 1, size) + size[s] /\ Total(s, size) \in Nat
  BY <1>2, <1>3, TotalSums
<1>5. Total(s, size) <= Total(NumSymbols, size)
  BY <1>2, <1>3, TotalGrows
<1>6. sizes[g]["GOT"] = Total(NumSymbols, size) /\ Total(NumSymbols, size) \in Nat
  BY <1>1, GotSizes DEF Prelude, size
<1>7. /\ sizes[0]["GOT"] = 2 * Count(usesTlsld) + Total(NumSymbols, SymbolSizes(0, "GOT"))
      /\ Total(NumSymbols, SymbolSizes(0, "GOT")) \in Nat
      /\ Count(usesTlsld) = IF usesTlsld THEN 1 ELSE 0
  BY GotSizes DEF Prelude, Group
<1>8. /\ GotStart(1) = 1 + sizes[0]["GOT"]
      /\ GotStart(2) = 1 + sizes[0]["GOT"] + sizes[1]["GOT"]
      /\ sizes[0]["GOT"] \in Nat /\ sizes[1]["GOT"] \in Nat /\ sizes[2]["GOT"] \in Nat
  BY <1>1, GotStarts DEF Group
<1>9. Place(s) = GotStart(g) + Total(s - 1, size)
  BY DEF Place, size
<1>10. /\ GotStart(g) \in Nat /\ GotStart(g) >= 1 /\ (usesTlsld => GotStart(g) >= 3)
       /\ GotStart(g) + sizes[g]["GOT"] <= GotStart(Referrer) + sizes[Referrer]["GOT"]
  BY <1>1, <1>7, <1>8 DEF Referrer
<1>11. sizes[Referrer]["GOT"] \in Nat /\ GotStart(Referrer) \in Nat
  BY <1>8 DEF Referrer
<1> HIDE DEF g
<1>12. /\ Place(s) \in Nat /\ Place(s) >= 1 /\ (usesTlsld => Place(s) >= 3)
       /\ Place(s) + GotNeed(s) = GotStart(g) + Total(s, size)
       /\ Place(s) + GotNeed(s) <= GotStart(g) + sizes[g]["GOT"]
  BY <1>3, <1>4, <1>5, <1>6, <1>9, <1>10
<1>13. Place(s) + GotNeed(s) <= GotStart(Referrer) + sizes[Referrer]["GOT"]
  BY <1>3, <1>6, <1>10, <1>11, <1>12
<1> QED
  BY <1>3, <1>12, <1>13 DEF g, size

LEMMA PlacesFollow ==
    ASSUME Laid, NEW s \in Symbol, NEW t \in Symbol, s < t
    PROVE  Place(s) + GotNeed(s) <= Place(t)
<1>1. TypeOK /\ Home[s] \in {1, 2} /\ Home[t] \in {1, 2} /\ Home[s] <= Home[t]
  BY SymbolsAssumption DEF Laid, Group, Prelude
<1>2. /\ Place(s) + GotNeed(s) = GotStart(Home[s]) + Total(s, SymbolSizes(Home[s], "GOT"))
      /\ Place(s) + GotNeed(s) <= GotStart(Home[s]) + sizes[Home[s]]["GOT"]
      /\ Place(s) \in Nat /\ GotNeed(s) \in Nat
  BY PlaceIs
<1>3. Place(t) = GotStart(Home[t]) + Total(t - 1, SymbolSizes(Home[t], "GOT"))
  BY DEF Place
<1>4. /\ NumSymbols \in Nat /\ s \in 0 .. NumSymbols /\ t - 1 \in 0 .. NumSymbols /\ t - 1 \in Nat
      /\ s <= t - 1 /\ t - 1 <= NumSymbols
  BY SymbolsAssumption DEF Symbol
<1>5. SymbolSizes(Home[t], "GOT") \in [1 .. NumSymbols -> Nat]
  BY AllocatedTyped DEF Part
<1>6. Total(t - 1, SymbolSizes(Home[t], "GOT")) \in Nat
  BY <1>4, <1>5, TotalSums
<1>7. \A g \in Group : GotStart(g) \in Nat
  BY <1>1, StartIsPositive
<1>8. CASE Home[s] = Home[t]
  <2>1. Total(s, SymbolSizes(Home[t], "GOT")) <= Total(t - 1, SymbolSizes(Home[t], "GOT"))
    BY <1>4, <1>5, TotalGrows
  <2>2. Total(s, SymbolSizes(Home[t], "GOT")) \in Nat
    BY <1>4, <1>5, TotalSums
  <2>3. GotStart(Home[t]) \in Nat
    BY <1>1, <1>7 DEF Group
  <2> QED
    BY <1>2, <1>3, <1>6, <1>8, <2>1, <2>2, <2>3
<1>9. CASE Home[s] # Home[t]
  <2>1. Home[s] = 1 /\ Home[t] = 2
    BY <1>1, <1>9
  <2>2. GotStart(1) + sizes[1]["GOT"] = GotStart(2)
    BY <1>1, GotStarts DEF Group
  <2>3. GotStart(2) \in Nat
    BY <1>7 DEF Group
  <2> QED
    BY <1>2, <1>3, <1>6, <2>1, <2>2, <2>3
<1> QED
  BY <1>8, <1>9

-----------------------------------------------------------------------------
(* The dynamic relocation at a place of an output *)

LEMMA RelAtNone ==
    ASSUME NEW out, NEW k, \A x \in out.rels : x.at # k
    PROVE  RelAt(out, k) = "none"
<1>1. {x \in out.rels : x.at = k} = {}
  OBVIOUS
<1> QED
  BY <1>1 DEF RelAt, RelOf

LEMMA RelAtOne ==
    ASSUME NEW out, NEW k, NEW x \in out.rels, x.at = k, \A y \in out.rels : y.at = k => y = x
    PROVE  RelAt(out, k) = x.rel
<1>1. {y \in out.rels : y.at = k} = {x}
  OBVIOUS
<1>2. (CHOOSE y \in {x} : TRUE) = x
  OBVIOUS
<1> QED
  BY <1>1, <1>2 DEF RelAt, RelOf

LEMMA RelAtSame ==
    ASSUME NEW a, NEW b, NEW k, {y \in a.rels : y.at = k} = {y \in b.rels : y.at = k}
    PROVE  RelAt(a, k) = RelAt(b, k)
  BY DEF RelAt

LEMMA RelAtFirst ==
    ASSUME NEW a, NEW b, NEW c, c.rels = a.rels \cup b.rels, NEW k, \A x \in b.rels : x.at # k
    PROVE  RelAt(c, k) = RelAt(a, k)
<1>1. {y \in c.rels : y.at = k} = {y \in a.rels : y.at = k}
  OBVIOUS
<1> QED
  BY <1>1, RelAtSame

LEMMA RelAtSecond ==
    ASSUME NEW a, NEW b, NEW c, c.rels = a.rels \cup b.rels, NEW k, \A x \in a.rels : x.at # k
    PROVE  RelAt(c, k) = RelAt(b, k)
<1>1. {y \in c.rels : y.at = k} = {y \in b.rels : y.at = k}
  OBVIOUS
<1> QED
  BY <1>1, RelAtSame

\* An output of one relocation, or of none.
LEMMA RelAtForms ==
    ASSUME NEW out, NEW at \in Nat, NEW part \in Part, NEW rel \in Relocated
    PROVE  /\ out.rels = {} => \A k : RelAt(out, k) = "none"
           /\ out.rels = {Placed(at, part, rel)} =>
                RelAt(out, at) = rel /\ \A k : k # at => RelAt(out, k) = "none"
<1>1. ASSUME out.rels = {} PROVE \A k : RelAt(out, k) = "none"
  BY <1>1, RelAtNone
<1>2. ASSUME out.rels = {Placed(at, part, rel)}
      PROVE  RelAt(out, at) = rel /\ \A k : k # at => RelAt(out, k) = "none"
  <2>1. Placed(at, part, rel).at = at /\ Placed(at, part, rel).rel = rel
    BY PlacedIs
  <2>2. RelAt(out, at) = rel
    BY <1>2, <2>1, RelAtOne
  <2> QED
    BY <1>2, <2>1, <2>2, RelAtNone
<1> QED
  BY <1>1, <1>2

\* The words of two calls, one after the other.
LEMMA WordsThen ==
    ASSUME NEW S, NEW u \in Seq(S), NEW v \in Seq(S)
    PROVE  /\ \A k \in 1 .. Len(u) : (u \o v)[k] = u[k]
           /\ \A k \in 1 .. Len(v) : (u \o v)[Len(u) + k] = v[k]
  OBVIOUS

LEMMA WordsOfTwo ==
    ASSUME NEW u \in Seq(Stored), NEW v \in Seq(Stored), Len(u) = 1, Len(v) = 1
    PROVE  (u \o v)[1] = u[1] /\ (u \o v)[2] = v[1] /\ Len(u \o v) = 2
<1>1. 1 \in 1 .. Len(u) /\ 1 \in 1 .. Len(v) /\ Len(u) + 1 = 2
  OBVIOUS
<1>2. (u \o v)[1] = u[1] /\ (u \o v)[Len(u) + 1] = v[1]
  BY <1>1, WordsThen
<1>3. Len(u \o v) = 2
  OBVIOUS
<1> QED
  BY <1>1, <1>2, <1>3

LEMMA ThenTwo ==
    ASSUME NEW a, NEW b, WellFormed(a), WellFormed(b), Len(a.words) = 1, Len(b.words) = 1,
           NEW out, out = Then(a, b)
    PROVE  out.words[1] = a.words[1] /\ out.words[2] = b.words[1] /\ Len(out.words) = 2
<1>1. PICK u : u = a.words
  OBVIOUS
<1>2. PICK v : v = b.words
  OBVIOUS
<1>3. u \in Seq(Stored) /\ v \in Seq(Stored) /\ Len(u) = 1 /\ Len(v) = 1
  BY <1>1, <1>2 DEF WellFormed
<1>4. (u \o v)[1] = u[1] /\ (u \o v)[2] = v[1] /\ Len(u \o v) = 2
  BY <1>3, WordsOfTwo
<1>5. out.words = a.words \o b.words
  BY ThenBoth
<1> QED
  BY <1>1, <1>2, <1>4, <1>5

\* What PlainEntries has for the address of a symbol.
FirstWord(s) ==
    IF HasDynamicSymbol(flags[s]) \/ IsIfunc(flags[s]) THEN "zero" ELSE RawValue(s)
FirstRel(s) ==
    IF IsIfunc(flags[s]) THEN "irelative"
    ELSE IF HasDynamicSymbol(flags[s]) THEN "lookup"
    ELSE IF IsAddress(flags[s]) /\ IsRelocatable(kind) THEN "relative" ELSE "none"

LEMMA PlainEntriesAre ==
    ASSUME NEW s, NEW out, out = PlainEntries(s)
    PROVE  /\ \A x \in out.rels : x.at \in Nat /\ x.at < Len(out.words)
           /\ out.words[1] = FirstWord(s) /\ RelAt(out, 0) = FirstRel(s)
           /\ "IFUNC_GOT_FOR_ADDRESS" \in flags[s] =>
                /\ out.words[2] = "stub"
                /\ RelAt(out, 1) = IF IsRelocatable(kind) THEN "relative" ELSE "none"
                /\ out.error = "ok" => plt[s]
<1> DEFINE f == flags[s]
           first == CASE HasDynamicSymbol(f) /\ ~IsIfunc(f) ->
                           Output(<<"zero">>, General(0, "lookup"), Unless(HasIndex(s), "missing"))
                      [] IsIfunc(f) ->
                           Output(<<"zero">>,
                                  {[at |-> 0, part |-> "RELA_PLT", rel |-> "irelative"]}, "ok")
                      [] OTHER ->
                           Output(<<RawValue(s)>>,
                                  IF IsAddress(f) /\ IsRelocatable(kind) THEN Relative(0) ELSE {}, "ok")
           second == Output(<<"stub">>, IF IsRelocatable(kind) THEN Relative(1) ELSE {},
                            Unless(plt[s], "missing"))
<1>0. out = IF "IFUNC_GOT_FOR_ADDRESS" \in f THEN Then(first, second) ELSE first
  BY Zenon DEF PlainEntries
<1>1. PICK a : a = first
  OBVIOUS
<1>2. PICK b : b = second
  OBVIOUS
<1>3. WellFormed(a) /\ Len(a.words) = 1 /\ \A x \in a.rels : x.at = 0
  BY <1>1, FirstPlainEntry, Zenon
<1>4. WellFormed(b) /\ Len(b.words) = 1 /\ \A x \in b.rels : x.at = 1
  BY <1>2, SecondPlainEntry, Zenon
<1>5. "RELA_DYN_GENERAL" \in Part /\ "RELA_PLT" \in Part /\ EvenPart \in Part /\ 0 \in Nat /\ 1 \in Nat
      /\ "lookup" \in Relocated /\ "irelative" \in Relocated /\ "relative" \in Relocated
  BY EvenPartIs DEF Part, Relocated
<1>6. a.words[1] = FirstWord(s) /\ RelAt(a, 0) = FirstRel(s)
  <2>1. CASE HasDynamicSymbol(f) /\ ~IsIfunc(f)
    <3>1. a = Output(<<"zero">>, General(0, "lookup"), Unless(HasIndex(s), "missing"))
      BY <1>1, <2>1, Zenon
    <3>2. a.words = <<"zero">> /\ a.rels = {Placed(0, "RELA_DYN_GENERAL", "lookup")}
      BY <3>1, OutputIs, GeneralIs
    <3>3. RelAt(a, 0) = "lookup"
      BY <1>5, <3>2, RelAtForms
    <3> QED
      BY <2>1, <3>2, <3>3 DEF FirstWord, FirstRel
  <2>2. CASE IsIfunc(f)
    <3>1. a = Output(<<"zero">>, {[at |-> 0, part |-> "RELA_PLT", rel |-> "irelative"]}, "ok")
      BY <1>1, <2>2, Zenon
    <3>2. a.words = <<"zero">> /\ a.rels = {Placed(0, "RELA_PLT", "irelative")}
      BY <3>1, OutputIs DEF Placed
    <3>3. RelAt(a, 0) = "irelative"
      BY <1>5, <3>2, RelAtForms
    <3> QED
      BY <2>2, <3>2, <3>3 DEF FirstWord, FirstRel
  <2>3. CASE ~HasDynamicSymbol(f) /\ ~IsIfunc(f)
    <3>1. a = Output(<<RawValue(s)>>,
                     IF IsAddress(f) /\ IsRelocatable(kind) THEN Relative(0) ELSE {}, "ok")
      BY <1>1, <2>3, Zenon
    <3>2. a.words = <<RawValue(s)>>
          /\ a.rels = IF IsAddress(f) /\ IsRelocatable(kind) THEN Relative(0) ELSE {}
      BY <3>1, OutputIs
    <3>3. Relative(0) = {Placed(0, EvenPart, "relative")}
      BY RelativeIs
    <3>4. RelAt(a, 0) = IF IsAddress(f) /\ IsRelocatable(kind) THEN "relative" ELSE "none"
      BY <1>5, <3>2, <3>3, RelAtForms
    <3>5. a.words[1] = RawValue(s)
      BY <3>2
    <3> QED
      BY <2>3, <3>4, <3>5 DEF FirstWord, FirstRel
  <2> QED
    BY <2>1, <2>2, <2>3
<1>7. /\ b.words[1] = "stub" /\ RelAt(b, 1) = IF IsRelocatable(kind) THEN "relative" ELSE "none"
      /\ b.error = "ok" => plt[s]
  <2>1. /\ b.words = <<"stub">> /\ b.rels = IF IsRelocatable(kind) THEN Relative(1) ELSE {}
        /\ b.error = Unless(plt[s], "missing")
    BY <1>2, OutputIs
  <2>2. Relative(1) = {Placed(1, EvenPart, "relative")}
    BY RelativeIs
  <2>3. RelAt(b, 1) = IF IsRelocatable(kind) THEN "relative" ELSE "none"
    BY <1>5, <2>1, <2>2, RelAtForms
  <2>4. b.error = "ok" => plt[s]
    BY <2>1 DEF Unless
  <2> QED
    BY <2>1, <2>3, <2>4
<1> HIDE DEF first, second
<1>8. CASE "IFUNC_GOT_FOR_ADDRESS" \notin f
  <2>1. out = a
    BY <1>0, <1>1, <1>8
  <2> QED
    BY <1>3, <1>6, <1>8, <2>1
<1>9. CASE "IFUNC_GOT_FOR_ADDRESS" \in f
  <2>1. out = Then(a, b)
    BY <1>0, <1>1, <1>2, <1>9
  <2>2. /\ Len(Then(a, b).words) = Len(a.words) + Len(b.words)
        /\ Then(a, b).words = a.words \o b.words
        /\ Then(a, b).rels = a.rels \cup b.rels
        /\ Then(a, b).error = IF a.error # "ok" THEN a.error ELSE b.error
    <3>1. WellFormed(a) /\ WellFormed(b)
      BY <1>3, <1>4
    <3> QED
      BY <3>1, ThenBoth
  <2>3. out.words[1] = a.words[1] /\ out.words[2] = b.words[1] /\ Len(out.words) = 2
    BY <1>3, <1>4, <2>1, ThenTwo
  <2>6. out.rels = a.rels \cup b.rels /\ (out.error = "ok" => b.error = "ok")
    BY <2>1, <2>2
  <2>7. /\ Len(out.words) = 2 /\ out.words[1] = a.words[1] /\ out.words[2] = b.words[1]
        /\ out.rels = a.rels \cup b.rels
        /\ out.error = "ok" => b.error = "ok"
    BY <2>3, <2>6
  <2>8. \A x \in out.rels : x.at \in Nat /\ x.at < Len(out.words)
    BY <1>3, <1>4, <2>7
  <2>9. RelAt(out, 0) = RelAt(a, 0) /\ RelAt(out, 1) = RelAt(b, 1)
    <3>1. (\A x \in b.rels : x.at # 0) /\ (\A x \in a.rels : x.at # 1)
      BY <1>3, <1>4
    <3>2. out.rels = a.rels \cup b.rels
      BY <2>7
    <3>3. RelAt(out, 0) = RelAt(a, 0)
      BY <3>1, <3>2, RelAtFirst
    <3>4. RelAt(out, 1) = RelAt(b, 1)
      BY <3>1, <3>2, RelAtSecond
    <3> QED
      BY <3>3, <3>4
  <2> QED
    BY <1>6, <1>7, <2>7, <2>8, <2>9
<1> QED
  BY <1>8, <1>9

-----------------------------------------------------------------------------
(* What a step of the writer does to the GOT *)

LEMMA EntryKept ==
    ASSUME NEW e, e \in Words
    PROVE  e = [of |-> e.of, word |-> e.word, rel |-> e.rel]
  BY DEF Words

LEMMA EntriesWithIs ==
    ASSUME NEW g, NEW s, NEW at, NEW out, NEW P \in Nat,
           P = GotStart(g) + sizes[g]["GOT"] - left[g]["GOT"],
           NEW n \in Nat, n = Len(out.words),
           \A x \in out.rels : x.at \in Nat /\ x.at < n, out.rels # {} => at = P,
           DOMAIN entry \subseteq Nat, \A i \in DOMAIN entry : entry[i] \in Words
    PROVE  /\ DOMAIN EntriesWith(g, s, at, out) = DOMAIN entry
           /\ \A i \in DOMAIN entry :
                i < P \/ i >= P + n => EntriesWith(g, s, at, out)[i] = entry[i]
           /\ \A k \in 1 .. n :
                P + k - 1 \in DOMAIN entry /\ entry[P + k - 1] = Unwritten =>
                  EntriesWith(g, s, at, out)[P + k - 1] = Wrote(s, out.words[k], RelAt(out, k - 1))
<1>1. DOMAIN EntriesWith(g, s, at, out) = DOMAIN entry
  BY DEF EntriesWith
<1>2. ASSUME NEW i \in DOMAIN entry, i < P \/ i >= P + n
      PROVE  EntriesWith(g, s, at, out)[i] = entry[i]
  <2>1. PICK rels : rels = {x \in out.rels : at + x.at = i}
    OBVIOUS
  <2>2. rels = {}
    BY <1>2, <2>1
  <2>3. i \notin P .. P + n - 1
    BY <1>2
  <2>4. EntriesWith(g, s, at, out)[i] = [of |-> entry[i].of, word |-> entry[i].word, rel |-> entry[i].rel]
    <3>1. EntriesWith(g, s, at, out)[i] =
            [of |-> IF i \in P .. P + n - 1 THEN s ELSE entry[i].of,
             word |-> IF i \in P .. P + n - 1 THEN out.words[i - P + 1] ELSE entry[i].word,
             rel |-> IF rels # {} THEN (CHOOSE x \in rels : TRUE).rel ELSE entry[i].rel]
      BY <1>2, <2>1 DEF EntriesWith
    <3> QED
      BY <2>2, <2>3, <3>1
  <2> QED
    BY <2>4, EntryKept
<1>3. ASSUME NEW k \in 1 .. n, P + k - 1 \in DOMAIN entry, entry[P + k - 1] = Unwritten
      PROVE  EntriesWith(g, s, at, out)[P + k - 1] = Wrote(s, out.words[k], RelAt(out, k - 1))
  <2>1. PICK i : i = P + k - 1
    OBVIOUS
  <2>2. PICK rels : rels = {x \in out.rels : at + x.at = i}
    OBVIOUS
  <2>3. i \in P .. P + n - 1 /\ i - P + 1 = k /\ i \in DOMAIN entry
    BY <1>3, <2>1
  <2>4. rels = {x \in out.rels : x.at = k - 1}
    BY <1>3, <2>1, <2>2
  <2>5. entry[i].rel = "none"
    BY <1>3, <2>1 DEF Unwritten
  <2>6. (IF rels # {} THEN RelOf(rels) ELSE entry[i].rel) = RelAt(out, k - 1)
    BY <2>4, <2>5 DEF RelAt, RelOf
  <2>7. EntriesWith(g, s, at, out)[i] =
          [of |-> s, word |-> out.words[i - P + 1],
           rel |-> IF rels # {} THEN RelOf(rels) ELSE entry[i].rel]
    <3>1. EntriesWith(g, s, at, out)[i] =
            [of |-> IF i \in P .. P + n - 1 THEN s ELSE entry[i].of,
             word |-> IF i \in P .. P + n - 1 THEN out.words[i - P + 1] ELSE entry[i].word,
             rel |-> IF rels # {} THEN (CHOOSE x \in rels : TRUE).rel ELSE entry[i].rel]
      BY <2>2, <2>3 DEF EntriesWith
    <3> QED
      BY <2>3, <3>1 DEF RelOf
  <2> QED
    BY <2>1, <2>3, <2>6, <2>7 DEF Wrote
<1> QED
  BY <1>1, <1>2, <1>3

\* The relocations of a symbol are for its own entries.
LEMMA OutputInside ==
    ASSUME Laid, NEW s \in Symbol, NEW out, out = ProcessResolution(s)
    PROVE  /\ WellFormed(out) /\ Len(out.words) = GotNeed(s)
           /\ \A x \in out.rels : x.at \in Nat /\ x.at < Len(out.words)
           /\ got[s] = 0 => out.words = <<>> /\ out.rels = {}
<1> DEFINE f == flags[s]
<1>1. WellFormed(out) /\ Len(out.words) = GotNeed(s)
  <2>1. WellFormed(out) /\ Demand(s)["GOT"] = AllocateSymbol(f)["GOT"]
    BY SymbolWritten DEF PltPart
  <2>2. Demand(s)["GOT"] = Len(out.words)
    BY DEF Demand, Part
  <2> QED
    BY <2>1, <2>2 DEF GotNeed
<1>2. CASE got[s] = 0
  <2>1. out = Output(<<>>, {}, "ok")
    BY <1>2, Zenon DEF ProcessResolution
  <2>2. out.words = <<>> /\ out.rels = {}
    BY <2>1, OutputIs
  <2> QED
    BY <1>1, <2>2
<1>3. CASE got[s] # 0 /\ ~IsTls(f)
  <2>1. out = PlainEntries(s)
    BY <1>3, Zenon DEF ProcessResolution
  <2>2. \A x \in out.rels : x.at \in Nat /\ x.at < Len(out.words)
    BY <2>1, PlainEntriesAre
  <2> QED
    BY <1>1, <1>3, <2>2
<1>4. CASE got[s] # 0 /\ IsTls(f)
  <2>1. out = LET none == Output(<<>>, {}, "ok")
                  after == Count("GOT_TLS_OFFSET" \in f)
              IN  Then(IF "GOT_TLS_OFFSET" \in f THEN TlsOffset(s, 0) ELSE none,
                       Then(IF "GOT_TLS_MODULE" \in f THEN TlsModAndOffset(s, after) ELSE none,
                            IF "GOT_TLS_DESCRIPTOR" \in f
                            THEN TlsDescriptor(s, after + 2 * Count("GOT_TLS_MODULE" \in f))
                            ELSE none))
    BY <1>4, Zenon DEF ProcessResolution
  <2>2. PICK n, c : Piece(out, 0, n, c)
    BY <2>1, TlsEntriesIs
  <2>3. Len(out.words) = n /\ \A x \in out.rels : 0 <= x.at /\ x.at < 0 + n
    BY <2>2 DEF Piece
  <2>4. \A x \in out.rels : x.at \in Nat
    BY <1>1 DEF WellFormed, WrittenRelocation
  <2>5. GotNeed(s) \in Nat
    BY PlaceIs
  <2> QED
    BY <1>1, <1>4, <2>3, <2>4, <2>5
<1> QED
  BY <1>2, <1>3, <1>4

\* create_resolution counts the entries that allocate_resolution allocates, unless the writer
\* misses the PLT entry of an ifunc.
LEMMA GotCounted ==
    ASSUME Laid, NEW s \in Symbol, ProcessResolution(s).error = "ok"
    PROVE  GotCount(flags[s]) = GotNeed(s)
<1> DEFINE f == flags[s]
<1>1. /\ plt[s] <=> "PLT" \in f
      /\ got[s] # 0 <=> "GOT" \in f \/ IsTls(f)
      /\ "GOT" \in f => ~IsTls(f)
      /\ "PLT" \in f \/ "IFUNC_GOT_FOR_ADDRESS" \in f => "GOT" \in f
  BY SymbolLaid
<1>2. IsTls(f) <=> \/ "GOT_TLS_OFFSET" \in f \/ "GOT_TLS_MODULE" \in f \/ "GOT_TLS_DESCRIPTOR" \in f
  BY DEF IsTls, TlsFlag
<1>3. "IFUNC_GOT_FOR_ADDRESS" \in f => "PLT" \in f
  <2> SUFFICES ASSUME "IFUNC_GOT_FOR_ADDRESS" \in f PROVE "PLT" \in f
    OBVIOUS
  <2>1. got[s] # 0 /\ ~IsTls(f)
    BY <1>1
  <2>2. ProcessResolution(s) = PlainEntries(s)
    BY <2>1, Zenon DEF ProcessResolution
  <2>3. PICK out : out = PlainEntries(s)
    OBVIOUS
  <2>4. "IFUNC_GOT_FOR_ADDRESS" \in f => (out.error = "ok" => plt[s])
    BY <2>3, PlainEntriesAre
  <2> QED
    BY <1>1, <2>2, <2>3, <2>4
<1>4. PICK i, o, m, d : /\ i = Count("IFUNC_GOT_FOR_ADDRESS" \in f) /\ o = Count("GOT_TLS_OFFSET" \in f)
                        /\ m = Count("GOT_TLS_MODULE" \in f) /\ d = Count("GOT_TLS_DESCRIPTOR" \in f)
  OBVIOUS
<1>5. /\ i = IF "IFUNC_GOT_FOR_ADDRESS" \in f THEN 1 ELSE 0
      /\ o = IF "GOT_TLS_OFFSET" \in f THEN 1 ELSE 0
      /\ m = IF "GOT_TLS_MODULE" \in f THEN 1 ELSE 0
      /\ d = IF "GOT_TLS_DESCRIPTOR" \in f THEN 1 ELSE 0
  BY <1>4 DEF Count
<1>6. GotNeed(s) = Count("GOT" \in f /\ ~IsTls(f)) + i + o + 2 * m + 2 * d
  BY <1>4, AllocatedIs DEF GotNeed
<1>7. GotCount(f) = IF "PLT" \in f THEN 1 + i ELSE IF IsTls(f) THEN o + 2 * m + 2 * d ELSE Count("GOT" \in f)
  BY <1>4 DEF GotCount
<1>8. CASE "GOT" \in f
  <2>1. Count("GOT" \in f /\ ~IsTls(f)) = 1 /\ Count("GOT" \in f) = 1
    BY <1>1, <1>8 DEF Count
  <2>2. o = 0 /\ m = 0 /\ d = 0 /\ ~IsTls(f) /\ ("PLT" \notin f => i = 0)
    BY <1>1, <1>2, <1>3, <1>5, <1>8
  <2> QED
    BY <1>5, <1>6, <1>7, <2>1, <2>2
<1>9. CASE "GOT" \notin f
  <2>1. Count("GOT" \in f /\ ~IsTls(f)) = 0 /\ Count("GOT" \in f) = 0
    BY <1>9 DEF Count
  <2>2. "PLT" \notin f /\ i = 0 /\ (~IsTls(f) => o = 0 /\ m = 0 /\ d = 0)
    BY <1>1, <1>2, <1>5, <1>9
  <2> QED
    BY <1>5, <1>6, <1>7, <2>1, <2>2
<1> QED
  BY <1>8, <1>9

-----------------------------------------------------------------------------
(* The GOT is written as the resolutions say *)

Resolved == <<link, flags, defs, refs, usesTlsld, sizes, got, plt>>

LEMMA PlacesKept ==
    ASSUME UNCHANGED Resolved
    PROVE  /\ \A g : GotStart(g)' = GotStart(g)
           /\ \A g, p : SymbolSizes(g, p)' = SymbolSizes(g, p)
           /\ \A g : GotCounts(g)' = GotCounts(g)
           /\ \A s : Place(s)' = Place(s) /\ GotNeed(s)' = GotNeed(s)
<1>1. link' = link /\ flags' = flags /\ sizes' = sizes
  BY DEF Resolved
<1>2. \A g : GotStart(g)' = GotStart(g)
  BY <1>1 DEF GotStart
<1>3. \A f : AllocateSymbol(f)' = AllocateSymbol(f)
  BY <1>1, AllocationKept
<1>4. \A g, p : SymbolSizes(g, p)' = SymbolSizes(g, p)
  BY <1>1, AllocationKept
<1>5. \A g : GotCounts(g)' = GotCounts(g)
  BY <1>1 DEF GotCounts
<1>6. \A s : Place(s)' = Place(s)
  <2> SUFFICES ASSUME NEW s PROVE Place(s)' = Place(s)
    OBVIOUS
  <2>1. GotStart(Home[s])' = GotStart(Home[s]) /\ SymbolSizes(Home[s], "GOT")' = SymbolSizes(Home[s], "GOT")
    BY <1>2, <1>4
  <2> QED
    BY <2>1 DEF Place
<1>7. \A s : GotNeed(s)' = GotNeed(s)
  BY <1>1, <1>3 DEF GotNeed
<1> QED
  BY <1>2, <1>4, <1>5, <1>6, <1>7

LEMMA EntriesWrittenIs ==
    ASSUME NEW s, NEW out, out = ProcessResolution(s)
    PROVE  EntriesWritten(s) <=>
             /\ out.error = "ok"
             /\ got[s] # 0 => got[s] = Place(s)
             /\ \A k \in 1 .. Len(out.words) :
                  entry[Place(s) + k - 1] = Wrote(s, out.words[k], RelAt(out, k - 1))
  BY Zenon DEF EntriesWritten

LEMMA EntriesWrittenNext ==
    ASSUME UNCHANGED Resolved, NEW s, NEW out, out = ProcessResolution(s)
    PROVE  EntriesWritten(s)' <=>
             /\ out.error = "ok"
             /\ got[s] # 0 => got[s] = Place(s)
             /\ \A k \in 1 .. Len(out.words) :
                  entry'[Place(s) + k - 1] = Wrote(s, out.words[k], RelAt(out, k - 1))
<1>1. ProcessResolution(s)' = out /\ Place(s)' = Place(s) /\ got' = got
  BY OutputsKept, PlacesKept DEF Resolved
<1> QED
  BY <1>1, Zenon DEF EntriesWritten

\* The pair of entries for TLSLD relocations comes first.
LEMMA EntriesPrelude ==
    ASSUME Laid, LeftOK, EntriesOK, WritePrelude
    PROVE  EntriesOK'
<1>1. /\ phase = "prelude" /\ phase' = "write" /\ next' = next /\ next = 1 /\ UNCHANGED Resolved
      /\ left = sizes
  BY LeftPrelude DEF WritePrelude, LeftOK, Resolved
<1>2. /\ DOMAIN entry = 1 .. GotStart(Referrer) + sizes[Referrer]["GOT"] - 1
      /\ \A i \in DOMAIN entry : entry[i] = Unwritten /\ entry[i] \in Words
      /\ DOMAIN entry \subseteq Nat
  <2>1. GotStart(Referrer) \in Nat /\ sizes[Referrer]["GOT"] \in Nat
    BY StartIsPositive DEF Laid, TypeOK, Referrer, Group, Part
  <2>2. DOMAIN entry = 1 .. GotStart(Referrer) + sizes[Referrer]["GOT"] - 1
    BY <1>1 DEF EntriesOK, Addressed
  <2>3. \A i \in DOMAIN entry : entry[i] = Unwritten /\ entry[i] \in Words
    BY <1>1 DEF EntriesOK, Laid, TypeOK
  <2> QED
    BY <2>1, <2>2, <2>3
<1>3. /\ DOMAIN entry' = DOMAIN entry
      /\ usesTlsld => PreludeWritten'
      /\ \A i \in DOMAIN entry : (usesTlsld /\ i < 3) \/ entry'[i] = Unwritten
  <2>1. CASE ~usesTlsld
    <3>1. entry' = entry
      BY <2>1, Zenon DEF WritePrelude
    <3> QED
      BY <1>2, <2>1, <3>1
  <2>2. CASE usesTlsld
    <3>1. PICK out : /\ entry' = EntriesWith(Prelude, 0, 1, out)
                     /\ out = IF IsExecutable(kind) THEN Output(<<"module", "dtpoff">>, {}, "ok")
                              ELSE Output(<<"zero", "zero">>, General(0, "dtpmod"), "ok")
      BY <2>2, Zenon DEF WritePrelude
    <3>2. /\ out.words = IF IsExecutable(kind) THEN <<"module", "dtpoff">> ELSE <<"zero", "zero">>
          /\ out.rels = IF IsExecutable(kind) THEN {} ELSE {Placed(0, "RELA_DYN_GENERAL", "dtpmod")}
      <4>1. CASE IsExecutable(kind)
        BY <3>1, <4>1, OutputIs
      <4>2. CASE ~IsExecutable(kind)
        BY <3>1, <4>2, OutputIs, GeneralIs
      <4> QED
        BY <4>1, <4>2
    <3>3. Len(out.words) = 2
      <4>1. Len(<<"module", "dtpoff">>) = 2 /\ Len(<<"zero", "zero">>) = 2
        OBVIOUS
      <4> QED
        BY <3>2, <4>1
    <3>4. /\ 0 \in Nat /\ "RELA_DYN_GENERAL" \in Part /\ "dtpmod" \in Relocated
      BY DEF Part, Relocated
    <3>5. /\ RelAt(out, 0) = IF IsExecutable(kind) THEN "none" ELSE "dtpmod"
          /\ RelAt(out, 1) = "none"
          /\ \A x \in out.rels : x.at = 0
      BY <3>2, <3>4, RelAtForms, PlacedIs
    <3>6. 1 = GotStart(Prelude) + sizes[Prelude]["GOT"] - left[Prelude]["GOT"]
      <4>1. GotStart(0) = 1 /\ sizes[0]["GOT"] \in Nat
        BY GotStarts DEF Laid, Group
      <4> QED
        BY <1>1, <4>1 DEF Prelude
    <3>7. {1, 2} \subseteq DOMAIN entry
      <4>1. PICK s \in Symbol : TRUE
        BY SymbolsAssumption DEF Symbol
      <4>2. Place(s) >= 3 /\ Place(s) \in Nat /\ GotNeed(s) \in Nat
            /\ Place(s) + GotNeed(s) <= GotStart(Referrer) + sizes[Referrer]["GOT"]
        BY <2>2, PlaceIs
      <4>3. GotStart(Referrer) \in Nat /\ sizes[Referrer]["GOT"] \in Nat
        BY StartIsPositive DEF Laid, TypeOK, Referrer, Group, Part
      <4> QED
        BY <1>2, <4>2, <4>3
    <3>8. /\ DOMAIN entry' = DOMAIN entry
          /\ \A i \in DOMAIN entry : i < 1 \/ i >= 1 + 2 => entry'[i] = entry[i]
          /\ \A k \in 1 .. 2 : 1 + k - 1 \in DOMAIN entry /\ entry[1 + k - 1] = Unwritten =>
               entry'[1 + k - 1] = Wrote(0, out.words[k], RelAt(out, k - 1))
      <4>1. PICK P, n : P = 1 /\ n = 2
        OBVIOUS
      <4>2. /\ P \in Nat /\ P = GotStart(Prelude) + sizes[Prelude]["GOT"] - left[Prelude]["GOT"]
            /\ n \in Nat /\ n = Len(out.words)
            /\ \A x \in out.rels : x.at \in Nat /\ x.at < n
        BY <3>3, <3>5, <3>6, <4>1
      <4>3. /\ DOMAIN EntriesWith(Prelude, 0, P, out) = DOMAIN entry
            /\ \A i \in DOMAIN entry :
                 i < P \/ i >= P + n => EntriesWith(Prelude, 0, P, out)[i] = entry[i]
            /\ \A k \in 1 .. n : P + k - 1 \in DOMAIN entry /\ entry[P + k - 1] = Unwritten =>
                 EntriesWith(Prelude, 0, P, out)[P + k - 1] = Wrote(0, out.words[k], RelAt(out, k - 1))
        BY <1>2, <4>2, EntriesWithIs
      <4> QED
        BY <3>1, <4>1, <4>3
    <3>9. entry'[1] = Wrote(0, out.words[1], RelAt(out, 0)) /\ entry'[2] = Wrote(0, out.words[2], RelAt(out, 1))
      <4>1. 1 \in 1 .. 2 /\ 2 \in 1 .. 2 /\ 1 + 1 - 1 = 1 /\ 1 + 2 - 1 = 2 /\ 1 - 1 = 0 /\ 2 - 1 = 1
        OBVIOUS
      <4> QED
        BY <1>2, <3>7, <3>8, <4>1
    <3>10. PreludeWritten'
      <4>1. kind' = kind
        BY <1>1 DEF Resolved, kind
      <4>2. /\ out.words[1] = IF IsExecutable(kind) THEN "module" ELSE "zero"
            /\ out.words[2] = IF IsExecutable(kind) THEN "dtpoff" ELSE "zero"
        BY <3>2
      <4> QED
        BY <3>5, <3>9, <4>1, <4>2 DEF PreludeWritten
    <3>11. \A i \in DOMAIN entry : i < 3 \/ entry'[i] = Unwritten
      BY <1>2, <3>8
    <3> QED
      BY <2>2, <3>8, <3>10, <3>11
  <2> QED
    BY <2>1, <2>2
<1>4. \A i \in DOMAIN entry' : i >= Place(1) => entry'[i] = Unwritten
  <2>1. 1 \in Symbol
    BY SymbolsAssumption DEF Symbol
  <2>2. Place(1) \in Nat /\ (usesTlsld => Place(1) >= 3)
    BY <2>1, PlaceIs
  <2> QED
    BY <1>2, <1>3, <2>2
<1>5. /\ GotStart(Referrer)' = GotStart(Referrer) /\ sizes' = sizes /\ usesTlsld' = usesTlsld
      /\ Place(1)' = Place(1)
      /\ \A g : SymbolSizes(g, "GOT")' = SymbolSizes(g, "GOT") /\ GotCounts(g)' = GotCounts(g)
  BY <1>1, PlacesKept DEF Resolved
<1>6. \A g \in Group : Total(next' - 1, GotCounts(g)) = Total(next' - 1, SymbolSizes(g, "GOT"))
  <2> SUFFICES ASSUME NEW g \in Group
               PROVE  Total(0, GotCounts(g)) = Total(0, SymbolSizes(g, "GOT"))
    BY <1>1
  <2>1. NumSymbols \in Nat /\ GotCounts(g) \in [1 .. NumSymbols -> Nat]
        /\ SymbolSizes(g, "GOT") \in [1 .. NumSymbols -> Nat]
    BY SymbolsAssumption, GotCountsAre, AllocatedTyped DEF Part
  <2> QED
    BY <2>1, TotalSums
<1>7. \A g \in Group : Total(next - 1, GotCounts(g))' = Total(next - 1, SymbolSizes(g, "GOT"))'
  BY <1>5, <1>6
<1>8. next' \in Symbol => Place(next)' = Place(1)
  BY <1>1, <1>5
<1>9. \A s \in Symbol : ~(s < next')
  BY <1>1 DEF Symbol
<1> QED
  BY <1>1, <1>2, <1>3, <1>4, <1>5, <1>7, <1>8, <1>9 DEF EntriesOK, Addressed, Writing

\* The addresses of the GOT agree with the places of the entries.
LEMMA WriterFirst ==
    ASSUME Laid, LeftOK, EntriesOK, phase = "write", todo = {}, next \in Symbol,
           ProcessResolution(next).error = "ok"
    PROVE  /\ GotStart(Home[next]) + sizes[Home[next]]["GOT"] - left[Home[next]]["GOT"] = Place(next)
           /\ got[next] # 0 => got[next] = Place(next)
<1>1. PICK s, g : s = next /\ g = Home[s]
  OBVIOUS
<1>2. s \in Symbol /\ g \in Group /\ g # Prelude /\ s - 1 \in 0 .. NumSymbols /\ NumSymbols \in Nat
  BY <1>1, SymbolsAssumption DEF Symbol
<1>3. PICK size : size = SymbolSizes(g, "GOT")
  OBVIOUS
<1>4. /\ Total(NumSymbols, size) \in Nat /\ Total(s - 1, size) \in Nat
      /\ "GOT" \in PltPart
  BY <1>1, <1>2, <1>3, StillToWrite DEF Laid, Part, PltPart
<1>5. left[g]["GOT"] + Total(s - 1, size) = Total(NumSymbols, size)
  <2>1. LeftIs(g, "GOT")
    BY <1>2, <1>4 DEF LeftOK, Part
  <2>2. Cardinality(Sized(todo, "GOT")) = 0
    <3>1. Sized(todo, "GOT") = {}
      BY DEF Sized
    <3> QED
      BY <3>1, FS_EmptySet
  <2> QED
    BY <1>1, <1>3, <1>4, <2>1, <2>2 DEF LeftIs
<1>6. sizes[g]["GOT"] = Total(NumSymbols, size)
  BY <1>2, <1>3, <1>4, GotSizes
<1>7. GotStart(g) \in Nat /\ left[g]["GOT"] \in Nat
  BY <1>2, StartIsPositive DEF Laid, TypeOK, Part
<1>8. Place(s) = GotStart(g) + Total(s - 1, size)
  BY <1>1, <1>3 DEF Place
<1>9. GotStart(g) + sizes[g]["GOT"] - left[g]["GOT"] = Place(s)
  BY <1>4, <1>5, <1>6, <1>7, <1>8
<1>10. got[s] # 0 => got[s] = Place(s)
  <2>1. got[s] = IF GotCount(flags[s]) = 0 THEN 0
                 ELSE GotStart(Home[s]) + Total(s - 1, GotCounts(Home[s]))
    BY <1>2, Zenon DEF Laid, AddressesOK, GotCounts
  <2>2. Total(s - 1, GotCounts(g)) = Total(s - 1, SymbolSizes(g, "GOT"))
    BY <1>1, <1>2 DEF EntriesOK, Writing
  <2> QED
    BY <1>1, <2>1, <2>2 DEF Place
<1> QED
  BY <1>1, <1>9, <1>10

LEMMA EntriesResolution ==
    ASSUME Laid, LeftOK, EntriesOK, WriteResolution
    PROVE  EntriesOK'
<1>1. /\ phase = "write" /\ todo = {} /\ next \in Symbol /\ next' = next + 1 /\ UNCHANGED Resolved
      /\ entry' = EntriesWith(Home[next], next, got[next], ProcessResolution(next))
      /\ Take(Home[next], Demand(next), ProcessResolution(next).error, "write")
  BY ResolutionIs DEF Resolved
<1>2. PICK s, out : s = next /\ out = ProcessResolution(s)
  OBVIOUS
<1>3. /\ s \in Symbol /\ s \in Nat /\ WellFormed(out) /\ Len(out.words) = GotNeed(s)
      /\ \A x \in out.rels : x.at \in Nat /\ x.at < Len(out.words)
      /\ got[s] = 0 => out.rels = {}
  BY <1>1, <1>2, OutputInside, SymbolsAssumption DEF Symbol
<1>4. /\ DOMAIN entry = 1 .. GotStart(Referrer) + sizes[Referrer]["GOT"] - 1
      /\ \A i \in DOMAIN entry : entry[i] \in Words
      /\ \A i \in DOMAIN entry : i >= Place(s) => entry[i] = Unwritten
      /\ \A t \in Symbol : t < s => EntriesWritten(t)
      /\ usesTlsld => PreludeWritten
  BY <1>1, <1>2 DEF EntriesOK, Writing, Addressed, Laid, TypeOK
<1>5. DOMAIN entry' = DOMAIN entry
  BY <1>1 DEF EntriesWith
<1>6. GotStart(Referrer)' = GotStart(Referrer) /\ sizes' = sizes
  BY <1>1, PlacesKept DEF Resolved
<1>7. GotStart(Referrer) \in Nat /\ sizes[Referrer]["GOT"] \in Nat
  BY StartIsPositive DEF Laid, TypeOK, Referrer, Group, Part
<1>8. phase' \in {"write"} \cup Failure
  <2>1. phase' \in {"write", "done"} \cup Failure
    BY WriteKeeps
  <2>2. phase' \in {out.error, "short", "write"}
    BY <1>1, <1>2 DEF Take
  <2> QED
    BY <1>3, <2>1, <2>2 DEF WellFormed
<1>9. CASE phase' # "write"
  BY <1>4, <1>5, <1>6, <1>8, <1>9 DEF EntriesOK, Addressed, Writing, Failure
<1>10. CASE phase' = "write"
  <2>1. out.error = "ok"
    BY <1>1, <1>2, <1>3, <1>10 DEF Take, WellFormed
  <2>2. PICK P, n : P = Place(s) /\ n = GotNeed(s)
    OBVIOUS
  <2>3. /\ P = GotStart(Home[s]) + sizes[Home[s]]["GOT"] - left[Home[s]]["GOT"]
        /\ got[s] # 0 => got[s] = P
    BY <1>1, <1>2, <2>1, <2>2, WriterFirst
  <2>4. /\ P \in Nat /\ P >= 1 /\ (usesTlsld => P >= 3) /\ n \in Nat
        /\ P + n <= GotStart(Referrer) + sizes[Referrer]["GOT"]
    BY <1>3, <2>2, PlaceIs
  <2>5. DOMAIN entry \subseteq Nat /\ \A k \in 1 .. n : P + k - 1 \in DOMAIN entry
    BY <1>4, <1>7, <2>4
  <2>6. /\ \A i \in DOMAIN entry : i < P \/ i >= P + n => entry'[i] = entry[i]
        /\ \A k \in 1 .. n : entry'[P + k - 1] = Wrote(s, out.words[k], RelAt(out, k - 1))
    <3>1. n = Len(out.words) /\ (\A x \in out.rels : x.at \in Nat /\ x.at < n)
          /\ (out.rels # {} => got[s] = P)
      BY <1>3, <2>2, <2>3
    <3>2. /\ \A i \in DOMAIN entry :
               i < P \/ i >= P + n => EntriesWith(Home[s], s, got[s], out)[i] = entry[i]
          /\ \A k \in 1 .. n : P + k - 1 \in DOMAIN entry /\ entry[P + k - 1] = Unwritten =>
               EntriesWith(Home[s], s, got[s], out)[P + k - 1] = Wrote(s, out.words[k], RelAt(out, k - 1))
      <4>1. /\ P \in Nat /\ P = GotStart(Home[s]) + sizes[Home[s]]["GOT"] - left[Home[s]]["GOT"]
            /\ n \in Nat /\ n = Len(out.words)
            /\ \A x \in out.rels : x.at \in Nat /\ x.at < n
            /\ out.rels # {} => got[s] = P
            /\ DOMAIN entry \subseteq Nat /\ \A i \in DOMAIN entry : entry[i] \in Words
        BY <1>4, <2>3, <2>4, <2>5, <3>1
      <4>2. PICK at, g : at = got[s] /\ g = Home[s]
        OBVIOUS
      <4>3. /\ P = GotStart(g) + sizes[g]["GOT"] - left[g]["GOT"]
            /\ out.rels # {} => at = P
        BY <4>1, <4>2
      <4>4. /\ \A i \in DOMAIN entry : i < P \/ i >= P + n => EntriesWith(g, s, at, out)[i] = entry[i]
            /\ \A k \in 1 .. n : P + k - 1 \in DOMAIN entry /\ entry[P + k - 1] = Unwritten =>
                 EntriesWith(g, s, at, out)[P + k - 1] = Wrote(s, out.words[k], RelAt(out, k - 1))
        BY <4>1, <4>3, EntriesWithIs
      <4> QED
        BY <4>2, <4>4
    <3>3. \A k \in 1 .. n : P + k - 1 \in DOMAIN entry /\ entry[P + k - 1] = Unwritten
      BY <1>4, <2>2, <2>4, <2>5
    <3>4. entry' = EntriesWith(Home[s], s, got[s], out)
      BY <1>1, <1>2
    <3> QED
      BY <3>2, <3>3, <3>4
  <2>7. usesTlsld' => PreludeWritten'
    <3> SUFFICES ASSUME usesTlsld PROVE PreludeWritten'
      BY <1>1 DEF Resolved
    <3>1. kind' = kind
      BY <1>1 DEF Resolved, kind
    <3>2. 1 \in DOMAIN entry /\ 2 \in DOMAIN entry
      BY <1>4, <1>7, <2>4
    <3>3. entry'[1] = entry[1] /\ entry'[2] = entry[2]
      BY <2>4, <2>6, <3>2
    <3> QED
      BY <1>4, <3>1, <3>3 DEF PreludeWritten
  <2>8. ASSUME NEW t \in Symbol, t < next' PROVE EntriesWritten(t)'
    <3>1. PICK o : o = ProcessResolution(t)
      OBVIOUS
    <3>2. CASE t = s
      <4>1. /\ o.error = "ok" /\ (got[t] # 0 => got[t] = Place(t))
            /\ \A k \in 1 .. Len(o.words) : entry'[Place(t) + k - 1] = Wrote(t, o.words[k], RelAt(o, k - 1))
        BY <1>2, <1>3, <2>1, <2>2, <2>3, <2>6, <3>1, <3>2
      <4> QED
        BY <1>1, <3>1, <4>1, EntriesWrittenNext
    <3>3. CASE t # s
      <4>1. t < s /\ t \in Nat
        BY <1>1, <1>2, <1>3, <2>8, <3>3 DEF Symbol
      <4>2. /\ o.error = "ok" /\ (got[t] # 0 => got[t] = Place(t))
            /\ \A k \in 1 .. Len(o.words) : entry[Place(t) + k - 1] = Wrote(t, o.words[k], RelAt(o, k - 1))
        BY <1>4, <3>1, <4>1, EntriesWrittenIs
      <4>3. PICK Q, m : Q = Place(t) /\ m = GotNeed(t)
        OBVIOUS
      <4>4. Q + m <= P /\ Q \in Nat /\ Q >= 1 /\ m \in Nat /\ m = Len(o.words)
            /\ Q + m <= GotStart(Referrer) + sizes[Referrer]["GOT"]
        BY <1>3, <2>2, <3>1, <4>1, <4>3, PlacesFollow, PlaceIs, OutputInside
      <4>5. \A k \in 1 .. m : Q + k - 1 \in DOMAIN entry /\ Q + k - 1 < P
        <5>1. PICK D : D = GotStart(Referrer) + sizes[Referrer]["GOT"]
          OBVIOUS
        <5>2. DOMAIN entry = 1 .. D - 1 /\ D \in Nat
          BY <1>4, <1>7, <5>1
        <5>3. Q + m <= P /\ Q \in Nat /\ Q >= 1 /\ m \in Nat /\ Q + m <= D /\ P \in Nat
          BY <2>4, <4>4, <5>1
        <5>4. \A k \in 1 .. m : Q + k - 1 \in 1 .. D - 1 /\ Q + k - 1 < P
          BY <5>2, <5>3
        <5> QED
          BY <5>2, <5>4
      <4>6. \A k \in 1 .. m : entry'[Q + k - 1] = Wrote(t, o.words[k], RelAt(o, k - 1))
        BY <2>6, <4>2, <4>3, <4>4, <4>5
      <4> QED
        BY <1>1, <3>1, <4>2, <4>3, <4>4, <4>6, EntriesWrittenNext
    <3> QED
      BY <3>2, <3>3
  <2>9. next' \in Symbol => \A i \in DOMAIN entry : i >= Place(next)' => entry'[i] = Unwritten
    <3> SUFFICES ASSUME next' \in Symbol, NEW i \in DOMAIN entry, i >= Place(next')
                 PROVE  entry'[i] = Unwritten
      <4>1. Place(next)' = Place(next')
        BY <1>1, PlacesKept
      <4> QED
        BY <4>1
    <3>1. Place(s) + GotNeed(s) <= Place(next') /\ Place(next') \in Nat
      BY <1>1, <1>2, <1>3, PlacesFollow, PlaceIs
    <3>2. i \in Nat /\ i >= P + n /\ i >= P
      BY <2>2, <2>4, <2>5, <3>1
    <3> QED
      BY <1>4, <2>2, <2>6, <3>2
  <2>10. ASSUME NEW g \in Group
         PROVE  Total(next' - 1, GotCounts(g)) = Total(next' - 1, SymbolSizes(g, "GOT"))
    <3>1. PICK c, z : c = GotCounts(g) /\ z = SymbolSizes(g, "GOT")
      OBVIOUS
    <3>2. /\ NumSymbols \in Nat /\ c \in [1 .. NumSymbols -> Nat] /\ z \in [1 .. NumSymbols -> Nat]
          /\ s \in 1 .. NumSymbols
      BY <1>3, <3>1, SymbolsAssumption, GotCountsAre, AllocatedTyped DEF Part, Symbol
    <3>3. /\ Total(s, c) = Total(s - 1, c) + c[s] /\ Total(s, z) = Total(s - 1, z) + z[s]
      BY <3>2, TotalSums
    <3>4. c[s] = z[s]
      <4>1. GotCount(flags[s]) = GotNeed(s)
        BY <1>2, <1>3, <2>1, GotCounted
      <4> QED
        BY <1>3, <3>1, <4>1 DEF GotCounts, SymbolSizes, GotNeed
    <3>5. Total(s - 1, c) = Total(s - 1, z)
      BY <1>1, <1>2, <3>1 DEF EntriesOK, Writing
    <3>6. next' - 1 = s
      BY <1>1, <1>2, <1>3
    <3> QED
      BY <3>1, <3>3, <3>4, <3>5, <3>6
  <2>11. \A g \in Group : Total(next - 1, GotCounts(g))' = Total(next - 1, SymbolSizes(g, "GOT"))'
    <3>1. \A g : SymbolSizes(g, "GOT")' = SymbolSizes(g, "GOT") /\ GotCounts(g)' = GotCounts(g)
      BY <1>1, PlacesKept
    <3> QED
      BY <2>10, <3>1
  <2> QED
    BY <1>4, <1>5, <1>6, <1>10, <2>7, <2>8, <2>9, <2>11 DEF EntriesOK, Addressed, Writing
<1> QED
  BY <1>9, <1>10

-----------------------------------------------------------------------------
(* No writer takes more of .rela.dyn than was allocated, supported or not *)

LEMMA GeneralEnough ==
    ASSUME Laid, NEW s \in Symbol
    PROVE  /\ Demand(s)["RELA_DYN_GENERAL"] <= AllocateSymbol(flags[s])["RELA_DYN_GENERAL"]
           /\ "GOT_TLS_OFFSET" \in flags[s] /\ kind = "SharedObject" /\ OffsetTaken(s) = 0 => UnusedOf(s)
<1> DEFINE f == flags[s]
<1>1. PICK out : out = ProcessResolution(s)
  OBVIOUS
<1>2. /\ got[s] # 0 <=> "GOT" \in f \/ IsTls(f)
      /\ "GOT" \in f => ~IsTls(f)
      /\ IsTls(f) <=> \/ "GOT_TLS_OFFSET" \in f \/ "GOT_TLS_MODULE" \in f
                      \/ "GOT_TLS_DESCRIPTOR" \in f
  BY SymbolLaid DEF IsTls, TlsFlag
<1>3. SymbolOK(s) /\ TypeOK /\ f \cap StaticFlag = Base(s)
  BY DEF Laid, FlagsOK, SymbolOK
<1>4. /\ IsDynamic(f) <=> Sym[s].from = "shared" \/ (Sym[s].from = "undefined" /\ Preemptible(s))
      /\ IsInterposable(f) <=> Preemptible(s)
  BY <1>3, BaseFlags
<1>5. /\ kind \in Kind /\ Sym[s].from \in {"object", "shared", "undefined"}
      /\ Sym[s].from = "shared" => Preemptible(s)
      /\ IsExecutable(kind) <=> kind # "SharedObject"
  BY <1>3, SymbolFacts DEF Preemptible, IsExecutable, IsStatic, Kind
<1>6. Preemptible(s) /\ Sym[s].from = "object" => "EXPORT_DYNAMIC" \in f
  <2>1. MustExport(s) => s \in defs
    BY DEF Laid, SizesOK, Addressed, Scanning
  <2>2. Preemptible(s) /\ Sym[s].from = "object" => MustExport(s)
    BY DEF Preemptible, MustExport
  <2>3. s \in defs /\ Sym[s].from = "object" => "EXPORT_DYNAMIC" \in f
    BY <1>3 DEF SymbolOK
  <2> QED
    BY <2>1, <2>2, <2>3
<1>7. IsInterposable(f) <=> HasDynamicSymbol(f)
  BY <1>4, <1>5, <1>6 DEF HasDynamicSymbol
<1>8. PICK x, d, c, o, u, v, y, z :
        /\ x = Count("GOT" \in f /\ ~IsTls(f) /\ ~IsIfunc(f) /\ HasDynamicSymbol(f))
        /\ d = Count("GOT_TLS_DESCRIPTOR" \in f) /\ c = Count("COPY_RELOCATION" \in f)
        /\ o = Count("GOT_TLS_OFFSET" \in f /\ (IsInterposable(f) \/ kind = "SharedObject"))
        /\ u = Count("GOT_TLS_MODULE" \in f /\ (~IsExecutable(kind) \/ IsDynamic(f)))
        /\ v = Count("GOT_TLS_MODULE" \in f /\ HasDynamicSymbol(f))
        /\ y = OffsetTaken(s) /\ z = ModuleTaken(s)
  OBVIOUS
<1>9. /\ x \in Nat /\ d \in Nat /\ c \in Nat /\ o \in Nat /\ u \in Nat /\ v \in Nat
      /\ y \in Nat /\ z \in Nat
  BY <1>8 DEF Count, OffsetTaken, ModuleTaken
<1>10. y <= o
  BY <1>5, <1>7, <1>8 DEF OffsetTaken, Count
<1>11. z <= u + v
  BY <1>7, <1>8 DEF ModuleTaken, Count
<1>12. AllocateSymbol(f)["RELA_DYN_GENERAL"] = x + o + u + v + d + c
  BY <1>8, AllocatedIs
<1>13. InTable(out, "RELA_DYN_GENERAL") \in Nat /\ InTable(out, "RELA_DYN_GENERAL") <= x + y + z + d
  <2>1. CASE got[s] = 0
    <3>1. out = Output(<<>>, {}, "ok")
      BY <1>1, <2>1, Zenon DEF ProcessResolution
    <3>2. Piece(out, 0, 0, 0)
      BY <3>1, NoPiece
    <3>3. InTable(out, "RELA_DYN_GENERAL") = 0
      BY <3>2 DEF Piece
    <3> QED
      BY <1>9, <3>3
  <2>2. CASE got[s] # 0 /\ ~IsTls(f)
    <3>1. out = PlainEntries(s)
      BY <1>1, <2>2, Zenon DEF ProcessResolution
    <3>2. "GOT" \in f
      BY <1>2, <2>2
    <3>3. x = Count(~IsIfunc(f) /\ HasDynamicSymbol(f))
      BY <1>8, <2>2, <3>2 DEF Count
    <3>4. InTable(out, "RELA_DYN_GENERAL") = x
      BY <3>1, <3>3, PlainEntriesIs
    <3> QED
      BY <1>9, <3>4
  <2>3. CASE got[s] # 0 /\ IsTls(f)
    <3>1. out = LET none == Output(<<>>, {}, "ok")
                    after == Count("GOT_TLS_OFFSET" \in f)
                IN  Then(IF "GOT_TLS_OFFSET" \in f THEN TlsOffset(s, 0) ELSE none,
                         Then(IF "GOT_TLS_MODULE" \in f THEN TlsModAndOffset(s, after) ELSE none,
                              IF "GOT_TLS_DESCRIPTOR" \in f
                              THEN TlsDescriptor(s, after + 2 * Count("GOT_TLS_MODULE" \in f))
                              ELSE none))
      BY <1>1, <2>3, Zenon DEF ProcessResolution
    <3>2. PICK n : Piece(out, 0, n, OffsetTaken(s) + (ModuleTaken(s) + Count("GOT_TLS_DESCRIPTOR" \in f)))
      BY <3>1, TlsEntriesIs
    <3>3. InTable(out, "RELA_DYN_GENERAL") = y + (z + d)
      BY <1>8, <3>2 DEF Piece
    <3> QED
      BY <1>9, <3>3
  <2> QED
    BY <2>1, <2>2, <2>3
<1>14. Demand(s)["RELA_DYN_GENERAL"] = InTable(out, "RELA_DYN_GENERAL") + c
  <2>1. AllocateCopy(f)["RELA_DYN_GENERAL"] = c
    BY <1>8, AllocatedIs DEF Part
  <2> QED
    BY <1>1, <2>1 DEF Demand, Part
<1>15. Demand(s)["RELA_DYN_GENERAL"] <= AllocateSymbol(f)["RELA_DYN_GENERAL"]
  BY <1>9, <1>10, <1>11, <1>12, <1>13, <1>14
<1>16. ASSUME "GOT_TLS_OFFSET" \in f, kind = "SharedObject", OffsetTaken(s) = 0 PROVE UnusedOf(s)
  <2>1. y = 0 /\ o = 1
    BY <1>8, <1>16 DEF Count
  <2>2. Demand(s)["RELA_DYN_GENERAL"] # AllocateSymbol(f)["RELA_DYN_GENERAL"]
    BY <1>9, <1>11, <1>12, <1>13, <1>14, <2>1
  <2> QED
    BY <2>2 DEF UnusedOf
<1> QED
  BY <1>15, <1>16

LEMMA RelocationEnough ==
    ASSUME Laid, NEW r \in refs
    PROVE  /\ Count("RELA_DYN_GENERAL" = Result(r).part) <= RefSize(r, "RELA_DYN_GENERAL")
           /\ RefSize(r, "RELA_DYN_GENERAL") \in {0, 1}
<1> DEFINE f == flags[r.sym]
<1>1. PICK kd : kd = RelKind(r, f)
  OBVIOUS
<1>2. RefSize(r, "RELA_DYN_GENERAL") = IF "RELA_DYN_GENERAL" = RefPart(r, f, kd) THEN 1 ELSE 0
  <2>1. RefSize(r, "RELA_DYN_GENERAL") = AllocatedForRelocation(r, f, kd)["RELA_DYN_GENERAL"]
    BY <1>1, Zenon DEF RefSize
  <2> QED
    BY <2>1, RefSizeIs DEF Part
<1>3. Result(r).part = "RELA_DYN_GENERAL" => RefPart(r, f, kd) = "RELA_DYN_GENERAL"
  <2>1. CASE kd # "Absolute"
    <3>1. Result(r).part = "none"
      BY <1>1, <2>1, ResultForm
    <3> QED
      BY <3>1
  <2>2. CASE kd = "Absolute"
    <3>1. Result(r) = WriteAbsolute(r)
      BY <1>1, <2>2, Zenon DEF Result
    <3>2. PICK res : res = WriteAbsolute(r)
      OBVIOUS
    <3>3. RelativePart(PlaceEven(r)) # "RELA_DYN_GENERAL"
      BY RelativePartIs
    <3>4. res.part = "RELA_DYN_GENERAL" =>
            /\ Writable(r)
            /\ IsInterposable(f) \/ (IsIfunc(f) /\ IsRelocatable(kind))
      BY <3>2, <3>3, AbsoluteForm
    <3>5. "DIRECT" \in NeededFlags("Absolute") /\ ~IsTlsKind("Absolute")
      BY DEF NeededFlags, IsTlsKind
    <3> QED
      BY <2>2, <3>1, <3>2, <3>4, <3>5 DEF RefPart, DirectInterposable
  <2> QED
    BY <2>1, <2>2
<1> QED
  BY <1>2, <1>3 DEF Count

LEMMA WordsRelocation ==
    ASSUME Laid, LeftOK, WordsOK, NEW r \in todo, ApplyRelocation(r)
    PROVE  WordsOK'
<1>1. /\ phase = "write" /\ UNCHANGED Resolved /\ todo' = todo \ {r}
      /\ Take(Referrer, [p \in Part |-> Count(p = Result(r).part)], Result(r).error, "write")
      /\ word' = [word EXCEPT ![r] = [of |-> r.sym, word |-> Result(r).word, rel |-> Result(r).rel]]
  BY ApplyIs DEF Resolved
<1>2. /\ DOMAIN word = refs
      /\ \A q \in refs \ todo :
           Result(q).error = "ok" /\ word[q] = Wrote(q.sym, Result(q).word, Result(q).rel)
  BY <1>1 DEF WordsOK, Addressed, Writing
<1>3. refs' = refs /\ r \in refs
  BY <1>1 DEF Resolved, Laid, TypeOK
<1>4. PICK w : w = Wrote(r.sym, Result(r).word, Result(r).rel)
  OBVIOUS
<1>5. word' = [word EXCEPT ![r] = w]
  BY <1>1, <1>4 DEF Wrote
<1>6. \A q : Result(q)' = Result(q)
  BY <1>1, OutputsKept DEF Resolved
<1>7. Result(r).error \in {"ok", "missing"}
  BY <1>3, RelocationWritten
<1>8. phase' = "write" => Result(r).error = "ok"
  BY <1>1, <1>7 DEF Take
<1>9. phase' \in {"write", "short", "missing"}
  BY <1>1, <1>7 DEF Take
<1>10. \A q \in refs \ (todo \ {r}) :
         phase' = "write" => Result(q).error = "ok" /\ word'[q] = Wrote(q.sym, Result(q).word, Result(q).rel)
  BY <1>2, <1>3, <1>4, <1>5, <1>8
<1>11. \A q \in refs' \ todo' :
         phase' = "write" =>
           Result(q)'.error = "ok" /\ word'[q] = Wrote(q.sym, Result(q)'.word, Result(q)'.rel)
  BY <1>1, <1>3, <1>6, <1>10
<1> QED
  BY <1>2, <1>3, <1>5, <1>9, <1>11 DEF WordsOK, Addressed, Writing

LEMMA WordsSame ==
    ASSUME WordsOK, UNCHANGED Resolved, UNCHANGED word, Addressed,
           (todo' = todo /\ Writing) \/ todo' = refs
    PROVE  WordsOK'
<1>1. DOMAIN word' = refs'
  BY DEF WordsOK, Resolved
<1>2. \A q : Result(q)' = Result(q)
  BY OutputsKept DEF Resolved
<1>3. refs' = refs
  BY DEF Resolved
<1>4. \A q \in refs' \ todo' : Result(q)'.error = "ok" /\ word'[q] = Wrote(q.sym, Result(q)'.word, Result(q)'.rel)
  BY <1>2, <1>3 DEF WordsOK
<1> QED
  BY <1>1, <1>4 DEF WordsOK

\* UnusedLeft, in the variables of one group.
LEMMA UnusedNext ==
    ASSUME UNCHANGED Resolved, NEW rels, rels = todo',
           \A g \in Group :
             LET size == SymbolSizes(g, "RELA_DYN_GENERAL")
                 has == left'[g]["RELA_DYN_GENERAL"] + Total(next' - 1, size)
                 needs == Total(NumSymbols, size)
                          + (IF g = Referrer THEN Cardinality(Sized(rels, "RELA_DYN_GENERAL")) ELSE 0)
             IN  /\ has >= needs
                 /\ \/ g = Referrer /\ \E r \in refs \ rels : UnusedBy(r)
                    \/ \E s \in Symbol : s < next' /\ Home[s] = g /\ UnusedOf(s)
                    => has > needs
                 /\ phase' = "done" => left'[g]["RELA_DYN_GENERAL"] = 0
    PROVE  UnusedLeft'
<1>1. \A g : SymbolSizes(g, "RELA_DYN_GENERAL")' = SymbolSizes(g, "RELA_DYN_GENERAL")
  BY PlacesKept
<1>2. Sized(todo, "RELA_DYN_GENERAL")' = Sized(rels, "RELA_DYN_GENERAL")
  <2>1. {q \in rels : RefSize(q, "RELA_DYN_GENERAL")' = 1} = Sized(rels, "RELA_DYN_GENERAL")
    BY SizedKept DEF Resolved
  <2> QED
    BY <2>1 DEF Sized
<1>3. \A r : UnusedBy(r)' = UnusedBy(r)
  <2>1. \A r : RefSize(r, "RELA_DYN_GENERAL")' = RefSize(r, "RELA_DYN_GENERAL")
    BY ProcessedSame DEF Resolved
  <2>2. \A r : Result(r)' = Result(r)
    BY OutputsKept DEF Resolved
  <2> QED
    BY <2>1, <2>2 DEF UnusedBy
<1>4. \A s : UnusedOf(s)' = UnusedOf(s)
  <2>1. \A s : Demand(s)' = Demand(s)
    BY OutputsKept DEF Resolved
  <2>2. \A f : AllocateSymbol(f)' = AllocateSymbol(f)
    BY AllocationKept DEF Resolved
  <2> QED
    BY <2>1, <2>2 DEF UnusedOf, Resolved
<1>5. refs' = refs
  BY DEF Resolved
<1> QED
  BY <1>1, <1>2, <1>3, <1>4, <1>5, Zenon DEF UnusedLeft

\* The parts of UnusedLeft.
LEMMA UnusedGroup ==
    ASSUME UnusedLeft, Writing, NEW g \in Group, NEW size, size = SymbolSizes(g, "RELA_DYN_GENERAL"),
           NEW m, m = IF g = Referrer THEN Cardinality(Sized(todo, "RELA_DYN_GENERAL")) ELSE 0
    PROVE  LET has == left[g]["RELA_DYN_GENERAL"] + Total(next - 1, size)
               needs == Total(NumSymbols, size) + m
           IN  /\ has >= needs
               /\ \/ g = Referrer /\ \E r \in refs \ todo : UnusedBy(r)
                  \/ \E s \in Symbol : s < next /\ Home[s] = g /\ UnusedOf(s)
                  => has > needs
               /\ phase = "done" => left[g]["RELA_DYN_GENERAL"] = 0
  BY Zenon DEF UnusedLeft

LEMMA UnusedPrelude ==
    ASSUME Laid, LeftOK, WritePrelude
    PROVE  UnusedLeft'
<1>1. /\ phase' = "write" /\ next' = 1 /\ UNCHANGED Resolved /\ todo' = refs
      /\ left' \in [Group -> [Part -> Nat]]
      /\ \A g \in Group, p \in Part : LeftIs(g, p)'
  BY LeftPrelude, PreludeTakes DEF WritePrelude, Resolved
<1>2. ASSUME NEW g \in Group
      PROVE  LET size == SymbolSizes(g, "RELA_DYN_GENERAL")
                 has == left'[g]["RELA_DYN_GENERAL"] + Total(next' - 1, size)
                 needs == Total(NumSymbols, size)
                          + (IF g = Referrer THEN Cardinality(Sized(refs, "RELA_DYN_GENERAL")) ELSE 0)
             IN  /\ has >= needs
                 /\ \/ g = Referrer /\ \E r \in refs \ refs : UnusedBy(r)
                    \/ \E s \in Symbol : s < next' /\ Home[s] = g /\ UnusedOf(s)
                    => has > needs
                 /\ phase' = "done" => left'[g]["RELA_DYN_GENERAL"] = 0
  <2>1. PICK size, m :
          /\ size = SymbolSizes(g, "RELA_DYN_GENERAL")
          /\ m = IF g = Referrer THEN Cardinality(Sized(refs, "RELA_DYN_GENERAL")) ELSE 0
    OBVIOUS
  <2>2. "RELA_DYN_GENERAL" \in Part
    BY DEF Part
  <2>3. left'[g]["RELA_DYN_GENERAL"] + Total(next' - 1, size) = Total(NumSymbols, size) + m
    <3>1. LeftIs(g, "RELA_DYN_GENERAL")'
      BY <1>1, <2>2
    <3>2. UNCHANGED <<link, flags>>
      BY <1>1 DEF Resolved
    <3> QED
      BY <1>1, <2>1, <3>1, <3>2, LeftNext
  <2>4. Total(NumSymbols, size) \in Nat /\ m \in Nat
    BY <2>1, <2>2, StillToWrite, SizedFinite DEF Laid
  <2>5. ~\E s \in Symbol : s < next' /\ Home[s] = g /\ UnusedOf(s)
    BY <1>1 DEF Symbol
  <2>6. left'[g]["RELA_DYN_GENERAL"] + Total(next' - 1, size) >= Total(NumSymbols, size) + m
    BY <2>3, <2>4
  <2> QED
    BY <1>1, <2>1, <2>5, <2>6
<1> QED
  BY <1>1, <1>2, UnusedNext

LEMMA UnusedRelocation ==
    ASSUME Laid, LeftOK, UnusedLeft, NEW r \in todo, ApplyRelocation(r), phase' = "write"
    PROVE  UnusedLeft'
<1>1. /\ phase = "write" /\ UNCHANGED Resolved /\ todo' = todo \ {r} /\ next' = next
      /\ Take(Referrer, [p \in Part |-> Count(p = Result(r).part)], Result(r).error, "write")
  BY ApplyIs DEF Resolved
<1>2. PICK G : G = "RELA_DYN_GENERAL"
  OBVIOUS
<1>3. PICK demand, err, c, q : /\ demand = [p \in Part |-> Count(p = Result(r).part)]
                               /\ err = Result(r).error
                               /\ c = Count(G = Result(r).part) /\ q = RefSize(r, G)
  OBVIOUS
<1>4. G \in Part /\ Referrer \in Group
  BY <1>2 DEF Part, Referrer, Group
<1>5. r \in refs /\ TypeOK /\ IsFiniteSet(refs) /\ todo \subseteq refs
  BY DEF Laid, TypeOK
<1>6. c \in Nat /\ q \in {0, 1} /\ c <= q
  BY <1>2, <1>3, <1>5, RelocationEnough DEF Count
<1>7. UnusedBy(r) <=> q = 1 /\ c = 0
  BY <1>2, <1>3, <1>6 DEF UnusedBy, Count
<1>8. /\ left \in [Group -> [Part -> Nat]] /\ left' \in [Group -> [Part -> Nat]]
      /\ left[Referrer][G] = left'[Referrer][G] + c
      /\ \A h \in Group : h # Referrer => left'[h] = left[h]
  <2>1. \A p \in Part : demand[p] \in Nat
    BY <1>3 DEF Count
  <2>2. err \in {"ok", "missing"}
    BY <1>3, <1>5, RelocationWritten
  <2>3. left \in [Group -> [Part -> Nat]]
    BY <1>5 DEF TypeOK
  <2>4. Take(Referrer, demand, err, "write")
    BY <1>1, <1>3
  <2>5. /\ left' \in [Group -> [Part -> Nat]]
        /\ phase' = "write" /\ err # "write" =>
             /\ \A p \in Part : left[Referrer][p] = left'[Referrer][p] + demand[p]
             /\ \A h \in Group : h # Referrer => left'[h] = left[h]
    BY <1>4, <2>1, <2>3, <2>4, TakeIs
  <2>6. demand[G] = c
    BY <1>3, <1>4
  <2> QED
    BY <1>4, <2>2, <2>3, <2>5, <2>6
<1>9. PICK m, n : m = Cardinality(Sized(todo, G)) /\ n = Cardinality(Sized(todo \ {r}, G))
  OBVIOUS
<1>10. m = n + q /\ n \in Nat
  <2>1. IsFiniteSet(todo) /\ IsFiniteSet(todo \ {r})
    BY <1>5, FS_Subset
  <2> QED
    BY <1>3, <1>4, <1>9, <2>1, SizedAdded, SizedFinite
<1>11. ASSUME NEW g \in Group
       PROVE  LET size == SymbolSizes(g, "RELA_DYN_GENERAL")
                  has == left'[g]["RELA_DYN_GENERAL"] + Total(next' - 1, size)
                  needs == Total(NumSymbols, size)
                           + (IF g = Referrer THEN Cardinality(Sized(todo \ {r}, "RELA_DYN_GENERAL")) ELSE 0)
              IN  /\ has >= needs
                  /\ \/ g = Referrer /\ \E t \in refs \ (todo \ {r}) : UnusedBy(t)
                     \/ \E s \in Symbol : s < next' /\ Home[s] = g /\ UnusedOf(s)
                     => has > needs
                  /\ phase' = "done" => left'[g]["RELA_DYN_GENERAL"] = 0
  <2>1. PICK size, a, b, x, y :
          /\ size = SymbolSizes(g, G)
          /\ a = left[g][G] /\ b = left'[g][G]
          /\ x = Total(next - 1, size) /\ y = Total(NumSymbols, size)
    OBVIOUS
  <2>2. x \in Nat /\ y \in Nat /\ a \in Nat /\ b \in Nat
    BY <1>4, <1>5, <1>8, <2>1, StillToWrite
  <2>3. PICK u, v : /\ u = \E t \in refs \ todo : UnusedBy(t)
                    /\ v = \E s \in Symbol : s < next /\ Home[s] = g /\ UnusedOf(s)
    OBVIOUS
  <2>4. LET m1 == IF g = Referrer THEN m ELSE 0
        IN  a + x >= y + m1 /\ ((g = Referrer /\ u) \/ v => a + x > y + m1)
    BY <1>1, <1>2, <1>9, <2>1, <2>3, UnusedGroup DEF Writing
  <2>5. (\E t \in refs \ (todo \ {r}) : UnusedBy(t)) => u \/ UnusedBy(r)
    BY <2>3
  <2>6. CASE g # Referrer
    <3>1. b = a
      BY <1>8, <2>1, <2>6
    <3> QED
      BY <1>1, <1>2, <2>1, <2>2, <2>3, <2>4, <2>6, <3>1
  <2>7. CASE g = Referrer
    <3>1. a = b + c
      BY <1>8, <2>1, <2>7
    <3>2. b + x >= y + n
      BY <1>6, <1>10, <2>2, <2>4, <2>7, <3>1
    <3>3. u \/ UnusedBy(r) \/ v => b + x > y + n
      BY <1>6, <1>7, <1>10, <2>2, <2>4, <2>7, <3>1
    <3> QED
      BY <1>1, <1>2, <1>9, <2>1, <2>3, <2>5, <2>7, <3>2, <3>3
  <2> QED
    BY <2>6, <2>7
<1> QED
  BY <1>1, <1>11, UnusedNext

LEMMA UnusedResolution ==
    ASSUME Laid, LeftOK, UnusedLeft, WriteResolution, phase' = "write"
    PROVE  UnusedLeft'
<1>1. /\ phase = "write" /\ todo = {} /\ todo' = todo /\ next \in Symbol /\ next' = next + 1
      /\ UNCHANGED Resolved
      /\ Take(Home[next], Demand(next), ProcessResolution(next).error, "write")
  BY ResolutionIs DEF Resolved
<1>2. PICK G, s, h : G = "RELA_DYN_GENERAL" /\ s = next /\ h = Home[s]
  OBVIOUS
<1>3. PICK demand, err, c, q : /\ demand = Demand(s) /\ err = ProcessResolution(s).error
                               /\ c = Demand(s)[G] /\ q = AllocateSymbol(flags[s])[G]
  OBVIOUS
<1>4. G \in Part /\ s \in Symbol /\ h \in Group /\ s \in Nat
  BY <1>1, <1>2, SymbolsAssumption DEF Part, Symbol
<1>5. TypeOK /\ IsFiniteSet(refs)
  BY DEF Laid
<1>6. c \in Nat /\ q \in Nat /\ c <= q
  BY <1>2, <1>3, <1>4, SymbolWritten, GeneralEnough, AllocatedTyped
<1>7. UnusedOf(s) <=> c # q
  BY <1>2, <1>3 DEF UnusedOf
<1>8. /\ left \in [Group -> [Part -> Nat]] /\ left' \in [Group -> [Part -> Nat]]
      /\ left[h][G] = left'[h][G] + c
      /\ \A g \in Group : g # h => left'[g] = left[g]
  <2>1. \A p \in Part : demand[p] \in Nat
    BY <1>3, <1>4, SymbolWritten
  <2>2. err # "write"
    <3>1. WellFormed(ProcessResolution(s))
      BY <1>4, SymbolWritten
    <3> QED
      BY <1>3, <3>1 DEF WellFormed
  <2>3. left \in [Group -> [Part -> Nat]]
    BY <1>5 DEF TypeOK
  <2>4. Take(h, demand, err, "write")
    BY <1>1, <1>2, <1>3
  <2>5. /\ left' \in [Group -> [Part -> Nat]]
        /\ phase' = "write" /\ err # "write" =>
             /\ \A p \in Part : left[h][p] = left'[h][p] + demand[p]
             /\ \A g \in Group : g # h => left'[g] = left[g]
    BY <1>4, <2>1, <2>3, <2>4, TakeIs
  <2>6. demand[G] = c
    BY <1>3
  <2> QED
    BY <1>4, <2>2, <2>3, <2>5, <2>6
<1>9. Cardinality(Sized({}, G)) = 0
  <2>1. Sized({}, G) = {}
    BY DEF Sized
  <2> QED
    BY <2>1, FS_EmptySet
<1>10. ASSUME NEW g \in Group
       PROVE  LET size == SymbolSizes(g, "RELA_DYN_GENERAL")
                  has == left'[g]["RELA_DYN_GENERAL"] + Total(next' - 1, size)
                  needs == Total(NumSymbols, size)
                           + (IF g = Referrer THEN Cardinality(Sized({}, "RELA_DYN_GENERAL")) ELSE 0)
              IN  /\ has >= needs
                  /\ \/ g = Referrer /\ \E t \in refs \ {} : UnusedBy(t)
                     \/ \E t \in Symbol : t < next' /\ Home[t] = g /\ UnusedOf(t)
                     => has > needs
                  /\ phase' = "done" => left'[g]["RELA_DYN_GENERAL"] = 0
  <2>1. PICK size, a, b, x, y, z, k :
          /\ size = SymbolSizes(g, G)
          /\ a = left[g][G] /\ b = left'[g][G]
          /\ x = Total(s - 1, size) /\ y = Total(NumSymbols, size) /\ z = Total(s, size) /\ k = size[s]
    OBVIOUS
  <2>2. /\ x \in Nat /\ y \in Nat /\ a \in Nat /\ b \in Nat /\ k \in Nat /\ z = x + k
        /\ k = IF h = g THEN q ELSE 0
    <3>1. /\ Total(NumSymbols, size) \in Nat /\ Total(s - 1, size) \in Nat
          /\ size[s] = IF h = g THEN q ELSE 0
          /\ size[s] \in Nat /\ Total(s, size) = Total(s - 1, size) + size[s]
      BY <1>1, <1>2, <1>3, <1>4, <1>5, <2>1, StillToWrite
    <3> QED
      BY <1>4, <1>8, <2>1, <3>1
  <2>3. PICK u, v, w : /\ u = \E t \in refs \ {} : UnusedBy(t)
                       /\ v = \E t \in Symbol : t < s /\ Home[t] = g /\ UnusedOf(t)
                       /\ w = \E t \in Symbol : t < next' /\ Home[t] = g /\ UnusedOf(t)
    OBVIOUS
  <2>4. a + x >= y /\ ((g = Referrer /\ u) \/ v => a + x > y)
    <3>1. PICK m : m = IF g = Referrer THEN Cardinality(Sized(todo, "RELA_DYN_GENERAL")) ELSE 0
      OBVIOUS
    <3>2. m = 0
      BY <1>1, <1>2, <1>9, <3>1
    <3>3. /\ a + x >= y + m
          /\ (g = Referrer /\ \E t \in refs \ todo : UnusedBy(t)) \/ v => a + x > y + m
      BY <1>1, <1>2, <2>1, <2>3, <3>1, UnusedGroup DEF Writing
    <3> QED
      BY <1>1, <2>2, <2>3, <3>2, <3>3
  <2>5. w => v \/ (h = g /\ c # q)
    <3> SUFFICES ASSUME NEW t \in Symbol, t < next', Home[t] = g, UnusedOf(t)
                 PROVE  v \/ (h = g /\ c # q)
      BY <2>3
    <3>1. t < s \/ t = s
      BY <1>1, <1>2, <1>4 DEF Symbol
    <3> QED
      BY <1>2, <1>7, <2>3, <3>1
  <2>6. b + z >= y /\ ((g = Referrer /\ u) \/ w => b + z > y)
    <3>1. CASE g = h
      <4>1. a = b + c /\ k = q
        BY <1>8, <2>1, <2>2, <3>1
      <4> QED
        BY <1>6, <2>2, <2>4, <2>5, <4>1
    <3>2. CASE g # h
      <4>1. a = b /\ k = 0
        BY <1>8, <2>1, <2>2, <3>2
      <4> QED
        BY <2>2, <2>4, <2>5, <3>2, <4>1
    <3> QED
      BY <3>1, <3>2
  <2>7. next' - 1 = s
    BY <1>1, <1>2, <1>4
  <2>8. y + (IF g = Referrer THEN Cardinality(Sized({}, "RELA_DYN_GENERAL")) ELSE 0) = y
    BY <1>2, <1>9, <2>2
  <2>9. left'[g]["RELA_DYN_GENERAL"] = b /\ Total(next' - 1, SymbolSizes(g, "RELA_DYN_GENERAL")) = z
        /\ Total(NumSymbols, SymbolSizes(g, "RELA_DYN_GENERAL")) = y
    BY <1>2, <2>1, <2>7
  <2> QED
    BY <2>3, <2>6, <2>8, <2>9
<1> QED
  BY <1>1, <1>10, UnusedNext

\* Nothing is left of .rela.dyn when validate_empty lets the link through.
LEMMA UnusedValidated ==
    ASSUME Laid, LeftOK, UnusedLeft, ValidateEmpty, phase' = "done"
    PROVE  UnusedLeft'
<1>1. /\ phase = "write" /\ todo' = todo /\ next' = next /\ left' = left /\ UNCHANGED Resolved
      /\ ~\E g \in Group, p \in Part \ {"RELA_PLT", "PLT_GOT"} : left[g][p] > 0
  BY DEF ValidateEmpty, Resolved
<1>2. \A g \in Group : left[g]["RELA_DYN_GENERAL"] = 0
  <2>1. "RELA_DYN_GENERAL" \in Part \ {"RELA_PLT", "PLT_GOT"}
    BY DEF Part
  <2>2. \A g \in Group : left[g]["RELA_DYN_GENERAL"] \in Nat
    BY <2>1 DEF Laid, TypeOK
  <2> QED
    BY <1>1, <2>1, <2>2
<1>3. ASSUME NEW g \in Group
      PROVE  LET size == SymbolSizes(g, "RELA_DYN_GENERAL")
                 has == left'[g]["RELA_DYN_GENERAL"] + Total(next' - 1, size)
                 needs == Total(NumSymbols, size)
                          + (IF g = Referrer THEN Cardinality(Sized(todo, "RELA_DYN_GENERAL")) ELSE 0)
             IN  /\ has >= needs
                 /\ \/ g = Referrer /\ \E r \in refs \ todo : UnusedBy(r)
                    \/ \E s \in Symbol : s < next' /\ Home[s] = g /\ UnusedOf(s)
                    => has > needs
                 /\ phase' = "done" => left'[g]["RELA_DYN_GENERAL"] = 0
  BY <1>1, <1>2, Zenon DEF UnusedLeft, Writing
<1> QED
  BY <1>1, <1>3, UnusedNext

-----------------------------------------------------------------------------
(* WrittenInv is an invariant *)

LEMMA EntriesSame ==
    ASSUME EntriesOK, UNCHANGED Resolved, entry' = entry, next' = next, Addressed,
           Writing' => Writing, phase' = "prelude" => phase = "prelude"
    PROVE  EntriesOK'
<1>1. /\ \A g : GotStart(g)' = GotStart(g) /\ GotCounts(g)' = GotCounts(g)
                /\ SymbolSizes(g, "GOT")' = SymbolSizes(g, "GOT")
      /\ \A s : Place(s)' = Place(s)
      /\ sizes' = sizes /\ usesTlsld' = usesTlsld /\ kind' = kind
  BY PlacesKept DEF Resolved, kind
<1>2. DOMAIN entry' = 1 .. GotStart(Referrer)' + sizes'[Referrer]["GOT"] - 1
  BY <1>1 DEF EntriesOK
<1>3. phase' = "prelude" => \A i \in DOMAIN entry' : entry'[i] = Unwritten
  BY DEF EntriesOK
<1>4. Writing' /\ usesTlsld' => PreludeWritten'
  BY <1>1 DEF EntriesOK, PreludeWritten
<1>5. ASSUME Writing', NEW s \in Symbol, s < next' PROVE EntriesWritten(s)'
  <2>1. PICK out : out = ProcessResolution(s)
    OBVIOUS
  <2>2. EntriesWritten(s)
    BY <1>5 DEF EntriesOK
  <2>3. /\ out.error = "ok" /\ (got[s] # 0 => got[s] = Place(s))
        /\ \A k \in 1 .. Len(out.words) :
             entry[Place(s) + k - 1] = Wrote(s, out.words[k], RelAt(out, k - 1))
    BY <2>1, <2>2, EntriesWrittenIs
  <2>4. /\ out.error = "ok" /\ (got[s] # 0 => got[s] = Place(s))
        /\ \A k \in 1 .. Len(out.words) :
             entry'[Place(s) + k - 1] = Wrote(s, out.words[k], RelAt(out, k - 1))
    BY <2>3
  <2> QED
    BY <2>1, <2>4, EntriesWrittenNext
<1>6. Writing' /\ next' \in Symbol => \A i \in DOMAIN entry' : i >= Place(next)' => entry'[i] = Unwritten
  <2>1. Place(next)' = Place(next)
    BY PlacesKept
  <2> QED
    BY <2>1 DEF EntriesOK
<1>7. Writing' => \A g \in Group : Total(next - 1, GotCounts(g))' = Total(next - 1, SymbolSizes(g, "GOT"))'
  BY <1>1 DEF EntriesOK
<1> QED
  BY <1>2, <1>3, <1>4, <1>5, <1>6, <1>7 DEF EntriesOK

LEMMA UnusedSame ==
    ASSUME UnusedLeft, UNCHANGED Resolved, left' = left, todo' = todo, next' = next, phase' = phase
    PROVE  UnusedLeft'
<1>1. CASE Writing
  <2>1. ASSUME NEW g \in Group
        PROVE  LET size == SymbolSizes(g, "RELA_DYN_GENERAL")
                   has == left'[g]["RELA_DYN_GENERAL"] + Total(next' - 1, size)
                   needs == Total(NumSymbols, size)
                            + (IF g = Referrer THEN Cardinality(Sized(todo, "RELA_DYN_GENERAL")) ELSE 0)
               IN  /\ has >= needs
                   /\ \/ g = Referrer /\ \E r \in refs \ todo : UnusedBy(r)
                      \/ \E s \in Symbol : s < next' /\ Home[s] = g /\ UnusedOf(s)
                      => has > needs
                   /\ phase' = "done" => left'[g]["RELA_DYN_GENERAL"] = 0
    BY <1>1, Zenon DEF UnusedLeft
  <2> QED
    BY <2>1, UnusedNext
<1>2. CASE ~Writing
  BY <1>2 DEF UnusedLeft, Writing
<1> QED
  BY <1>1, <1>2

LEMMA WrittenPrelude ==
    ASSUME WrittenInv, WritePrelude
    PROVE  EntriesOK' /\ WordsOK' /\ UnusedLeft'
<1>1. Laid /\ LeftOK /\ EntriesOK /\ WordsOK /\ Addressed
  BY DEF WrittenInv, AllocInv, Laid, WritePrelude, Addressed
<1>2. UNCHANGED Resolved /\ UNCHANGED word /\ todo' = refs
  BY <1>1, PreludeTakes DEF WritePrelude, Resolved
<1> QED
  BY <1>1, <1>2, EntriesPrelude, WordsSame, UnusedPrelude

LEMMA RelocationApplied ==
    ASSUME WrittenInv, NEW r \in todo, ApplyRelocation(r)
    PROVE  EntriesOK' /\ WordsOK' /\ UnusedLeft'
<1>1. Laid /\ LeftOK /\ EntriesOK /\ WordsOK /\ UnusedLeft /\ Addressed
  BY DEF WrittenInv, AllocInv, Laid, ApplyRelocation, Addressed
<1>2. /\ UNCHANGED Resolved /\ entry' = entry /\ next' = next /\ phase = "write"
      /\ phase' \in {"write", "done"} \cup Failure
      /\ Take(Referrer, [p \in Part |-> Count(p = Result(r).part)], Result(r).error, "write")
  BY <1>1, ApplyIs, WriteKeeps DEF Resolved
<1>3. EntriesOK'
  BY <1>1, <1>2, EntriesSame DEF Writing, Failure
<1>4. WordsOK'
  BY <1>1, WordsRelocation
<1>5. UnusedLeft'
  <2>1. CASE phase' = "write"
    BY <1>1, <2>1, UnusedRelocation
  <2>2. CASE phase' # "write"
    <3>1. Result(r).error \in {"ok", "missing"}
      BY <1>1, RelocationWritten DEF Laid, TypeOK
    <3>2. phase' \in {"short", "missing"}
      BY <1>2, <2>2, <3>1 DEF Take
    <3> QED
      BY <3>2 DEF UnusedLeft, Writing
  <2> QED
    BY <2>1, <2>2
<1> QED
  BY <1>3, <1>4, <1>5

LEMMA WrittenResolution ==
    ASSUME WrittenInv, WriteResolution
    PROVE  EntriesOK' /\ WordsOK' /\ UnusedLeft'
<1>1. Laid /\ LeftOK /\ EntriesOK /\ WordsOK /\ UnusedLeft /\ Addressed
  BY DEF WrittenInv, AllocInv, Laid, WriteResolution, Addressed
<1>2. /\ UNCHANGED Resolved /\ UNCHANGED word /\ todo' = todo /\ phase = "write" /\ next \in Symbol
      /\ Take(Home[next], Demand(next), ProcessResolution(next).error, "write")
  BY ResolutionIs DEF Resolved
<1>3. WordsOK'
  BY <1>1, <1>2, WordsSame DEF Writing
<1>4. UnusedLeft'
  <2>1. CASE phase' = "write"
    BY <1>1, <2>1, UnusedResolution
  <2>2. CASE phase' # "write"
    <3>1. ProcessResolution(next).error # "done"
      BY <1>1, <1>2, SymbolWritten DEF WellFormed
    <3>2. phase' # "done"
      BY <1>2, <2>2, <3>1 DEF Take
    <3> QED
      BY <2>2, <3>2 DEF UnusedLeft, Writing
  <2> QED
    BY <2>1, <2>2
<1> QED
  BY <1>1, <1>3, <1>4, EntriesResolution

LEMMA WrittenValidated ==
    ASSUME WrittenInv, ValidateEmpty
    PROVE  EntriesOK' /\ WordsOK' /\ UnusedLeft'
<1>1. Laid /\ LeftOK /\ EntriesOK /\ WordsOK /\ UnusedLeft /\ Addressed
  BY DEF WrittenInv, AllocInv, Laid, ValidateEmpty, Addressed
<1>2. /\ UNCHANGED Resolved /\ UNCHANGED <<word, entry, todo, next>> /\ phase = "write"
      /\ phase' \in {"excess", "done"}
  BY DEF ValidateEmpty, Resolved
<1>3. WordsOK'
  BY <1>1, <1>2, WordsSame DEF Writing
<1>4. EntriesOK'
  BY <1>1, <1>2, EntriesSame DEF Writing
<1>5. UnusedLeft'
  <2>1. CASE phase' = "done"
    BY <1>1, <2>1, UnusedValidated
  <2>2. CASE phase' = "excess"
    BY <2>2 DEF UnusedLeft, Writing
  <2> QED
    BY <1>2, <2>1, <2>2
<1> QED
  BY <1>3, <1>4, <1>5

LEMMA WrittenCreate ==
    ASSUME WrittenInv, CreateResolutions
    PROVE  EntriesOK' /\ WordsOK' /\ UnusedLeft'
<1>1. /\ phase' = "prelude" /\ refs' = refs /\ sizes' = sizes
      /\ entry' = [i \in 1 .. GotStart(Referrer) + sizes[Referrer]["GOT"] - 1 |-> Unwritten]
      /\ word' = [r \in refs |-> Unwritten]
  BY DEF CreateResolutions
<1>2. GotStart(Referrer)' = GotStart(Referrer)
  BY <1>1 DEF GotStart
<1> QED
  BY <1>1, <1>2 DEF EntriesOK, WordsOK, UnusedLeft, Writing

LEMMA WrittenStutter ==
    ASSUME WrittenInv, UNCHANGED vars
    PROVE  EntriesOK' /\ WordsOK' /\ UnusedLeft'
<1>1. /\ UNCHANGED Resolved /\ UNCHANGED <<word, entry, todo, next, left, phase>>
      /\ EntriesOK /\ WordsOK /\ UnusedLeft
  BY DEF vars, Resolved, WrittenInv
<1>2. CASE Addressed
  <2>1. EntriesOK'
    BY <1>1, <1>2, EntriesSame DEF Writing
  <2>2. WordsOK'
    <3>1. CASE Writing
      BY <1>1, <1>2, <3>1, WordsSame
    <3>2. CASE ~Writing
      BY <1>1, <1>2, <3>2 DEF WordsOK, Resolved, Writing
    <3> QED
      BY <3>1, <3>2
  <2> QED
    BY <1>1, <2>1, <2>2, UnusedSame
<1>3. CASE ~Addressed
  BY <1>1, <1>3 DEF EntriesOK, WordsOK, UnusedLeft, Writing, Addressed
<1> QED
  BY <1>2, <1>3

LEMMA WrittenInit == Init => WrittenInv
  BY InvInit DEF Init, WrittenInv, EntriesOK, WordsOK, UnusedLeft, Writing, Addressed

LEMMA WrittenNext == WrittenInv /\ [Next]_vars => WrittenInv'
<1> SUFFICES ASSUME WrittenInv, [Next]_vars PROVE WrittenInv'
  OBVIOUS
<1>1. AllocInv'
  BY InvNext DEF WrittenInv
<1>2. CASE \/ \E r \in Reference : ProcessRelocation(r)
           \/ \E s \in Symbol : MarkUsed(s) \/ ExportDynamic(s)
           \/ FinaliseSizes
  <2>1. phase' \in {"scan", "bailed", "layout"}
    BY <1>2 DEF ProcessRelocation, MarkUsed, ExportDynamic, FinaliseSizes
  <2> QED
    BY <1>1, <2>1 DEF WrittenInv, EntriesOK, WordsOK, UnusedLeft, Writing, Addressed
<1>3. CASE CreateResolutions
  BY <1>1, <1>3, WrittenCreate DEF WrittenInv
<1>4. CASE WritePrelude
  BY <1>1, <1>4, WrittenPrelude DEF WrittenInv
<1>5. CASE \E r \in todo : ApplyRelocation(r)
  BY <1>1, <1>5, RelocationApplied DEF WrittenInv
<1>6. CASE WriteResolution
  BY <1>1, <1>6, WrittenResolution DEF WrittenInv
<1>7. CASE ValidateEmpty
  BY <1>1, <1>7, WrittenValidated DEF WrittenInv
<1>8. CASE UNCHANGED vars
  BY <1>1, <1>8, WrittenStutter DEF WrittenInv
<1> QED
  BY <1>2, <1>3, <1>4, <1>5, <1>6, <1>7, <1>8 DEF Next

LEMMA WrittenInvariant == Spec => []WrittenInv
  BY WrittenInit, WrittenNext, PTL DEF Spec

-----------------------------------------------------------------------------
(* What the finished output holds *)

\* The parts of an output of two calls.
LEMMA ThenHolds ==
    ASSUME NEW at \in Nat, NEW n \in Nat, NEW m \in Nat, NEW g, NEW h, NEW a, NEW b,
           Piece(a, at, n, g), Piece(b, at + n, m, h), NEW c, c = Then(a, b)
    PROVE  /\ \A k \in 1 .. n : c.words[k] = a.words[k]
           /\ \A k \in 1 .. m : c.words[n + k] = b.words[k]
           /\ \A k \in Nat : k < at + n => RelAt(c, k) = RelAt(a, k)
           /\ \A k \in Nat : k >= at + n => RelAt(c, k) = RelAt(b, k)
<1>1. PICK u, v : u = a.words /\ v = b.words
  OBVIOUS
<1>2. /\ u \in Seq(Stored) /\ v \in Seq(Stored) /\ Len(u) = n /\ Len(v) = m
      /\ WellFormed(a) /\ WellFormed(b)
  BY <1>1 DEF Piece, WellFormed
<1>3. c.words = u \o v /\ c.rels = a.rels \cup b.rels
  BY <1>1, <1>2, ThenBoth
<1>4. /\ \A k \in 1 .. n : (u \o v)[k] = u[k]
      /\ \A k \in 1 .. m : (u \o v)[n + k] = v[k]
  BY <1>2, WordsThen
<1>5. /\ \A x \in a.rels : x.at \in Nat /\ x.at < at + n
      /\ \A x \in b.rels : x.at \in Nat /\ x.at >= at + n
  BY <1>2 DEF Piece, WellFormed, WrittenRelocation
<1>8. c.rels = a.rels \cup b.rels
  BY <1>3
<1>6. ASSUME NEW k \in Nat, k < at + n PROVE RelAt(c, k) = RelAt(a, k)
  <2>1. \A x \in b.rels : x.at # k
    BY <1>5, <1>6
  <2>2. {y \in c.rels : y.at = k} = {y \in a.rels : y.at = k}
    BY <1>8, <2>1
  <2> QED
    BY <2>2, RelAtSame
<1>7. ASSUME NEW k \in Nat, k >= at + n PROVE RelAt(c, k) = RelAt(b, k)
  <2>1. \A x \in a.rels : x.at # k
    BY <1>5, <1>7
  <2>2. {y \in c.rels : y.at = k} = {y \in b.rels : y.at = k}
    BY <1>8, <2>1
  <2> QED
    BY <2>2, RelAtSame
<1> QED
  BY <1>1, <1>3, <1>4, <1>6, <1>7

\* One word, with a relocation or without one.
LEMMA HoldsRel ==
    ASSUME NEW words, NEW err, NEW at \in Nat, NEW rel \in Relocated,
           NEW out, out = Output(words, General(at, rel), err)
    PROVE  RelAt(out, at) = rel
<1>1. out.rels = General(at, rel)
  BY OutputIs
<1>2. General(at, rel) = {Placed(at, "RELA_DYN_GENERAL", rel)}
  BY GeneralIs
<1>3. "RELA_DYN_GENERAL" \in Part /\ out.rels = {Placed(at, "RELA_DYN_GENERAL", rel)}
  BY <1>1, <1>2 DEF Part
<1> QED
  BY <1>3, RelAtForms

LEMMA HoldsWord ==
    ASSUME NEW w, NEW err, NEW out, out = Output(<<w>>, {}, err)
    PROVE  out.words[1] = w /\ \A k : RelAt(out, k) = "none"
<1>1. out.rels = {} /\ out.words = <<w>>
  BY OutputIs
<1>2. \A k : RelAt(out, k) = "none"
  BY <1>1, RelAtNone
<1> QED
  BY <1>1, <1>2

\* The entry with the offset of a TLS variable.
LEMMA TlsOffsetHolds ==
    ASSUME NEW s, NEW at \in Nat, NEW out, out = TlsOffset(s, at)
    PROVE  /\ HasDynamicSymbol(flags[s]) => RelAt(out, at) = "tpoff lookup"
           /\ ~HasDynamicSymbol(flags[s]) /\ RawValue(s) = "zero" =>
                RelAt(out, at) = "none" /\ out.words[1] = "zero"
           /\ ~HasDynamicSymbol(flags[s]) /\ RawValue(s) # "zero" =>
                IF IsExecutable(kind) THEN RelAt(out, at) = "none" /\ out.words[1] = "tpoff"
                ELSE RelAt(out, at) = "tpoff own"
<1>1. "tpoff lookup" \in Relocated /\ "tpoff own" \in Relocated
  BY DEF Relocated
<1>2. ASSUME HasDynamicSymbol(flags[s]) PROVE RelAt(out, at) = "tpoff lookup"
  <2>1. out = Output(<<"zero">>, General(at, "tpoff lookup"), Unless(HasIndex(s), "missing"))
    BY <1>2, Zenon DEF TlsOffset
  <2>2. PICK rel : rel = "tpoff lookup"
    OBVIOUS
  <2>3. out = Output(<<"zero">>, General(at, rel), Unless(HasIndex(s), "missing")) /\ rel \in Relocated
    BY <1>1, <2>1, <2>2, Zenon
  <2>4. RelAt(out, at) = rel
    BY <2>3, HoldsRel
  <2> QED
    BY <2>2, <2>4, Zenon
<1>3. ASSUME ~HasDynamicSymbol(flags[s]), RawValue(s) = "zero"
      PROVE  RelAt(out, at) = "none" /\ out.words[1] = "zero"
  <2>1. out = Output(<<"zero">>, {}, "ok")
    BY <1>3, Zenon DEF TlsOffset
  <2> QED
    BY <2>1, HoldsWord
<1>4. ASSUME ~HasDynamicSymbol(flags[s]), RawValue(s) # "zero", IsExecutable(kind)
      PROVE  RelAt(out, at) = "none" /\ out.words[1] = "tpoff"
  <2>1. out = Output(<<"tpoff">>, {}, "ok")
    BY <1>4, Zenon DEF TlsOffset
  <2> QED
    BY <2>1, HoldsWord
<1>5. ASSUME ~HasDynamicSymbol(flags[s]), RawValue(s) # "zero", ~IsExecutable(kind)
      PROVE  RelAt(out, at) = "tpoff own"
  <2>1. out = Output(<<"zero">>, General(at, "tpoff own"), "ok")
    BY <1>5, Zenon DEF TlsOffset
  <2>2. PICK rel : rel = "tpoff own"
    OBVIOUS
  <2>3. out = Output(<<"zero">>, General(at, rel), "ok") /\ rel \in Relocated
    BY <1>1, <2>1, <2>2, Zenon
  <2>4. RelAt(out, at) = rel
    BY <2>3, HoldsRel
  <2> QED
    BY <2>2, <2>4, Zenon
<1> QED
  BY <1>2, <1>3, <1>4, <1>5

\* The entries with the module and the offset of a TLS variable.
LEMMA TlsModuleHolds ==
    ASSUME NEW s, NEW at \in Nat, NEW out, out = TlsModAndOffset(s, at)
    PROVE  /\ IF IsExecutable(kind) /\ ~IsDynamic(flags[s]) THEN out.words[1] = "module"
              ELSE RelAt(out, at) = "dtpmod"
           /\ HasIndex(s) /\ IsInterposable(flags[s]) => RelAt(out, at + 1) = "dtpoff lookup"
           /\ ~HasIndex(s) => out.words[2] = "dtpoff" /\ RelAt(out, at + 1) = "none"
<1> DEFINE f == flags[s]
<1>1. /\ "RELA_DYN_GENERAL" \in Part /\ "dtpmod" \in Relocated /\ "dtpoff lookup" \in Relocated
      /\ "module" \in Stored /\ "zero" \in Stored /\ "dtpoff" \in Stored /\ at + 1 \in Nat
  BY DEF Part, Relocated, Stored
<1>2. PICK a, b :
        /\ a = IF IsExecutable(kind) /\ ~IsDynamic(f) THEN Output(<<"module">>, {}, "ok")
               ELSE Output(<<"zero">>, General(at, "dtpmod"), "ok")
        /\ b = IF HasIndex(s)
               THEN Output(<<"zero">>,
                           IF IsInterposable(f) THEN General(at + 1, "dtpoff lookup") ELSE {}, "ok")
               ELSE Output(<<"dtpoff">>, {}, Unless(IsAddress(f), "missing"))
  OBVIOUS
<1>3. out = Then(a, b)
  BY <1>2, Zenon DEF TlsModAndOffset
<1>4. \E g : /\ Piece(a, at, 1, g)
             /\ IF IsExecutable(kind) /\ ~IsDynamic(f) THEN a.words[1] = "module"
                ELSE RelAt(a, at) = "dtpmod"
  <2>1. CASE IsExecutable(kind) /\ ~IsDynamic(f)
    <3>1. a = Output(<<"module">>, {}, "ok")
      BY <1>2, <2>1, Zenon
    <3>2. a.words[1] = "module"
      BY <3>1, HoldsWord
    <3>3. Piece(a, at, 1, 0)
      BY <1>1, <3>1, OnePiece
    <3> QED
      BY <2>1, <3>2, <3>3
  <2>2. CASE ~(IsExecutable(kind) /\ ~IsDynamic(f))
    <3>1. a = Output(<<"zero">>, General(at, "dtpmod"), "ok")
      BY <1>2, <2>2, Zenon
    <3>3. Piece(a, at, 1, 1)
      BY <1>1, <3>1, OnePiece
    <3>4. RelAt(a, at) = "dtpmod"
      <4>1. "dtpmod" \in Relocated
        BY <1>1, Zenon
      <4> QED
        BY <3>1, <4>1, HoldsRel
    <3> QED
      BY <2>2, <3>3, <3>4
  <2> QED
    BY <2>1, <2>2
<1>5. \E h : /\ Piece(b, at + 1, 1, h)
             /\ HasIndex(s) /\ IsInterposable(f) => RelAt(b, at + 1) = "dtpoff lookup"
             /\ ~HasIndex(s) => b.words[1] = "dtpoff" /\ RelAt(b, at + 1) = "none"
  <2>1. CASE HasIndex(s) /\ IsInterposable(f)
    <3>1. b = Output(<<"zero">>, General(at + 1, "dtpoff lookup"), "ok")
      BY <1>2, <2>1, Zenon
    <3>3. Piece(b, at + 1, 1, 1)
      BY <1>1, <3>1, OnePiece
    <3>4. RelAt(b, at + 1) = "dtpoff lookup"
      <4>1. PICK rel : rel = "dtpoff lookup"
        OBVIOUS
      <4>2. b = Output(<<"zero">>, General(at + 1, rel), "ok") /\ rel \in Relocated
        BY <1>1, <3>1, <4>1, Zenon
      <4>3. RelAt(b, at + 1) = rel
        BY <4>2, HoldsRel
      <4> QED
        BY <4>1, <4>3, Zenon
    <3> QED
      BY <2>1, <3>3, <3>4
  <2>2. CASE HasIndex(s) /\ ~IsInterposable(f)
    <3>1. b = Output(<<"zero">>, {}, "ok")
      BY <1>2, <2>2, Zenon
    <3>2. Piece(b, at + 1, 1, 0)
      BY <1>1, <3>1, OnePiece
    <3> QED
      BY <2>2, <3>2
  <2>3. CASE ~HasIndex(s)
    <3>1. b = Output(<<"dtpoff">>, {}, Unless(IsAddress(f), "missing"))
      BY <1>2, <2>3, Zenon
    <3>2. b.words[1] = "dtpoff" /\ \A k : RelAt(b, k) = "none"
      BY <3>1, HoldsWord
    <3>3. Unless(IsAddress(f), "missing") \in {"ok", "missing"}
      BY DEF Unless
    <3>4. Piece(b, at + 1, 1, 0)
      BY <1>1, <3>1, <3>3, OnePiece
    <3>5. RelAt(b, at + 1) = "none"
      BY <3>2
    <3> QED
      BY <2>3, <3>2, <3>4, <3>5
  <2> QED
    BY <2>1, <2>2, <2>3
<1>6. /\ out.words[1] = a.words[1] /\ out.words[2] = b.words[1]
      /\ RelAt(out, at) = RelAt(a, at) /\ RelAt(out, at + 1) = RelAt(b, at + 1)
  <2>1. PICK g, h : Piece(a, at, 1, g) /\ Piece(b, at + 1, 1, h)
    BY <1>4, <1>5
  <2>2. /\ \A k \in 1 .. 1 : out.words[k] = a.words[k]
        /\ \A k \in 1 .. 1 : out.words[1 + k] = b.words[k]
        /\ \A k \in Nat : k < at + 1 => RelAt(out, k) = RelAt(a, k)
        /\ \A k \in Nat : k >= at + 1 => RelAt(out, k) = RelAt(b, k)
    BY <1>3, <2>1, ThenHolds
  <2>3. out.words[1] = a.words[1] /\ out.words[1 + 1] = b.words[1]
    BY <2>2
  <2>4. RelAt(out, at) = RelAt(a, at) /\ RelAt(out, at + 1) = RelAt(b, at + 1)
    <3>1. at \in Nat /\ at + 1 \in Nat /\ at < at + 1 /\ at + 1 >= at + 1
      OBVIOUS
    <3> QED
      BY <2>2, <3>1, Zenon
  <2>5. 1 + 1 = 2
    OBVIOUS
  <2> QED
    BY <2>3, <2>4, <2>5, Zenon
<1> QED
  BY <1>4, <1>5, <1>6

LEMMA TlsDescriptorHolds ==
    ASSUME NEW s, NEW at \in Nat
    PROVE  RelAt(TlsDescriptor(s, at), at) = "tlsdesc"
<1>1. PICK out : out = TlsDescriptor(s, at)
  OBVIOUS
<1>2. out = Output(<<"zero", "zero">>, General(at, "tlsdesc"), Unless(~IsStatic(kind), "static_tlsdesc"))
  BY <1>1, Zenon DEF TlsDescriptor
<1>3. "tlsdesc" \in Relocated
  BY DEF Relocated
<1> QED
  BY <1>1, <1>2, <1>3, HoldsRel

\* The entries of a TLS variable, one access after the other.
LEMMA TlsEntriesHold ==
    ASSUME NEW s, NEW out,
           out = LET f == flags[s]
                     none == Output(<<>>, {}, "ok")
                     after == Count("GOT_TLS_OFFSET" \in f)
                 IN  Then(IF "GOT_TLS_OFFSET" \in f THEN TlsOffset(s, 0) ELSE none,
                          Then(IF "GOT_TLS_MODULE" \in f THEN TlsModAndOffset(s, after) ELSE none,
                               IF "GOT_TLS_DESCRIPTOR" \in f
                               THEN TlsDescriptor(s, after + 2 * Count("GOT_TLS_MODULE" \in f))
                               ELSE none)),
           NEW o, o = Count("GOT_TLS_OFFSET" \in flags[s]),
           NEW m, m = Count("GOT_TLS_MODULE" \in flags[s])
    PROVE  /\ "GOT_TLS_OFFSET" \in flags[s] =>
                out.words[1] = TlsOffset(s, 0).words[1] /\ RelAt(out, 0) = RelAt(TlsOffset(s, 0), 0)
           /\ "GOT_TLS_MODULE" \in flags[s] =>
                /\ out.words[o + 1] = TlsModAndOffset(s, o).words[1]
                /\ out.words[o + 2] = TlsModAndOffset(s, o).words[2]
                /\ RelAt(out, o) = RelAt(TlsModAndOffset(s, o), o)
                /\ RelAt(out, o + 1) = RelAt(TlsModAndOffset(s, o), o + 1)
           /\ "GOT_TLS_DESCRIPTOR" \in flags[s] => RelAt(out, o + 2 * m) = "tlsdesc"
<1> DEFINE f == flags[s]
           none == Output(<<>>, {}, "ok")
<1>1. PICK d : d = Count("GOT_TLS_DESCRIPTOR" \in f)
  OBVIOUS
<1>2. /\ o \in Nat /\ m \in Nat /\ d \in Nat
      /\ o = IF "GOT_TLS_OFFSET" \in f THEN 1 ELSE 0
      /\ m = IF "GOT_TLS_MODULE" \in f THEN 1 ELSE 0
      /\ d = IF "GOT_TLS_DESCRIPTOR" \in f THEN 1 ELSE 0
  BY <1>1 DEF Count
<1>3. PICK a, b, c :
        /\ a = IF "GOT_TLS_OFFSET" \in f THEN TlsOffset(s, 0) ELSE none
        /\ b = IF "GOT_TLS_MODULE" \in f THEN TlsModAndOffset(s, o) ELSE none
        /\ c = IF "GOT_TLS_DESCRIPTOR" \in f THEN TlsDescriptor(s, o + 2 * m) ELSE none
  OBVIOUS
<1>4. out = Then(a, Then(b, c))
  BY <1>1, <1>3, Zenon
<1>5. PICK i, n, k : i = o + 2 * m /\ n = 2 * m /\ k = 2 * d
  OBVIOUS
<1>6. /\ 0 \in Nat /\ 0 + o = o /\ i \in Nat /\ n \in Nat /\ k \in Nat /\ i = o + n
  <2>1. o \in Nat /\ m \in Nat /\ d \in Nat
    BY <1>2
  <2> QED
    BY <1>5, <2>1
<1>7. \A at \in Nat : Piece(none, at, 0, 0)
  BY NoPiece
<1> HIDE DEF none
<1>8. PICK g : Piece(a, 0, o, g) /\ g \in Nat
  <2>1. CASE "GOT_TLS_OFFSET" \in f
    <3>1. a = TlsOffset(s, 0) /\ o = 1
      BY <1>2, <1>3, <2>1
    <3>2. PICK g : g = Count(HasDynamicSymbol(f) \/ (RawValue(s) # "zero" /\ ~IsExecutable(kind)))
      OBVIOUS
    <3>3. Piece(TlsOffset(s, 0), 0, 1, g)
      BY <1>6, <3>2, TlsOffsetIs
    <3>4. g \in Nat
      BY <3>2 DEF Count
    <3> QED
      BY <3>1, <3>3, <3>4
  <2>2. CASE "GOT_TLS_OFFSET" \notin f
    <3>1. a = none /\ o = 0
      BY <1>2, <1>3, <2>2
    <3> QED
      BY <1>6, <1>7, <3>1
  <2> QED
    BY <2>1, <2>2
<1>9. PICK h : Piece(b, o, n, h) /\ h \in Nat
  <2>1. CASE "GOT_TLS_MODULE" \in f
    <3>1. b = TlsModAndOffset(s, o) /\ n = 2
      BY <1>2, <1>3, <1>5, <2>1
    <3>2. PICK u, v : /\ u = Count(~IsExecutable(kind) \/ IsDynamic(f))
                      /\ v = Count(HasIndex(s) /\ IsInterposable(f))
      OBVIOUS
    <3>3. Piece(TlsModAndOffset(s, o), o, 2, u + v)
      BY <1>2, <3>2, TlsModAndOffsetIs
    <3>4. u + v \in Nat
      BY <3>2 DEF Count
    <3> QED
      BY <3>1, <3>3, <3>4
  <2>2. CASE "GOT_TLS_MODULE" \notin f
    <3>1. b = none /\ n = 0
      BY <1>2, <1>3, <1>5, <2>2
    <3> QED
      BY <1>2, <1>6, <1>7, <3>1
  <2> QED
    BY <2>1, <2>2
<1>10. Piece(c, i, k, d)
  <2>1. CASE "GOT_TLS_DESCRIPTOR" \in f
    <3>1. c = TlsDescriptor(s, i) /\ k = 2 /\ d = 1
      BY <1>2, <1>3, <1>5, <2>1
    <3> QED
      BY <1>6, <3>1, TlsDescriptorIs
  <2>2. CASE "GOT_TLS_DESCRIPTOR" \notin f
    <3>1. c = none /\ k = 0 /\ d = 0
      BY <1>2, <1>3, <1>5, <2>2
    <3> QED
      BY <1>6, <1>7, <3>1
  <2> QED
    BY <2>1, <2>2
<1>11. PICK bc : bc = Then(b, c)
  OBVIOUS
<1>12. Piece(c, o + n, k, d)
  BY <1>6, <1>10
<1>13. Piece(bc, o, n + k, h + d)
  BY <1>2, <1>6, <1>9, <1>11, <1>12, PiecesThen
<1>14. /\ \A x \in 1 .. n : bc.words[x] = b.words[x]
       /\ \A x \in Nat : x < o + n => RelAt(bc, x) = RelAt(b, x)
       /\ \A x \in Nat : x >= o + n => RelAt(bc, x) = RelAt(c, x)
  <2>1. /\ o \in Nat /\ n \in Nat /\ k \in Nat /\ bc = Then(b, c)
        /\ Piece(b, o, n, h) /\ Piece(c, o + n, k, d)
    BY <1>2, <1>6, <1>9, <1>11, <1>12
  <2> QED
    BY <2>1, ThenHolds
<1>15. /\ \A x \in 1 .. o : out.words[x] = a.words[x]
       /\ \A x \in 1 .. n + k : out.words[o + x] = bc.words[x]
       /\ \A x \in Nat : x < o => RelAt(out, x) = RelAt(a, x)
       /\ \A x \in Nat : x >= o => RelAt(out, x) = RelAt(bc, x)
  <2>1. Piece(bc, 0 + o, n + k, h + d) /\ n + k \in Nat /\ Piece(a, 0, o, g) /\ out = Then(a, bc)
    BY <1>4, <1>6, <1>8, <1>11, <1>13
  <2>2. PICK nk, hd : nk = n + k /\ hd = h + d
    OBVIOUS
  <2>3. /\ Piece(bc, 0 + o, nk, hd) /\ nk \in Nat /\ Piece(a, 0, o, g) /\ out = Then(a, bc)
        /\ 0 \in Nat /\ o \in Nat
    BY <1>2, <2>1, <2>2
  <2>4. /\ \A x \in 1 .. o : out.words[x] = a.words[x]
        /\ \A x \in 1 .. nk : out.words[o + x] = bc.words[x]
        /\ \A x \in Nat : x < 0 + o => RelAt(out, x) = RelAt(a, x)
        /\ \A x \in Nat : x >= 0 + o => RelAt(out, x) = RelAt(bc, x)
    BY <2>3, ThenHolds
  <2> QED
    BY <1>6, <2>2, <2>4
<1>16. ASSUME "GOT_TLS_OFFSET" \in f
       PROVE  out.words[1] = TlsOffset(s, 0).words[1] /\ RelAt(out, 0) = RelAt(TlsOffset(s, 0), 0)
  <2>1. a = TlsOffset(s, 0) /\ 1 \in 1 .. o /\ 0 < o /\ 0 \in Nat
    BY <1>2, <1>3, <1>16
  <2>2. out.words[1] = a.words[1]
    BY <1>15, <2>1
  <2>3. RelAt(out, 0) = RelAt(a, 0)
    BY <1>15, <2>1
  <2> QED
    BY <2>1, <2>2, <2>3
<1>17. ASSUME "GOT_TLS_MODULE" \in f
       PROVE  /\ out.words[o + 1] = TlsModAndOffset(s, o).words[1]
              /\ out.words[o + 2] = TlsModAndOffset(s, o).words[2]
              /\ RelAt(out, o) = RelAt(TlsModAndOffset(s, o), o)
              /\ RelAt(out, o + 1) = RelAt(TlsModAndOffset(s, o), o + 1)
  <2>1. b = TlsModAndOffset(s, o) /\ n = 2
    BY <1>2, <1>3, <1>5, <1>17
  <2>2. /\ 1 \in 1 .. n /\ 2 \in 1 .. n /\ 1 \in 1 .. n + k /\ 2 \in 1 .. n + k
        /\ o \in Nat /\ o + 1 \in Nat /\ o >= o /\ o + 1 >= o /\ o < o + n /\ o + 1 < o + n
    BY <1>2, <1>6, <2>1
  <2>3. out.words[o + 1] = b.words[1]
    BY <1>14, <1>15, <2>2
  <2>4. out.words[o + 2] = b.words[2]
    BY <1>14, <1>15, <2>2
  <2>5. RelAt(out, o) = RelAt(b, o)
    BY <1>14, <1>15, <2>2
  <2>6. RelAt(out, o + 1) = RelAt(b, o + 1)
    BY <1>14, <1>15, <2>2
  <2> QED
    BY <2>1, <2>3, <2>4, <2>5, <2>6
<1>18. ASSUME "GOT_TLS_DESCRIPTOR" \in f PROVE RelAt(out, o + 2 * m) = "tlsdesc"
  <2>1. c = TlsDescriptor(s, i)
    BY <1>3, <1>5, <1>18
  <2>2. i \in Nat /\ i >= o /\ i >= o + n
    BY <1>2, <1>6
  <2>3. RelAt(out, i) = RelAt(c, i)
    BY <1>14, <1>15, <2>2
  <2>4. RelAt(TlsDescriptor(s, i), i) = "tlsdesc"
    BY <2>2, TlsDescriptorHolds
  <2> QED
    BY <1>5, <2>1, <2>3, <2>4
<1> QED
  BY <1>16, <1>17, <1>18

\* What holds when the link is done: everything was written, and every entry of .rela.dyn was used.
Finished ==
    /\ Laid
    /\ \A r \in refs : /\ Result(r).error = "ok" /\ word[r] = Wrote(r.sym, Result(r).word, Result(r).rel)
                       /\ ~UnusedBy(r)
    /\ \A s \in Symbol : EntriesWritten(s) /\ ~UnusedOf(s)
    /\ usesTlsld => PreludeWritten

LEMMA DoneFinished ==
    ASSUME WrittenInv, phase = "done"
    PROVE  Finished
<1>1. Laid /\ todo = {} /\ next = NumSymbols + 1 /\ Writing
  BY DEF WrittenInv, AllocInv, Laid, Addressed, LeftOK, Writing
<1>2. \A r \in refs : Result(r).error = "ok" /\ word[r] = Wrote(r.sym, Result(r).word, Result(r).rel)
  BY <1>1 DEF WrittenInv, WordsOK
<1>3. \A s \in Symbol : s < next
  BY <1>1, SymbolsAssumption DEF Symbol
<1>4. (usesTlsld => PreludeWritten) /\ \A s \in Symbol : EntriesWritten(s)
  BY <1>1, <1>3 DEF WrittenInv, EntriesOK
<1>5. ASSUME NEW g \in Group
      PROVE  /\ g = Referrer => ~\E r \in refs : UnusedBy(r)
             /\ ~\E s \in Symbol : Home[s] = g /\ UnusedOf(s)
  <2>1. PICK size, m : /\ size = SymbolSizes(g, "RELA_DYN_GENERAL")
                       /\ m = IF g = Referrer THEN Cardinality(Sized(todo, "RELA_DYN_GENERAL")) ELSE 0
    OBVIOUS
  <2>2. m = 0
    <3>1. Sized(todo, "RELA_DYN_GENERAL") = {}
      BY <1>1 DEF Sized
    <3> QED
      BY <2>1, <3>1, FS_EmptySet
  <2>3. Total(NumSymbols, size) \in Nat
    BY <1>1, <2>1, StillToWrite DEF Laid, Part
  <2>4. next - 1 = NumSymbols
    BY <1>1, SymbolsAssumption
  <2>5. LET has == left[g]["RELA_DYN_GENERAL"] + Total(next - 1, size)
            needs == Total(NumSymbols, size) + m
        IN  /\ \/ g = Referrer /\ \E r \in refs \ todo : UnusedBy(r)
               \/ \E s \in Symbol : s < next /\ Home[s] = g /\ UnusedOf(s)
               => has > needs
            /\ left[g]["RELA_DYN_GENERAL"] = 0
    <3>1. UnusedLeft
      BY DEF WrittenInv
    <3> QED
      BY <1>1, <2>1, <3>1, UnusedGroup
  <2>6. PICK x : x = Total(NumSymbols, size)
    OBVIOUS
  <2>7. \/ g = Referrer /\ \E r \in refs \ todo : UnusedBy(r)
        \/ \E s \in Symbol : s < next /\ Home[s] = g /\ UnusedOf(s)
        => 0 + x > x + 0
    BY <2>2, <2>4, <2>5, <2>6
  <2>8. ~(0 + x > x + 0)
    BY <2>3, <2>6
  <2> QED
    BY <1>1, <1>3, <2>7, <2>8
<1>6. Referrer \in Group /\ \A s \in Symbol : Home[s] \in Group
  BY SymbolsAssumption DEF Referrer, Group
<1> QED
  BY <1>1, <1>2, <1>4, <1>5, <1>6 DEF Finished

\* The k-th entry of a symbol, counted from its address.
LEMMA EntryAt ==
    ASSUME Finished, NEW s \in Symbol, got[s] # 0, NEW out, out = ProcessResolution(s),
           NEW k \in Nat, k < Len(out.words)
    PROVE  entry[got[s] + k] = Wrote(s, out.words[k + 1], RelAt(out, k))
<1>1. PICK P : P = Place(s)
  OBVIOUS
<1>2. /\ got[s] = P
      /\ \A j \in 1 .. Len(out.words) : entry[P + j - 1] = Wrote(s, out.words[j], RelAt(out, j - 1))
  BY <1>1, EntriesWrittenIs DEF Finished
<1>3. P \in Nat /\ Len(out.words) \in Nat
  BY <1>1, PlaceIs, OutputInside DEF Finished
<1>4. k + 1 \in 1 .. Len(out.words) /\ P + (k + 1) - 1 = P + k /\ (k + 1) - 1 = k
  BY <1>3
<1>5. entry[P + (k + 1) - 1] = Wrote(s, out.words[k + 1], RelAt(out, (k + 1) - 1))
  BY <1>2, <1>4
<1> QED
  BY <1>2, <1>4, <1>5

-----------------------------------------------------------------------------
(* What entries and words lead to *)

LEMMA RunTimeIs ==
    ASSUME NEW s, NEW w, NEW rel, NEW e, e = Wrote(s, w, rel)
    PROVE  /\ e.of = s /\ e.word = w /\ e.rel = rel
           /\ rel = "lookup" => RunTime(e) = "definition"
           /\ rel = "irelative" => RunTime(e) = "implementation"
           /\ rel = "relative" => RunTime(e) = w
           /\ rel = "none" /\ (w \notin {"address", "stub", "copy"} \/ ~IsRelocatable(kind)) =>
                RunTime(e) = w
<1>1. e.of = s /\ e.word = w /\ e.rel = rel
  BY DEF Wrote
<1> QED
  BY <1>1 DEF RunTime

\* What is known of a symbol when addresses have been given out.
LEMMA SymbolEnd ==
    ASSUME Laid, NEW s \in Symbol, NEW f, f = flags[s]
    PROVE  /\ IsAbsolute(f) <=> \/ Sym[s].from = "undefined"
                                \/ Sym[s].from = "object" /\ Sym[s].type = "absolute"
           /\ IsIfunc(f) <=> Sym[s].type = "ifunc"
           /\ Sym[s].type = "ifunc" => Sym[s].from = "object"
           /\ IsDynamic(f) <=> Sym[s].from = "shared" \/ (Sym[s].from = "undefined" /\ Preemptible(s))
           /\ IsInterposable(f) <=> Preemptible(s)
           /\ HasDynamicSymbol(f) <=> Preemptible(s)
           /\ IsAddress(f) <=> Sym[s].from = "object" /\ Sym[s].type \notin {"absolute", "ifunc"}
           /\ "FUNCTION" \in f <=> Sym[s].from = "shared" /\ Sym[s].type = "func"
           /\ plt[s] <=> "PLT" \in f
           /\ got[s] \in Nat
           /\ "GOT" \in f => got[s] # 0 /\ ~IsTls(f)
           /\ IsTls(f) => got[s] # 0
           /\ "PLT" \in f => "GOT" \in f /\ Sym[s].type \in {"func", "ifunc"}
           /\ "IFUNC_GOT_FOR_ADDRESS" \in f => Sym[s].type = "ifunc" /\ "GOT" \in f /\ ~IsRelocatable(kind)
           /\ "COPY_RELOCATION" \in f =>
                /\ Sym[s].from = "shared" /\ IsExecutable(kind) /\ Sym[s].type \notin {"func", "tls"}
                /\ s \in defs
<1>1. SymbolOK(s) /\ TypeOK /\ f \cap StaticFlag = Base(s)
  BY DEF Laid, FlagsOK, SymbolOK
<1>2. /\ IsAbsolute(f) <=> \/ Sym[s].from = "undefined"
                           \/ Sym[s].from = "object" /\ Sym[s].type = "absolute"
      /\ IsIfunc(f) <=> Sym[s].type = "ifunc"
      /\ Sym[s].type = "ifunc" => Sym[s].from = "object"
      /\ IsDynamic(f) <=> Sym[s].from = "shared" \/ (Sym[s].from = "undefined" /\ Preemptible(s))
      /\ IsInterposable(f) <=> Preemptible(s)
      /\ IsAddress(f) <=> Sym[s].from = "object" /\ Sym[s].type \notin {"absolute", "ifunc"}
      /\ "FUNCTION" \in f <=> Sym[s].from = "shared" /\ Sym[s].type = "func"
  BY <1>1, BaseFlags
<1>3. /\ Sym[s].from \in {"object", "shared", "undefined"}
      /\ Sym[s].from = "shared" => Preemptible(s)
  BY <1>1, SymbolFacts DEF Preemptible
<1>4. \A t \in Symbol : MustExport(t) \/ "COPY_RELOCATION" \in flags[t] => t \in defs
  BY DEF Laid, SizesOK, Addressed, Scanning
<1>5. Preemptible(s) /\ Sym[s].from = "object" => "EXPORT_DYNAMIC" \in f
  <2>1. Preemptible(s) /\ Sym[s].from = "object" => MustExport(s)
    BY DEF Preemptible, MustExport
  <2>2. s \in defs /\ Sym[s].from = "object" => "EXPORT_DYNAMIC" \in f
    BY <1>1 DEF SymbolOK
  <2> QED
    BY <1>4, <2>1, <2>2
<1>6. HasDynamicSymbol(f) <=> Preemptible(s)
  BY <1>2, <1>3, <1>5 DEF HasDynamicSymbol
<1>7. /\ plt[s] <=> "PLT" \in f
      /\ got[s] \in Nat
      /\ "GOT" \in f => got[s] # 0 /\ ~IsTls(f)
      /\ IsTls(f) => got[s] # 0
  BY SymbolLaid
<1>8. /\ "PLT" \in f => "GOT" \in f /\ Sym[s].type \in {"func", "ifunc"}
      /\ "IFUNC_GOT_FOR_ADDRESS" \in f => Sym[s].type = "ifunc" /\ "GOT" \in f /\ ~IsRelocatable(kind)
      /\ "COPY_RELOCATION" \in f =>
           Sym[s].from = "shared" /\ IsExecutable(kind) /\ Sym[s].type \notin {"func", "tls"}
  BY <1>1 DEF SymbolOK
<1> QED
  BY <1>2, <1>4, <1>6, <1>7, <1>8

\* raw_value
LEMMA RawValueIs ==
    ASSUME Laid, NEW s \in Symbol, NEW f, f = flags[s], NEW w, w = RawValue(s)
    PROVE  /\ w = "stub" => plt[s] /\ IsDynamic(f)
           /\ w = "copy" => "COPY_RELOCATION" \in f
           /\ Sym[s].from = "object" => w = IF Sym[s].type = "absolute" THEN "number" ELSE "address"
           /\ Sym[s].from = "undefined" => w = IF Preemptible(s) /\ plt[s] THEN "stub" ELSE "zero"
           /\ Sym[s].from = "shared" =>
                w = IF plt[s] THEN "stub" ELSE IF "COPY_RELOCATION" \in f THEN "copy" ELSE "zero"
<1>1. /\ IsDynamic(f) <=> Sym[s].from = "shared" \/ (Sym[s].from = "undefined" /\ Preemptible(s))
      /\ IsAbsolute(f) <=> \/ Sym[s].from = "undefined"
                           \/ Sym[s].from = "object" /\ Sym[s].type = "absolute"
      /\ "COPY_RELOCATION" \in f => Sym[s].from = "shared"
  BY SymbolEnd
<1> QED
  BY <1>1 DEF RawValue

LEMMA KindEnd ==
    ASSUME Laid, NEW s \in Symbol
    PROVE  /\ kind \in Kind /\ Sym[s].from \in {"object", "shared", "undefined"}
           /\ Sym[s].type \in {"data", "func", "ifunc", "tls", "absolute"}
           /\ Sym[s].from = "undefined" => Sym[s].type \in {"func", "tls"}
           /\ Sym[s].from = "shared" => Preemptible(s)
           /\ Preemptible(s) /\ Sym[s].from = "object" => kind = "SharedObject"
           /\ IsExecutable(kind) <=> kind # "SharedObject"
           /\ kind = "SharedObject" => IsRelocatable(kind)
<1>1. TypeOK
  BY DEF Laid
<1> QED
  BY <1>1, SymbolFacts DEF Preemptible, IsExecutable, IsStatic, IsRelocatable, Kind

\* The GOT entry of a symbol leads to the symbol.
LEMMA FirstLeads ==
    ASSUME Finished, NEW s \in Symbol, "GOT" \in flags[s]
    PROVE  /\ entry[got[s]].of = s
           /\ RunTime(entry[got[s]]) \in Meaning(s) \ {"stub", "copy"}
<1> DEFINE f == flags[s]
<1>1. Laid
  BY DEF Finished
<1>2. got[s] # 0 /\ got[s] \in Nat /\ ~IsTls(f)
  BY <1>1, SymbolEnd
<1>3. PICK out : out = ProcessResolution(s)
  OBVIOUS
<1>4. out = PlainEntries(s)
  BY <1>2, <1>3, Zenon DEF ProcessResolution
<1>5. out.words[1] = FirstWord(s) /\ RelAt(out, 0) = FirstRel(s)
  BY <1>4, PlainEntriesAre
<1>6. 0 < Len(out.words)
  <2>1. Len(out.words) = 1 + Count("IFUNC_GOT_FOR_ADDRESS" \in f)
    BY <1>4, PlainEntriesIs
  <2> QED
    BY <2>1 DEF Count
<1>7. entry[got[s]] = Wrote(s, FirstWord(s), FirstRel(s))
  <2>1. entry[got[s] + 0] = Wrote(s, out.words[0 + 1], RelAt(out, 0))
    BY <1>2, <1>3, <1>6, EntryAt
  <2>2. got[s] + 0 = got[s] /\ 0 + 1 = 1
    BY <1>2
  <2> QED
    BY <1>5, <2>1, <2>2
<1>8. PICK e, w, rel, raw : e = entry[got[s]] /\ w = FirstWord(s) /\ rel = FirstRel(s) /\ raw = RawValue(s)
  OBVIOUS
<1>9. /\ e.of = s
      /\ rel = "lookup" => RunTime(e) = "definition"
      /\ rel = "irelative" => RunTime(e) = "implementation"
      /\ rel = "relative" => RunTime(e) = w
      /\ rel = "none" /\ (w \notin {"address", "stub", "copy"} \/ ~IsRelocatable(kind)) => RunTime(e) = w
  BY <1>7, <1>8, RunTimeIs
<1>10. /\ IsIfunc(f) <=> Sym[s].type = "ifunc"
       /\ Sym[s].type = "ifunc" => Sym[s].from = "object"
       /\ HasDynamicSymbol(f) <=> Preemptible(s)
       /\ IsAddress(f) <=> Sym[s].from = "object" /\ Sym[s].type \notin {"absolute", "ifunc"}
  BY <1>1, SymbolEnd
<1>11. /\ Sym[s].from \in {"object", "shared", "undefined"}
       /\ Sym[s].from = "shared" => Preemptible(s)
  BY <1>1, KindEnd
<1>12. /\ Sym[s].from = "object" => raw = IF Sym[s].type = "absolute" THEN "number" ELSE "address"
       /\ Sym[s].from = "undefined" => raw = IF Preemptible(s) /\ plt[s] THEN "stub" ELSE "zero"
  BY <1>1, <1>8, RawValueIs
<1>13. CASE IsIfunc(f)
  <2>1. RunTime(e) = "implementation"
    BY <1>8, <1>9, <1>13 DEF FirstRel
  <2> QED
    BY <1>8, <1>9, <1>10, <1>13, <2>1 DEF Meaning
<1>14. CASE ~IsIfunc(f) /\ Preemptible(s)
  <2>1. RunTime(e) = "definition"
    BY <1>8, <1>9, <1>10, <1>14 DEF FirstRel
  <2> QED
    BY <1>8, <1>9, <1>10, <1>11, <1>14, <2>1 DEF Meaning
<1>15. CASE ~IsIfunc(f) /\ ~Preemptible(s) /\ Sym[s].from = "undefined"
  <2>1. rel = "none" /\ w = "zero"
    BY <1>8, <1>10, <1>12, <1>15 DEF FirstRel, FirstWord
  <2> QED
    BY <1>8, <1>9, <1>15, <2>1 DEF Meaning
<1>16. CASE ~IsIfunc(f) /\ ~Preemptible(s) /\ Sym[s].from = "object" /\ Sym[s].type = "absolute"
  <2>1. rel = "none" /\ w = "number"
    BY <1>8, <1>10, <1>12, <1>16 DEF FirstRel, FirstWord
  <2> QED
    BY <1>8, <1>9, <1>16, <2>1 DEF Meaning
<1>17. CASE ~IsIfunc(f) /\ ~Preemptible(s) /\ Sym[s].from = "object" /\ Sym[s].type # "absolute"
  <2>1. rel = (IF IsRelocatable(kind) THEN "relative" ELSE "none") /\ w = "address"
    BY <1>8, <1>10, <1>12, <1>17 DEF FirstRel, FirstWord
  <2> QED
    BY <1>8, <1>9, <1>10, <1>17, <2>1 DEF Meaning
<1> QED
  BY <1>11, <1>13, <1>14, <1>15, <1>16, <1>17

\* The second GOT entry of an ifunc leads to its PLT entry.
LEMMA SecondLeads ==
    ASSUME Finished, NEW s \in Symbol, "IFUNC_GOT_FOR_ADDRESS" \in flags[s]
    PROVE  /\ entry[got[s] + 1].of = s /\ RunTime(entry[got[s] + 1]) = "stub"
<1> DEFINE f == flags[s]
<1>1. Laid
  BY DEF Finished
<1>2. got[s] # 0 /\ got[s] \in Nat /\ ~IsTls(f) /\ ~IsRelocatable(kind)
  BY <1>1, SymbolEnd
<1>3. PICK out : out = ProcessResolution(s)
  OBVIOUS
<1>4. out = PlainEntries(s)
  BY <1>2, <1>3, Zenon DEF ProcessResolution
<1>5. out.words[2] = "stub" /\ RelAt(out, 1) = "none"
  BY <1>2, <1>4, PlainEntriesAre
<1>6. 1 < Len(out.words)
  <2>1. Len(out.words) = 1 + Count("IFUNC_GOT_FOR_ADDRESS" \in f)
    BY <1>4, PlainEntriesIs
  <2> QED
    BY <2>1 DEF Count
<1>7. entry[got[s] + 1] = Wrote(s, "stub", "none")
  <2>1. entry[got[s] + 1] = Wrote(s, out.words[1 + 1], RelAt(out, 1))
    BY <1>2, <1>3, <1>6, EntryAt
  <2>2. 1 + 1 = 2
    OBVIOUS
  <2> QED
    BY <1>5, <2>1, <2>2
<1>8. PICK e : e = entry[got[s] + 1]
  OBVIOUS
<1>9. e.of = s /\ RunTime(e) = "stub"
  BY <1>2, <1>7, <1>8, RunTimeIs
<1> QED
  BY <1>8, <1>9

-----------------------------------------------------------------------------
(* What a relocation leads to *)

\* What is known of a relocation that was applied.
LEMMA ReferenceEnd ==
    ASSUME Finished, NEW r \in refs, NEW f, f = flags[r.sym], NEW kd, kd = RelKind(r, f)
    PROVE  /\ r \in Reference /\ r.sym \in Symbol /\ Sensible(r) /\ KindOK(r, f, kd)
           /\ r.type \in RelType /\ r.sec \in {"text", "rodata", "data", "packed"} /\ (Writable(r) <=> r.sec \in {"data", "packed"})
           /\ ~Bails(r, f, kd) /\ FlagsToAdd(r, f, kd) \subseteq f
           /\ kd = "TlsLd" => usesTlsld
           /\ Result(r).error = "ok" /\ word[r] = Wrote(r.sym, Result(r).word, Result(r).rel)
           /\ ~UnusedBy(r)
<1>1. /\ TypeOK /\ r \in Reference /\ r.sym \in Symbol /\ ReferenceOK(r) /\ SymbolOK(r.sym)
      /\ phase # "bailed"
  BY DEF Finished, Laid, TypeOK, Reference, RefsOK, FlagsOK, Addressed
<1>2. /\ Sensible(r) /\ ~Bails(r, f, kd) /\ FlagsToAdd(r, f, kd) \subseteq f
      /\ kd = "TlsLd" => usesTlsld
      /\ f \cap StaticFlag = Base(r.sym)
  BY <1>1 DEF ReferenceOK, SymbolOK
<1>3. KindOK(r, f, kd)
  BY <1>1, <1>2, KindFacts
<1>4. r.type \in RelType /\ r.sec \in {"text", "rodata", "data", "packed"} /\ (Writable(r) <=> r.sec \in {"data", "packed"})
  BY <1>1 DEF Reference, Writable
<1>5. /\ Result(r).error = "ok" /\ word[r] = Wrote(r.sym, Result(r).word, Result(r).rel)
      /\ ~UnusedBy(r)
  BY DEF Finished
<1> QED
  BY <1>1, <1>2, <1>3, <1>4, <1>5

\* A reference asks for what its kind needs, unless it goes through the PLT instead.
LEMMA NeededTaken ==
    ASSUME NEW r, NEW f, NEW kd, FlagsToAdd(r, f, kd) \subseteq f
    PROVE  /\ kd \in {"PltRelative", "GotRelative"} => "GOT" \in f
           /\ kd = "PltRelative" => "PLT" \in f
           /\ kd = "GotTpOff" => "GOT_TLS_OFFSET" \in f
           /\ kd = "TlsGd" => "GOT_TLS_MODULE" \in f
           /\ kd = "TlsDesc" => "GOT_TLS_DESCRIPTOR" \in f
<1>1. SUFFICES ASSUME kd \in {"PltRelative", "GotRelative", "GotTpOff", "TlsGd", "TlsDesc"}
               PROVE  NeededFlags(kd) \subseteq f
  BY DEF NeededFlags
<1>2. "DIRECT" \notin NeededFlags(kd)
  BY <1>1 DEF NeededFlags
<1>3. ~DirectInterposable(r, f, kd)
  BY <1>2 DEF DirectInterposable
<1>4. NeededFlags(kd) \subseteq FlagsToAdd(r, f, kd)
  BY <1>3 DEF FlagsToAdd
<1> QED
  BY <1>4

\* A word that is the address of a symbol another module may define: it is in a read-only section,
\* and the symbol has a PLT entry or is copied, or its value is fixed.
LEMMA DirectIsSafe ==
    ASSUME Finished, NEW r \in refs, NEW f, f = flags[r.sym], NEW kd, kd = RelKind(r, f),
           kd \in {"Absolute", "Relative"}, Preemptible(r.sym)
    PROVE  /\ kd = "Relative" => ~Writable(r)
           /\ ~Writable(r) /\ Sym[r.sym].from = "object" => IsAbsolute(f)
           /\ ~Writable(r) /\ Sym[r.sym].from = "shared" => plt[r.sym] \/ "COPY_RELOCATION" \in f
<1> DEFINE s == r.sym
<1>1. /\ s \in Symbol /\ ~Bails(r, f, kd) /\ FlagsToAdd(r, f, kd) \subseteq f /\ ~UnusedBy(r)
  BY ReferenceEnd
<1>2. Laid
  BY DEF Finished
<1>3. /\ IsInterposable(f)
      /\ "FUNCTION" \in f <=> Sym[s].from = "shared" /\ Sym[s].type = "func"
      /\ IsAbsolute(f) <=> \/ Sym[s].from = "undefined"
                           \/ Sym[s].from = "object" /\ Sym[s].type = "absolute"
      /\ plt[s] <=> "PLT" \in f
  BY <1>1, <1>2, SymbolEnd
<1>4. Sym[s].from = "object" => ~IsExecutable(kind)
  BY <1>1, <1>2, KindEnd
<1>5. ~IsTlsKind(kd) /\ DirectInterposable(r, f, kd)
  BY <1>3 DEF IsTlsKind, DirectInterposable, NeededFlags
<1>6. ASSUME kd = "Relative", Writable(r) PROVE FALSE
  <2>1. RefPart(r, f, kd) = "RELA_DYN_GENERAL"
    BY <1>5, <1>6 DEF RefPart
  <2>2. RefSize(r, "RELA_DYN_GENERAL") = 1
    <3>1. RefSize(r, "RELA_DYN_GENERAL") = AllocatedForRelocation(r, f, kd)["RELA_DYN_GENERAL"]
      BY Zenon DEF RefSize
    <3> QED
      BY <2>1, <3>1, RefSizeIs DEF Part
  <2>3. Result(r).part = "none"
    BY <1>6, ResultForm
  <2> QED
    BY <1>1, <2>2, <2>3 DEF UnusedBy
<1>7. ASSUME ~Writable(r)
      PROVE  /\ Sym[s].from = "object" => IsAbsolute(f)
             /\ Sym[s].from = "shared" => "PLT" \in f \/ "COPY_RELOCATION" \in f
  <2>1. "FUNCTION" \in f \/ IsAbsolute(f) \/ IsExecutable(kind)
    BY <1>1, <1>5, <1>7 DEF Bails, CopyAllowed
  <2>2. "FUNCTION" \in f => "PLT" \in FlagsToAdd(r, f, kd)
    BY <1>5, <1>7 DEF FlagsToAdd
  <2>3. "FUNCTION" \notin f /\ ~IsAbsolute(f) => "COPY_RELOCATION" \in FlagsToAdd(r, f, kd)
    BY <1>5, <1>7 DEF FlagsToAdd
  <2> QED
    BY <1>1, <1>3, <1>4, <2>1, <2>2, <2>3
<1> QED
  BY <1>3, <1>6, <1>7

\* The word and the relocation of write_absolute_relocation.
LEMMA AbsoluteIs ==
    ASSUME NEW r, NEW f, f = flags[r.sym], NEW res, res = WriteAbsolute(r), NEW raw, raw = RawValue(r.sym)
    PROVE  /\ IsDynamic(f) /\ IsAbsolute(f) /\ ~Writable(r) => res.word = "zero" /\ res.rel = "none"
           /\ IsInterposable(f) /\ Writable(r) => res.rel = "lookup"
           /\ ~IsInterposable(f) /\ IsIfunc(f) /\ Writable(r) /\ IsRelocatable(kind) =>
                res.rel = "irelative"
           /\ /\ ~(IsDynamic(f) /\ IsAbsolute(f) /\ ~Writable(r))
              /\ ~(IsInterposable(f) /\ Writable(r))
              /\ ~(~IsInterposable(f) /\ IsIfunc(f) /\ Writable(r) /\ IsRelocatable(kind))
              => /\ res.word = IF IsIfunc(f) THEN "stub" ELSE raw
                 /\ res.rel = IF IsRelocatable(kind) /\ ~IsAbsolute(f) THEN "relative" ELSE "none"
                 /\ res.error = "ok" /\ IsIfunc(f) => plt[r.sym]
<1>1. PICK rp : rp = RelativePart(PlaceEven(r))
  OBVIOUS
<1>2. PICK value, err, index :
        /\ value = IF IsIfunc(f) THEN "stub" ELSE raw
        /\ err = Unless(IsIfunc(f) => plt[r.sym], "missing")
        /\ index = Unless(HasIndex(r.sym), "missing")
  OBVIOUS
<1>3. err = "ok" /\ IsIfunc(f) => plt[r.sym]
  BY <1>2 DEF Unless
<1>4. CASE IsDynamic(f) /\ IsAbsolute(f) /\ ~Writable(r)
  <2>1. res = [word |-> "zero", rel |-> "none", part |-> "none", error |-> "ok"]
    BY <1>4, Zenon DEF WriteAbsolute
  <2> QED
    BY <1>4, <2>1
<1>5. CASE IsInterposable(f) /\ Writable(r)
  <2>1. res = [word |-> "zero", rel |-> "lookup", part |-> "RELA_DYN_GENERAL", error |-> index]
    BY <1>2, <1>5, Zenon DEF WriteAbsolute
  <2> QED
    BY <1>5, <2>1
<1>6. CASE ~IsInterposable(f) /\ IsIfunc(f) /\ Writable(r) /\ IsRelocatable(kind)
  <2>1. res = [word |-> "zero", rel |-> "irelative", part |-> "RELA_DYN_GENERAL", error |-> "ok"]
    BY <1>6, Zenon DEF WriteAbsolute
  <2> QED
    BY <1>6, <2>1
<1>7. CASE /\ ~(IsDynamic(f) /\ IsAbsolute(f) /\ ~Writable(r))
           /\ ~(IsInterposable(f) /\ Writable(r))
           /\ ~(~IsInterposable(f) /\ IsIfunc(f) /\ Writable(r) /\ IsRelocatable(kind))
  <2>1. res = IF IsRelocatable(kind) /\ ~IsAbsolute(f)
              THEN [word |-> value, rel |-> "relative", part |-> rp, error |-> err]
              ELSE [word |-> value, rel |-> "none", part |-> "none", error |-> err]
    BY <1>1, <1>2, <1>7 DEF WriteAbsolute
  <2> QED
    BY <1>2, <1>3, <1>7, <2>1
<1> QED
  BY <1>4, <1>5, <1>6, <1>7

\* The word of a relocation that is relative to its place.
LEMMA RelativeWordIs ==
    ASSUME NEW r, NEW f, f = flags[r.sym], NEW kd, kd = RelKind(r, f), NEW res, res = Result(r),
           kd \in {"Relative", "PltRelative"}
    PROVE  /\ res.word = IF kd = "PltRelative" \/ IsIfunc(f) THEN "stub" ELSE RawValue(r.sym)
           /\ res.error = "ok" /\ (kd = "PltRelative" \/ IsIfunc(f)) => plt[r.sym]
<1>1. PICK viaPlt, err, raw :
        /\ viaPlt = (kd = "PltRelative" \/ IsIfunc(f)) /\ raw = RawValue(r.sym)
        /\ err = Unless(viaPlt => plt[r.sym], "missing")
  OBVIOUS
<1>2. res = [word |-> IF viaPlt THEN "stub" ELSE raw, rel |-> "none", part |-> "none", error |-> err]
  BY <1>1 DEF Result
<1>3. err = "ok" /\ viaPlt => plt[r.sym]
  BY <1>1 DEF Unless
<1>4. res.word = (IF viaPlt THEN "stub" ELSE raw) /\ res.error = err
  BY <1>2
<1>5. CASE kd = "PltRelative" \/ IsIfunc(f)
  BY <1>1, <1>3, <1>4, <1>5
<1>6. CASE ~(kd = "PltRelative" \/ IsIfunc(f))
  BY <1>1, <1>4, <1>6
<1> QED
  BY <1>5, <1>6

\* The value of a symbol is one of its meanings where a word may hold it.
LEMMA ValueLeads ==
    ASSUME Laid, NEW s \in Symbol, NEW f, f = flags[s], NEW w, w = RawValue(s),
           Sym[s].type # "tls", ~IsIfunc(f),
           Preemptible(s) /\ Sym[s].from = "object" => IsAbsolute(f),
           Sym[s].from = "shared" => plt[s] \/ "COPY_RELOCATION" \in f
    PROVE  /\ w \in Meaning(s)
           /\ w = "stub" => plt[s]
           /\ w = "copy" => "COPY_RELOCATION" \in f
<1>1. /\ w = "stub" => plt[s] /\ IsDynamic(f)
      /\ w = "copy" => "COPY_RELOCATION" \in f
      /\ Sym[s].from = "object" => w = IF Sym[s].type = "absolute" THEN "number" ELSE "address"
      /\ Sym[s].from = "undefined" => w = IF Preemptible(s) /\ plt[s] THEN "stub" ELSE "zero"
      /\ Sym[s].from = "shared" =>
           w = IF plt[s] THEN "stub" ELSE IF "COPY_RELOCATION" \in f THEN "copy" ELSE "zero"
  BY RawValueIs
<1>2. /\ IsAbsolute(f) <=> \/ Sym[s].from = "undefined"
                           \/ Sym[s].from = "object" /\ Sym[s].type = "absolute"
      /\ IsIfunc(f) <=> Sym[s].type = "ifunc"
      /\ Sym[s].type = "ifunc" => Sym[s].from = "object"
      /\ plt[s] <=> "PLT" \in f
      /\ "PLT" \in f => "GOT" \in f /\ Sym[s].type \in {"func", "ifunc"}
      /\ "COPY_RELOCATION" \in f =>
           /\ Sym[s].from = "shared" /\ IsExecutable(kind) /\ Sym[s].type \notin {"func", "tls"}
           /\ s \in defs
  BY SymbolEnd
<1>3. Sym[s].from \in {"object", "shared", "undefined"}
  BY KindEnd
<1>4. CASE Sym[s].from = "object"
  BY <1>1, <1>2, <1>4 DEF Meaning
<1>5. CASE Sym[s].from = "undefined"
  BY <1>1, <1>5 DEF Meaning
<1>6. CASE Sym[s].from = "shared"
  BY <1>1, <1>2, <1>6 DEF Meaning
<1> QED
  BY <1>1, <1>3, <1>4, <1>5, <1>6

\* A symbol that the loader picks may always be its definition.
LEMMA DefinitionMeant ==
    ASSUME Laid, NEW s \in Symbol, Preemptible(s)
    PROVE  "definition" \in Meaning(s)
<1>1. /\ Sym[s].from \in {"object", "shared", "undefined"}
  BY KindEnd
<1> QED
  BY <1>1 DEF Meaning

\* A symbol with a PLT entry may be that entry.
LEMMA StubMeant ==
    ASSUME Laid, NEW s \in Symbol, plt[s]
    PROVE  "stub" \in Meaning(s) /\ "GOT" \in flags[s]
<1>1. /\ "GOT" \in flags[s] /\ Sym[s].type \in {"func", "ifunc"}
      /\ Sym[s].type = "ifunc" => Sym[s].from = "object"
  BY SymbolEnd
<1>2. Sym[s].from \in {"object", "shared", "undefined"}
  BY KindEnd
<1> QED
  BY <1>1, <1>2 DEF Meaning

LEMMA AbsoluteLeads ==
    ASSUME Finished, NEW r \in refs, Sym[r.sym].type # "tls", NEW f, f = flags[r.sym],
           RelKind(r, f) = "Absolute", NEW w, w = RunTime(word[r])
    PROVE  /\ w \in Meaning(r.sym)
           /\ w = "stub" => "GOT" \in f
           /\ w = "copy" => "COPY_RELOCATION" \in f
           /\ IsIfunc(f) /\ ~IsRelocatable(kind) => w = "stub"
<1> DEFINE s == r.sym
<1>1. PICK kd, res, raw, e : kd = RelKind(r, f) /\ res = Result(r) /\ raw = RawValue(s) /\ e = word[r]
  OBVIOUS
<1>2. Laid
  BY DEF Finished
<1>3. s \in Symbol /\ res.error = "ok" /\ e = Wrote(s, res.word, res.rel)
  BY <1>1, ReferenceEnd
<1>4. res = WriteAbsolute(r)
  BY <1>1 DEF Result
<1>5. /\ IsDynamic(f) /\ IsAbsolute(f) /\ ~Writable(r) => res.word = "zero" /\ res.rel = "none"
      /\ IsInterposable(f) /\ Writable(r) => res.rel = "lookup"
      /\ ~IsInterposable(f) /\ IsIfunc(f) /\ Writable(r) /\ IsRelocatable(kind) =>
           res.rel = "irelative"
      /\ /\ ~(IsDynamic(f) /\ IsAbsolute(f) /\ ~Writable(r))
         /\ ~(IsInterposable(f) /\ Writable(r))
         /\ ~(~IsInterposable(f) /\ IsIfunc(f) /\ Writable(r) /\ IsRelocatable(kind))
         => /\ res.word = IF IsIfunc(f) THEN "stub" ELSE raw
            /\ res.rel = IF IsRelocatable(kind) /\ ~IsAbsolute(f) THEN "relative" ELSE "none"
            /\ res.error = "ok" /\ IsIfunc(f) => plt[s]
  BY <1>1, <1>4, AbsoluteIs
<1>6. PICK x, rel : x = res.word /\ rel = res.rel
  OBVIOUS
<1>7. /\ rel = "lookup" => w = "definition"
      /\ rel = "irelative" => w = "implementation"
      /\ rel = "relative" => w = x
      /\ rel = "none" /\ (x \notin {"address", "stub", "copy"} \/ ~IsRelocatable(kind)) => w = x
  <2>1. e = Wrote(s, x, rel)
    BY <1>3, <1>6
  <2> QED
    BY <1>1, <2>1, RunTimeIs
<1>8. /\ IsAbsolute(f) <=> \/ Sym[s].from = "undefined"
                           \/ Sym[s].from = "object" /\ Sym[s].type = "absolute"
      /\ IsIfunc(f) <=> Sym[s].type = "ifunc"
      /\ Sym[s].type = "ifunc" => Sym[s].from = "object"
      /\ IsDynamic(f) <=> Sym[s].from = "shared" \/ (Sym[s].from = "undefined" /\ Preemptible(s))
      /\ IsInterposable(f) <=> Preemptible(s)
  BY <1>2, <1>3, SymbolEnd
<1>9. /\ Sym[s].from = "shared" => Preemptible(s)
      /\ Preemptible(s) /\ Sym[s].from = "object" => kind = "SharedObject"
      /\ kind = "SharedObject" => IsRelocatable(kind)
  BY <1>2, <1>3, KindEnd
<1>10. Preemptible(s) /\ ~Writable(r) =>
         /\ Sym[s].from = "object" => IsAbsolute(f)
         /\ Sym[s].from = "shared" => plt[s] \/ "COPY_RELOCATION" \in f
  BY <1>1, DirectIsSafe
<1>11. CASE Preemptible(s) /\ Writable(r)
  <2>1. w = "definition" /\ (IsIfunc(f) => IsRelocatable(kind))
    BY <1>5, <1>6, <1>7, <1>8, <1>9, <1>11
  <2> QED
    BY <1>2, <1>3, <1>11, <2>1, DefinitionMeant
<1>12. CASE IsIfunc(f) /\ ~(Preemptible(s) /\ Writable(r))
  <2>1. ~Preemptible(s)
    BY <1>8, <1>10, <1>12
  <2>2. CASE Writable(r) /\ IsRelocatable(kind)
    <3>1. w = "implementation"
      BY <1>5, <1>6, <1>7, <1>8, <1>12, <2>1, <2>2
    <3> QED
      BY <1>8, <1>12, <2>2, <3>1 DEF Meaning
  <2>3. CASE ~(Writable(r) /\ IsRelocatable(kind))
    <3>1. x = "stub" /\ rel = (IF IsRelocatable(kind) THEN "relative" ELSE "none") /\ plt[s]
      BY <1>3, <1>5, <1>6, <1>8, <1>12, <2>1, <2>3
    <3>2. w = "stub"
      BY <1>7, <3>1
    <3> QED
      BY <1>2, <1>3, <3>1, <3>2, StubMeant
  <2> QED
    BY <2>2, <2>3
<1>13. CASE ~IsIfunc(f) /\ ~(Preemptible(s) /\ Writable(r)) /\ IsDynamic(f) /\ IsAbsolute(f)
  <2>1. x = "zero" /\ rel = "none"
    BY <1>5, <1>6, <1>8, <1>9, <1>13
  <2>2. w = "zero" /\ Sym[s].from = "undefined"
    BY <1>7, <1>8, <1>13, <2>1
  <2> QED
    BY <1>13, <2>2 DEF Meaning
<1>14. CASE ~IsIfunc(f) /\ ~(Preemptible(s) /\ Writable(r)) /\ ~(IsDynamic(f) /\ IsAbsolute(f))
  <2>1. x = raw /\ rel = IF IsRelocatable(kind) /\ ~IsAbsolute(f) THEN "relative" ELSE "none"
    BY <1>5, <1>6, <1>8, <1>14
  <2>2. /\ raw \in Meaning(s)
        /\ raw = "stub" => plt[s]
        /\ raw = "copy" => "COPY_RELOCATION" \in f
    BY <1>1, <1>2, <1>3, <1>9, <1>10, <1>14, ValueLeads
  <2>3. IsAbsolute(f) => raw \notin {"address", "stub", "copy"}
    <3>1. /\ raw = "stub" => IsDynamic(f)
          /\ raw = "copy" => "COPY_RELOCATION" \in f
          /\ Sym[s].from = "object" => raw = IF Sym[s].type = "absolute" THEN "number" ELSE "address"
          /\ Sym[s].from = "undefined" => raw = IF Preemptible(s) /\ plt[s] THEN "stub" ELSE "zero"
      BY <1>1, <1>2, <1>3, RawValueIs
    <3> QED
      BY <1>8, <1>14, <3>1
  <2>4. w = raw
    BY <1>7, <2>1, <2>3
  <2> QED
    BY <1>2, <1>3, <1>14, <2>2, <2>4, StubMeant
<1> QED
  BY <1>11, <1>12, <1>13, <1>14

LEMMA RelativeLeads ==
    ASSUME Finished, NEW r \in refs, Sym[r.sym].type # "tls", NEW f, f = flags[r.sym],
           NEW kd, kd = RelKind(r, f), kd \in {"Relative", "PltRelative"}, NEW w, w = word[r].word
    PROVE  /\ w \in Meaning(r.sym)
           /\ w = "stub" => "GOT" \in f
           /\ w = "copy" => "COPY_RELOCATION" \in f
           /\ kd = "PltRelative" => w = "stub"
<1> DEFINE s == r.sym
<1>1. PICK res, raw : res = Result(r) /\ raw = RawValue(s)
  OBVIOUS
<1>2. Laid
  BY DEF Finished
<1>3. s \in Symbol /\ res.error = "ok" /\ word[r] = Wrote(s, res.word, res.rel) /\ KindOK(r, f, kd)
      /\ r.type \in RelType
  BY <1>1, ReferenceEnd
<1>4. w = res.word
  BY <1>3 DEF Wrote
<1>5. /\ res.word = IF kd = "PltRelative" \/ IsIfunc(f) THEN "stub" ELSE raw
      /\ res.error = "ok" /\ (kd = "PltRelative" \/ IsIfunc(f)) => plt[s]
  BY <1>1, RelativeWordIs
<1>6. CASE kd = "PltRelative"
  BY <1>2, <1>3, <1>4, <1>5, <1>6, StubMeant
<1>7. CASE kd = "Relative"
  <2>1. Sym[s].type # "ifunc"
    BY <1>3, <1>7 DEF KindOK, RelType
  <2>2. ~IsIfunc(f)
    BY <1>2, <1>3, <2>1, SymbolEnd
  <2>3. w = raw
    BY <1>4, <1>5, <1>7, <2>2
  <2>4. Sym[s].from = "shared" => Preemptible(s)
    BY <1>2, <1>3, KindEnd
  <2>5. /\ Preemptible(s) /\ Sym[s].from = "object" => IsAbsolute(f)
        /\ Preemptible(s) /\ Sym[s].from = "shared" => plt[s] \/ "COPY_RELOCATION" \in f
    BY <1>7, DirectIsSafe
  <2>6. /\ w \in Meaning(s)
        /\ w = "stub" => plt[s]
        /\ w = "copy" => "COPY_RELOCATION" \in f
    BY <1>1, <1>2, <1>3, <2>2, <2>3, <2>4, <2>5, ValueLeads
  <2> QED
    BY <1>2, <1>3, <1>7, <2>6, StubMeant
<1> QED
  BY <1>6, <1>7

LEMMA GotLeads ==
    ASSUME Finished, NEW r \in refs, NEW f, f = flags[r.sym], RelKind(r, f) = "GotRelative",
           NEW w, w = LeadsTo(r)
    PROVE  /\ w \in Meaning(r.sym)
           /\ w = "stub" => "GOT" \in f
           /\ w = "copy" => "COPY_RELOCATION" \in f
           /\ IsIfunc(f) /\ ~IsRelocatable(kind) => w = "stub"
<1> DEFINE s == r.sym
<1>1. PICK kd : kd = RelKind(r, f) /\ kd = "GotRelative"
  OBVIOUS
<1>2. Laid
  BY DEF Finished
<1>3. s \in Symbol /\ FlagsToAdd(r, f, kd) \subseteq f
  BY <1>1, ReferenceEnd
<1>4. "GOT" \in f
  BY <1>1, <1>3, NeededTaken
<1>5. PICK e : e = entry[EntryOfKind(s, kd)]
  OBVIOUS
<1>6. w = IF e.of = s THEN RunTime(e) ELSE "another"
  BY <1>1, <1>5, Zenon DEF LeadsTo
<1>7. EntryOfKind(s, kd) = got[s] + Count("IFUNC_GOT_FOR_ADDRESS" \in f)
  BY <1>1, Zenon DEF EntryOfKind
<1>8. got[s] \in Nat
  BY <1>2, <1>3, SymbolEnd
<1>9. CASE "IFUNC_GOT_FOR_ADDRESS" \in f
  <2>1. EntryOfKind(s, kd) = got[s] + 1
    BY <1>7, <1>9 DEF Count
  <2>2. e.of = s /\ RunTime(e) = "stub"
    BY <1>3, <1>5, <1>9, <2>1, SecondLeads
  <2>3. Sym[s].type = "ifunc" /\ Sym[s].from = "object"
    BY <1>2, <1>3, <1>9, SymbolEnd
  <2>4. "stub" \in Meaning(s)
    BY <2>3 DEF Meaning
  <2> QED
    BY <1>4, <1>6, <2>2, <2>4
<1>10. CASE "IFUNC_GOT_FOR_ADDRESS" \notin f
  <2>1. EntryOfKind(s, kd) = got[s]
    BY <1>7, <1>8, <1>10 DEF Count
  <2>2. e.of = s /\ RunTime(e) \in Meaning(s) \ {"stub", "copy"}
    BY <1>3, <1>4, <1>5, <2>1, FirstLeads
  <2>3. ASSUME IsIfunc(f), ~IsRelocatable(kind) PROVE FALSE
    <3>1. "GOT" \in NeededFlags(kd) /\ "DIRECT" \notin NeededFlags(kd)
      BY <1>1 DEF NeededFlags
    <3>2. ~DirectInterposable(r, f, kd)
      BY <3>1 DEF DirectInterposable
    <3>3. "IFUNC_GOT_FOR_ADDRESS" \in FlagsToAdd(r, f, kd)
      BY <2>3, <3>1, <3>2 DEF FlagsToAdd
    <3> QED
      BY <1>3, <1>10, <3>3
  <2> QED
    BY <1>6, <2>2, <2>3
<1> QED
  BY <1>9, <1>10

\* Where an ordinary reference leads to.
LEMMA OrdinaryLeads ==
    ASSUME Finished, NEW r \in refs, Sym[r.sym].type # "tls", NEW w, w = LeadsTo(r)
    PROVE  /\ w \in Meaning(r.sym)
           /\ w = "stub" => "GOT" \in flags[r.sym]
           /\ w = "copy" => "COPY_RELOCATION" \in flags[r.sym]
           /\ Sym[r.sym].type = "ifunc" /\ ~IsRelocatable(kind) => w = "stub"
<1> DEFINE s == r.sym
<1>1. PICK f : f = flags[s]
  OBVIOUS
<1>2. PICK kd : kd = RelKind(r, f)
  OBVIOUS
<1>3. /\ s \in Symbol /\ KindOK(r, f, kd) /\ Sensible(r)
  BY <1>1, <1>2, ReferenceEnd
<1>4. Laid
  BY DEF Finished
<1>5. IsIfunc(f) <=> Sym[s].type = "ifunc"
  BY <1>1, <1>3, <1>4, SymbolEnd
<1>6. r.type \in {"64", "PC32", "PLT32", "GOTPCREL", "REX_GOTPCRELX"}
  BY <1>3 DEF Sensible
<1>7. /\ kd \in {"Absolute", "Relative", "PltRelative", "GotRelative"}
      /\ Sym[s].type = "ifunc" => kd # "Relative"
  BY <1>3, <1>6 DEF KindOK
<1>8. CASE kd = "Absolute"
  <2>1. w = RunTime(word[r])
    BY <1>1, <1>2, <1>8, Zenon DEF LeadsTo
  <2> QED
    BY <1>1, <1>2, <1>5, <1>8, <2>1, AbsoluteLeads
<1>9. CASE kd \in {"Relative", "PltRelative"}
  <2>1. w = word[r].word
    <3>1. kd # "GotRelative" /\ kd # "Absolute"
      BY <1>9
    <3> QED
      BY <1>1, <1>2, <1>9, <3>1, Zenon DEF LeadsTo
  <2> QED
    BY <1>1, <1>2, <1>7, <1>9, <2>1, RelativeLeads
<1>10. CASE kd = "GotRelative"
  BY <1>1, <1>2, <1>5, <1>10, GotLeads
<1> QED
  BY <1>7, <1>8, <1>9, <1>10

LEMMA OrdinaryHolds ==
    ASSUME Finished
    PROVE  OrdinaryReferencesDenote /\ IfuncAddressesEqual
<1>1. Laid
  BY DEF Finished
<1>2. ASSUME NEW r \in refs, Sym[r.sym].type # "tls"
      PROVE  /\ LeadsTo(r) \in Meaning(r.sym)
             /\ LeadsTo(r) = "stub" =>
                  /\ entry[got[r.sym]].of = r.sym
                  /\ RunTime(entry[got[r.sym]]) \in Meaning(r.sym) \ {"stub"}
             /\ LeadsTo(r) = "copy" => r.sym \in defs
             /\ Sym[r.sym].type = "ifunc" /\ ~IsRelocatable(kind) => LeadsTo(r) = "stub"
  <2>1. PICK s, w : s = r.sym /\ w = LeadsTo(r)
    OBVIOUS
  <2>2. s \in Symbol
    BY <2>1, ReferenceEnd
  <2>3. /\ w \in Meaning(s)
        /\ w = "stub" => "GOT" \in flags[s]
        /\ w = "copy" => "COPY_RELOCATION" \in flags[s]
        /\ Sym[s].type = "ifunc" /\ ~IsRelocatable(kind) => w = "stub"
    BY <1>2, <2>1, OrdinaryLeads
  <2>4. "GOT" \in flags[s] =>
          /\ entry[got[s]].of = s
          /\ RunTime(entry[got[s]]) \in Meaning(s) \ {"stub", "copy"}
    BY <2>2, FirstLeads
  <2>5. "COPY_RELOCATION" \in flags[s] => s \in defs
    BY <1>1, <2>2, SymbolEnd
  <2> QED
    BY <2>1, <2>3, <2>4, <2>5
<1>3. OrdinaryReferencesDenote
  BY <1>2 DEF OrdinaryReferencesDenote
<1>4. IfuncAddressesEqual
  BY <1>2 DEF IfuncAddressesEqual
<1> QED
  BY <1>3, <1>4

\* The GOT entries of a TLS variable.
LEMMA TlsEntriesWritten ==
    ASSUME Finished, NEW s \in Symbol, NEW f, f = flags[s], IsTls(f),
           NEW o, o = Count("GOT_TLS_OFFSET" \in f), NEW m, m = Count("GOT_TLS_MODULE" \in f)
    PROVE  /\ "GOT_TLS_OFFSET" \in f =>
                entry[got[s]] = Wrote(s, TlsOffset(s, 0).words[1], RelAt(TlsOffset(s, 0), 0))
           /\ "GOT_TLS_MODULE" \in f =>
                /\ entry[got[s] + o] =
                     Wrote(s, TlsModAndOffset(s, o).words[1], RelAt(TlsModAndOffset(s, o), o))
                /\ entry[got[s] + o + 1] =
                     Wrote(s, TlsModAndOffset(s, o).words[2], RelAt(TlsModAndOffset(s, o), o + 1))
           /\ "GOT_TLS_DESCRIPTOR" \in f =>
                /\ entry[got[s] + o + 2 * m].of = s /\ entry[got[s] + o + 2 * m].rel = "tlsdesc"
                /\ entry[got[s] + o + 2 * m + 1].of = s
<1>1. got[s] # 0 /\ got[s] \in Nat
  BY SymbolEnd DEF Finished
<1>2. PICK d, out : d = Count("GOT_TLS_DESCRIPTOR" \in f) /\ out = ProcessResolution(s)
  OBVIOUS
<1>3. /\ o \in Nat /\ m \in Nat /\ d \in Nat
      /\ o = IF "GOT_TLS_OFFSET" \in f THEN 1 ELSE 0
      /\ m = IF "GOT_TLS_MODULE" \in f THEN 1 ELSE 0
      /\ d = IF "GOT_TLS_DESCRIPTOR" \in f THEN 1 ELSE 0
  BY <1>2 DEF Count
<1>4. out = LET none == Output(<<>>, {}, "ok")
                after == Count("GOT_TLS_OFFSET" \in f)
            IN  Then(IF "GOT_TLS_OFFSET" \in f THEN TlsOffset(s, 0) ELSE none,
                     Then(IF "GOT_TLS_MODULE" \in f THEN TlsModAndOffset(s, after) ELSE none,
                          IF "GOT_TLS_DESCRIPTOR" \in f
                          THEN TlsDescriptor(s, after + 2 * Count("GOT_TLS_MODULE" \in f))
                          ELSE none))
  BY <1>1, <1>2, Zenon DEF ProcessResolution
<1>5. Len(out.words) = o + (2 * m + 2 * d)
  <2>1. Len(out.words) = Count("GOT_TLS_OFFSET" \in f)
                         + (2 * Count("GOT_TLS_MODULE" \in f) + 2 * Count("GOT_TLS_DESCRIPTOR" \in f))
    BY <1>4, TlsEntriesIs DEF Piece
  <2> QED
    BY <1>2, <2>1
<1>6. /\ "GOT_TLS_OFFSET" \in f =>
           out.words[1] = TlsOffset(s, 0).words[1] /\ RelAt(out, 0) = RelAt(TlsOffset(s, 0), 0)
      /\ "GOT_TLS_MODULE" \in f =>
           /\ out.words[o + 1] = TlsModAndOffset(s, o).words[1]
           /\ out.words[o + 2] = TlsModAndOffset(s, o).words[2]
           /\ RelAt(out, o) = RelAt(TlsModAndOffset(s, o), o)
           /\ RelAt(out, o + 1) = RelAt(TlsModAndOffset(s, o), o + 1)
      /\ "GOT_TLS_DESCRIPTOR" \in f => RelAt(out, o + 2 * m) = "tlsdesc"
  BY <1>4, TlsEntriesHold
<1>7. \A k \in Nat : k < Len(out.words) =>
        entry[got[s] + k] = Wrote(s, out.words[k + 1], RelAt(out, k))
  BY <1>1, <1>2, EntryAt
<1>8. ASSUME "GOT_TLS_OFFSET" \in f
      PROVE  entry[got[s]] = Wrote(s, TlsOffset(s, 0).words[1], RelAt(TlsOffset(s, 0), 0))
  <2>1. 0 \in Nat /\ 0 < Len(out.words) /\ got[s] + 0 = got[s] /\ 0 + 1 = 1
    BY <1>1, <1>3, <1>5, <1>8
  <2>2. entry[got[s] + 0] = Wrote(s, out.words[0 + 1], RelAt(out, 0))
    BY <1>7, <2>1
  <2> QED
    BY <1>6, <1>8, <2>1, <2>2
<1>9. ASSUME "GOT_TLS_MODULE" \in f
      PROVE  /\ entry[got[s] + o] =
                  Wrote(s, TlsModAndOffset(s, o).words[1], RelAt(TlsModAndOffset(s, o), o))
             /\ entry[got[s] + o + 1] =
                  Wrote(s, TlsModAndOffset(s, o).words[2], RelAt(TlsModAndOffset(s, o), o + 1))
  <2>1. /\ o \in Nat /\ o < Len(out.words)
        /\ o + 1 \in Nat /\ o + 1 < Len(out.words)
        /\ got[s] + (o + 1) = got[s] + o + 1 /\ (o + 1) + 1 = o + 2
    BY <1>1, <1>3, <1>5, <1>9
  <2>2. entry[got[s] + o] = Wrote(s, out.words[o + 1], RelAt(out, o))
    BY <1>7, <2>1
  <2>3. entry[got[s] + (o + 1)] = Wrote(s, out.words[(o + 1) + 1], RelAt(out, o + 1))
    BY <1>7, <2>1
  <2> QED
    BY <1>6, <1>9, <2>1, <2>2, <2>3
<1>10. ASSUME "GOT_TLS_DESCRIPTOR" \in f
       PROVE  /\ entry[got[s] + o + 2 * m].of = s /\ entry[got[s] + o + 2 * m].rel = "tlsdesc"
              /\ entry[got[s] + o + 2 * m + 1].of = s
  <2>1. PICK k : k = o + 2 * m
    OBVIOUS
  <2>2. /\ k \in Nat /\ k < Len(out.words) /\ k + 1 \in Nat /\ k + 1 < Len(out.words)
        /\ got[s] + o + 2 * m = got[s] + k /\ got[s] + o + 2 * m + 1 = got[s] + (k + 1)
    <3>1. PICK n, g : n = Len(out.words) /\ g = got[s]
      OBVIOUS
    <3>2. n = k + 2 /\ k \in Nat /\ m \in Nat /\ o \in Nat /\ g \in Nat
      <4>1. d = 1 /\ o \in Nat /\ m \in Nat /\ n = o + (2 * m + 2 * d) /\ g \in Nat
        BY <1>1, <1>3, <1>5, <1>10, <3>1
      <4> QED
        BY <2>1, <4>1
    <3>3. /\ k < n /\ k + 1 \in Nat /\ k + 1 < n
          /\ g + o + 2 * m = g + k /\ g + o + 2 * m + 1 = g + (k + 1)
      BY <2>1, <3>2
    <3> QED
      BY <3>1, <3>2, <3>3
  <2>3. entry[got[s] + k] = Wrote(s, out.words[k + 1], "tlsdesc")
    BY <1>6, <1>7, <1>10, <2>1, <2>2
  <2>4. entry[got[s] + (k + 1)] = Wrote(s, out.words[(k + 1) + 1], RelAt(out, k + 1))
    BY <1>7, <2>2
  <2> QED
    BY <2>2, <2>3, <2>4 DEF Wrote
<1> QED
  BY <1>8, <1>9, <1>10

\* The entry of a variable's offset from the thread pointer.
LEMMA OffsetNames ==
    ASSUME Finished, NEW s \in Symbol, Sym[s].type = "tls", NEW f, f = flags[s], "GOT_TLS_OFFSET" \in f
    PROVE  NamesTls(s, "GotTpOff", got[s])
<1>1. PICK w, rel, e, raw, lookup, ownRel :
        /\ w = TlsOffset(s, 0).words[1] /\ rel = RelAt(TlsOffset(s, 0), 0)
        /\ e = entry[got[s]] /\ raw = RawValue(s)
        /\ lookup = "tpoff lookup" /\ ownRel = "tpoff own"
  BY Zenon
<1>2. e.of = s /\ e.word = w /\ e.rel = rel
  <2>1. IsTls(f)
    BY DEF IsTls, TlsFlag
  <2>2. PICK o, m : o = Count("GOT_TLS_OFFSET" \in f) /\ m = Count("GOT_TLS_MODULE" \in f)
    OBVIOUS
  <2>3. entry[got[s]] = Wrote(s, TlsOffset(s, 0).words[1], RelAt(TlsOffset(s, 0), 0))
    BY <2>1, <2>2, TlsEntriesWritten
  <2>4. e = Wrote(s, w, rel)
    BY <1>1, <2>3, Zenon
  <2> QED
    BY <2>4 DEF Wrote
<1>3. /\ HasDynamicSymbol(f) => rel = lookup
      /\ ~HasDynamicSymbol(f) /\ raw = "zero" => rel = "none" /\ w = "zero"
      /\ ~HasDynamicSymbol(f) /\ raw # "zero" =>
           IF IsExecutable(kind) THEN rel = "none" /\ w = "tpoff" ELSE rel = ownRel
  <2>1. PICK out : out = TlsOffset(s, 0)
    OBVIOUS
  <2>2. 0 \in Nat
    OBVIOUS
  <2>3. /\ HasDynamicSymbol(flags[s]) => RelAt(out, 0) = "tpoff lookup"
        /\ ~HasDynamicSymbol(flags[s]) /\ RawValue(s) = "zero" =>
             RelAt(out, 0) = "none" /\ out.words[1] = "zero"
        /\ ~HasDynamicSymbol(flags[s]) /\ RawValue(s) # "zero" =>
             IF IsExecutable(kind) THEN RelAt(out, 0) = "none" /\ out.words[1] = "tpoff"
             ELSE RelAt(out, 0) = "tpoff own"
    BY <2>1, <2>2, TlsOffsetHolds, Zenon
  <2> QED
    BY <1>1, <2>1, <2>3, Zenon
<1>4. Laid /\ ~UnusedOf(s)
  BY DEF Finished
<1>5. HasDynamicSymbol(f) <=> Preemptible(s)
  BY <1>4, SymbolEnd
<1>6. /\ kind \in Kind /\ Sym[s].from \in {"object", "shared", "undefined"}
      /\ Sym[s].from = "shared" => Preemptible(s)
      /\ IsExecutable(kind) <=> kind # "SharedObject"
  BY <1>4, KindEnd
<1>7. PICK raw2 : raw2 = RawValue(s)
  OBVIOUS
<1>8. /\ Sym[s].from = "object" => raw2 = IF Sym[s].type = "absolute" THEN "number" ELSE "address"
      /\ Sym[s].from = "undefined" => raw2 = IF Preemptible(s) /\ plt[s] THEN "stub" ELSE "zero"
  BY <1>4, <1>7, RawValueIs
<1>9. ~Preemptible(s) => (raw2 = "zero" <=> Sym[s].from = "undefined")
  BY <1>6, <1>8
<1>10. ~Preemptible(s) /\ Sym[s].from = "undefined" => IsExecutable(kind)
  <2>1. SUFFICES ASSUME ~Preemptible(s), Sym[s].from = "undefined", kind = "SharedObject" PROVE FALSE
    BY <1>6
  <2>2. OffsetTaken(s) = 0
    BY <1>5, <1>7, <1>9, <2>1 DEF OffsetTaken, Count
  <2> QED
    BY <1>4, <2>1, <2>2, GeneralEnough
<1>11. raw = raw2
  BY <1>1, <1>7, Zenon
<1>12. /\ ~Preemptible(s) => \/ rel = ownRel
                             \/ rel = "none" /\ IsExecutable(kind)
                                /\ w = (IF Sym[s].from = "undefined" THEN "zero" ELSE "tpoff")
       /\ Preemptible(s) => rel = lookup
  BY <1>3, <1>5, <1>9, <1>10, <1>11
<1> QED
  BY <1>1, <1>2, <1>12, Zenon DEF NamesTls

\* The entries of a variable's module and its offset in it.
LEMMA ModuleNames ==
    ASSUME Finished, NEW s \in Symbol, Sym[s].type = "tls", NEW f, f = flags[s],
           "GOT_TLS_MODULE" \in f, s \in defs => Preemptible(s)
    PROVE  NamesTls(s, "TlsGd", got[s] + Count("GOT_TLS_OFFSET" \in f))
<1>1. PICK o, m : o = Count("GOT_TLS_OFFSET" \in f) /\ m = Count("GOT_TLS_MODULE" \in f)
  OBVIOUS
<1>2. PICK w, rel, w2, rel2, e, e2, lookup :
        /\ w = TlsModAndOffset(s, o).words[1] /\ rel = RelAt(TlsModAndOffset(s, o), o)
        /\ w2 = TlsModAndOffset(s, o).words[2] /\ rel2 = RelAt(TlsModAndOffset(s, o), o + 1)
        /\ e = entry[got[s] + o] /\ e2 = entry[got[s] + o + 1] /\ lookup = "dtpoff lookup"
  BY Zenon
<1>3. /\ e.of = s /\ e.word = w /\ e.rel = rel
      /\ e2.of = s /\ e2.word = w2 /\ e2.rel = rel2
  <2>1. IsTls(f)
    BY DEF IsTls, TlsFlag
  <2>2. /\ entry[got[s] + o] =
             Wrote(s, TlsModAndOffset(s, o).words[1], RelAt(TlsModAndOffset(s, o), o))
        /\ entry[got[s] + o + 1] =
             Wrote(s, TlsModAndOffset(s, o).words[2], RelAt(TlsModAndOffset(s, o), o + 1))
    BY <1>1, <2>1, TlsEntriesWritten
  <2>3. e = Wrote(s, w, rel) /\ e2 = Wrote(s, w2, rel2)
    BY <1>2, <2>2, Zenon
  <2> QED
    BY <2>3 DEF Wrote
<1>4. /\ IF IsExecutable(kind) /\ ~IsDynamic(f) THEN w = "module" ELSE rel = "dtpmod"
      /\ HasIndex(s) /\ IsInterposable(f) => rel2 = lookup
      /\ ~HasIndex(s) => w2 = "dtpoff" /\ rel2 = "none"
  <2>1. PICK out : out = TlsModAndOffset(s, o)
    OBVIOUS
  <2>2. o \in Nat
    BY <1>1 DEF Count
  <2>3. /\ IF IsExecutable(kind) /\ ~IsDynamic(flags[s]) THEN out.words[1] = "module"
           ELSE RelAt(out, o) = "dtpmod"
        /\ HasIndex(s) /\ IsInterposable(flags[s]) => RelAt(out, o + 1) = "dtpoff lookup"
        /\ ~HasIndex(s) => out.words[2] = "dtpoff" /\ RelAt(out, o + 1) = "none"
    BY <2>1, <2>2, TlsModuleHolds, Zenon
  <2> QED
    BY <1>2, <2>1, <2>3, Zenon
<1>5. Laid
  BY DEF Finished
<1>6. /\ HasDynamicSymbol(f) <=> Preemptible(s)
      /\ IsInterposable(f) <=> Preemptible(s)
      /\ IsDynamic(f) <=> Sym[s].from = "shared" \/ (Sym[s].from = "undefined" /\ Preemptible(s))
  BY <1>5, SymbolEnd
<1>7. /\ Sym[s].from \in {"object", "shared", "undefined"}
      /\ Sym[s].from = "shared" => Preemptible(s)
      /\ Preemptible(s) /\ Sym[s].from = "object" => kind = "SharedObject"
      /\ IsExecutable(kind) <=> kind # "SharedObject"
  BY <1>5, KindEnd
<1>8. HasIndex(s) <=> Preemptible(s)
  <2>1. HasResolution(f)
    BY DEF HasResolution, ResolutionFlag
  <2>2. HasDynamicSymbol(f) => HasIndex(s)
    BY <1>5, <2>1, SymbolLaid
  <2>3. ~Preemptible(s) => ~IsDynamic(f) /\ s \notin defs
    BY <1>6, <1>7
  <2> QED
    BY <1>6, <2>2, <2>3 DEF HasIndex
<1>9. /\ ~Preemptible(s) => /\ rel = "dtpmod" \/ (w = "module" /\ IsExecutable(kind))
                            /\ w2 = "dtpoff" /\ rel2 = "none"
      /\ Preemptible(s) => rel = "dtpmod" /\ rel2 = lookup
  BY <1>4, <1>6, <1>7, <1>8
<1> QED
  BY <1>1, <1>2, <1>3, <1>9, Zenon DEF NamesTls

LEMMA DescriptorNames ==
    ASSUME Finished, NEW s \in Symbol, NEW f, f = flags[s], "GOT_TLS_DESCRIPTOR" \in f
    PROVE  NamesTls(s, "TlsDesc", got[s] + Count("GOT_TLS_OFFSET" \in f) + 2 * Count("GOT_TLS_MODULE" \in f))
<1>1. PICK o, m : o = Count("GOT_TLS_OFFSET" \in f) /\ m = Count("GOT_TLS_MODULE" \in f)
  OBVIOUS
<1>2. PICK i : i = got[s] + o + 2 * m
  OBVIOUS
<1>3. IsTls(f)
  BY DEF IsTls, TlsFlag
<1>4. entry[i].of = s /\ entry[i].rel = "tlsdesc" /\ entry[i + 1].of = s
  BY <1>1, <1>2, <1>3, TlsEntriesWritten
<1>5. NamesTls(s, "TlsDesc", i)
  BY <1>4, Zenon DEF NamesTls
<1> QED
  BY <1>1, <1>2, <1>5

LEMMA TlsHolds ==
    ASSUME Finished
    PROVE  TlsReferencesDenote
<1>1. SUFFICES ASSUME NEW r \in refs, Sym[r.sym].type = "tls", ~ExportedModuleAccess(r)
               PROVE  TlsAccess(r)
  BY DEF TlsReferencesDenote
<1>2. PICK s, f : s = r.sym /\ f = flags[s]
  OBVIOUS
<1>3. PICK kd : kd = RelKind(r, f)
  OBVIOUS
<1>4. /\ s \in Symbol /\ Sensible(r) /\ KindOK(r, f, kd) /\ FlagsToAdd(r, f, kd) \subseteq f
      /\ kd = "TlsLd" => usesTlsld
  BY <1>2, <1>3, ReferenceEnd
<1>5. r.type \in {"TLSGD", "TLSLD", "GOTTPOFF", "TLSDESC"}
  BY <1>1, <1>4 DEF Sensible
<1>6. /\ kd \in {"GotTpOff", "TlsGd", "TlsDesc", "TlsLd", "TpOff", "None"}
      /\ kd \in {"TpOff", "None"} => IsExecutable(kind)
      /\ kd = "TpOff" => ~Preemptible(s)
  BY <1>2, <1>4, <1>5 DEF KindOK
<1>7. /\ kd = "GotTpOff" => "GOT_TLS_OFFSET" \in f
      /\ kd = "TlsGd" => "GOT_TLS_MODULE" \in f
      /\ kd = "TlsDesc" => "GOT_TLS_DESCRIPTOR" \in f
  BY <1>4, NeededTaken
<1>8. CASE kd = "GotTpOff"
  <2>1. NamesTls(s, "GotTpOff", got[s])
    BY <1>1, <1>2, <1>4, <1>7, <1>8, OffsetNames
  <2>2. EntryOfKind(s, "GotTpOff") = got[s]
    BY Zenon DEF EntryOfKind
  <2>3. NamesTls(s, kd, EntryOfKind(s, kd))
    BY <1>8, <2>1, <2>2
  <2> QED
    BY <1>2, <1>3, <1>8, <2>3, Zenon DEF TlsAccess
<1>9. CASE kd = "TlsGd"
  <2>1. s \in defs => Preemptible(s)
    BY <1>1, <1>2, <1>3, <1>9 DEF ExportedModuleAccess
  <2>2. NamesTls(s, "TlsGd", got[s] + Count("GOT_TLS_OFFSET" \in f))
    BY <1>1, <1>2, <1>4, <1>7, <1>9, <2>1, ModuleNames
  <2>3. EntryOfKind(s, "TlsGd") = got[s] + Count("GOT_TLS_OFFSET" \in f)
    BY <1>2, Zenon DEF EntryOfKind
  <2>4. NamesTls(s, kd, EntryOfKind(s, kd))
    BY <1>9, <2>2, <2>3
  <2> QED
    BY <1>2, <1>3, <1>9, <2>4, Zenon DEF TlsAccess
<1>10. CASE kd = "TlsDesc"
  <2>1. NamesTls(s, "TlsDesc",
                 got[s] + Count("GOT_TLS_OFFSET" \in f) + 2 * Count("GOT_TLS_MODULE" \in f))
    BY <1>2, <1>4, <1>7, <1>10, DescriptorNames
  <2>2. EntryOfKind(s, "TlsDesc") =
          got[s] + Count("GOT_TLS_OFFSET" \in f) + 2 * Count("GOT_TLS_MODULE" \in f)
    BY <1>2, Zenon DEF EntryOfKind
  <2>3. NamesTls(s, kd, EntryOfKind(s, kd))
    BY <1>10, <2>1, <2>2
  <2> QED
    BY <1>2, <1>3, <1>10, <2>3, Zenon DEF TlsAccess
<1>11. CASE kd = "TlsLd"
  <2>1. PreludeWritten
    BY <1>4, <1>11 DEF Finished
  <2>2. /\ entry[1].of = 0 /\ entry[2].of = 0
        /\ entry[1].rel = "dtpmod" \/ (entry[1].word = "module" /\ IsExecutable(kind))
    BY <2>1 DEF PreludeWritten, Wrote
  <2> QED
    BY <1>2, <1>3, <1>11, <2>2, Zenon DEF TlsAccess
<1>12. CASE kd = "TpOff"
  BY <1>2, <1>3, <1>6, <1>12, Zenon DEF TlsAccess
<1>13. CASE kd = "None"
  BY <1>2, <1>3, <1>6, <1>13, Zenon DEF TlsAccess
<1> QED
  BY <1>6, <1>8, <1>9, <1>10, <1>11, <1>12, <1>13

-----------------------------------------------------------------------------
(* The theorem *)

\* Once the output is written every reference leads to its own symbol: the GOT entry that
\* got_address_for_relocation computes is the one process_resolution filled in for the symbol and for
\* that kind of access, the words of write_absolute_relocation are relocated, looked up or fixed as
\* the symbol needs, a PLT entry jumps to what its GOT entry names, a copied variable is exported, and
\* the addresses of an ifunc agree.
THEOREM ReferencesLead == Spec => []ReferencesDenote
<1>1. WrittenInv => ReferencesDenote
  <2>1. CASE phase = "done"
    <3>1. WrittenInv => Finished
      BY <2>1, DoneFinished
    <3> QED
      BY <3>1, OrdinaryHolds, TlsHolds DEF ReferencesDenote
  <2>2. CASE phase # "done"
    BY <2>2 DEF ReferencesDenote, OrdinaryReferencesDenote, IfuncAddressesEqual, TlsReferencesDenote
  <2> QED
    BY <2>1, <2>2
<1> QED
  BY <1>1, WrittenInvariant, PTL

=============================================================================
