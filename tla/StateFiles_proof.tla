--------------------------- MODULE StateFiles_proof ---------------------------
(***************************************************************************)
(* Proofs about StateFiles: what a usable state says is what the last link *)
(* that completed stored, for any files, contents, sets of records, number *)
(* of links, edits, torn sidecars and crashes between any two steps.       *)
(***************************************************************************)
EXTENDS StateFiles, FiniteSetTheorems, SequenceTheorems, TLAPS

-----------------------------------------------------------------------------
(* Records: what is rendered is read back *)

Records(S) == IsFiniteSet(S) /\ \A r \in S : IsRecord(r)

\* A sequence made of a set has every element of it, and no other.
LEMMA SequenceOfSet ==
    ASSUME NEW S, IsFiniteSet(S)
    PROVE  /\ SetToSeq(S) \in Seq(S) /\ DOMAIN SetToSeq(S) = 1 .. Cardinality(S)
           /\ Cardinality(S) \in Nat
           /\ \A i \in DOMAIN SetToSeq(S) : SetToSeq(S)[i] \in S
           /\ \A x \in S : \E i \in DOMAIN SetToSeq(S) : SetToSeq(S)[i] = x
<1> DEFINE n == Cardinality(S)
           q == SetToSeq(S)
<1>1. n \in Nat /\ ExistsBijection(1 .. n, S)
  BY FS_CardinalityType
<1>2. \E f \in [1 .. n -> S] : IsInjective(f)
  BY <1>1 DEF ExistsBijection, Bijection, Injection
<1>3. q \in [1 .. n -> S] /\ IsInjective(q)
  BY <1>2 DEF SetToSeq
<1>4. q \in Surjection(1 .. n, S)
  <2>1. q \in Injection(1 .. n, S)
    BY <1>3 DEF Injection
  <2>2. IsFiniteSet(1 .. n) /\ Cardinality(1 .. n) = n
    BY <1>1, FS_Interval
  <2> QED
    BY <2>1, <2>2, FS_Injection
<1> QED
  BY <1>1, <1>3, <1>4 DEF Surjection

\* The inputs that a finite set of records names are finitely many.
LEMMA NamedFinite ==
    ASSUME NEW S, Records(S)
    PROVE  IsFiniteSet(UNION {Named(r) : r \in S})
<1> DEFINE A == {r.input : r \in S}
           B == {r.target : r \in S}
           f == [r \in S |-> r.input]
           g == [r \in S |-> r.target]
<1>1. IsFiniteSet(A)
  <2>1. f \in Surjection(S, A)
    BY DEF Surjection
  <2> QED
    BY <2>1, FS_Surjection DEF Records
<1>2. IsFiniteSet(B)
  <2>1. g \in Surjection(S, B)
    BY DEF Surjection
  <2> QED
    BY <2>1, FS_Surjection DEF Records
<1>3. IsFiniteSet(A \cup B)
  BY <1>1, <1>2, FS_Union
<1>4. UNION {Named(r) : r \in S} \in SUBSET (A \cup B)
  BY DEF Named
<1> QED
  BY <1>3, <1>4, FS_Subset

\* Every input that a record names has a number, from which it is found again.
LEMMA Numbered ==
    ASSUME NEW S, Records(S), NEW r \in S, NEW i \in Named(r)
    PROVE  LET inputs == SectionInputs(S) IN
           /\ SectionInputId(inputs, i) \in DOMAIN inputs
           /\ inputs[SectionInputId(inputs, i)] = i
           /\ SectionInputId(inputs, i) # Absent
<1> DEFINE inputs == SectionInputs(S)
<1>1. i \in UNION {Named(x) : x \in S}
  OBVIOUS
<1> DEFINE U == UNION {Named(x) : x \in S}
<1>2. /\ \E k \in DOMAIN inputs : inputs[k] = i
      /\ DOMAIN inputs \subseteq Nat
  <2>1. IsFiniteSet(U) /\ i \in U /\ inputs = SetToSeq(U)
    BY <1>1, NamedFinite DEF SectionInputs
  <2> HIDE DEF U, inputs
  <2> QED
    BY <2>1, SequenceOfSet
<1>3. SectionInputId(inputs, i) \in DOMAIN inputs /\ inputs[SectionInputId(inputs, i)] = i
  BY <1>2 DEF SectionInputId
<1> QED
  BY <1>2, <1>3, MissingAssumption

\* A line is read as the record it was written from.
LEMMA LineRead ==
    ASSUME NEW S, Records(S), NEW r \in S
    PROVE  ParseLine(Line(r, SectionInputs(S)), SectionInputs(S)) = r
<1> DEFINE inputs == SectionInputs(S)
<1>1. IsRecord(r)
  BY DEF Records
<1>2. r.input \in Named(r) /\ (r.target # Absent => r.target \in Named(r))
  BY DEF Named
<1>3. inputs[SectionInputId(inputs, r.input)] = r.input
  BY <1>2, Numbered
<1>4. r.target # Absent => /\ inputs[SectionInputId(inputs, r.target)] = r.target
                           /\ SectionInputId(inputs, r.target) # Absent
  BY <1>2, Numbered
<1>5. CASE r.kind = "reloc"
  <2>1. CASE r.target = Absent
    BY <1>1, <1>3, <1>5, <2>1 DEF IsRecord, Line, ParseLine, ParseRelocationLine, ParseOwnLine
  <2>2. CASE r.target # Absent
    BY <1>1, <1>3, <1>4, <1>5, <2>2
       DEF IsRecord, Line, ParseLine, ParseRelocationLine, ParseOwnLine
  <2> QED
    BY <2>1, <2>2
<1>6. CASE r.kind # "reloc"
  BY <1>1, <1>3, <1>6 DEF IsRecord, Line, ParseLine, ParseOwnLine
<1> QED
  BY <1>5, <1>6

\* parse_compact_records_block reads what write_rendered_records wrote.
LEMMA RoundTrip ==
    ASSUME NEW S, Records(S)
    PROVE  ParseCompactRecordsBlock(WriteRenderedRecords(S)) = S
<1> DEFINE inputs == SectionInputs(S)
           b == WriteRenderedRecords(S)
<1>1. b.inputs = inputs /\ b.lines = {Line(r, inputs) : r \in S}
  BY DEF WriteRenderedRecords
<1>2. ParseCompactRecordsBlock(b) = {ParseLine(Line(r, inputs), inputs) : r \in S}
  BY <1>1 DEF ParseCompactRecordsBlock
<1>3. \A r \in S : ParseLine(Line(r, inputs), inputs) = r
  BY LineRead
<1> HIDE DEF inputs, b
<1>4. {ParseLine(Line(r, inputs), inputs) : r \in S} = S
  BY <1>3
<1> QED
  BY <1>2, <1>4 DEF b

\* Selecting lines before they are parsed selects the records that concern the files.
LEMMA FilteredTrip ==
    ASSUME NEW S, Records(S), NEW F
    PROVE  ParseBlockForFiles(WriteRenderedRecords(S), F) = {r \in S : Concerns(r, F)}
<1> DEFINE inputs == SectionInputs(S)
           b == WriteRenderedRecords(S)
           matched == {i \in DOMAIN inputs : inputs[i][1] \in F}
<1>1. b.inputs = inputs /\ b.lines = {Line(r, inputs) : r \in S}
  BY DEF WriteRenderedRecords
<1>2. ASSUME NEW r \in S
      PROVE  LineMatches(Line(r, inputs), matched) <=> Concerns(r, F)
  <2>1. IsRecord(r)
    BY DEF Records
  <2>2. r.input \in Named(r) /\ (r.target # Absent => r.target \in Named(r))
    BY DEF Named
  <2>3. SectionInputId(inputs, r.input) \in matched <=> r.input[1] \in F
    BY <2>2, Numbered
  <2>4. r.target # Absent => /\ SectionInputId(inputs, r.target) # Absent
                             /\ SectionInputId(inputs, r.target) \in matched <=> r.target[1] \in F
    BY <2>2, Numbered
  <2> HIDE DEF inputs, matched
  <2>5. /\ Line(r, inputs).kind = r.kind
        /\ Line(r, inputs).input = SectionInputId(inputs, r.input)
        /\ Line(r, inputs).target = IF r.target = Absent THEN Absent
                                    ELSE SectionInputId(inputs, r.target)
    BY DEF Line
  <2> QED
    BY <2>3, <2>4, <2>5 DEF LineMatches, Concerns
<1>3. ParseBlockForFiles(b, F) =
        {ParseLine(l, inputs) : l \in {k \in {Line(r, inputs) : r \in S} : LineMatches(k, matched)}}
  BY <1>1 DEF ParseBlockForFiles
<1>4. \A r \in S : ParseLine(Line(r, inputs), inputs) = r
  BY LineRead
<1> HIDE DEF inputs, b, matched
<1> QED
  BY <1>2, <1>3, <1>4 DEF b

-----------------------------------------------------------------------------
(* Blocks and the table of their locations *)

LEMMA PartRecords ==
    ASSUME NEW R \in RecordSets, NEW S \in SUBSET R
    PROVE  Records(S)
BY StateConstantsAssumption, FS_Subset DEF Records

\* There is a block for each owner, and the records of the owner are read from it.
LEMMA BlocksOf ==
    ASSUME NEW R \in RecordSets
    PROVE  /\ Len(Blocks(R)) \in Nat /\ DOMAIN Blocks(R) = 1 .. Len(Blocks(R))
           /\ \A i \in DOMAIN Blocks(R) :
                 ParseCompactRecordsBlock(Blocks(R)[i]) = OwnedBy(R, OwnerSeq(R)[i])
           /\ \A f \in Owners(R) : \E i \in DOMAIN Blocks(R) : OwnerSeq(R)[i] = f
<1> DEFINE n == Cardinality(Owners(R))
           owned == [r \in R |-> r.input[1]]
<1>1. IsFiniteSet(Owners(R))
  <2>1. owned \in Surjection(R, Owners(R))
    BY DEF Surjection, Owners
  <2> QED
    BY <2>1, FS_Surjection, StateConstantsAssumption
<1>2. /\ DOMAIN OwnerSeq(R) = 1 .. n /\ n \in Nat
      /\ \A f \in Owners(R) : \E i \in 1 .. n : OwnerSeq(R)[i] = f
  BY <1>1, SequenceOfSet DEF OwnerSeq
<1>3. /\ Blocks(R) = [i \in 1 .. n |-> WriteRenderedRecords(OwnedBy(R, OwnerSeq(R)[i]))]
      /\ Len(Blocks(R)) = n
  BY <1>2 DEF Blocks
<1>4. ASSUME NEW i \in 1 .. n
      PROVE  ParseCompactRecordsBlock(Blocks(R)[i]) = OwnedBy(R, OwnerSeq(R)[i])
  <2>1. OwnedBy(R, OwnerSeq(R)[i]) \in SUBSET R
    BY DEF OwnedBy
  <2>2. Records(OwnedBy(R, OwnerSeq(R)[i]))
    BY <2>1, PartRecords
  <2> QED
    BY <1>3, <2>2, RoundTrip
<1> QED
  BY <1>2, <1>3, <1>4

\* A location leads to a block and has its hash.
LEMMA LocationsLead ==
    ASSUME NEW R \in RecordSets, NEW l \in Locations(R)
    PROVE  l.at \in DOMAIN Blocks(R) /\ l.hash = Blocks(R)[l.at]
BY DEF Locations, Location

\* The table leads from a file to every record that concerns it.
LEMMA LocationsSuffice ==
    ASSUME NEW R \in RecordSets, NEW F, NEW r \in R, Concerns(r, F)
    PROVE  \E l \in Locations(R) : l.file \in F /\ r \in ParseCompactRecordsBlock(Blocks(R)[l.at])
<1>1. r.input[1] \in Owners(R)
  BY DEF Owners
<1>2. PICK i \in DOMAIN Blocks(R) : OwnerSeq(R)[i] = r.input[1]
  BY <1>1, BlocksOf
<1>3. r \in OwnedBy(R, OwnerSeq(R)[i]) /\ r \in ParseCompactRecordsBlock(Blocks(R)[i])
  BY <1>2, BlocksOf DEF OwnedBy
<1> DEFINE own == Location(OwnerSeq(R)[i], i, Blocks(R))
           other == Location(r.target[1], i, Blocks(R))
<1>4. own \in Locations(R) /\ own.file = r.input[1] /\ own.at = i
  BY <1>2 DEF Locations, Location
<1>5. CASE r.input[1] \in F
  BY <1>3, <1>4, <1>5
<1>6. CASE r.target # Absent /\ r.target[1] \in F /\ r.target[1] # r.input[1]
  <2>1. other \in Locations(R) /\ other.file = r.target[1] /\ other.at = i
    BY <1>3, <1>6 DEF Locations, Location
  <2> QED
    BY <1>3, <1>6, <2>1
<1> QED
  BY <1>5, <1>6 DEF Concerns

-----------------------------------------------------------------------------
(* Reading a state that is stored in one of the four layouts *)

\* The records R are what an index stands for when there are sidecars with the names D: that of
\* this version, one sidecar of blocks, or one that older versions left, one block of all records
\* and perhaps a second file.
StoredAs(D, sections, patchRecords, table, R) ==
    /\ R \in RecordSets
    /\ \/ /\ sections = SidecarName("indexed", Blocks(R)) /\ sections \in D
          /\ patchRecords = sections /\ table = Locations(R)
       \/ /\ sections = SidecarName("sections", Whole(R)) /\ sections \in D
          /\ \/ patchRecords = Absent /\ table = {}
             \/ /\ patchRecords = SidecarName("patch", Blocks(R)) /\ patchRecords \in D
                /\ \E some \in SUBSET File : table = {l \in Locations(R) : l.file \in some}
                /\ table # {}
             \/ \E some \in SUBSET File :
                /\ patchRecords = SidecarName("patch", Whole({r \in R : Concerns(r, some)}))
                /\ patchRecords \in D /\ table = {}

IndexHolds(i, R) == StoredAs(DOMAIN sidecar, i.sections, i.patchRecords, i.table, R)

\* Unless a sidecar was torn, each has the contents its name says.
Intact ==
    /\ used.tears \in Nat
    /\ used.tears = 0 => \A name \in DOMAIN sidecar : sidecar[name] = name.hash

\* Blocks that are found are those that were written.
LEMMA TableRead ==
    ASSUME NEW R \in RecordSets, Intact, NEW T \in SUBSET Locations(R), NEW name,
           name \in DOMAIN sidecar, name.hash = Blocks(R)
    PROVE  LET records == UNION {ParseCompactRecordsBlock(Blocks(R)[l.at]) : l \in T} IN
           /\ records \subseteq R
           /\ \/ ReadAt(name, T) = Error /\ used.tears > 0
              \/ ReadAt(name, T) = records
<1> DEFINE records == UNION {ParseCompactRecordsBlock(Blocks(R)[l.at]) : l \in T}
           found == UNION {ParseCompactRecordsBlock(sidecar[name][l.at]) : l \in T}
           missing == \E l \in T : l.at > Len(sidecar[name]) \/ sidecar[name][l.at] # l.hash
<1>1. \A l \in T : l.at \in DOMAIN Blocks(R) /\ l.hash = Blocks(R)[l.at]
  BY LocationsLead
<1>2. records \subseteq R
  BY <1>1, BlocksOf DEF OwnedBy
<1>3. ReadAt(name, T) = IF missing THEN Error ELSE found
  BY DEF ReadAt
<1>4. CASE missing
  <2>1. sidecar[name] # Blocks(R)
    BY <1>1, <1>4, BlocksOf
  <2> QED
    BY <1>2, <1>3, <1>4, <2>1 DEF Intact
<1>5. CASE ~missing
  <2>1. \A l \in T : sidecar[name][l.at] = Blocks(R)[l.at]
    BY <1>1, <1>5
  <2>2. found = records
    BY <2>1
  <2> QED
    BY <1>2, <1>3, <1>5, <2>2
<1> QED
  BY <1>4, <1>5

\* A sidecar of one block is read as it was written, or not at all.
LEMMA WholeRead ==
    ASSUME NEW R \in RecordSets, Intact, NEW S \in SUBSET R, NEW name,
           name \in DOMAIN sidecar, name.hash = Whole(S)
    PROVE  /\ WriteRenderedRecords(S) # Error
           /\ \/ ReadSidecar(name) = Error /\ used.tears > 0
              \/ ReadSidecar(name) = WriteRenderedRecords(S)
           /\ \A F : \/ ReadFiltered(name, F) = Error /\ used.tears > 0
                     \/ ReadFiltered(name, F) = {r \in S : Concerns(r, F)}
<1>1. WriteRenderedRecords(S) # Error
  BY MissingAssumption
<1>2. Whole(S)[1] = WriteRenderedRecords(S)
  BY DEF Whole
<1>3. \/ ReadSidecar(name) = Error /\ used.tears > 0
      \/ ReadSidecar(name) = WriteRenderedRecords(S)
  BY <1>2 DEF ReadSidecar, Intact
<1>4. \A F : ParseBlockForFiles(WriteRenderedRecords(S), F) = {r \in S : Concerns(r, F)}
  BY PartRecords, FilteredTrip
<1> QED
  BY <1>1, <1>3, <1>4 DEF ReadFiltered

\* What is read of the files F and of all files, as RecordsReadBack demands it.
ReadOf(F, R) ==
    \/ ReadRecordsFor(F) = Error /\ used.tears > 0
    \/ ReadRecordsFor(F) # Error /\ ReadRecordsFor(F) = {r \in R : Concerns(r, F)}

ReadOfAll(R) ==
    \/ ReadAllRecords = Error /\ used.tears > 0
    \/ ReadAllRecords # Error /\ ReadAllRecords = R

\* A set of records is neither of the two answers that are not records.
LEMMA SetsAreAnswers ==
    ASSUME NEW R \in RecordSets, NEW S \in SUBSET R
    PROVE  S # Error /\ S # Absent
BY MissingAssumption

\* Nor is the name of a sidecar, and names with different prefixes differ.
LEMMA NamesAreNames ==
    ASSUME NEW R \in RecordSets
    PROVE  /\ SidecarName("indexed", Blocks(R)) # Absent
           /\ SidecarName("patch", Blocks(R)) # Absent
           /\ SidecarName("sections", Whole(R)) # Absent
           /\ \A S \in SUBSET R : SidecarName("patch", Whole(S)) # Absent
           /\ \A a, b : SidecarName("sections", a) # SidecarName("patch", b)
<1> DEFINE names == {<<"indexed", Blocks(R)>>, <<"patch", Blocks(R)>>, <<"sections", Whole(R)>>}
<1>1. /\ \A i \in names : SidecarName(i[1], i[2]) # Absent
      /\ \A S \in SUBSET R : SidecarName("patch", Whole(S)) # Absent
  BY MissingAssumption
<1>2. /\ SidecarName("indexed", Blocks(R)) # Absent
      /\ SidecarName("patch", Blocks(R)) # Absent
      /\ SidecarName("sections", Whole(R)) # Absent
  BY <1>1
<1>3. \A a, b : SidecarName("sections", a) # SidecarName("patch", b)
  BY DEF SidecarName
<1> QED
  BY <1>1, <1>2, <1>3

LEMMA MetadataRead ==
    ASSUME index # Absent
    PROVE  /\ ReadMetadata.sections = index.sections
           /\ ReadMetadata.patchRecords = index.patchRecords
           /\ ReadMetadata.raw = index.table /\ ReadMetadata.locations = {}
BY DEF ReadMetadata

\* The table knows all of the files: their blocks hold what concerns them.
LEMMA IndexedRead ==
    ASSUME NEW R \in RecordSets, Intact, NEW F, NEW name,
           name \in DOMAIN sidecar, name.hash = Blocks(R)
    PROVE  LET records == ReadAt(name, {l \in Locations(R) : l.file \in F}) IN
           \/ records = Error /\ used.tears > 0
           \/ records # Error /\ {r \in records : Concerns(r, F)} = {r \in R : Concerns(r, F)}
<1> DEFINE L == {l \in Locations(R) : l.file \in F}
           found == UNION {ParseCompactRecordsBlock(Blocks(R)[l.at]) : l \in L}
           records == ReadAt(name, L)
<1>1. /\ found \subseteq R
      /\ \/ records = Error /\ used.tears > 0
         \/ records = found
  BY TableRead
<1>2. \A r \in R : Concerns(r, F) => r \in found
  BY LocationsSuffice
<1>3. {r \in found : Concerns(r, F)} = {r \in R : Concerns(r, F)}
  BY <1>1, <1>2
<1>4. found # Error
  BY <1>1, SetsAreAnswers
<1> HIDE DEF found, records
<1>5. \/ records = Error /\ used.tears > 0
      \/ records # Error /\ {r \in records : Concerns(r, F)} = {r \in R : Concerns(r, F)}
  BY <1>1, <1>3, <1>4
<1> QED
  BY <1>5 DEF records

\* The layout of this version: one sidecar of blocks.
LEMMA CanonicalReads ==
    ASSUME NEW R \in RecordSets, Intact, index # Absent,
           index.sections = SidecarName("indexed", Blocks(R)), index.sections \in DOMAIN sidecar,
           index.patchRecords = index.sections, index.table = Locations(R)
    PROVE  (\A F : ReadOf(F, R)) /\ ReadOfAll(R)
<1>1. index.patchRecords # Absent /\ index.patchRecords.hash = Blocks(R)
  BY NamesAreNames DEF SidecarName
<1>2. ASSUME NEW F
      PROVE  ReadOf(F, R)
  <2> DEFINE L == {l \in Locations(R) : l.file \in F}
             records == ReadAt(index.patchRecords, L)
             wanted == {r \in R : Concerns(r, F)}
  <2>1. wanted # Error /\ wanted # Absent
    BY SetsAreAnswers
  <2>2. CASE Locations(R) = {}
    <3>1. wanted = {}
      BY <2>2, LocationsSuffice
    <3>2. ReadIndexed(ReadMetadata, F) = {}
      BY <2>2, MetadataRead DEF ReadIndexed
    <3> QED
      BY <1>1, <2>1, <3>1, <3>2, MetadataRead DEF ReadRecordsFor, ReadOf
  <2>3. CASE Locations(R) # {}
    <3>1. ReadIndexed(ReadMetadata, F) =
            IF records = Error THEN Error ELSE {r \in records : Concerns(r, F)}
      BY <2>3, MetadataRead DEF ReadIndexed
    <3>2. \/ records = Error /\ used.tears > 0
          \/ records # Error /\ {r \in records : Concerns(r, F)} = wanted
      BY <1>1, IndexedRead
    <3>3. \/ ReadIndexed(ReadMetadata, F) = Error /\ used.tears > 0
          \/ ReadIndexed(ReadMetadata, F) = wanted
      BY <3>1, <3>2
    <3>4. ReadRecordsFor(F) = ReadIndexed(ReadMetadata, F)
      BY <1>1, <2>1, <3>3, MetadataRead, StateConstantsAssumption DEF ReadRecordsFor
    <3> QED
      BY <2>1, <3>3, <3>4 DEF ReadOf
  <2> QED
    BY <2>2, <2>3
<1>3. ReadOfAll(R)
  <2> DEFINE found == UNION {ParseCompactRecordsBlock(Blocks(R)[l.at]) : l \in Locations(R)}
             F == {r.input[1] : r \in R}
  <2>1. /\ found \subseteq R
        /\ \/ ReadAt(index.patchRecords, index.table) = Error /\ used.tears > 0
           \/ ReadAt(index.patchRecords, index.table) = found
    BY <1>1, TableRead
  <2>2. \A r \in R : Concerns(r, F)
    BY DEF Concerns
  <2>3. \A r \in R : r \in found
    <3> HIDE DEF F
    <3> QED
      BY <2>2, LocationsSuffice
  <2>4. found = R /\ R # Error
    BY <2>1, <2>3, SetsAreAnswers
  <2> HIDE DEF found
  <2> QED
    BY <2>1, <2>4 DEF ReadAllRecords, ReadOfAll
<1> QED
  BY <1>2, <1>3

\* The layouts that older versions left: one block of all records, perhaps a second file.
LEMMA LegacyReads ==
    ASSUME NEW R \in RecordSets, Intact, index # Absent,
           index.sections = SidecarName("sections", Whole(R)), index.sections \in DOMAIN sidecar,
           \/ index.patchRecords = Absent /\ index.table = {}
           \/ /\ index.patchRecords = SidecarName("patch", Blocks(R))
              /\ index.patchRecords \in DOMAIN sidecar
              /\ \E some \in SUBSET File : index.table = {l \in Locations(R) : l.file \in some}
              /\ index.table # {}
           \/ \E some \in SUBSET File :
              /\ index.patchRecords = SidecarName("patch", Whole({r \in R : Concerns(r, some)}))
              /\ index.patchRecords \in DOMAIN sidecar /\ index.table = {}
    PROVE  (\A F \in (SUBSET File) \ {{}} : ReadOf(F, R)) /\ ReadOfAll(R)
<1>1. index.sections.hash = Whole(R) /\ index.sections # index.patchRecords
  <2>1. index.sections.hash = Whole(R)
    BY DEF SidecarName
  <2>2. index.sections # index.patchRecords
    BY NamesAreNames
  <2> QED
    BY <2>1, <2>2
<1>2. ReadOfAll(R)
  <2>1. /\ WriteRenderedRecords(R) # Error
        /\ \/ ReadSidecar(index.sections) = Error /\ used.tears > 0
           \/ ReadSidecar(index.sections) = WriteRenderedRecords(R)
    BY <1>1, WholeRead
  <2>2. ParseCompactRecordsBlock(WriteRenderedRecords(R)) = R
    BY PartRecords, RoundTrip
  <2>3. R # Error
    BY SetsAreAnswers
  <2> QED
    BY <1>1, <2>1, <2>2, <2>3 DEF ReadAllRecords, ReadOfAll
<1>3. ASSUME NEW F \in (SUBSET File) \ {{}}
      PROVE  ReadOf(F, R)
  <2> DEFINE wanted == {r \in R : Concerns(r, F)}
             all == ReadFiltered(index.sections, F)
             L == {l \in index.table : l.file \in F}
             records == ReadAt(index.patchRecords, L)
             second == ReadFiltered(index.patchRecords, F)
  <2>1. wanted # Error /\ wanted # Absent
    BY SetsAreAnswers
  <2>2. (all = Error /\ used.tears > 0) \/ all = wanted
    BY <1>1, WholeRead
  <2>3. CASE index.patchRecords = Absent
    <3>1. ReadRecordsFor(F) = all
      BY <2>3, MetadataRead DEF ReadRecordsFor
    <3> QED
      BY <2>1, <2>2, <3>1 DEF ReadOf
  <2>4. CASE /\ index.patchRecords = SidecarName("patch", Blocks(R))
             /\ index.patchRecords \in DOMAIN sidecar
             /\ \E some \in SUBSET File : index.table = {l \in Locations(R) : l.file \in some}
             /\ index.table # {}
    <3>1. index.patchRecords # Absent /\ index.patchRecords.hash = Blocks(R)
      BY <2>4, NamesAreNames DEF SidecarName
    <3>2. CASE \E f \in F : \A l \in L : l.file # f
      <4>1. ReadIndexed(ReadMetadata, F) = Absent
        BY <1>1, <2>4, <3>2, MetadataRead DEF ReadIndexed
      <4>2. ReadRecordsFor(F) = all
        BY <1>1, <2>4, <3>1, <4>1, MetadataRead DEF ReadRecordsFor
      <4> QED
        BY <2>1, <2>2, <4>2 DEF ReadOf
    <3>3. CASE \A f \in F : \E l \in L : l.file = f
      <4>1. PICK some \in SUBSET File : index.table = {l \in Locations(R) : l.file \in some}
        BY <2>4
      <4>2. L = {l \in Locations(R) : l.file \in F}
        BY <3>3, <4>1
      <4>3. ReadIndexed(ReadMetadata, F) =
              IF records = Error THEN Error ELSE {r \in records : Concerns(r, F)}
        BY <1>1, <2>4, <3>3, MetadataRead DEF ReadIndexed
      <4>4. \/ records = Error /\ used.tears > 0
            \/ records # Error /\ {r \in records : Concerns(r, F)} = wanted
        <5>1. \A G : G = {l \in Locations(R) : l.file \in F} =>
                 LET found == ReadAt(index.patchRecords, G) IN
                 \/ found = Error /\ used.tears > 0
                 \/ found # Error /\ {r \in found : Concerns(r, F)} = {r \in R : Concerns(r, F)}
          BY <2>4, <3>1, IndexedRead
        <5> HIDE DEF L
        <5> QED
          BY <4>2, <5>1
      <4>5. \/ ReadIndexed(ReadMetadata, F) = Error /\ used.tears > 0
            \/ ReadIndexed(ReadMetadata, F) = wanted
        BY <4>3, <4>4
      <4>6. ReadRecordsFor(F) = ReadIndexed(ReadMetadata, F)
        BY <2>1, <3>1, <4>5, MetadataRead, StateConstantsAssumption DEF ReadRecordsFor
      <4> QED
        BY <2>1, <4>5, <4>6 DEF ReadOf
    <3> QED
      BY <3>2, <3>3
  <2>5. ASSUME NEW some \in SUBSET File,
               index.patchRecords = SidecarName("patch", Whole({r \in R : Concerns(r, some)})),
               index.patchRecords \in DOMAIN sidecar, index.table = {}
        PROVE  ReadOf(F, R)
    <3>1. PICK part \in SUBSET R : part = {r \in R : Concerns(r, some)}
      OBVIOUS
    <3>2. index.patchRecords # Absent /\ index.patchRecords.hash = Whole(part)
      BY <2>5, <3>1, NamesAreNames DEF SidecarName
    <3>3. \/ second = Error /\ used.tears > 0
          \/ second = {r \in part : Concerns(r, F)}
      <4> HIDE DEF wanted, all, L, records
      <4>1. \A G : \/ ReadFiltered(index.patchRecords, G) = Error /\ used.tears > 0
                  \/ ReadFiltered(index.patchRecords, G) = {r \in part : Concerns(r, G)}
        <5>1. index.patchRecords \in DOMAIN sidecar /\ index.patchRecords.hash = Whole(part)
          BY <2>5, <3>2
        <5> QED
          BY <3>1, <5>1, WholeRead
      <4> QED
        BY <4>1
    <3>4. ReadIndexed(ReadMetadata, F) = Absent
      BY <1>1, <2>5, MetadataRead DEF ReadIndexed
    <3>5. ReadRecordsFor(F) =
            IF second = Error THEN Error
            ELSE IF \A f \in F : \E r \in second : r.kind = "section" /\ r.input[1] = f
              THEN second ELSE all
      BY <1>1, <2>5, <3>2, <3>4, MetadataRead DEF ReadRecordsFor
    <3>6. CASE second = Error
      <4>1. used.tears > 0
        <5>1. {r \in part : Concerns(r, F)} # Error
          BY <3>1, SetsAreAnswers
        <5> QED
          BY <3>3, <3>6, <5>1
      <4> QED
        BY <3>5, <3>6, <4>1 DEF ReadOf
    <3>7. CASE /\ second # Error
               /\ \A f \in F : \E r \in second : r.kind = "section" /\ r.input[1] = f
      <4>1. second = {r \in part : Concerns(r, F)}
        BY <3>3, <3>7
      <4>2. F \subseteq some
        BY <3>1, <3>7, <4>1 DEF Concerns
      <4>3. {r \in part : Concerns(r, F)} = wanted
        BY <3>1, <4>2 DEF Concerns
      <4> QED
        BY <2>1, <3>5, <3>7, <4>1, <4>3 DEF ReadOf
    <3>8. CASE /\ second # Error
               /\ \E f \in F : \A r \in second : ~(r.kind = "section" /\ r.input[1] = f)
      BY <2>1, <2>2, <3>5, <3>8 DEF ReadOf
    <3> QED
      BY <3>6, <3>7, <3>8
  <2> QED
    BY <2>3, <2>4, <2>5
<1> QED
  BY <1>2, <1>3

\* Whichever of the layouts a state has, its records are read back.
LEMMA StoredReads ==
    ASSUME NEW R, IndexHolds(index, R), Intact, index # Absent
    PROVE  (\A F \in (SUBSET File) \ {{}} : ReadOf(F, R)) /\ ReadOfAll(R)
<1>1. R \in RecordSets
  BY DEF IndexHolds, StoredAs
<1> QED
  BY <1>1, CanonicalReads, LegacyReads DEF IndexHolds, StoredAs

-----------------------------------------------------------------------------
(* The records of a usable state are those of the last save that completed *)

\* The records a link that is writing leaves: its own, or for a rewrite and a patch the last ones.
Target == IF "records" \in DOMAIN saving THEN saving.records ELSE last.records

SavedFields == {"records", "sections", "patchRecords", "locations", "raw", "inputs"}

\* What a link holds is on its way to an index that stands for Target.
SavingOK ==
    /\ saver = "snapshot" => /\ marked /\ DOMAIN saving = SavedFields
                             /\ saving.records \in RecordSets /\ saving.raw = Absent
    /\ saver \in {"remove", "rename"} => /\ marked <=> "records" \in DOMAIN saving
                                         /\ IndexHolds(RenderIndex(saving), Target)
    /\ saver \in {"patch", "recheck", "install"} => "records" \notin DOMAIN saving
    /\ saver \in {"patch", "recheck", "install", "update", "clear"} => IndexHolds(index, Target)

RecordsInv ==
    /\ used \in [saves : Nat, edits : Nat, tears : Nat]
    /\ Intact
    /\ ~marked /\ index # Absent => IndexHolds(index, last.records)
    /\ SavingOK

\* A state with more sidecars stands for the same records.
LEMMA StoredAsGrows ==
    ASSUME NEW D, NEW E, D \subseteq E, NEW s, NEW p, NEW t, NEW R, StoredAs(D, s, p, t, R)
    PROVE  StoredAs(E, s, p, t, R)
BY DEF StoredAs

\* A table is not the mark for one that is missing.
LEMMA TableThere ==
    ASSUME NEW D, NEW s, NEW p, NEW t, NEW R, StoredAs(D, s, p, t, R)
    PROVE  t # Absent
<1>1. R \in RecordSets /\ t \in SUBSET Locations(R)
  BY DEF StoredAs
<1> QED
  BY <1>1, MissingAssumption

LEMMA RecordsInit ==
    StateInit => RecordsInv
<1> SUFFICES ASSUME StateInit
             PROVE  RecordsInv
  OBVIOUS
<1>1. saver = "idle" /\ marked = FALSE
  BY DEF StateInit
<1>2. CASE sidecar = <<>> /\ index = Absent /\ used = [saves |-> 0, edits |-> 0, tears |-> 0]
  BY <1>1, <1>2 DEF RecordsInv, Intact, SavingOK
<1>3. ASSUME NEW layout \in Legacy, NEW R \in RecordSets, NEW some \in (SUBSET File) \ {{}},
             layout = "separate" => \E l \in Locations(R) : l.file \in some,
             sidecar = LegacyState(layout, R, some).sidecar,
             index = LegacyState(layout, R, some).index,
             last.records = R, used = [saves |-> 1, edits |-> 0, tears |-> 0]
      PROVE  RecordsInv
  <2> DEFINE name == SidecarName("sections", Whole(R))
             blocks == IF layout = "separate" THEN Blocks(R)
                       ELSE Whole({r \in R : Concerns(r, some)})
             patch == SidecarName("patch", blocks)
  <2>1. /\ index.sections = name
        /\ index.patchRecords = IF layout = "sections" THEN Absent ELSE patch
        /\ index.table = IF layout = "separate" THEN {l \in Locations(R) : l.file \in some} ELSE {}
    BY <1>3 DEF LegacyState
  <2>2. sidecar = IF layout = "sections" THEN WithFile(<<>>, name, Whole(R))
                  ELSE WithFile(WithFile(<<>>, name, Whole(R)), patch, blocks)
    BY <1>3 DEF LegacyState
  <2>3. name.hash = Whole(R) /\ patch.hash = blocks
    BY DEF SidecarName
  <2>4. \A n \in DOMAIN sidecar : sidecar[n] = n.hash
    <3> HIDE DEF name, patch, blocks
    <3> QED
      BY <2>2, <2>3 DEF WithFile
  <2>5. name \in DOMAIN sidecar /\ (layout # "sections" => patch \in DOMAIN sidecar)
    <3> HIDE DEF name, patch, blocks
    <3> QED
      BY <2>2 DEF WithFile
  <2>6. layout \in {"sections", "separate", "unlocated"}
    BY StateConstantsAssumption
  <2>7. IndexHolds(index, R)
    <3>1. CASE layout = "sections"
      BY <2>1, <2>5, <3>1 DEF IndexHolds, StoredAs
    <3>2. CASE layout = "separate"
      <4>1. index.table # {}
        BY <1>3, <2>1, <3>2
      <4>2. \E S \in SUBSET File : index.table = {l \in Locations(R) : l.file \in S}
        BY <2>1, <3>2
      <4>3. index.patchRecords = SidecarName("patch", Blocks(R))
        BY <2>1, <3>2
      <4>4. index.sections \in DOMAIN sidecar /\ index.patchRecords \in DOMAIN sidecar
        BY <2>1, <2>5, <3>2
      <4> QED
        BY <2>1, <4>1, <4>2, <4>3, <4>4 DEF IndexHolds, StoredAs
    <3>3. CASE layout = "unlocated"
      <4>1. index.patchRecords = SidecarName("patch", Whole({r \in R : Concerns(r, some)}))
        BY <2>1, <3>3
      <4>2. index.sections \in DOMAIN sidecar /\ index.patchRecords \in DOMAIN sidecar
        BY <2>1, <2>5, <3>3
      <4>3. index.table = {}
        BY <2>1, <3>3
      <4> QED
        BY <2>1, <4>1, <4>2, <4>3 DEF IndexHolds, StoredAs
    <3> QED
      BY <2>6, <3>1, <3>2, <3>3
  <2> QED
    BY <1>1, <1>3, <2>4, <2>7 DEF RecordsInv, Intact, SavingOK
<1>4. \A R : [NothingSaved EXCEPT !.records = R].records = R
  BY DEF NothingSaved
<1> QED
  BY <1>2, <1>3, <1>4 DEF StateInit

\* No step of a link or of its environment breaks it.
LEMMA RecordsStep ==
    ASSUME RecordsInv, [StateNext]_stateVars
    PROVE  RecordsInv'
<1> USE DEF RecordsInv
<1>1. ASSUME NEW f \in File, NEW c \in Content, NEW inPlace \in BOOLEAN, EditInput(f, c, inPlace)
      PROVE  RecordsInv'
  <2>1. UNCHANGED <<sidecar, index, marked, saver, saving, last>> /\ used'.tears = used.tears
    BY <1>1 DEF EditInput, disk
  <2>2. used' \in [saves : Nat, edits : Nat, tears : Nat]
    BY <1>1 DEF EditInput
  <2> QED
    BY <2>1, <2>2 DEF Intact, SavingOK, Target, IndexHolds, RenderIndex, RenderTable
<1>2. CASE Tear
  <2>1. PICK name \in DOMAIN sidecar : \E k \in 0 .. (Len(sidecar[name]) - 1) :
          sidecar' = [sidecar EXCEPT ![name] = SubSeq(@, 1, k)]
    BY <1>2 DEF Tear
  <2>2. DOMAIN sidecar' = DOMAIN sidecar
    BY <2>1
  <2>3. UNCHANGED <<index, marked, saver, saving, last>>
    BY <1>2 DEF Tear
  <2>4. used' \in [saves : Nat, edits : Nat, tears : Nat] /\ used'.tears # 0
    BY <1>2 DEF Tear
  <2> QED
    BY <2>2, <2>3, <2>4 DEF Intact, SavingOK, Target, IndexHolds, RenderIndex, RenderTable
<1>3. CASE CrashSaving
  BY <1>3 DEF CrashSaving, disk, Intact, SavingOK, IndexHolds
<1>4. ASSUME NEW R \in RecordSets, BeginSave(R)
      PROVE  RecordsInv'
  <2>1. /\ saver' = "snapshot" /\ marked' /\ UNCHANGED sidecar
        /\ saving' = [records |-> R, sections |-> Absent, patchRecords |-> Absent,
                      locations |-> {}, raw |-> Absent, inputs |-> NoPatch(loaded')]
    BY <1>4 DEF BeginSave
  <2>2. DOMAIN saving' = SavedFields /\ saving'.records = R /\ saving'.raw = Absent
    BY <2>1 DEF SavedFields
  <2>3. used' \in [saves : Nat, edits : Nat, tears : Nat] /\ used'.tears = used.tears
    BY <1>4 DEF BeginSave
  <2> QED
    BY <2>1, <2>2, <2>3 DEF Intact, SavingOK
<1>5. ASSUME NEW f \in File, SnapshotLoadedInputFile(f)
      PROVE  RecordsInv'
  BY <1>5 DEF SnapshotLoadedInputFile, disk, Intact, SavingOK, IndexHolds
<1>6. CASE WriteSidecar
  <2> DEFINE R == saving.records
             name == SidecarName("indexed", Blocks(R))
  <2>1. marked /\ DOMAIN saving = SavedFields /\ R \in RecordSets /\ saving.raw = Absent
    BY <1>6 DEF WriteSidecar, SavingOK
  <2>2. /\ sidecar' = WithFile(sidecar, name, Blocks(R))
        /\ saving' = [saving EXCEPT !.sections = name, !.patchRecords = name,
                                    !.locations = Locations(R)]
        /\ saver' = "remove" /\ UNCHANGED <<index, marked, last, used>>
    BY <1>6 DEF WriteSidecar
  <2>3. /\ DOMAIN saving' = SavedFields /\ saving'.records = R /\ saving'.raw = Absent
        /\ saving'.sections = name /\ saving'.patchRecords = name
        /\ saving'.locations = Locations(R)
    BY <2>1, <2>2 DEF SavedFields
  <2>4. name \in DOMAIN sidecar' /\ name.hash = Blocks(R)
    BY <2>2 DEF WithFile, SidecarName
  <2>5. Intact'
    <3> HIDE DEF name, R
    <3> QED
      BY <2>2, <2>4 DEF Intact, WithFile
  <2>6. /\ RenderIndex(saving').sections = name /\ RenderIndex(saving').patchRecords = name
        /\ RenderIndex(saving').table = Locations(R)
    BY <2>3 DEF RenderIndex, RenderTable
  <2>7. "records" \in DOMAIN saving' /\ Target' = R
    BY <2>3 DEF Target, SavedFields
  <2>8. IndexHolds(RenderIndex(saving), Target)'
    BY <2>1, <2>4, <2>6, <2>7 DEF IndexHolds, StoredAs
  <2> QED
    BY <2>1, <2>2, <2>5, <2>7, <2>8 DEF SavingOK
<1>7. CASE BeginRewrite
  <2>1. /\ ~marked /\ index # Absent /\ saving' = ReadMetadata /\ saver' = "remove"
        /\ UNCHANGED <<sidecar, index, marked, last, used>>
    BY <1>7 DEF BeginRewrite, disk
  <2>2. IndexHolds(index, last.records) /\ index.table # Absent
    BY <2>1, TableThere DEF IndexHolds
  <2>3. /\ "records" \notin DOMAIN saving'
        /\ saving'.sections = index.sections /\ saving'.patchRecords = index.patchRecords
        /\ saving'.raw = index.table
    BY <2>1 DEF ReadMetadata
  <2>4. /\ RenderIndex(saving').sections = index.sections
        /\ RenderIndex(saving').patchRecords = index.patchRecords
        /\ RenderIndex(saving').table = index.table
    BY <2>2, <2>3 DEF RenderIndex, RenderTable
  <2>5. Target' = last.records
    BY <2>1, <2>3 DEF Target
  <2>6. IndexHolds(RenderIndex(saving), Target)'
    BY <2>1, <2>2, <2>4, <2>5 DEF IndexHolds
  <2> QED
    BY <2>1, <2>2, <2>3, <2>6 DEF Intact, SavingOK, IndexHolds
<1>8. CASE RemoveIndex
  BY <1>8 DEF RemoveIndex, Intact, SavingOK, Target, IndexHolds, RenderIndex, RenderTable
<1>9. CASE RenameIndex
  <2>1. /\ saver = "rename" /\ saver' = "update" /\ index' = RenderIndex(saving)
        /\ UNCHANGED <<sidecar, marked, saving, last, used>>
    BY <1>9 DEF RenameIndex
  <2>2. /\ marked <=> "records" \in DOMAIN saving
        /\ IndexHolds(RenderIndex(saving), Target)
    BY <2>1 DEF SavingOK
  <2>3. IndexHolds(index, Target)' /\ Target' = Target
    BY <2>1, <2>2 DEF IndexHolds, Target
  <2>4. ~marked' => IndexHolds(index, last.records)'
    BY <2>1, <2>2, <2>3 DEF Target
  <2> QED
    BY <2>1, <2>3, <2>4 DEF Intact, SavingOK
<1>10. CASE RemoveUpdate
  BY <1>10 DEF RemoveUpdate, Intact, SavingOK, Target, IndexHolds
<1>11. CASE BeginPatch
  <2>1. /\ ~marked /\ index # Absent /\ saver' = "patch" /\ marked'
        /\ UNCHANGED <<sidecar, index, last, used>>
    BY <1>11 DEF BeginPatch, disk
  <2>2. "records" \notin DOMAIN saving'
    <3>1. "records" \notin DOMAIN ReadMetadata
      BY <2>1 DEF ReadMetadata
    <3> QED
      BY <1>11, <3>1 DEF BeginPatch
  <2>3. IndexHolds(index, Target)'
    BY <2>1, <2>2 DEF Target, IndexHolds
  <2> QED
    BY <2>1, <2>2, <2>3 DEF Intact, SavingOK
<1>12. CASE SnapshotInputPaths
  BY <1>12 DEF SnapshotInputPaths, disk, Intact, SavingOK, Target, IndexHolds
<1>13. CASE PatchOvertaken
  BY <1>13 DEF PatchOvertaken, disk, Intact, SavingOK, IndexHolds
<1>14. CASE RemoveOldUpdate
  BY <1>14 DEF RemoveOldUpdate, Intact, SavingOK, Target, IndexHolds
<1>15. CASE InstallUpdate
  BY <1>15 DEF InstallUpdate, Intact, SavingOK, Target, IndexHolds
<1>16. CASE ClearMarker
  <2>1. /\ saver = "clear" /\ saver' = "idle" /\ UNCHANGED <<sidecar, index, used>>
        /\ last' = [records |-> Target, inputs |-> RenderInputs(saving)]
    BY <1>16 DEF ClearMarker, disk, Target
  <2>2. last'.records = Target /\ IndexHolds(index, Target)
    BY <2>1 DEF SavingOK
  <2>3. IndexHolds(index, last.records)'
    BY <2>1, <2>2 DEF IndexHolds
  <2> QED
    BY <2>1, <2>3 DEF Intact, SavingOK
<1>17. CASE UNCHANGED stateVars
  BY <1>17 DEF stateVars, Intact, SavingOK, Target, IndexHolds, RenderIndex, RenderTable
<1> QED
  BY <1>1, <1>2, <1>3, <1>4, <1>5, <1>6, <1>7, <1>8, <1>9, <1>10, <1>11, <1>12, <1>13, <1>14,
     <1>15, <1>16, <1>17 DEF StateNext, LinkStep, Environment

\* Whatever is read of a usable state, of some inputs or of all, from one of four layouts, is what
\* the last save that completed stored, or an error if a sidecar was torn
\* (read_records_for_input_files and read, incremental.rs:3090, 3215).
THEOREM StoredRecords == StateSpec => []RecordsReadBack
<1>1. StateInit => RecordsInv
  BY RecordsInit
<1>2. RecordsInv /\ [StateNext]_stateVars => RecordsInv'
  BY RecordsStep
<1>3. RecordsInv => RecordsReadBack
  <2> SUFFICES ASSUME RecordsInv, Usable
               PROVE  RecordsReadBack
    BY DEF RecordsReadBack
  <2>1. IndexHolds(index, last.records) /\ Intact /\ index # Absent
    BY DEF RecordsInv, Usable
  <2>2. (\A F \in (SUBSET File) \ {{}} : ReadOf(F, last.records)) /\ ReadOfAll(last.records)
    BY <2>1, StoredReads
  <2> QED
    BY <2>2 DEF RecordsReadBack, ReadOf, ReadOfAll
<1> QED
  BY <1>1, <1>2, <1>3, PTL DEF StateSpec

-----------------------------------------------------------------------------
(* Inputs and snapshots of a usable state *)

\* Only one of the inputs is ever edited.  (A metadata update drops the lines of the one it
\* replaces, incremental.rs:3687, so with two inputs patched in turn the index describes the first
\* as the last full link left it.)
OneEdited == \A E \in EditSets : \A f, g \in E : f = g

\* An input as it is held in memory.
ParsedInput ==
    [content : Content,
     patch : {Absent} \cup [sections : SUBSET Content, raw : {Absent} \cup SUBSET Content]]

FilesOnDisk ==
    /\ edited \subseteq File /\ \A f, g \in edited : f = g
    /\ source \in [File -> [content : Content, ino : Nat]]
    /\ plain \in [File -> {Absent} \cup [content : Content, ino : Nat]]
    /\ compressed \in [File -> {Absent} \cup Content]
    /\ todo \subseteq File
    /\ saver = "snapshot" => loaded \in [File -> Content]

\* What the index and the update over it say of an input.
Described(f) ==
    IF update # Absent /\ f \in DOMAIN update.inputs THEN update.inputs[f] ELSE index.inputs[f]

LinesOK ==
    /\ last.inputs \in [File -> InputLine]
    /\ index # Absent => index.inputs \in [File -> InputLine]
    /\ update # Absent => /\ update.inputs \in [DOMAIN update.inputs -> InputLine]
                          /\ DOMAIN update.inputs \subseteq edited
    /\ saver # "idle" => saving.inputs \in [File -> ParsedInput]

\* Nothing that is not edited changes, on disk or in the state.
UneditedOK ==
    \A f \in File \ edited :
        /\ source[f].content = FirstContent
        /\ index # Absent => index.inputs[f].content = FirstContent
        /\ saver # "idle" => saving.inputs[f].content = FirstContent

\* Without a marker the index and the update describe what the last link left.  A link that
\* writes an index or an update comes to the same description as what it holds.
DescribedOK ==
    /\ ~marked /\ index # Absent => \A f \in File : Described(f) = last.inputs[f]
    /\ ~marked /\ saver # "idle" =>
          /\ RenderInputs(saving) = last.inputs
          /\ saver \in {"remove", "rename"} /\ update # Absent =>
                \A f \in DOMAIN update.inputs : update.inputs[f] = last.inputs[f]
    /\ saver = "update" => index.inputs = RenderInputs(saving)
    /\ saver \in {"patch", "recheck", "install"} =>
          /\ marked /\ todo \subseteq edited
          /\ \A f \in File \ todo : RenderInput(saving.inputs[f]) = index.inputs[f]
    /\ saver = "clear" => \A f \in File : Described(f) = RenderInput(saving.inputs[f])

InputsInv == FilesOnDisk /\ LinesOK /\ UneditedOK /\ DescribedOK

\* The inputs that can be patched, and whose snapshot nothing has disturbed.
Patchable(R) ==
    {f \in File \ (ReadOnly \cup raced) : \E r \in R : r.kind = "section" /\ r.input[1] = f}

\* An undisturbed snapshot is what the state says, or will say when the link is done.
SnapshotsInv ==
    /\ ~marked => \A f \in Patchable(last.records) : SnapshotBytes(f) = last.inputs[f].content
    /\ saver = "snapshot" =>
          /\ \A f \in File : saving.inputs[f].content = loaded[f]
          /\ \A f \in File \ raced : source[f].content = loaded[f]
          /\ \A f \in Patchable(saving.records) \ todo : SnapshotBytes(f) = loaded[f]
    /\ saver = "patch" =>
          /\ \A f \in todo \ raced : source[f].content = saving.inputs[f].content
          /\ \A f \in Patchable(Target) \ todo : SnapshotBytes(f) = saving.inputs[f].content
    /\ saver \in {"recheck", "install", "remove", "rename", "update", "clear"} =>
          \A f \in Patchable(Target) : SnapshotBytes(f) = saving.inputs[f].content

\* A line that is read and written again is the same line.
LEMMA LineKept ==
    ASSUME NEW line \in InputLine
    PROVE  /\ ParseInputRaw(line) \in ParsedInput
           /\ ParseInputRaw(line).content = line.content
           /\ RenderInput(ParseInputRaw(line)) = line
<1>1. CASE line.patch = Absent
  BY <1>1 DEF InputLine, ParsedInput, ParseInputRaw, RenderInput
<1>2. CASE line.patch # Absent
  <2> DEFINE patch == [sections |-> {}, raw |-> line.patch]
  <2>1. line.patch \in SUBSET Content
    BY <1>2 DEF InputLine
  <2>2. patch \in [sections : SUBSET Content, raw : {Absent} \cup SUBSET Content]
    BY <2>1
  <2>3. patch # Absent
    BY <2>2, MissingAssumption
  <2>4. ParseInputRaw(line) = [content |-> line.content, patch |-> patch]
    BY <1>2 DEF ParseInputRaw
  <2>5. RenderInput(ParseInputRaw(line)) = [content |-> line.content, patch |-> line.patch]
    BY <1>2, <2>3, <2>4 DEF RenderInput
  <2> QED
    BY <2>2, <2>4, <2>5 DEF InputLine, ParsedInput
<1> QED
  BY <1>1, <1>2

LEMMA InputRendered ==
    ASSUME NEW input \in ParsedInput
    PROVE  RenderInput(input) \in InputLine /\ RenderInput(input).content = input.content
<1>1. CASE input.patch = Absent
  BY <1>1 DEF InputLine, ParsedInput, RenderInput
<1>2. CASE input.patch # Absent /\ input.patch.sections = {} /\ input.patch.raw # Absent
  BY <1>2 DEF InputLine, ParsedInput, RenderInput
<1>3. CASE input.patch # Absent /\ ~(input.patch.sections = {} /\ input.patch.raw # Absent)
  BY <1>3 DEF InputLine, ParsedInput, RenderInput
<1> QED
  BY <1>1, <1>2, <1>3

LEMMA AllRendered ==
    ASSUME saving.inputs \in [File -> ParsedInput]
    PROVE  /\ RenderInputs(saving) \in [File -> InputLine]
           /\ \A f \in File : /\ RenderInputs(saving)[f] = RenderInput(saving.inputs[f])
                              /\ RenderInputs(saving)[f].content = saving.inputs[f].content
BY InputRendered DEF RenderInputs

\* What is read of an input is what its line says.
LEMMA LinesRead ==
    ASSUME LinesOK, index # Absent
    PROVE  /\ ReadMetadata.inputs \in [File -> ParsedInput]
           /\ \A f \in File : /\ Described(f) \in InputLine
                              /\ ReadMetadata.inputs[f] = ParseInputRaw(Described(f))
                              /\ ReadMetadata.inputs[f].content = Described(f).content
                              /\ RenderInput(ReadMetadata.inputs[f]) = Described(f)
<1>1. \A f \in File : Described(f) \in InputLine
  BY DEF LinesOK, Described
<1>2. ReadMetadata.inputs = [f \in File |-> ParseInputRaw(Described(f))]
  BY DEF ReadMetadata, Described
<1> QED
  BY <1>1, <1>2, LineKept

LEMMA InputsInit ==
    OneEdited /\ StateInit => InputsInv
<1> SUFFICES ASSUME OneEdited, StateInit
             PROVE  InputsInv
  OBVIOUS
<1> DEFINE first == NoPatch([f \in File |-> FirstContent])
<1>1. /\ first \in [File -> InputLine] /\ \A f \in File : first[f].content = FirstContent
  BY StateConstantsAssumption DEF NoPatch, InputLine
<1>2. last.inputs = first /\ (index # Absent => index.inputs = first)
  <2>1. NothingSaved.inputs = first /\ \A R : [NothingSaved EXCEPT !.records = R].inputs = first
    BY DEF NothingSaved
  <2>2. CASE index = Absent /\ last = NothingSaved
    BY <2>1, <2>2
  <2>3. ASSUME NEW layout \in Legacy, NEW R \in RecordSets, NEW some,
               index = LegacyState(layout, R, some).index,
               last = [NothingSaved EXCEPT !.records = R]
        PROVE  last.inputs = first /\ index.inputs = first
    <3>1. LegacyState(layout, R, some).index.inputs = first
      BY DEF LegacyState
    <3> QED
      BY <2>1, <2>3, <3>1
  <2> HIDE DEF first
  <2> QED
    BY <2>2, <2>3 DEF StateInit
<1>3. /\ saver = "idle" /\ ~marked /\ update = Absent
      /\ edited \in EditSets /\ todo = {}
      /\ source = [f \in File |-> [content |-> FirstContent, ino |-> 0]]
      /\ plain = [f \in File |-> Absent] /\ compressed = [f \in File |-> Absent]
  BY DEF StateInit
<1>4. FilesOnDisk
  BY <1>3, StateConstantsAssumption DEF FilesOnDisk, OneEdited
<1>5. LinesOK /\ UneditedOK /\ DescribedOK
  <2> HIDE DEF first
  <2> QED
    BY <1>1, <1>2, <1>3 DEF LinesOK, UneditedOK, DescribedOK, Described
<1> QED
  BY <1>4, <1>5 DEF InputsInv

\* BeginPatch finds the one input that is edited, and nothing else.
LEMMA PatchedEdited ==
    ASSUME InputsInv, index # Absent, ChangedFiles # {}
    PROVE  /\ ChangedFiles = edited
           /\ \A f \in File \ edited : Described(f) = index.inputs[f]
<1>1. ASSUME NEW f \in File \ edited
      PROVE  /\ Described(f) = index.inputs[f]
             /\ source[f].content = ReadMetadata.inputs[f].content
  <2>1. Described(f) = index.inputs[f]
    BY DEF InputsInv, LinesOK, Described
  <2>2. ReadMetadata.inputs[f].content = index.inputs[f].content
    BY <2>1, LinesRead DEF InputsInv
  <2> QED
    BY <2>1, <2>2 DEF InputsInv, UneditedOK
<1>2. ChangedFiles \subseteq edited
  BY <1>1 DEF ChangedFiles
<1> QED
  BY <1>1, <1>2 DEF InputsInv, FilesOnDisk

LEMMA InputsStep ==
    ASSUME RecordsInv, InputsInv, [StateNext]_stateVars
    PROVE  InputsInv'
<1> USE DEF InputsInv
<1>1. ASSUME NEW f \in File, NEW c \in Content, NEW inPlace \in BOOLEAN, EditInput(f, c, inPlace)
      PROVE  InputsInv'
  <2>1. /\ UNCHANGED <<edited, compressed, index, update, marked, saver, saving, loaded, todo, last>>
        /\ f \in edited /\ used.edits \in Nat
    BY <1>1 DEF EditInput, disk, RecordsInv
  <2>2. PICK ino \in Nat :
          source' = [source EXCEPT ![f] = [content |-> c, ino |-> ino]]
    <3> DEFINE ino == IF inPlace THEN source[f].ino ELSE used.edits + 1
    <3>1. ino \in Nat
      BY <2>1 DEF FilesOnDisk
    <3>2. source' = [source EXCEPT ![f] = [content |-> c, ino |-> ino]]
      BY <1>1 DEF EditInput
    <3> HIDE DEF ino
    <3> QED
      BY <3>1, <3>2
  <2>3. plain' \in [File -> {Absent} \cup [content : Content, ino : Nat]]
    <3>1. plain' = plain \/ (plain[f] # Absent /\ plain' = [plain EXCEPT ![f].content = c])
      BY <1>1 DEF EditInput
    <3> QED
      BY <3>1 DEF FilesOnDisk
  <2>4. FilesOnDisk'
    BY <2>1, <2>2, <2>3 DEF FilesOnDisk
  <2>5. UneditedOK'
    BY <2>1, <2>2 DEF UneditedOK, FilesOnDisk
  <2> QED
    BY <2>1, <2>4, <2>5 DEF LinesOK, DescribedOK, Described, RenderInputs
<1>2. CASE Tear
  BY <1>2 DEF Tear, snapshots, FilesOnDisk, LinesOK, UneditedOK, DescribedOK, Described,
             RenderInputs
<1>3. CASE CrashSaving
  BY <1>3 DEF CrashSaving, snapshots, disk, FilesOnDisk, LinesOK, UneditedOK, DescribedOK,
             Described
<1>4. ASSUME NEW R \in RecordSets, BeginSave(R)
      PROVE  InputsInv'
  <2>1. /\ saver' = "snapshot" /\ marked'
        /\ UNCHANGED <<edited, source, plain, compressed, update, last>>
        /\ index' = Absent \/ index' = index
        /\ loaded' = [f \in File |-> source[f].content]
        /\ saving'.inputs = NoPatch(loaded')
    BY <1>4 DEF BeginSave, snapshots
  <2>2. loaded' \in [File -> Content]
    BY <2>1 DEF FilesOnDisk
  <2>3. todo' \subseteq File
    <3>1. \A r \in R : r.input[1] \in File
      BY StateConstantsAssumption DEF IsRecord
    <3> QED
      BY <1>4, <3>1 DEF BeginSave
  <2>4. /\ saving'.inputs \in [File -> ParsedInput]
        /\ \A f \in File : saving'.inputs[f].content = source[f].content
    BY <2>1, <2>2 DEF NoPatch, ParsedInput
  <2>5. FilesOnDisk'
    BY <2>1, <2>2, <2>3 DEF FilesOnDisk
  <2>6. LinesOK' /\ UneditedOK'
    BY <2>1, <2>4 DEF LinesOK, UneditedOK
  <2>7. DescribedOK'
    BY <2>1 DEF DescribedOK
  <2> QED
    BY <2>5, <2>6, <2>7
<1>5. ASSUME NEW f \in File, SnapshotLoadedInputFile(f)
      PROVE  InputsInv'
  <2>1. /\ saver = "snapshot"
        /\ UNCHANGED <<edited, source, index, update, marked, saver, saving, loaded, last>>
        /\ todo' = todo \ {f}
    BY <1>5 DEF SnapshotLoadedInputFile, disk
  <2>2. /\ plain' \in [File -> {Absent} \cup [content : Content, ino : Nat]]
        /\ compressed' \in [File -> {Absent} \cup Content]
    <3>1. OwnInode \in Nat /\ source[f].ino \in Nat /\ source[f].content \in Content
      BY DEF OwnInode, FilesOnDisk
    <3>2. loaded[f] \in Content
      BY <2>1 DEF FilesOnDisk
    <3>3. ASSUME NEW ino \in Nat, InstallPlain(f, ino)
          PROVE  <2>2!1 /\ <2>2!2
      BY <3>1, <3>3 DEF InstallPlain, FilesOnDisk
    <3>4. CASE InstallCompressed(f)
      BY <3>2, <3>4 DEF InstallCompressed, FilesOnDisk
    <3> QED
      BY <1>5, <3>1, <3>3, <3>4 DEF SnapshotLoadedInputFile
  <2>3. FilesOnDisk'
    BY <2>1, <2>2 DEF FilesOnDisk
  <2> QED
    BY <2>1, <2>3 DEF LinesOK, UneditedOK, DescribedOK, Described, RenderInputs
<1>6. CASE WriteSidecar
  <2>1. /\ saver = "snapshot" /\ saver' = "remove" /\ marked
        /\ UNCHANGED <<edited, source, plain, compressed, index, update, marked, todo, last>>
    BY <1>6 DEF WriteSidecar, snapshots, RecordsInv, SavingOK
  <2>2. saving'.inputs = saving.inputs
    BY <1>6 DEF WriteSidecar, RecordsInv, SavingOK, SavedFields
  <2> QED
    BY <2>1, <2>2 DEF FilesOnDisk, LinesOK, UneditedOK, DescribedOK
<1>7. CASE BeginRewrite
  <2>1. /\ ~marked /\ index # Absent /\ saving' = ReadMetadata /\ saver' = "remove"
        /\ UNCHANGED <<edited, source, plain, compressed, index, update, marked, todo, last>>
    BY <1>7 DEF BeginRewrite, snapshots, disk
  <2>2. /\ saving'.inputs \in [File -> ParsedInput]
        /\ \A f \in File : /\ Described(f) = last.inputs[f]
                           /\ saving'.inputs[f].content = Described(f).content
                           /\ RenderInput(saving'.inputs[f]) = Described(f)
    BY <2>1, LinesRead DEF DescribedOK
  <2>3. RenderInputs(saving') = last.inputs
    BY <2>2 DEF RenderInputs, LinesOK
  <2>4. update # Absent => \A f \in DOMAIN update.inputs : update.inputs[f] = last.inputs[f]
    BY <2>2 DEF Described, LinesOK, FilesOnDisk
  <2>5. UneditedOK'
    BY <2>1, <2>2 DEF UneditedOK, Described, LinesOK
  <2>6. FilesOnDisk' /\ LinesOK'
    BY <2>1, <2>2 DEF FilesOnDisk, LinesOK
  <2>7. DescribedOK'
    BY <2>1, <2>2, <2>3, <2>4 DEF DescribedOK, Described, RenderInputs
  <2> QED
    BY <2>5, <2>6, <2>7
<1>8. CASE RemoveIndex
  BY <1>8 DEF RemoveIndex, snapshots, FilesOnDisk, LinesOK, UneditedOK, DescribedOK, RenderInputs
<1>9. CASE RenameIndex
  <2>1. /\ saver = "rename" /\ saver' = "update" /\ index' = RenderIndex(saving)
        /\ UNCHANGED <<edited, source, plain, compressed, update, marked, saving, todo, last>>
    BY <1>9 DEF RenameIndex, snapshots
  <2>2. index'.inputs = RenderInputs(saving)
    BY <2>1 DEF RenderIndex
  <2>3. /\ RenderInputs(saving) \in [File -> InputLine]
        /\ \A f \in File : RenderInputs(saving)[f].content = saving.inputs[f].content
    BY <2>1, AllRendered DEF LinesOK
  <2>4. FilesOnDisk' /\ LinesOK' /\ UneditedOK'
    BY <2>1, <2>2, <2>3 DEF FilesOnDisk, LinesOK, UneditedOK
  <2>5. DescribedOK'
    BY <2>1, <2>2 DEF DescribedOK, Described, RenderInputs
  <2> QED
    BY <2>4, <2>5
<1>10. CASE RemoveUpdate
  <2>1. /\ saver = "update" /\ saver' = "clear" /\ update' = Absent
        /\ UNCHANGED <<edited, source, plain, compressed, index, marked, saving, todo, last>>
    BY <1>10 DEF RemoveUpdate, UpdateAfterIndex, snapshots
  <2>2. \A f \in File : RenderInputs(saving)[f] = RenderInput(saving.inputs[f])
    BY DEF RenderInputs
  <2>3. FilesOnDisk' /\ LinesOK' /\ UneditedOK'
    BY <2>1 DEF FilesOnDisk, LinesOK, UneditedOK
  <2>4. \A f \in File : Described(f)' = index.inputs[f]
    BY <2>1 DEF Described
  <2>5. index.inputs = RenderInputs(saving)
    BY <2>1 DEF DescribedOK
  <2>6. ~marked => /\ RenderInputs(saving) = last.inputs
                   /\ RenderInputs(saving)' = last.inputs
    BY <2>1 DEF DescribedOK, RenderInputs
  <2>7. DescribedOK'
    BY <2>1, <2>2, <2>4, <2>5, <2>6 DEF DescribedOK
  <2> QED
    BY <2>3, <2>7
<1>11. CASE BeginPatch
  <2>1. /\ ~marked /\ index # Absent /\ saver' = "patch" /\ marked'
        /\ ChangedFiles # {} /\ todo' = ChangedFiles
        /\ UNCHANGED <<edited, source, plain, compressed, index, update, last>>
    BY <1>11 DEF BeginPatch, snapshots, disk
  <2>2. todo' = edited /\ \A f \in File \ edited : Described(f) = index.inputs[f]
    BY <2>1, PatchedEdited
  <2>3. saving'.inputs = [f \in File |->
          IF f \in ChangedFiles
            THEN [content |-> source[f].content,
                  patch |-> [sections |-> {source[f].content}, raw |-> Absent]]
            ELSE ReadMetadata.inputs[f]]
    <3>1. "inputs" \in DOMAIN ReadMetadata
      BY <2>1 DEF ReadMetadata
    <3> QED
      BY <1>11, <3>1 DEF BeginPatch
  <2>4. saving'.inputs \in [File -> ParsedInput]
    <3>1. \A f \in File : source[f].content \in Content /\ ReadMetadata.inputs[f] \in ParsedInput
      BY <2>1, LinesRead DEF FilesOnDisk
    <3>2. \A f \in File : [content |-> source[f].content,
                           patch |-> [sections |-> {source[f].content}, raw |-> Absent]]
                             \in ParsedInput
      BY <3>1 DEF ParsedInput
    <3> QED
      BY <2>3, <3>1, <3>2
  <2>5. \A f \in File \ edited : /\ saving'.inputs[f].content = index.inputs[f].content
                                 /\ RenderInput(saving'.inputs[f]) = index.inputs[f]
    <3>1. \A f \in File \ edited : saving'.inputs[f] = ReadMetadata.inputs[f]
      BY <2>1, <2>2, <2>3
    <3> QED
      BY <2>1, <2>2, <3>1, LinesRead
  <2>6. FilesOnDisk' /\ LinesOK' /\ UneditedOK'
    BY <2>1, <2>2, <2>4, <2>5 DEF FilesOnDisk, LinesOK, UneditedOK
  <2>7. DescribedOK'
    BY <2>1, <2>2, <2>5 DEF DescribedOK, FilesOnDisk
  <2> QED
    BY <2>6, <2>7
<1>12. CASE SnapshotInputPaths
  <2>1. /\ saver = "patch" /\ saver' = "recheck"
        /\ UNCHANGED <<edited, source, index, update, marked, saving, todo, last>>
    BY <1>12 DEF SnapshotInputPaths, disk
  <2>2. /\ plain' \in [File -> {Absent} \cup [content : Content, ino : Nat]]
        /\ compressed' \in [File -> {Absent} \cup Content]
    <3>1. OwnInode \in Nat /\ \A f \in File : source[f].ino \in Nat /\ source[f].content \in Content
      BY DEF OwnInode, FilesOnDisk
    <3>2. compressed' \in [File -> {Absent} \cup Content]
      BY <1>12 DEF SnapshotInputPaths, FilesOnDisk
    <3>3. PICK links : plain' = [f \in File |->
             IF f \notin todo THEN plain[f]
             ELSE [content |-> source[f].content,
                   ino |-> IF f \in links THEN source[f].ino ELSE OwnInode]]
      BY <1>12 DEF SnapshotInputPaths
    <3> QED
      BY <3>1, <3>2, <3>3 DEF FilesOnDisk
  <2>3. FilesOnDisk' /\ LinesOK' /\ UneditedOK'
    BY <2>1, <2>2 DEF FilesOnDisk, LinesOK, UneditedOK
  <2>4. DescribedOK'
    BY <2>1 DEF DescribedOK, Described, RenderInputs
  <2> QED
    BY <2>3, <2>4
<1>13. CASE PatchOvertaken
  BY <1>13 DEF PatchOvertaken, snapshots, disk, FilesOnDisk, LinesOK, UneditedOK, DescribedOK,
             Described
<1>14. CASE RemoveOldUpdate
  <2>1. /\ saver = "recheck" /\ saver' = "install" /\ update' = Absent /\ marked' = marked
        /\ UNCHANGED <<edited, source, plain, compressed, index, saving, todo, last>>
    BY <1>14 DEF RemoveOldUpdate, snapshots
  <2>2. marked
    BY <2>1 DEF DescribedOK
  <2>3. FilesOnDisk' /\ LinesOK' /\ UneditedOK'
    BY <2>1 DEF FilesOnDisk, LinesOK, UneditedOK
  <2> QED
    BY <2>1, <2>2, <2>3 DEF DescribedOK
<1>15. CASE InstallUpdate
  <2>1. /\ saver = "install" /\ saver' = "clear" /\ marked' = marked
        /\ update' = RenderMetadataUpdate(saving, todo)
        /\ UNCHANGED <<edited, source, plain, compressed, index, saving, todo, last>>
    BY <1>15 DEF InstallUpdate, snapshots
  <2>2. /\ marked /\ todo \subseteq edited /\ todo \subseteq File
        /\ \A f \in File \ todo : RenderInput(saving.inputs[f]) = index.inputs[f]
    BY <2>1 DEF DescribedOK, FilesOnDisk
  <2>3. \A f \in File : RenderInput(saving.inputs[f]) \in InputLine
    BY <2>1, InputRendered DEF LinesOK
  <2>4. update' = [inputs |-> [f \in todo |-> RenderInput(saving.inputs[f])]]
    BY <2>1 DEF RenderMetadataUpdate
  <2>5. update' \in [inputs : [todo -> InputLine]]
    BY <2>2, <2>3, <2>4
  <2>6. update' # Absent
    BY <2>2, <2>5, MissingAssumption
  <2>7. /\ DOMAIN update'.inputs = todo
        /\ \A f \in todo : update'.inputs[f] = RenderInput(saving.inputs[f])
    BY <2>4
  <2>8. FilesOnDisk' /\ LinesOK' /\ UneditedOK'
    BY <2>1, <2>2, <2>5, <2>7 DEF FilesOnDisk, LinesOK, UneditedOK
  <2>9. \A f \in File : Described(f)' = RenderInput(saving.inputs[f])
    BY <2>1, <2>2, <2>6, <2>7 DEF Described
  <2> QED
    BY <2>1, <2>2, <2>8, <2>9 DEF DescribedOK
<1>16. CASE ClearMarker
  <2>1. /\ saver = "clear" /\ saver' = "idle" /\ todo' = {}
        /\ UNCHANGED <<edited, source, plain, compressed, index, update>>
        /\ last'.inputs = RenderInputs(saving)
    BY <1>16 DEF ClearMarker, snapshots, disk
  <2>2. /\ RenderInputs(saving) \in [File -> InputLine]
        /\ \A f \in File : RenderInputs(saving)[f] = RenderInput(saving.inputs[f])
    BY <2>1, AllRendered DEF LinesOK
  <2>3. FilesOnDisk' /\ LinesOK' /\ UneditedOK'
    BY <2>1, <2>2 DEF FilesOnDisk, LinesOK, UneditedOK
  <2>4. \A f \in File : Described(f)' = last'.inputs[f]
    BY <2>1, <2>2 DEF DescribedOK, Described
  <2>5. DescribedOK'
    BY <2>1, <2>4 DEF DescribedOK
  <2> QED
    BY <2>3, <2>5
<1>17. CASE UNCHANGED stateVars
  BY <1>17 DEF stateVars, FilesOnDisk, LinesOK, UneditedOK, DescribedOK, Described, RenderInputs
<1> QED
  BY <1>1, <1>2, <1>3, <1>4, <1>5, <1>6, <1>7, <1>8, <1>9, <1>10, <1>11, <1>12, <1>13, <1>14,
     <1>15, <1>16, <1>17 DEF StateNext, LinkStep, Environment

LEMMA SnapshotsInit ==
    StateInit => SnapshotsInv
<1> SUFFICES ASSUME StateInit
             PROVE  SnapshotsInv
  OBVIOUS
<1>1. saver = "idle" /\ (last = NothingSaved \/ raced = File)
  BY DEF StateInit
<1>2. Patchable(last.records) = {}
  BY <1>1 DEF NothingSaved, Patchable
<1> QED
  BY <1>1, <1>2 DEF SnapshotsInv

LEMMA SnapshotsStep ==
    ASSUME RecordsInv, InputsInv, SnapshotsInv, [StateNext]_stateVars
    PROVE  SnapshotsInv'
<1> USE DEF SnapshotsInv
<1>1. ASSUME NEW f \in File, NEW c \in Content, NEW inPlace \in BOOLEAN, EditInput(f, c, inPlace)
      PROVE  SnapshotsInv'
  <2>1. UNCHANGED <<compressed, marked, saver, saving, loaded, todo, last>>
    BY <1>1 DEF EditInput
  <2>2. /\ raced \subseteq raced'
        /\ saver # "idle" => f \in raced'
        /\ plain' # plain => f \in raced'
    BY <1>1 DEF EditInput
  <2>3. /\ \A g \in File \ {f} : source'[g] = source[g] /\ plain'[g] = plain[g]
    BY <1>1 DEF EditInput, InputsInv, FilesOnDisk
  <2>4. \A g \in File \ raced' : SnapshotBytes(g)' = SnapshotBytes(g)
    BY <2>1, <2>2, <2>3 DEF SnapshotBytes
  <2>5. \A R : Patchable(R)' \subseteq Patchable(R) \ raced'
    BY <2>2 DEF Patchable
  <2>6. Target' = Target
    BY <2>1 DEF Target
  <2>7. \A R : Patchable(R) \subseteq File
    BY DEF Patchable
  <2>8. ~marked' => \A g \in Patchable(last.records)' : SnapshotBytes(g)' = last'.inputs[g].content
    BY <2>1, <2>4, <2>5, <2>7
  <2>9. saver' = "snapshot" =>
          /\ \A g \in File : saving'.inputs[g].content = loaded'[g]
          /\ \A g \in File \ raced' : source'[g].content = loaded'[g]
          /\ \A g \in Patchable(saving.records)' \ todo' : SnapshotBytes(g)' = loaded'[g]
    BY <2>1, <2>2, <2>3, <2>4, <2>5, <2>7
  <2>10. saver' = "patch" =>
           /\ \A g \in todo' \ raced' : source'[g].content = saving'.inputs[g].content
           /\ \A g \in Patchable(Target)' \ todo' : SnapshotBytes(g)' = saving'.inputs[g].content
    BY <2>1, <2>2, <2>3, <2>4, <2>5, <2>6, <2>7 DEF InputsInv, FilesOnDisk
  <2>11. saver' \in {"recheck", "install", "remove", "rename", "update", "clear"} =>
           \A g \in Patchable(Target)' : SnapshotBytes(g)' = saving'.inputs[g].content
    BY <2>1, <2>4, <2>5, <2>6, <2>7
  <2> QED
    BY <2>8, <2>9, <2>10, <2>11
<1>2. CASE Tear
  BY <1>2 DEF Tear, snapshots, SnapshotBytes, Patchable, Target
<1>3. CASE CrashSaving
  BY <1>3 DEF CrashSaving, snapshots, SnapshotBytes, Patchable
<1>4. ASSUME NEW R \in RecordSets, BeginSave(R)
      PROVE  SnapshotsInv'
  <2>1. /\ saver' = "snapshot" /\ marked' /\ source' = source /\ raced' = {}
        /\ loaded' = [f \in File |-> source[f].content]
        /\ saving'.inputs = NoPatch(loaded') /\ saving'.records = R
        /\ todo' = {r.input[1] : r \in {x \in R : x.kind = "section"}} \ ReadOnly
    BY <1>4 DEF BeginSave
  <2>2. \A f \in File : saving'.inputs[f].content = loaded'[f] /\ source'[f].content = loaded'[f]
    BY <2>1 DEF NoPatch
  <2>3. Patchable(saving.records)' \subseteq todo'
    BY <2>1 DEF Patchable
  <2> QED
    BY <2>1, <2>2, <2>3
<1>5. ASSUME NEW f \in File, SnapshotLoadedInputFile(f)
      PROVE  SnapshotsInv'
  <2>1. /\ saver = "snapshot" /\ marked
        /\ UNCHANGED <<source, marked, saver, saving, loaded, last, raced>>
        /\ todo' = todo \ {f}
    BY <1>5 DEF SnapshotLoadedInputFile, RecordsInv, SavingOK
  <2>2. /\ \A g \in File \ {f} : SnapshotBytes(g)' = SnapshotBytes(g)
        /\ f \notin raced => SnapshotBytes(f)' = loaded[f]
    <3>1. ASSUME NEW ino \in Nat, InstallPlain(f, ino)
          PROVE  <2>2!1 /\ <2>2!2
      <4>1. /\ plain' = [plain EXCEPT ![f] = [content |-> source[f].content, ino |-> ino]]
            /\ compressed' = [compressed EXCEPT ![f] = Absent]
        BY <3>1 DEF InstallPlain
      <4>2. [content |-> source[f].content, ino |-> ino] # Absent
        BY MissingAssumption DEF InputsInv, FilesOnDisk
      <4>3. f \notin raced => source[f].content = loaded[f]
        BY <2>1
      <4> QED
        BY <4>1, <4>2, <4>3 DEF SnapshotBytes, InputsInv, FilesOnDisk
    <3>2. CASE InstallCompressed(f)
      BY <3>2 DEF InstallCompressed, SnapshotBytes, InputsInv, FilesOnDisk
    <3> QED
      BY <1>5, <3>1, <3>2 DEF SnapshotLoadedInputFile, OwnInode, InputsInv, FilesOnDisk
  <2>3. Patchable(saving.records)' = Patchable(saving.records)
    BY <2>1 DEF Patchable
  <2>4. Patchable(saving.records) \subseteq File \ raced
    BY DEF Patchable
  <2> QED
    BY <2>1, <2>2, <2>3, <2>4
<1>6. CASE WriteSidecar
  <2>1. /\ saver = "snapshot" /\ todo = {} /\ saver' = "remove" /\ marked
        /\ DOMAIN saving = SavedFields
        /\ UNCHANGED <<source, plain, compressed, marked, loaded, last, raced>>
    BY <1>6 DEF WriteSidecar, snapshots, RecordsInv, SavingOK
  <2>2. saving'.inputs = saving.inputs /\ Target' = saving.records
    BY <1>6, <2>1 DEF WriteSidecar, SavedFields, Target
  <2>3. Patchable(Target)' = Patchable(saving.records)
    BY <2>1, <2>2 DEF Patchable
  <2>4. Patchable(saving.records) \subseteq File
    BY DEF Patchable
  <2> QED
    BY <2>1, <2>2, <2>3, <2>4 DEF SnapshotBytes
<1>7. CASE BeginRewrite
  <2>1. /\ ~marked /\ index # Absent /\ saving' = ReadMetadata /\ saver' = "remove"
        /\ UNCHANGED <<source, plain, compressed, marked, last, raced>>
    BY <1>7 DEF BeginRewrite, snapshots
  <2>2. \A f \in File : saving'.inputs[f].content = last.inputs[f].content
    BY <2>1, LinesRead DEF InputsInv, DescribedOK
  <2>3. Target' = last.records
    BY <2>1 DEF ReadMetadata, Target
  <2>4. Patchable(Target)' = Patchable(last.records) /\ Patchable(last.records) \subseteq File
    BY <2>1, <2>3 DEF Patchable
  <2>5. Patchable(last.records)' = Patchable(last.records)
    BY <2>1 DEF Patchable
  <2> QED
    BY <2>1, <2>2, <2>4, <2>5 DEF SnapshotBytes
<1>8. CASE RemoveIndex
  BY <1>8 DEF RemoveIndex, snapshots, SnapshotBytes, Patchable, Target
<1>9. CASE RenameIndex
  BY <1>9 DEF RenameIndex, snapshots, SnapshotBytes, Patchable, Target
<1>10. CASE RemoveUpdate
  BY <1>10 DEF RemoveUpdate, snapshots, SnapshotBytes, Patchable, Target
<1>11. CASE BeginPatch
  <2>1. /\ ~marked /\ index # Absent /\ saver' = "patch" /\ marked'
        /\ todo' = ChangedFiles /\ raced' = raced \ todo'
        /\ UNCHANGED <<source, plain, compressed, last>>
    BY <1>11 DEF BeginPatch, snapshots
  <2>2. saving'.inputs = [f \in File |->
          IF f \in ChangedFiles
            THEN [content |-> source[f].content,
                  patch |-> [sections |-> {source[f].content}, raw |-> Absent]]
            ELSE ReadMetadata.inputs[f]]
    <3>1. "inputs" \in DOMAIN ReadMetadata
      BY <2>1 DEF ReadMetadata
    <3> QED
      BY <1>11, <3>1 DEF BeginPatch
  <2>3. Target' = last.records
    <3>1. "records" \notin DOMAIN ReadMetadata
      BY <2>1 DEF ReadMetadata
    <3>2. "records" \notin DOMAIN saving'
      BY <1>11, <3>1 DEF BeginPatch
    <3> QED
      BY <2>1, <3>2 DEF Target
  <2>4. \A f \in File \ todo' : saving'.inputs[f].content = last.inputs[f].content
    BY <2>1, <2>2, LinesRead DEF InputsInv, DescribedOK
  <2>5. \A f \in todo' : source'[f].content = saving'.inputs[f].content
    BY <2>1, <2>2 DEF ChangedFiles
  <2>6. Patchable(Target)' \ todo' \subseteq Patchable(last.records)
    BY <2>1, <2>3 DEF Patchable
  <2>7. Patchable(last.records) \subseteq File
    BY DEF Patchable
  <2> QED
    BY <2>1, <2>4, <2>5, <2>6, <2>7 DEF SnapshotBytes
<1>12. CASE SnapshotInputPaths
  <2>1. /\ saver = "patch" /\ saver' = "recheck"
        /\ UNCHANGED <<source, marked, saving, last, raced>>
    BY <1>12 DEF SnapshotInputPaths
  <2>2. PICK links :
          /\ plain' = [f \in File |->
               IF f \notin todo THEN plain[f]
               ELSE [content |-> source[f].content,
                     ino |-> IF f \in links THEN source[f].ino ELSE OwnInode]]
          /\ compressed' = [f \in File |-> IF f \in todo THEN Absent ELSE compressed[f]]
    BY <1>12 DEF SnapshotInputPaths
  <2>3. ASSUME NEW f \in todo
        PROVE  f \in File /\ SnapshotBytes(f)' = source[f].content
    <3> DEFINE ino == IF f \in links THEN source[f].ino ELSE OwnInode
    <3>1. f \in File /\ ino \in Nat /\ source[f].content \in Content
      BY DEF OwnInode, InputsInv, FilesOnDisk
    <3>2. plain'[f] = [content |-> source[f].content, ino |-> ino]
      BY <2>2, <3>1
    <3>3. plain'[f] # Absent /\ plain'[f].content = source[f].content
      <4> HIDE DEF ino
      <4> QED
        BY <3>1, <3>2, MissingAssumption
    <3> QED
      BY <3>1, <3>3 DEF SnapshotBytes
  <2>4. \A f \in File \ todo : SnapshotBytes(f)' = SnapshotBytes(f)
    BY <2>2 DEF SnapshotBytes
  <2>5. marked
    BY <2>1 DEF InputsInv, DescribedOK
  <2>6. Patchable(Target)' = Patchable(Target)
    BY <2>1 DEF Patchable, Target
  <2>7. Patchable(Target) \subseteq File \ raced
    BY DEF Patchable
  <2> QED
    BY <2>1, <2>3, <2>4, <2>5, <2>6, <2>7
<1>13. CASE PatchOvertaken
  BY <1>13 DEF PatchOvertaken, snapshots, SnapshotBytes, Patchable, Target, InputsInv, DescribedOK
<1>14. CASE RemoveOldUpdate
  BY <1>14 DEF RemoveOldUpdate, snapshots, SnapshotBytes, Patchable, Target
<1>15. CASE InstallUpdate
  BY <1>15 DEF InstallUpdate, snapshots, SnapshotBytes, Patchable, Target
<1>16. CASE ClearMarker
  <2>1. /\ saver = "clear" /\ saver' = "idle"
        /\ UNCHANGED <<plain, compressed, raced>>
        /\ last' = [records |-> Target, inputs |-> RenderInputs(saving)]
    BY <1>16 DEF ClearMarker, snapshots, Target
  <2>2. \A f \in File : RenderInputs(saving)[f].content = saving.inputs[f].content
    BY <2>1, AllRendered DEF InputsInv, LinesOK
  <2>3. Patchable(last.records)' = Patchable(Target)
    BY <2>1 DEF Patchable
  <2>4. Patchable(Target) \subseteq File
    BY DEF Patchable
  <2> QED
    BY <2>1, <2>2, <2>3, <2>4 DEF SnapshotBytes
<1>17. CASE UNCHANGED stateVars
  BY <1>17 DEF stateVars, SnapshotBytes, Patchable, Target
<1> QED
  BY <1>1, <1>2, <1>3, <1>4, <1>5, <1>6, <1>7, <1>8, <1>9, <1>10, <1>11, <1>12, <1>13, <1>14,
     <1>15, <1>16, <1>17 DEF StateNext, LinkStep, Environment

\* What the state says of the inputs is what the last link that completed left of them, patch
\* metadata included, when one input is edited: an update is never read with an index that it was
\* not made for (incremental.rs:3733, 3919).
THEOREM StoredInputs == OneEdited /\ StateSpec => []InputsReadBack
<1>1. OneEdited /\ StateInit => RecordsInv /\ InputsInv
  BY RecordsInit, InputsInit
<1>2. RecordsInv /\ InputsInv /\ [StateNext]_stateVars => (RecordsInv /\ InputsInv)'
  BY RecordsStep, InputsStep
<1>3. RecordsInv /\ InputsInv => InputsReadBack
  <2> SUFFICES ASSUME InputsInv, Usable, NEW f \in File
               PROVE  /\ ReadMetadata.inputs[f].content = last.inputs[f].content
                      /\ RenderInput(ReadMetadata.inputs[f]) = last.inputs[f]
                      /\ PatchMetadataFor(f) = ReadMetadata.inputs[f].patch
    BY DEF InputsReadBack
  <2>1. index # Absent /\ Described(f) = last.inputs[f]
    BY DEF Usable, InputsInv, DescribedOK
  <2>2. /\ ReadMetadata.inputs[f] = ParseInputRaw(Described(f))
        /\ ReadMetadata.inputs[f].content = last.inputs[f].content
        /\ RenderInput(ReadMetadata.inputs[f]) = last.inputs[f]
    BY <2>1, LinesRead DEF InputsInv
  <2>3. PatchMetadataFor(f) = ParseInputRaw(Described(f)).patch
    BY DEF PatchMetadataFor, Described
  <2> QED
    BY <2>2, <2>3
<1> QED
  BY <1>1, <1>2, <1>3, PTL DEF StateSpec

\* The snapshot of an input that can be patched has the content the state records, compressed or
\* not, unless the input was overwritten in place or changed under a link
\* (read_verified_input_snapshot, incremental.rs:10489).
THEOREM SnapshotsHold == OneEdited /\ StateSpec => []SnapshotsServe
<1> DEFINE Inv == RecordsInv /\ InputsInv /\ SnapshotsInv
<1>1. OneEdited /\ StateInit => Inv
  BY RecordsInit, InputsInit, SnapshotsInit
<1>2. Inv /\ [StateNext]_stateVars => Inv'
  BY RecordsStep, InputsStep, SnapshotsStep
<1>3. Inv => SnapshotsServe
  <2> SUFFICES ASSUME RecordsInv, InputsInv, SnapshotsInv, Usable, NEW r \in last.records,
                      r.kind = "section", r.input[1] \notin ReadOnly \cup raced
               PROVE  ReadVerifiedSnapshot(r.input[1]) = last.inputs[r.input[1]].content
    BY DEF SnapshotsServe
  <2>1. last.records \in RecordSets
    BY DEF RecordsInv, Usable, IndexHolds, StoredAs
  <2>2. r.input[1] \in Patchable(last.records)
    BY <2>1, StateConstantsAssumption DEF Patchable, IsRecord
  <2>3. SnapshotBytes(r.input[1]) = last.inputs[r.input[1]].content
    BY <2>2 DEF SnapshotsInv, Usable
  <2>4. ReadMetadata.inputs[r.input[1]].content = last.inputs[r.input[1]].content
    BY <2>2, LinesRead DEF Usable, InputsInv, DescribedOK, Patchable
  <2> QED
    BY <2>3, <2>4 DEF ReadVerifiedSnapshot
<1> HIDE DEF Inv
<1> QED
  BY <1>1, <1>2, <1>3, PTL DEF StateSpec
=============================================================================
