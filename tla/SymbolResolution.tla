-------------------------- MODULE SymbolResolution --------------------------
(***************************************************************************)
(* Symbol resolution, from the symbol database to the final definitions    *)
(* (libsld/src/resolution.rs and symbol_db.rs, in the order lib.rs calls   *)
(* them):                                                                  *)
(*                                                                         *)
(*   1. parallel tasks look up the undefined symbols of the loaded files   *)
(*      and race to load the archive members and as-needed shared objects  *)
(*      that define them (resolve_symbols_and_select_archive_entries);     *)
(*   2. of several definitions of a name, now that it is known which files *)
(*      are loaded, one is selected                                        *)
(*      (resolve_alternative_symbol_definitions);                          *)
(*   3. references that stay undefined are given one symbol per name       *)
(*      (canonicalise_undefined_symbols).                                  *)
(*                                                                         *)
(* What is abstracted: a symbol is a file and a name, versions are part of *)
(* the name, symbols the linker itself defines and linker plugins are left *)
(* out.  A chunk of a symbol table is a set of names.  Symbol ids grow     *)
(* with the file, so the order of files is the order of definitions.       *)
(***************************************************************************)
EXTENDS Naturals, FiniteSets, FiniteSetsExt

CONSTANTS
    NumFiles,
    Name,        \* names of global symbols
    NumChunks,   \* into how many work items a symbol table is split
    ChunkOf,     \* [Name -> Chunk]: MAX_SYMBOLS_PER_WORK_ITEM, in names
    StartStop,   \* names that bound a custom section of the output
    OutputKind,
    Link,        \* the inputs considered, see LinkInput
    None

\* The files, numbered in the order of the command line; that of the linker's own symbols
\* (PRELUDE_FILE_ID) is the first, that of the __start_ and __stop_ symbols comes after all.
File == 0 .. (NumFiles - 1)
Prelude == 0
Synthetic == NumFiles

\* SymbolStrength of a definition, with Comdat for a strong one in a section group, and the
\* two kinds of reference; size is that of a common symbol.
Defining == {"Weak", "GnuUnique", "Common", "Strong", "Comdat"}
Visibility == {"Default", "Protected", "Hidden"}
Entry == [kind : Defining \cup {"absent", "ref", "weakref"}, size : Nat, vis : Visibility]

Chunk == 1 .. NumChunks

\* What a link is given: what each file says of each name, which files are archive members or
\* --as-needed (is_optional), which are shared objects, and which symbols resolve_symbols
\* fails on.
LinkInput == [sym : [File -> [Name -> Entry]], optional : SUBSET File, dynamic : SUBSET File,
              unreadable : SUBSET (File \X Name)]

ASSUME FilesAssumption ==
    /\ NumFiles \in Nat \ {0} /\ IsFiniteSet(Name)
    /\ None \notin File \cup {Synthetic} /\ None \notin (File \cup {Synthetic}) \X Name
    /\ NumChunks \in Nat \ {0} /\ ChunkOf \in [Name -> Chunk]
    /\ StartStop \subseteq Name
    /\ OutputKind \in {"static", "executable", "shared"}

\* The prelude only refers to symbols (the entry point, --undefined).
ASSUME LinkAssumption ==
    \A l \in Link :
        /\ l \in LinkInput
        /\ \A n \in Name : /\ l.sym[Prelude][n].kind \in {"absent", "ref"}
                           /\ l.sym[Prelude][n].vis = "Default"
                           /\ <<Prelude, n>> \notin l.unreadable
        /\ Prelude \notin l.optional \cup l.dynamic

SymbolId == (File \cup {Synthetic}) \X Name

VARIABLES
    input,       \* what the link is given
    taken,       \* files whose AtomicTake is empty: requested, or never optional
    loads,       \* how often each file was pushed on outputs.loaded
    todo,        \* per work item: the names still to be resolved
    asking,      \* per work item: the file it found not taken and is about to take
    definition,  \* symbol_definitions
    undefined,   \* outputs.undefined_symbols
    flags,       \* per_symbol_flags: those that concern the dynamic symbol table
    errors,      \* outputs.errors, a queue of length one
    altTodo,     \* names whose alternative definitions are still to be resolved
    duplicates,  \* names with an error in error_queue
    nameToId,    \* name_to_id of canonicalise_undefined_symbols
    phase        \* where the link is

vars == <<input, taken, loads, todo, asking, definition, undefined, flags, errors,
          altTodo, duplicates, nameToId, phase>>

Sym == input.sym
Optional == input.optional
Dynamic == input.dynamic
Unreadable == input.unreadable

Defines(f, n) == Sym[f][n].kind \in Defining

\* A symbol resolve_symbols does not skip.
Refers(f, n) ==
    Sym[f][n].kind \in {"ref", "weakref"} /\ ~(f \in Dynamic /\ Sym[f][n].vis = "Hidden")

WorkItem == File \X Chunk

TypeOK ==
    /\ input \in LinkInput
    /\ taken \in SUBSET File
    /\ loads \in [File -> Nat]
    /\ todo \in [WorkItem -> SUBSET Name]
    /\ asking \in [WorkItem -> File \cup {None}]
    /\ definition \in [SymbolId -> SymbolId \cup {None}]
    /\ undefined \in SUBSET [sym : SymbolId, ignore : File \cup {None}]
    /\ flags \in [SymbolId -> SUBSET {"DYNAMIC", "NON_INTERPOSABLE", "DOWNGRADE_TO_LOCAL"}]
    /\ errors \in SUBSET WorkItem
    /\ altTodo \in SUBSET Name
    /\ duplicates \in SUBSET Name
    /\ nameToId \in [Name -> SymbolId \cup {None}]
    /\ phase \in {"resolve", "alternatives", "canonicalise", "done", "failed"}

-----------------------------------------------------------------------------
(* The symbol database *)

\* SymbolBucket::add_symbol: the files that define a name.
Bucket(n) == {f \in File : Defines(f, n)}

\* Symbols are added in the order of the files: the symbol id of a name is that of its first
\* definition, the others are its alternatives.
First(n) == Min(Bucket(n))

\* Mutant: of common symbols of one size the last is taken.
ConsiderLast(sym, n, best, f) ==
    LET s == sym[f][n]
    IN  CASE s.kind \in {"Strong", "Comdat"} ->
               [best EXCEPT !.strong = IF @ = None THEN f ELSE @]
          [] s.kind \in {"Weak", "GnuUnique"} -> [best EXCEPT !.weak = IF @ = None THEN f ELSE @]
          [] s.kind = "Common" ->
               [best EXCEPT !.common =
                   IF @ = None \/ (@ # None /\ s.size >= sym[@][n].size) THEN f ELSE @]

\* SymbolPrioritySelector::consider.
Consider(sym, n, best, f) ==
    LET s == sym[f][n]
    IN  CASE s.kind \in {"Strong", "Comdat"} ->
               [best EXCEPT !.strong = IF @ = None THEN f ELSE @]
          [] s.kind \in {"Weak", "GnuUnique"} -> [best EXCEPT !.weak = IF @ = None THEN f ELSE @]
          [] s.kind = "Common" ->
               [best EXCEPT !.common =
                   IF @ = None \/ (@ # None /\ s.size > sym[@][n].size) THEN f ELSE @]

\* The selector after it has considered the definitions in a set of files, in their order.
Selector(sym, n, S) ==
    LET after[k \in 0 .. NumFiles] ==
            IF k = 0 THEN [strong |-> None, common |-> None, weak |-> None]
            ELSE IF k - 1 \in S THEN Consider(sym, n, after[k - 1], k - 1) ELSE after[k - 1]
    IN  after[NumFiles]

\* SymbolPrioritySelector::best: the file, or None.
Best(selector) ==
    IF selector.strong # None THEN selector.strong
    ELSE IF selector.common # None THEN selector.common ELSE selector.weak

\* SymbolBucket::get_non_dynamic, for a name whose first definition is in a shared object.
GetNonDynamic(n) == Best(Selector(Sym, n, Bucket(n) \ Dynamic))

\* SymbolDb::get: the file of the definition a reference finds, whether it is loaded or not.
Get(n, allowDynamic) ==
    IF Bucket(n) = {} THEN None
    ELSE IF ~allowDynamic /\ First(n) \in Dynamic THEN GetNonDynamic(n)
    ELSE First(n)

\* Does this reference load the file that defines it?  A weak one does not, nor does one from
\* a shared object to a shared object.
Activates(f, n, target) ==
    /\ Sym[f][n].kind = "ref" /\ target # f
    /\ ~(f \in Dynamic /\ target \in Dynamic)

\* What a reference finds.
Target(f, n) == Get(n, Sym[f][n].vis = "Default")

-----------------------------------------------------------------------------
(* Step 1: resolving references and loading files *)

\* Mutant: only the first work item of a file is spawned.
FirstItemNames(item) ==
    {n \in Name : Refers(item[1], n) /\ item[2] = 1 /\ ChunkOf[n] = 1}

\* work_items_do: the names of each work item of a file; the prelude has only one.
ItemNames(item) ==
    LET f == item[1]
    IN  {n \in Name : Refers(f, n) /\ (IF f = Prelude THEN 1 ELSE ChunkOf[n]) = item[2]}

\* resolve_group has loaded every file that is not optional.
Init ==
    /\ input \in Link
    /\ taken = File \ Optional
    /\ loads = [f \in File |-> IF f \in Optional THEN 0 ELSE 1]
    /\ todo = [item \in WorkItem |-> IF item[1] \in Optional THEN {} ELSE ItemNames(item)]
    /\ asking = [item \in WorkItem |-> None]
    /\ definition = [s \in SymbolId |->
          IF s[1] # Synthetic /\ (s[1] # Synthetic => Defines(s[1], s[2])) THEN s ELSE None]
    /\ undefined = {}
    /\ flags = [s \in SymbolId |->
          IF s[1] \in Dynamic /\ (s[1] \in Dynamic => Defines(s[1], s[2])) THEN {"DYNAMIC"}
          ELSE {}]
    /\ errors = {}
    /\ altTodo = {} /\ duplicates = {}
    /\ nameToId = [n \in Name |-> None]
    /\ phase = "resolve"

\* Mutant: a reference leaves its definition as it was.
NoVisibilityFlags(vis, old) == {}

\* The flags a reference of that visibility adds to its definition (resolve_symbol,
\* apply_visibility_to_definition).
VisibilityFlags(vis, old) ==
    CASE vis = "Hidden" -> {"NON_INTERPOSABLE", "DOWNGRADE_TO_LOCAL"}
      [] vis = "Protected" -> IF "DYNAMIC" \in old THEN {} ELSE {"NON_INTERPOSABLE"}
      [] vis = "Default" -> {}

AddFlags(s, new) == flags' = [flags EXCEPT ![s] = @ \cup new]

\* The record resolve_symbol leaves of a reference that may turn out to be undefined.
UndefinedRecord(f, n) ==
    LET target == Target(f, n)
    IN  IF f = Prelude \/ (target # None /\ Sym[f][n].kind = "ref" /\ target # f) THEN {}
        ELSE {[sym |-> <<f, n>>, ignore |-> target]}

\* resolve_symbol, load_symbol_named: the reference gets the definition found; if that is to
\* be loaded and is not taken yet (is_taken, read without exclusion), the task goes for it.
ResolveSymbol(item, n) ==
    LET f == item[1]
        target == Target(f, n)
    IN  /\ asking[item] = None /\ n \in todo[item] /\ <<f, n>> \notin Unreadable
        /\ todo' = [todo EXCEPT ![item] = @ \ {n}]
        /\ undefined' = undefined \cup UndefinedRecord(f, n)
        /\ IF target = None THEN UNCHANGED <<definition, flags, asking>>
           ELSE /\ definition' = [definition EXCEPT ![<<f, n>>] = <<target, n>>]
                /\ AddFlags(<<target, n>>, VisibilityFlags(Sym[f][n].vis, flags[<<target, n>>]))
                /\ asking' = [asking EXCEPT ![item] =
                      IF Activates(f, n, target) /\ target \notin taken THEN target ELSE None]
        /\ UNCHANGED <<input, taken, loads, errors, altTodo, duplicates, nameToId, phase>>

\* Mutant: what is_taken said is still trusted.
NotTaken(f) == TRUE

\* AtomicTake::take returns the definitions to one task only.
Takes(f) == f \notin taken

\* try_request_file_id: the task that takes the file's definitions loads the file and spawns
\* its work items.
TakeFile(item) ==
    LET f == asking[item]
    IN  /\ f # None /\ Takes(f)
        /\ asking' = [asking EXCEPT ![item] = None]
        /\ taken' = taken \cup {f}
        /\ loads' = [loads EXCEPT ![f] = @ + 1]
        /\ todo' = [i \in WorkItem |-> IF i[1] = f THEN ItemNames(i) ELSE todo[i]]
        /\ UNCHANGED <<input, definition, undefined, flags, errors, altTodo, duplicates,
                       nameToId, phase>>

\* Mutant: the task waits for the definitions.
LoserWaits(item) == FALSE

\* A task that finds the definitions gone since it looked goes on.
LoseRace(item) ==
    /\ asking[item] # None /\ ~Takes(asking[item])
    /\ asking' = [asking EXCEPT ![item] = None]
    /\ UNCHANGED <<input, taken, loads, todo, definition, undefined, flags, errors,
                   altTodo, duplicates, nameToId, phase>>

\* Mutant: the error is dropped.
HandleResultIgnored(item) == errors

\* handle_result: a second error does not fit in the queue.
HandleResult(item) == IF errors = {} THEN {item} ELSE errors

\* resolve_symbols fails: the rest of the work item is skipped.
FailItem(item) ==
    /\ asking[item] = None
    /\ \E n \in todo[item] : <<item[1], n>> \in Unreadable
    /\ todo' = [todo EXCEPT ![item] = {}]
    /\ errors' = HandleResult(item)
    /\ UNCHANGED <<input, taken, loads, asking, definition, undefined, flags, altTodo,
                   duplicates, nameToId, phase>>

\* The files the link has loaded (resolver.resolved_groups).
Loaded == {f \in File : loads[f] > 0}

\* The scope ends when no task is left.
FinishResolution ==
    /\ phase = "resolve"
    /\ \A item \in WorkItem : todo[item] = {} /\ asking[item] = None
    /\ phase' = IF errors = {} THEN "alternatives" ELSE "failed"
    /\ altTodo' = {n \in Name : Bucket(n) # {} /\ Bucket(n) # {First(n)}}
    /\ UNCHANGED <<input, taken, loads, todo, asking, definition, undefined, flags,
                   errors, duplicates, nameToId>>

-----------------------------------------------------------------------------
(* Step 2: several definitions of one name *)

\* The definitions of the first pass of select_symbol: not dynamic, in a loaded file.
Ranked(n) == {f \in Bucket(n) \cap Loaded : "DYNAMIC" \notin flags[<<f, n>>]}

StrongIn(n, S) == {f \in S : Sym[f][n].kind \in {"Strong", "Comdat"}}

\* Mutant: a definition in a section group is never a duplicate.
IsDuplicateOutsideGroups(n) ==
    \E f, g \in StrongIn(n, Ranked(n)) :
        f # g /\ Sym[f][n].kind = "Strong" /\ Sym[g][n].kind = "Strong"

\* "Duplicate symbols detected": a strong definition after the first, not both in section
\* groups.
IsDuplicate(n) ==
    LET strong == StrongIn(n, Ranked(n))
    IN  \E f \in strong :
            f # Min(strong) /\ "Strong" \in {Sym[Min(strong)][n].kind, Sym[f][n].kind}

\* select_symbol: the best definition, else the first one in a loaded shared object, else the
\* first one.
SelectSymbol(n) ==
    LET best == Best(Selector(Sym, n, Ranked(n)))
        rest == Bucket(n) \cap Loaded
    IN  IF best # None THEN best ELSE IF rest # {} THEN Min(rest) ELSE First(n)

Strictness(vis) == CASE vis = "Default" -> 0 [] vis = "Protected" -> 1 [] vis = "Hidden" -> 2

\* The most restrictive visibility of all definitions, loaded or not.
MergedVisibility(n) ==
    CHOOSE v \in Visibility :
        /\ \E f \in Bucket(n) : Sym[f][n].vis = v
        /\ \A f \in Bucket(n) : Strictness(Sym[f][n].vis) <= Strictness(v)

\* update_definition of the first definition and of its alternatives.
Redirected(n) == {<<f, n>> : f \in Bucket(n)}

\* process_alternatives for one name; buckets are processed in parallel and share nothing.
ProcessAlternatives(n) ==
    /\ phase = "alternatives" /\ n \in altTodo
    /\ altTodo' = altTodo \ {n}
    /\ IF IsDuplicate(n)
         THEN duplicates' = duplicates \cup {n} /\ UNCHANGED <<definition, flags>>
         ELSE /\ definition' = [s \in SymbolId |->
                    IF s \in Redirected(n) THEN <<SelectSymbol(n), n>> ELSE definition[s]]
              /\ flags' = [s \in SymbolId |->
                    IF s[2] = n /\ s[1] \in Bucket(n) /\ "DYNAMIC" \notin flags[s]
                      THEN flags[s] \cup VisibilityFlags(MergedVisibility(n), {})
                      ELSE flags[s]]
              /\ UNCHANGED duplicates
    /\ UNCHANGED <<input, taken, loads, todo, asking, undefined, errors, nameToId, phase>>

\* resolve_alternative_symbol_definitions returns.
FinishAlternatives ==
    /\ phase = "alternatives" /\ altTodo = {}
    /\ phase' = IF duplicates = {} THEN "canonicalise" ELSE "failed"
    /\ UNCHANGED <<input, taken, loads, todo, asking, definition, undefined, flags,
                   errors, altTodo, duplicates, nameToId>>

-----------------------------------------------------------------------------
(* Step 3: references that stay undefined *)

\* Mutant: every record counts.
NeverDefined(u) == FALSE

\* The file that defines the symbol was loaded after all.
IsDefined(u) == u.ignore # None /\ u.ignore \in Loaded

\* SymbolDb::definition, in two steps.
Definition(s) == IF definition[s] = None THEN None ELSE definition[definition[s]]

\* What remains undefined may be defined at run time, or is null.
UndefinedFlag(s) ==
    LET weak == Sym[s[1]][s[2]].kind = "weakref"
    IN  IF /\ Sym[s[1]][s[2]].vis = "Default"
           /\ OutputKind = "shared" \/ (OutputKind = "executable" /\ weak)
          THEN "DYNAMIC" ELSE "NON_INTERPOSABLE"

\* SymbolDb::get_unversioned, which knows a __start_/__stop_ symbol once it was allocated.
GetUnversioned(n) ==
    IF Bucket(n) # {} THEN <<First(n), n>>
    ELSE IF n \in StartStop THEN nameToId[n] ELSE None

\* apply_visibility_to_definition: a definition there is of the name becomes as invisible as
\* this reference, which did not find it, wants it.
HideDefinition(n, vis, old) ==
    IF vis = "Default" \/ GetUnversioned(n) = None THEN old
    ELSE [old EXCEPT ![Definition(GetUnversioned(n))] = @ \cup VisibilityFlags(vis, @)]

\* The next record is the one with the largest symbol id.
IsNextRecord(u) == \A w \in undefined : w.sym[2] = u.sym[2] => w.sym[1] <= u.sym[1]

\* canonicalise_undefined_symbols, one record.
CanonicaliseUndefined(u) ==
    LET s == u.sym
        n == s[2]
        vis == Sym[s[1]][n].vis
    IN  /\ phase = "canonicalise" /\ u \in undefined /\ IsNextRecord(u)
        /\ undefined' = undefined \ {u}
        /\ \/ IsDefined(u) /\ UNCHANGED <<definition, flags, nameToId>>
           \/ /\ ~IsDefined(u) /\ nameToId[n] # None
              /\ definition' = [definition EXCEPT ![s] = Definition(nameToId[n])]
              /\ flags' = HideDefinition(n, vis, flags)
              /\ UNCHANGED nameToId
           \/ /\ ~IsDefined(u) /\ nameToId[n] = None /\ n \in StartStop
              /\ definition' = [definition EXCEPT ![s] = <<Synthetic, n>>,
                                                  ![<<Synthetic, n>>] = <<Synthetic, n>>]
              /\ flags' = [flags EXCEPT ![<<Synthetic, n>>] = {"NON_INTERPOSABLE"}]
              /\ nameToId' = [nameToId EXCEPT ![n] = <<Synthetic, n>>]
           \/ /\ ~IsDefined(u) /\ nameToId[n] = None /\ n \notin StartStop
              /\ flags' = HideDefinition(n, vis, [flags EXCEPT ![s] = @ \cup {UndefinedFlag(s)}])
              /\ definition' = [definition EXCEPT ![s] = s]
              /\ nameToId' = [nameToId EXCEPT ![n] = s]
        /\ UNCHANGED <<input, taken, loads, todo, asking, errors, altTodo, duplicates,
                       phase>>

\* resolve_sections_and_canonicalise_undefined returns.
FinishCanonicalisation ==
    /\ phase = "canonicalise" /\ undefined = {}
    /\ phase' = "done"
    /\ UNCHANGED <<input, taken, loads, todo, asking, definition, undefined, flags,
                   errors, altTodo, duplicates, nameToId>>

Next ==
    \/ \E item \in WorkItem :
        \/ \E n \in Name : ResolveSymbol(item, n)
        \/ TakeFile(item) \/ LoseRace(item) \/ FailItem(item)
    \/ FinishResolution
    \/ \E n \in Name : ProcessAlternatives(n)
    \/ FinishAlternatives
    \/ \E u \in undefined : CanonicaliseUndefined(u)
    \/ FinishCanonicalisation

Spec == Init /\ [][Next]_vars

\* Spawned tasks run, and the sequential steps go on.
FairSpec == Spec /\ WF_vars(Next)

-----------------------------------------------------------------------------
(* Properties *)

\* "Push won't fail because we allocated enough space for all the objects": whatever tasks
\* race for a file, it is loaded once, so outputs.loaded never overflows (work_items_do).
LoadedOnce == \A f \in File : loads[f] <= 1

\* The files a file's references load.
Needs(f) ==
    {g \in File : \E n \in Name : Refers(f, n) /\ Target(f, n) = g /\ Activates(f, n, g)}

\* Has the set the files loaded at once and, with each of its files, those it needs?
Closed(S) == File \ Optional \subseteq S /\ \A f \in S : Needs(f) \subseteq S

\* In every order in which the tasks run, an archive member is loaded if, and only if, a chain
\* of strong references leads to it (is_optional: "skipped if there are no non-weak
\* references"), that is, what is loaded is the least closed set; and a file that could not be
\* read is never linked as if it had been.
ExactlyNeededLoaded ==
    /\ phase \notin {"resolve", "failed"} =>
          /\ Closed(Loaded)
          /\ \A extra \in (SUBSET (Loaded \cap Optional)) \ {{}} : ~Closed(Loaded \ extra)
    /\ phase = "done" => \A s \in Unreadable : s[1] \in Loaded => ~Refers(s[1], s[2])

\* The definition a reference should get: of the loaded objects that define the name the first
\* strong one, else the largest common one, else the first; else, if the reference may be
\* resolved at run time, the first loaded shared object; else None
\* (resolve_alternative_symbol_definitions).
Loaders(n, kinds) == {f \in Loaded \ Dynamic : Sym[f][n].kind \in kinds}

Largest(n, S) == {f \in S : \A g \in S : Sym[g][n].size <= Sym[f][n].size}

Winner(f, n) ==
    LET strong == Loaders(n, {"Strong", "Comdat"})
        common == Loaders(n, {"Common"})
        weak == Loaders(n, {"Weak", "GnuUnique"})
        shared == {g \in Loaded \cap Dynamic : Defines(g, n)}
    IN  CASE strong # {} -> Min(strong)
          [] strong = {} /\ common # {} -> Min(Largest(n, common))
          [] strong = {} /\ common = {} /\ weak # {} -> Min(weak)
          [] OTHER -> IF shared # {} /\ Sym[f][n].vis = "Default" THEN Min(shared) ELSE None

\* The references of loaded objects.
References == {s \in SymbolId : s[1] \in Loaded \ (Dynamic \cup {Prelude}) /\ Refers(s[1], s[2])}

\* A reference has its winner for definition; when there is none it has the one symbol, of a
\* loaded file or synthetic, that stands for all undefined references to the name.
Bound(s) ==
    LET winner == Winner(s[1], s[2])
    IN  IF winner # None THEN Definition(s) = <<winner, s[2]>>
        ELSE /\ nameToId[s[2]] # None /\ Definition(s) = nameToId[s[2]]
             /\ Definition(s)[1] \in Loaded \cup {Synthetic}

\* All strong references to a name, looked up before it was known what would be loaded, end
\* at the definition the selection rule names; undefined ones end at one canonical symbol.
StrongReferencesBound ==
    phase = "done" => \A s \in References : Sym[s[1]][s[2]].kind = "ref" => Bound(s)

\* A weak reference whose file ended up loaded is bound as a strong one, and one to a name
\* nobody loaded defines has the canonical undefined symbol (UndefinedSymbol).  (A name whose
\* first definition is in a file that was not loaded is excepted: canonicalise_undefined_symbols
\* replaces such a reference even if a loaded file defines the name too.)
SettledWeakReferencesBound ==
    phase = "done" =>
        \A s \in References :
            /\ Sym[s[1]][s[2]].kind = "weakref"
            /\ Target(s[1], s[2]) \in Loaded \/ Winner(s[1], s[2]) = None
            => Bound(s)

\* resolution.rs, resolve_symbol: "If the undefined reference has non-default visibility, the
\* definition must be downgraded so it cannot leak into dynsym", also when alternatives are
\* processed in between.  (It is the first definition of the name that is downgraded; a
\* reference that another definition is selected for is excepted.)
SettledHiddenReferencesDowngrade ==
    phase = "done" =>
        \A s \in References :
            /\ Sym[s[1]][s[2]].vis = "Hidden"
            /\ Winner(s[1], s[2]) # None /\ Winner(s[1], s[2]) = Target(s[1], s[2])
            => "DOWNGRADE_TO_LOCAL" \in flags[Definition(s)]

\* A link that succeeds has no two strong definitions of a name in loaded objects, unless both
\* are in section groups, however the files came to be loaded (select_symbol).
DuplicatesReported ==
    phase = "done" =>
        \A n \in Name : \A f, g \in Loaders(n, {"Strong", "Comdat"}) :
            f # g => Sym[f][n].kind = "Comdat" /\ Sym[g][n].kind = "Comdat"

\* Names are looked up while files are still being loaded; what a name finally means does not
\* depend on that: every reference gets the definition the selection rule names for the files
\* that were loaded in the end, with the visibility asked for, or the link fails
\* (resolve_alternative_symbol_definitions, canonicalise_undefined_symbols, select_symbol).
DefinitionsSelected ==
    /\ StrongReferencesBound /\ SettledWeakReferencesBound
    /\ SettledHiddenReferencesDowngrade
    /\ DuplicatesReported

\* Resolution comes to an end.
Resolves == <>(phase \in {"done", "failed"})

=============================================================================
