--------------------------- MODULE MCStringMerging ---------------------------
(***************************************************************************)
(* Instances of StringMerging for TLC.                                     *)
(***************************************************************************)
EXTENDS StringMerging

\* A hash that tells strings of the same length apart.
Hash(bytes) == (Len(bytes) + bytes[1]) % NumBuckets

S(bytes) == [data |-> bytes, str |-> TRUE]
D(bytes) == [data |-> bytes, str |-> FALSE]

Input(secs, size, parallelism) ==
    [sections |-> secs, size |-> size, parallelism |-> parallelism]

\* More groups than may be split at once, with strings that span groups and that several
\* groups share, in every schedule.
RacingInputs ==
    {Input(<<S(<<1, 0, 2, 0>>), S(<<1, 1, 1, 1, 1, 0>>), D(<<2, 0, 1>>), S(<<2, 0, 1, 0>>)>>, 4, 2)}

\* A bucket that grows too large, and beside it a section that does not end with a null.
LargeInputs ==
    {Input(<<S(<<1, 1, 1, 1, 1, 1, 1, 1, 1, 0>>), S(<<1, 0, 2>> \o end)>>, 4, 2)
       : end \in {<<0>>, <<2>>}}

\* Every string section of up to six bytes beside another one, and every data section,
\* one group at a time.
Sections(n) == UNION {[1 .. k -> {0, 1}] : k \in 1 .. n}

SplitInputs ==
    {Input(<<S(bytes)>>, size, 1) : bytes \in Sections(6), size \in {2, 4}}
    \cup {Input(<<S(<<1, 0, 0>>), S(bytes), D(<<1, 0>>)>>, 4, 1) : bytes \in Sections(4)}
    \cup {Input(<<D(bytes), S(<<0, 1, 1, 0, 1, 0>>)>>, 2, 1) : bytes \in Sections(3)}

MergeInputs == RacingInputs \cup LargeInputs \cup SplitInputs

=============================================================================
