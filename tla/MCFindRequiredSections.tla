----------------------- MODULE MCFindRequiredSections -----------------------
(***************************************************************************)
(* Small links for FindRequiredSections.                                   *)
(***************************************************************************)
EXTENDS FindRequiredSections

CONSTANTS gPre, gA, gB, gDyn, gSyn,
          mainSec, helperSec, deadSec, fooA, fooB, discSec,
          main, helper, buf, data, startFoo, disc, foo

R(k, s) == [kind |-> k, sym |-> s]

-----------------------------------------------------------------------------
(* What the links share: where sections and symbols live. *)

MCGroupOfSec == [x \in Section |-> IF x = fooB THEN gB ELSE gA]

MCGroupOfSym ==
    [s \in Symbol |-> CASE s \in {main, helper, disc} -> gA
                        [] s = buf -> gB
                        [] s = data -> gDyn
                        [] s = startFoo -> gSyn]

MCSectionOf ==
    [s \in Symbol |-> CASE s = main -> mainSec
                        [] s = helper -> helperSec
                        [] s = disc -> discSec
                        [] OTHER -> None]

MCBoundOf == [s \in Symbol |-> IF s = startFoo THEN foo ELSE None]
MCOutputOf == [x \in Section |-> IF x \in {fooA, fooB} THEN foo ELSE None]
MCOutput == {foo}
NoSections == {}
NoSymbols == {}

-----------------------------------------------------------------------------
(* One link with everything: the prelude requests main in A and __start_foo, which bounds a
   section of A that refers back to main and to helper; main refers to data of a shared object
   by a copy relocation, helper by a direct one; the shared object wants main and helper
   exported, A exports main itself, helper cannot be exported; nothing refers to A's dead
   section. *)

FullGroup == {gPre, gA, gDyn, gSyn}
FullSection == {mainSec, helperSec, deadSec, fooA}
FullSymbol == {main, helper, data, startFoo}
FullExportable == {main}
FullEligible == {fooA}

FullRelocs ==
    [x \in Section |->
        CASE x = mainSec -> {R("Copy", data), R("NoFlags", startFoo)}
          [] x = fooA -> {R("Direct", main), R("Direct", helper)}
          [] x = helperSec -> {R("Direct", data)}
          [] x = deadSec -> {R("Direct", helper)}
          [] OTHER -> {}]

FullRoots ==
    [g \in Group |->
        CASE g = gPre -> {R("Direct", main), R("Direct", startFoo)}
          [] g = gA -> {R("Own", main)}
          [] g = gDyn -> {R("Export", main), R("Export", helper)}
          [] OTHER -> {}]

-----------------------------------------------------------------------------
(* Errors: a reference to an undefined symbol, a relocation that cannot be applied, a
   section without an output section, an activation that fails. *)

ErrGroup == {gPre, gA, gB, gSyn}
ErrSection == {mainSec, discSec, fooB}
ErrSymbol == {main, disc, buf, startFoo}
ErrDiscard == {discSec}
ErrMustLoad == {fooB}

ErrRelocs ==
    [x \in Section |->
        CASE x = mainSec -> {R("Undef", buf), R("Bail", buf), R("Direct", disc)}
          [] OTHER -> {}]

ErrRoots ==
    [g \in Group |->
        CASE g = gPre -> {R("Direct", main), R("Mark", buf)}
          [] g = gB -> {R("Bail", buf), R("Direct", startFoo)}
          [] OTHER -> {}]

=============================================================================
