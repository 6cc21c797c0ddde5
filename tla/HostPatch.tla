----------------------------- MODULE HostPatch -----------------------------
(***************************************************************************)
(* cuga-flo patch-host (_hostpatch.py): the vendored patches are stamped   *)
(* onto the installed cuga-agent, one file each, and a marker records for  *)
(* which version and which set of patches.  The host is a git checkout, or *)
(* a wheel that patch(1) edits.  Between two commands the host may be      *)
(* upgraded, reinstalled or partly restored, and CUGA FLO itself may come  *)
(* with another set of patches; a command may be killed between two steps. *)
(***************************************************************************)
EXTENDS Naturals

CONSTANTS
    Patches,   \* number of patches; each changes a file of its own
    Versions,  \* versions of cuga-agent
    Sets,      \* vendored patch sets
    Text,      \* Text[s][p]: what patch p of the set s puts into its file
    Drifted    \* <<s, p, v>>: patch p of s does not apply to version v

Files == 1..Patches
Texts == UNION {{Text[s][f] : f \in Files} : s \in Sets}

\* Of a patch a file holds everything, some hunks only, or hunks in a wrong place.
Content(text, how) == [text |-> text, how |-> how]
Pristine == Content("", "whole")
Contents == {Pristine} \cup {Content(t, h) : t \in Texts, h \in {"whole", "part", "wrong"}}

ASSUME PatchesAreGiven ==
    /\ Patches \in Nat
    /\ \A s \in Sets : DOMAIN Text[s] = Files
    /\ "" \notin Texts
    /\ Drifted \subseteq Sets \X Files \X Versions

VARIABLES
    mode,     \* "git" or "patch"
    version,  \* of the installed cuga-agent
    set,      \* patch set of the installed cuga-flo
    conflicted, \* a .py file of the checkout that no patch changes has a conflict marker
    files,    \* content of each target file
    marker,   \* <<version, set>>, or <<>> when there is none
    cli,      \* step of the command: none, apply, undo, revert
    at,       \* the patch it is at
    result,   \* of the last command, until the host changes
    mixed     \* history: the set was replaced while a file was patched, and since then no
              \* checkout was patched to the end and nothing was reinstalled

hostVars == <<mode, version, set, conflicted, files, marker, cli, at, result, mixed>>
host     == <<mode, version, set, conflicted>>

AllPristine == [f \in Files |-> Pristine]
Wanted(f) == Content(Text[set][f], "whole")
Fits(f) == <<set, f, version>> \notin Drifted

HPInit ==
    /\ mode \in {"git", "patch"}
    /\ version \in Versions
    /\ set \in Sets
    /\ conflicted = FALSE
    /\ files = AllPristine
    /\ marker = <<>>
    /\ cli = "none"
    /\ at = 1
    /\ result = ""
    /\ mixed = FALSE
-----------------------------------------------------------------------------
\* Mutant of SignaturesPresent: nobody looks into the files.
SignaturesAssumed == TRUE

\* The signature of each patch is somewhere in its file.  A part of a patch may have it already.
SignaturesPresent == \A f \in Files : files[f] # Pristine

Check == marker = <<version, set>> /\ SignaturesPresent

Command(step) ==
    /\ cli = "none"
    /\ cli' = step
    /\ result' = ""

\* A git checkout is restored before the first patch; when git cannot (its index is locked, a
\* version lacks a target file), the command exits and nothing has changed.
BeginApply ==
    /\ \/ /\ Command("apply")
          /\ at' = 1
          /\ files' = IF mode = "git" THEN AllPristine ELSE files
       \/ /\ mode = "git"
          /\ cli = "none"
          /\ result' = "unrestored"
          /\ UNCHANGED <<files, cli, at>>
    /\ UNCHANGED <<host, marker, mixed>>

\* Mutant of Already: an applied patch is applied again.
AlreadyUnnoticed(f) == FALSE

\* The dry run of the reverse patch, on a wheel.
Already(f) == mode = "patch" /\ files[f] = Wanted(f)

\* What an attempt to apply a patch may make of its file, and whether patch(1) or git is content.
\* A conflict of git is one more part.  With a fuzz of 3 patch(1) needs no line of the context: a
\* hunk that only inserts lines goes in at its line number, whatever is there by now, and beside
\* an older text of the patch; only a part of the same patch is always noticed.
Attempts(f) ==
    LET part == Content(Text[set][f], "part")
    IN  IF files[f] = Pristine /\ Fits(f) THEN {<<Wanted(f), TRUE>>}
        ELSE IF mode = "git" \/ files[f] = part THEN {<<part, FALSE>>}
        ELSE {<<Content(Text[set][f], "wrong"), TRUE>>, <<part, FALSE>>, <<files[f], FALSE>>}

\* On a checkout every tracked .py file is searched for conflict markers, not only the targets.
Disturbed == mode = "git" /\ conflicted

ApplyOne ==
    /\ cli = "apply" /\ at \in Files
    /\ \/ /\ Already(at)
          /\ at' = at + 1
          /\ UNCHANGED <<files, cli>>
       \/ /\ ~ Already(at)
          /\ \E attempt \in Attempts(at) :
               /\ files' = [files EXCEPT ![at] = attempt[1]]
               /\ IF attempt[2] /\ ~ Disturbed
                  THEN at' = at + 1 /\ UNCHANGED cli
                  ELSE cli' = "undo" /\ UNCHANGED at
    /\ UNCHANGED <<host, marker, result, mixed>>

\* The patches before the k-th reversed.
Reversed(k) == [f \in Files |-> IF f < k /\ files[f] = Wanted(f) THEN Pristine ELSE files[f]]

\* Mutant of Undone: what was applied before stays.
UndoneNothing == files

\* After a failure git restores all files; on a wheel the patches before the failing one are
\* reversed, those of an earlier command included, and the failing one stays as it is.
Undone == IF mode = "git" THEN AllPristine ELSE Reversed(at)

\* Nobody looks whether git could restore the files.
Undo ==
    /\ cli = "undo"
    /\ cli' = "none"
    /\ \/ files' = Undone /\ result' = "failed"
       \/ mode = "git" /\ UNCHANGED files /\ result' = "unrestored"
    /\ UNCHANGED <<host, marker, at, mixed>>

Mark ==
    /\ cli = "apply" /\ at \notin Files
    /\ marker' = <<version, set>>
    /\ cli' = "none"
    /\ result' = "applied"
    /\ mixed' = (mixed /\ mode = "patch")
    /\ UNCHANGED <<host, files, at>>

\* On a checkout git restores the files, or cannot and nobody looks.
BeginRevert ==
    /\ Command("revert")
    /\ at' = IF mode = "git" THEN 0 ELSE Patches
    /\ files' \in IF mode = "git" THEN {AllPristine, files} ELSE {files}
    /\ UNCHANGED <<host, marker, mixed>>

\* What a reversed patch makes of its file; an error is ignored.
Reverted(f) ==
    IF files[f] \in {Wanted(f), Pristine} THEN {Pristine} ELSE {files[f], Content(Text[set][f], "part")}

RevertOne ==
    /\ cli = "revert" /\ at > 0
    /\ \E content \in Reverted(at) : files' = [files EXCEPT ![at] = content]
    /\ at' = at - 1
    /\ UNCHANGED <<host, marker, cli, result, mixed>>

\* Mutant of Unmark: the loop variable is stepped once more.
UnmarkSteppedOnce ==
    /\ cli = "revert" /\ at = 0
    /\ marker' = <<>>
    /\ cli' = "none"
    /\ at' = at - 1
    /\ result' = "reverted"
    /\ UNCHANGED <<host, files, mixed>>

Unmark ==
    /\ cli = "revert" /\ at = 0
    /\ marker' = <<>>
    /\ cli' = "none"
    /\ at' = 1
    /\ result' = "reverted"
    /\ UNCHANGED <<host, files, mixed>>

\* The command is killed, perhaps in the middle of undoing on a wheel.
Killed ==
    /\ cli # "none"
    /\ \E k \in 0..at : files' = IF cli = "undo" /\ mode = "patch" THEN Reversed(k) ELSE files
    /\ cli' = "none"
    /\ UNCHANGED <<host, marker, at, result, mixed>>
-----------------------------------------------------------------------------
\* pip install -U, or --force-reinstall: new files, and the marker of old.
Reinstall ==
    /\ cli = "none"
    /\ version' \in Versions
    /\ files' = AllPristine
    /\ mixed' = FALSE
    /\ result' = ""
    /\ UNCHANGED <<mode, set, conflicted, marker, cli, at>>

\* Another cuga-flo is installed.
NewPatchSet ==
    /\ cli = "none"
    /\ set' \in Sets \ {set}
    /\ mixed' = (mixed \/ files # AllPristine)
    /\ result' = ""
    /\ UNCHANGED <<mode, version, conflicted, files, marker, cli, at>>

\* A developer restores one file of the checkout.
Restore(f) ==
    /\ cli = "none"
    /\ mode = "git"
    /\ files' = [files EXCEPT ![f] = Pristine]
    /\ result' = ""
    /\ UNCHANGED <<host, marker, cli, at, mixed>>

\* A developer merges elsewhere in the checkout and leaves a conflict, or resolves it.
Merge ==
    /\ cli = "none"
    /\ mode = "git"
    /\ conflicted' = ~ conflicted
    /\ result' = ""
    /\ UNCHANGED <<mode, version, set, files, marker, cli, at, mixed>>

HostStep ==
    \/ BeginApply
    \/ ApplyOne
    \/ Undo
    \/ Mark
    \/ BeginRevert
    \/ RevertOne
    \/ Unmark
    \/ Killed
    \/ Reinstall
    \/ NewPatchSet
    \/ \E f \in Files : Restore(f)
    \/ Merge

Markers == {<<>>} \cup (Versions \X Sets)

HPTypeOK ==
    /\ mode \in {"git", "patch"}
    /\ version \in Versions
    /\ set \in Sets
    /\ conflicted \in BOOLEAN
    /\ files \in [Files -> Contents]
    /\ marker \in Markers
    /\ cli \in {"none", "apply", "undo", "revert"}
    /\ at \in Nat /\ at <= Patches + 1
    /\ result \in {"", "applied", "failed", "unrestored", "reverted"}
    /\ mixed \in BOOLEAN
=============================================================================
