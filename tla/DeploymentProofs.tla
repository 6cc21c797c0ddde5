-------------------------- MODULE DeploymentProofs --------------------------
(***************************************************************************)
(* What an installation promises, for every number of patches, versions,   *)
(* patch sets and definitions of flows.                                    *)
(*                                                                         *)
(* The check of the host looks at a marker and at one signature per patch. *)
(* That it says something of whole files is due to what holds between the  *)
(* commands: a file whose patch fits is untouched or whole (Fitting), and  *)
(* on a checkout the marker of a set is written only when all of its       *)
(* patches fit (Marked).  For the definitions, what a reading of the file  *)
(* has found is compared with the file by the time of the last save        *)
(* (Fresh, and Unsaved since the start).                                   *)
(***************************************************************************)
EXTENDS Deployment, TLAPS

Fitting == ~ mixed => \A f \in Files : Fits(f) => files[f] \in {Pristine, Wanted(f)}

\* On a checkout the patches before the current one fit and are applied, the others are not.
Applying ==
    /\ cli = "apply" => at > 0
    /\ cli = "apply" /\ mode = "git" =>
         \A f \in Files : IF f < at THEN files[f] = Wanted(f) /\ Fits(f) ELSE files[f] = Pristine

Undoing == cli = "undo" => at \in Files /\ (~ mixed => ~ Fits(at) \/ Disturbed)

Marked ==
    mode = "git" => \A v \in Versions, s \in Sets : marker = <<v, s>> => \A f \in Files : <<s, f, v>> \notin Drifted

Ongoing == cli # "none" => result = ""

\* The marker, which only two steps change, is looked at in lemmas of its own.
MarkerOK == marker \in Markers /\ Marked

\* The other types.
TypesOK ==
    /\ mode \in {"git", "patch"} /\ version \in Versions /\ set \in Sets /\ conflicted \in BOOLEAN
    /\ files \in [Files -> Contents]
    /\ cli \in {"none", "apply", "undo", "revert"}
    /\ at \in Nat /\ at <= Patches + 1
    /\ result \in {"", "applied", "failed", "unrestored", "reverted"}
    /\ mixed \in BOOLEAN

Working == Fitting /\ Applying /\ Undoing /\ Ongoing /\ FailureHasCause

HostOK == MarkerOK /\ TypesOK /\ Working

DefinitionTypes ==
    /\ FDTypeOK
    /\ app \in {"down", "up"}
    /\ started \in Nat

Times ==
    /\ saved <= now /\ policy <= now /\ written <= now
    /\ stamp <= now /\ seen <= now /\ started <= now

Registered == step \in {"asking", "building", "connecting", "ready", "reading", "running"}

Fresh ==
    /\ step = "stamping" /\ ~ missed => cache = yaml
    /\ Registered /\ ~ missed => cache = yaml \/ saved > stamp

\* Not saved since the start: all that was read is what is there.
Unsaved ==
    written <= started =>
        /\ step = "stamping" \/ Registered => cache = yaml
        /\ step \in {"connecting", "ready", "reading", "running"} => built = yaml
        /\ step = "running" => run = yaml

Definitions == DefinitionTypes /\ Times /\ Fresh /\ Unsaved

Inv == HostOK /\ RunsOnPatchedHost /\ Definitions
-----------------------------------------------------------------------------
(* The host *)

LEMMA PatchesNat == Patches \in Nat
  BY PatchesAreGiven

LEMMA WantedIsContent ==
  ASSUME HPTypeOK, NEW f \in Files
  PROVE  /\ Wanted(f) \in Contents /\ Wanted(f) # Pristine
         /\ \A how \in {"whole", "part", "wrong"} : Content(Text[set][f], how) \in Contents
<1>1. set \in Sets
  BY DEF HPTypeOK
<1>2. Text[set][f] \in Texts
  BY <1>1 DEF Texts
<1>3. Text[set][f] # ""
  BY <1>2, PatchesAreGiven
<1>4. \A how \in {"whole", "part", "wrong"} : Content(Text[set][f], how) \in Contents
  BY <1>2 DEF Contents
<1>5. Content(Text[set][f], "whole") # Content("", "whole")
  BY <1>3 DEF Content
<1>6. QED BY <1>4, <1>5 DEF Wanted, Pristine

LEMMA PristineIsContent == Pristine \in Contents /\ AllPristine \in [Files -> Contents]
  BY DEF Contents, AllPristine

LEMMA ReversedIsContent ==
  ASSUME HPTypeOK, NEW k \in Nat
  PROVE  /\ Reversed(k) \in [Files -> Contents]
         /\ \A f \in Files : Reversed(k)[f] \in {files[f], Pristine}
         /\ \A f \in Files : f < k /\ files[f] \in {Wanted(f), Pristine} => Reversed(k)[f] = Pristine
  BY PristineIsContent DEF Reversed, HPTypeOK

\* An attempt on a file that is untouched, or one that is noticed.
LEMMA AttemptFits ==
  ASSUME HPTypeOK, NEW f \in Files, NEW attempt \in Attempts(f)
  PROVE  /\ attempt[1] \in Contents /\ attempt[2] \in BOOLEAN
         /\ files[f] = Pristine /\ Fits(f) => attempt[1] = Wanted(f) /\ attempt[2] = TRUE
         /\ mode = "git" /\ files[f] = Pristine /\ attempt[2] = TRUE => attempt[1] = Wanted(f) /\ Fits(f)
<1>1. files[f] \in Contents
  BY DEF HPTypeOK
<1>2. CASE files[f] = Pristine /\ Fits(f)
  <2>1. attempt = <<Wanted(f), TRUE>>
    BY <1>2 DEF Attempts
  <2>2. QED BY <1>2, <2>1, WantedIsContent
<1>3. CASE ~ (files[f] = Pristine /\ Fits(f))
  <2> DEFINE part == Content(Text[set][f], "part")
             wrong == Content(Text[set][f], "wrong")
  <2>1. part \in Contents /\ wrong \in Contents
    BY WantedIsContent
  <2>2. attempt \in {<<wrong, TRUE>>, <<part, FALSE>>, <<files[f], FALSE>>}
    BY <1>3 DEF Attempts
  <2>3. mode = "git" => attempt = <<part, FALSE>>
    BY <1>3 DEF Attempts
  <2> HIDE DEF part, wrong
  <2>4. CASE attempt = <<wrong, TRUE>>
    <3>1. mode # "git"
      BY <2>3, <2>4
    <3>2. QED BY <1>3, <2>1, <2>4, <3>1
  <2>5. CASE attempt = <<part, FALSE>>
    BY <1>3, <2>1, <2>5
  <2>6. CASE attempt = <<files[f], FALSE>>
    BY <1>1, <1>3, <2>6
  <2>7. QED BY <2>2, <2>4, <2>5, <2>6
<1>4. QED BY <1>2, <1>3

LEMMA MarkerStays ==
  ASSUME MarkerOK, UNCHANGED <<mode, marker>>
  PROVE  MarkerOK'
  BY DEF MarkerOK, Marked

LEMMA TypesSplit == HPTypeOK <=> marker \in Markers /\ TypesOK
  BY DEF HPTypeOK, TypesOK

LEMMA FilesAreNumbers == \A f \in Files : f \in Nat /\ f >= 1 /\ f <= Patches
  BY PatchesNat DEF Files

LEMMA HostStays ==
  ASSUME UNCHANGED host
  PROVE  /\ \A f \in Files : (Fits(f)' <=> Fits(f)) /\ Wanted(f)' = Wanted(f)
         /\ Disturbed' <=> Disturbed
  BY DEF host, Fits, Wanted, Disturbed

LEMMA NoFailure ==
  ASSUME result' # "failed" \/ cli' # "none"
  PROVE  FailureHasCause'
  BY DEF FailureHasCause

\* Untouched files fit.
LEMMA UntouchedFits == ASSUME files' = AllPristine PROVE Fitting'
  BY DEF Fitting, AllPristine

LEMMA FittingStays == ASSUME Fitting, UNCHANGED host, UNCHANGED <<files, mixed>> PROVE Fitting'
  BY HostStays DEF Fitting

\* Git cannot restore the files, and the command exits.
LEMMA UnrestoredKeepsHost ==
  ASSUME HostOK, cli = "none", cli' = cli, result' = "unrestored", UNCHANGED <<host, marker, mixed>>,
         files' = files, at' = at
  PROVE  HostOK'
<1>1. /\ UNCHANGED <<mode, version, set, conflicted>> /\ UNCHANGED <<mode, marker>>
      /\ UNCHANGED <<files, mixed>> /\ UNCHANGED host
  BY DEF host
<1>2. TypesOK /\ MarkerOK /\ Fitting
  BY DEF HostOK, Working
<1>3. TypesOK' /\ MarkerOK'
  BY <1>1, <1>2, MarkerStays DEF TypesOK
<1>4. Fitting' /\ Applying' /\ Undoing' /\ Ongoing' /\ FailureHasCause'
  BY <1>1, <1>2, FittingStays, NoFailure DEF Applying, Undoing, Ongoing
<1>5. QED BY <1>3, <1>4 DEF HostOK, Working

LEMMA BeginApplyKeepsHost == ASSUME HostOK, BeginApply PROVE HostOK'
<1>1. CASE Command("apply") /\ at' = 1 /\ files' = IF mode = "git" THEN AllPristine ELSE files
  <2>1. /\ cli' = "apply" /\ result' = ""
        /\ UNCHANGED <<mode, version, set, conflicted>> /\ UNCHANGED <<marker, mixed>> /\ UNCHANGED host
        /\ mode = "git" => files' = AllPristine
        /\ mode # "git" => files' = files
    BY <1>1 DEF BeginApply, Command, host
  <2>2. at' = 1
    BY <1>1
  <2>3. TypesOK /\ MarkerOK /\ Fitting
    BY DEF HostOK, Working
  <2>4. TypesOK'
    <3>1. files' \in [Files -> Contents]
      BY <2>1, <2>3, PristineIsContent DEF TypesOK
    <3>2. at' \in Nat /\ at' <= Patches + 1
      BY <2>2, PatchesNat
    <3>3. QED BY <2>1, <2>3, <3>1, <3>2 DEF TypesOK
  <2>5. MarkerOK'
    BY <2>1, <2>3, MarkerStays
  <2>6. Fitting'
    BY <2>1, <2>3, UntouchedFits, FittingStays
  <2>7. Applying'
    <3>1. ASSUME mode = "git", NEW f \in Files
          PROVE  files'[f] = Pristine /\ ~ (f < at')
      <4>1. ~ (f < at')
        BY <2>2, FilesAreNumbers
      <4>2. files'[f] = Pristine
        BY <2>1, <3>1 DEF AllPristine
      <4>3. QED BY <4>1, <4>2
    <3>2. at' > 0
      BY <2>2
    <3>3. QED BY <2>1, <3>1, <3>2 DEF Applying
  <2>8. Undoing' /\ Ongoing' /\ FailureHasCause'
    BY <2>1, NoFailure DEF Undoing, Ongoing
  <2>9. QED BY <2>4, <2>5, <2>6, <2>7, <2>8 DEF HostOK, Working
<1>2. CASE mode = "git" /\ cli = "none" /\ result' = "unrestored" /\ UNCHANGED <<files, cli, at>>
  BY <1>2, UnrestoredKeepsHost DEF BeginApply
<1>3. QED BY <1>1, <1>2 DEF BeginApply

LEMMA BeginRevertKeepsHost == ASSUME HostOK, BeginRevert PROVE HostOK'
<1>1. /\ cli' = "revert" /\ result' = ""
      /\ UNCHANGED <<mode, version, set, conflicted>> /\ UNCHANGED <<marker, mixed>> /\ UNCHANGED host
      /\ files' = AllPristine \/ files' = files
  BY DEF BeginRevert, Command, host
<1>2. at' = 0 \/ at' = Patches
  BY DEF BeginRevert
<1>3. TypesOK /\ MarkerOK /\ Fitting
  BY DEF HostOK, Working
<1>4. TypesOK'
  <2>1. files' \in [Files -> Contents]
    BY <1>1, <1>3, PristineIsContent DEF TypesOK
  <2>2. at' \in Nat /\ at' <= Patches + 1
    BY <1>2, PatchesNat
  <2>3. QED BY <1>1, <1>3, <2>1, <2>2 DEF TypesOK
<1>5. MarkerOK'
  BY <1>1, <1>3, MarkerStays
<1>6. Fitting'
  BY <1>1, <1>3, UntouchedFits, FittingStays
<1>7. Applying' /\ Undoing' /\ Ongoing'
  BY <1>1 DEF Applying, Undoing, Ongoing
<1>8. FailureHasCause'
  BY <1>1, NoFailure
<1>9. QED BY <1>4, <1>5, <1>6, <1>7, <1>8 DEF HostOK, Working

\* What a patch makes of its file.
LEMMA AttemptOutcome ==
  ASSUME HostOK, ApplyOne, ~ Already(at)
  PROVE  \E new \in Contents, ok \in BOOLEAN :
           /\ ~ mixed /\ Fits(at) => new = Wanted(at) /\ (ok = TRUE \/ Disturbed)
           /\ mode = "git" /\ ok = TRUE => new = Wanted(at) /\ Fits(at)
           /\ files' = [files EXCEPT ![at] = new]
           /\ ok = TRUE => cli' = "apply" /\ at' = at + 1
           /\ ok # TRUE => cli' = "undo" /\ at' = at
<1>1. HPTypeOK /\ Fitting /\ Applying /\ mode \in {"git", "patch"} /\ cli = "apply" /\ at \in Files
  BY TypesSplit DEF HostOK, MarkerOK, Working, TypesOK, ApplyOne
<1>2. PICK attempt \in Attempts(at) :
        /\ files' = [files EXCEPT ![at] = attempt[1]]
        /\ IF attempt[2] /\ ~ Disturbed
           THEN at' = at + 1 /\ UNCHANGED cli
           ELSE cli' = "undo" /\ UNCHANGED at
  BY DEF ApplyOne
<1>3. /\ attempt[1] \in Contents /\ attempt[2] \in BOOLEAN
      /\ files[at] = Pristine /\ Fits(at) => attempt[1] = Wanted(at) /\ attempt[2] = TRUE
      /\ mode = "git" /\ files[at] = Pristine /\ attempt[2] = TRUE => attempt[1] = Wanted(at) /\ Fits(at)
  BY <1>1, AttemptFits
<1>4. mode = "git" => files[at] = Pristine
  BY <1>1, FilesAreNumbers DEF Applying
<1>5. mode = "patch" /\ ~ mixed /\ Fits(at) => files[at] = Pristine
  BY <1>1 DEF Fitting, Already
<1>6. /\ ~ mixed /\ Fits(at) => attempt[1] = Wanted(at) /\ attempt[2] = TRUE
      /\ mode = "git" /\ attempt[2] = TRUE => attempt[1] = Wanted(at) /\ Fits(at)
  BY <1>1, <1>3, <1>4, <1>5
<1>7. CASE attempt[2] = TRUE /\ ~ Disturbed
  <2>1. cli' = "apply" /\ at' = at + 1
    BY <1>1, <1>2, <1>7
  <2>2. QED BY <1>2, <1>3, <1>6, <1>7, <2>1
<1>8. CASE ~ (attempt[2] = TRUE /\ ~ Disturbed)
  <2>1. cli' = "undo" /\ at' = at
    BY <1>2, <1>3, <1>8
  <2>2. ~ mixed /\ Fits(at) => attempt[1] = Wanted(at) /\ Disturbed
    BY <1>6, <1>8
  <2>3. FALSE # TRUE /\ FALSE \in BOOLEAN
    OBVIOUS
  <2>4. QED BY <1>2, <1>3, <2>1, <2>2, <2>3
<1>9. QED BY <1>7, <1>8

LEMMA ApplyOneKeepsHost == ASSUME HostOK, ApplyOne PROVE HostOK'
<1>1. /\ cli = "apply" /\ at \in Files /\ result = ""
      /\ UNCHANGED <<mode, version, set, conflicted>> /\ UNCHANGED <<marker, result, mixed>> /\ UNCHANGED host
  BY DEF ApplyOne, HostOK, Working, Ongoing, host
<1>2. at \in Nat /\ at + 1 \in Nat /\ at + 1 <= Patches + 1
  <2>1. at \in Files
    BY DEF ApplyOne
  <2>2. QED BY <2>1, FilesAreNumbers, PatchesNat
<1>3. /\ \A f \in Files : (Fits(f)' <=> Fits(f)) /\ Wanted(f)' = Wanted(f)
      /\ Disturbed' <=> Disturbed
  BY <1>1, HostStays
<1>4. TypesOK /\ MarkerOK /\ Fitting /\ Applying
  BY DEF HostOK, Working
<1>5. MarkerOK' /\ FailureHasCause' /\ Ongoing'
  BY <1>1, <1>4, MarkerStays, NoFailure DEF Ongoing
<1>6. CASE Already(at)
  <2>1. files' = files /\ cli' = cli /\ mode = "patch"
    BY <1>6 DEF ApplyOne, Already
  <2>2. at' = at + 1
    BY <1>6 DEF ApplyOne
  <2>3. at' \in Nat /\ at' <= Patches + 1 /\ at' > 0
    BY <1>2, <2>2
  <2>4. TypesOK'
    BY <1>1, <1>4, <2>1, <2>3 DEF TypesOK
  <2>5. Fitting'
    BY <1>1, <1>4, <2>1, FittingStays
  <2>6. Applying' /\ Undoing'
    BY <1>1, <2>1, <2>3 DEF Applying, Undoing
  <2>7. QED BY <1>5, <2>4, <2>5, <2>6 DEF HostOK, Working
<1>7. CASE ~ Already(at)
  <2>1. PICK new \in Contents, ok \in BOOLEAN :
          /\ ~ mixed /\ Fits(at) => new = Wanted(at) /\ (ok = TRUE \/ Disturbed)
          /\ mode = "git" /\ ok = TRUE => new = Wanted(at) /\ Fits(at)
          /\ files' = [files EXCEPT ![at] = new]
          /\ ok = TRUE => cli' = "apply" /\ at' = at + 1
          /\ ok # TRUE => cli' = "undo" /\ at' = at
    BY <1>7, AttemptOutcome
  <2>2. files' \in [Files -> Contents] /\ files'[at] = new /\ \A f \in Files : f # at => files'[f] = files[f]
    BY <1>1, <1>4, <2>1 DEF TypesOK
  <2>3. Fitting'
    BY <1>1, <1>3, <1>4, <2>1, <2>2 DEF Fitting
  <2>4. CASE ok = TRUE
    <3>1. cli' = "apply"
      BY <2>1, <2>4
    <3>2. at' = at + 1
      BY <2>1, <2>4
    <3>3. at' \in Nat /\ at' <= Patches + 1 /\ at' > 0
      BY <1>2, <3>2
    <3>4. TypesOK'
      BY <1>1, <1>4, <2>2, <3>1, <3>3 DEF TypesOK
    <3>5. ASSUME mode = "git", NEW f \in Files
          PROVE  IF f < at' THEN files'[f] = Wanted(f) /\ Fits(f) ELSE files'[f] = Pristine
      <4>1. IF f < at THEN files[f] = Wanted(f) /\ Fits(f) ELSE files[f] = Pristine
        BY <1>1, <1>4, <3>5 DEF Applying
      <4>2. CASE f = at
        <5>1. f < at'
          BY <1>2, <3>2, <4>2
        <5>2. files'[f] = Wanted(f) /\ Fits(f)
          BY <2>1, <2>2, <2>4, <3>5, <4>2
        <5>3. QED BY <5>1, <5>2
      <4>3. CASE f # at
        <5>1. f < at' <=> f < at
          BY <1>2, <3>2, <4>3, FilesAreNumbers
        <5>2. files'[f] = files[f]
          BY <2>2, <4>3
        <5>3. QED BY <4>1, <5>1, <5>2
      <4>4. QED BY <4>2, <4>3
    <3>6. Applying'
      BY <1>1, <1>3, <3>3, <3>5 DEF Applying
    <3>7. Undoing'
      BY <3>1 DEF Undoing
    <3>8. QED BY <1>5, <2>3, <3>4, <3>6, <3>7 DEF HostOK, Working
  <2>5. CASE ok # TRUE
    <3>1. cli' = "undo" /\ at' = at
      BY <2>1, <2>5
    <3>2. ~ mixed => ~ Fits(at) \/ Disturbed
      BY <2>1, <2>5
    <3>3. TypesOK'
      BY <1>1, <1>4, <2>2, <3>1 DEF TypesOK
    <3>4. Applying' /\ Undoing'
      BY <1>1, <1>3, <3>1, <3>2 DEF Applying, Undoing
    <3>5. QED BY <1>5, <2>3, <3>3, <3>4 DEF HostOK, Working
  <2>6. QED BY <2>4, <2>5
<1>8. QED BY <1>6, <1>7

LEMMA UndoKeepsHost == ASSUME HostOK, Undo PROVE HostOK'
<1>1. /\ cli = "undo" /\ cli' = "none"
      /\ \/ files' = Undone /\ result' = "failed"
         \/ mode = "git" /\ files' = files /\ result' = "unrestored"
      /\ UNCHANGED <<mode, version, set, conflicted>> /\ UNCHANGED <<marker, mixed>> /\ UNCHANGED host
  BY DEF Undo, host
<1>2. at' = at
  BY DEF Undo
<1>3. TypesOK /\ HPTypeOK /\ MarkerOK /\ Fitting /\ Undoing
  BY TypesSplit DEF HostOK, Working, MarkerOK
<1>4. /\ files' \in [Files -> Contents]
      /\ \A f \in Files : files'[f] \in {files[f], Pristine}
      /\ result' = "failed" /\ mode = "git" => \A f \in Files : files'[f] = Pristine
      /\ result' = "failed" /\ mode # "git" =>
           \A f \in Files : f < at /\ files[f] \in {Wanted(f), Pristine} => files'[f] = Pristine
  <2>1. at \in Nat
    BY <1>3 DEF TypesOK
  <2>2. CASE files' = Undone /\ mode = "git"
    <3>1. files' = AllPristine
      BY <2>2 DEF Undone
    <3>2. \A f \in Files : files'[f] = Pristine
      BY <3>1 DEF AllPristine
    <3>3. QED BY <2>2, <3>1, <3>2, PristineIsContent
  <2>3. CASE files' = Undone /\ mode # "git"
    <3>1. files' = Reversed(at)
      BY <2>3 DEF Undone
    <3>2. QED BY <1>3, <2>1, <2>3, <3>1, ReversedIsContent
  <2>4. CASE files' = files /\ result' = "unrestored"
    <3>1. files' \in [Files -> Contents]
      BY <1>3, <2>4 DEF TypesOK
    <3>2. QED BY <2>4, <3>1
  <2>5. QED BY <1>1, <2>2, <2>3, <2>4
<1>5. /\ \A f \in Files : (Fits(f)' <=> Fits(f)) /\ Wanted(f)' = Wanted(f)
      /\ Disturbed' <=> Disturbed
  BY <1>1, HostStays
<1>6. TypesOK'
  BY <1>1, <1>2, <1>3, <1>4 DEF TypesOK
<1>7. MarkerOK'
  BY <1>1, <1>3, MarkerStays
<1>8. Fitting'
  BY <1>1, <1>3, <1>4, <1>5 DEF Fitting
<1>9. Applying' /\ Undoing' /\ Ongoing'
  BY <1>1 DEF Applying, Undoing, Ongoing
<1>10. FailureHasCause'
  <2>1. ASSUME ~ mixed PROVE ~ Fits(at)' \/ Disturbed'
    <3>1. at \in Files /\ (~ Fits(at) \/ Disturbed)
      BY <1>1, <1>3, <2>1 DEF Undoing
    <3>2. Fits(at)' <=> Fits(at)
      BY <1>1, <1>2 DEF Fits, host
    <3>3. QED BY <1>5, <3>1, <3>2
  <2>2. ASSUME ~ mixed, result' = "failed", NEW f \in Files, mode = "git" \/ (f < at /\ Fits(f))
        PROVE  files'[f] = Pristine
    BY <1>3, <1>4, <2>2 DEF Fitting
  <2>3. QED BY <1>1, <1>2, <1>5, <2>1, <2>2 DEF FailureHasCause
<1>11. QED BY <1>6, <1>7, <1>8, <1>9, <1>10 DEF HostOK, Working

\* The marker says for which host the patches fitted.
LEMMA MarkKeepsHost == ASSUME HostOK, Mark PROVE HostOK'
<1>1. /\ cli = "apply" /\ cli' = "none" /\ result' = "applied"
      /\ UNCHANGED <<mode, version, set, conflicted>> /\ files' = files /\ UNCHANGED host
      /\ mode = "git" => mixed' = FALSE
      /\ mode # "git" => mixed' = mixed
      /\ mixed' \in BOOLEAN
  <2>1. mode \in {"git", "patch"} /\ mixed \in BOOLEAN
    BY DEF HostOK, TypesOK
  <2>2. QED BY <2>1 DEF Mark, host
<1>2. at' = at
  BY DEF Mark
<1>3. marker' = <<version, set>>
  BY DEF Mark
<1>4. TypesOK /\ Fitting /\ Applying
  BY DEF HostOK, Working
<1>5. TypesOK'
  BY <1>1, <1>2, <1>4 DEF TypesOK
<1>6. ASSUME mode = "git", NEW f \in Files
      PROVE  Fits(f) /\ files[f] = Wanted(f)
  <2>1. at \in Nat /\ at > 0 /\ at \notin Files
    BY <1>1, <1>4 DEF TypesOK, Applying, Mark
  <2>2. f < at
    BY <2>1, FilesAreNumbers, PatchesNat DEF Files
  <2>3. QED BY <1>1, <1>4, <1>6, <2>2 DEF Applying
<1>7. Fitting'
  <2>1. \A f \in Files : (Fits(f)' <=> Fits(f)) /\ Wanted(f)' = Wanted(f)
    BY <1>1, HostStays
  <2>2. CASE mode = "git"
    BY <1>1, <1>6, <2>1, <2>2 DEF Fitting
  <2>3. CASE mode # "git"
    BY <1>1, <1>4, <2>1, <2>3 DEF Fitting
  <2>4. QED BY <2>2, <2>3
<1>8. MarkerOK'
  <2>1. version \in Versions /\ set \in Sets
    BY <1>4 DEF TypesOK
  <2>2. marker' \in Markers'
    BY <1>3, <2>1 DEF Markers
  <2>3. ASSUME mode' = "git", NEW v \in Versions, NEW s \in Sets, marker' = <<v, s>>, NEW f \in Files
        PROVE  <<s, f, v>> \notin Drifted
    <3>1. v = version /\ s = set
      BY <1>3, <2>3
    <3>2. QED BY <1>1, <1>6, <2>3, <3>1 DEF Fits
  <2>4. Marked'
    BY <2>3 DEF Marked
  <2>5. QED BY <2>2, <2>4 DEF MarkerOK
<1>9. Applying' /\ Undoing' /\ Ongoing'
  BY <1>1 DEF Applying, Undoing, Ongoing
<1>10. FailureHasCause'
  BY <1>1, NoFailure
<1>11. QED BY <1>5, <1>7, <1>8, <1>9, <1>10 DEF HostOK, Working

LEMMA RevertOneKeepsHost == ASSUME HostOK, RevertOne PROVE HostOK'
<1>1. /\ cli = "revert" /\ cli' = "revert" /\ result = "" /\ result' = ""
      /\ UNCHANGED <<mode, version, set, conflicted>> /\ UNCHANGED <<marker, mixed>> /\ UNCHANGED host
  BY DEF RevertOne, HostOK, Working, Ongoing, host
<1>2. TypesOK /\ HPTypeOK /\ MarkerOK /\ Fitting
  BY TypesSplit DEF HostOK, Working, MarkerOK
<1>3. at \in Nat /\ at <= Patches + 1 /\ at > 0 /\ at' = at - 1
  BY <1>2 DEF RevertOne, TypesOK
<1>4. at' \in Nat /\ at' <= Patches + 1
  BY <1>3, PatchesNat
<1>5. PICK content \in Reverted(at) : files' = [files EXCEPT ![at] = content]
  BY DEF RevertOne
<1>6. /\ files' \in [Files -> Contents]
      /\ \A f \in Files : files'[f] = files[f] \/ (files[f] \in {Pristine, Wanted(f)} => files'[f] = Pristine)
  <2>1. CASE at \in Files
    <3>1. content \in Contents
      <4>1. files[at] \in Contents /\ Pristine \in Contents /\ Content(Text[set][at], "part") \in Contents
        BY <1>2, <2>1, PristineIsContent, WantedIsContent DEF TypesOK
      <4>2. content \in {Pristine, files[at], Content(Text[set][at], "part")}
        BY <1>5 DEF Reverted
      <4>3. QED BY <4>1, <4>2
    <3>2. files[at] \in {Pristine, Wanted(at)} => content = Pristine
      BY <1>5 DEF Reverted
    <3>3. QED BY <1>2, <1>5, <2>1, <3>1, <3>2 DEF TypesOK
  <2>2. CASE at \notin Files
    <3>1. files' = files
      BY <1>2, <1>5, <2>2 DEF TypesOK
    <3>2. QED BY <1>2, <3>1 DEF TypesOK
  <2>3. QED BY <2>1, <2>2
<1>7. TypesOK'
  BY <1>1, <1>2, <1>4, <1>6 DEF TypesOK
<1>8. \A f \in Files : (Fits(f)' <=> Fits(f)) /\ Wanted(f)' = Wanted(f)
  BY <1>1, HostStays
<1>9. Fitting'
  BY <1>1, <1>2, <1>6, <1>8 DEF Fitting
<1>10. MarkerOK' /\ Applying' /\ Undoing' /\ Ongoing' /\ FailureHasCause'
  BY <1>1, <1>2, MarkerStays, NoFailure DEF Applying, Undoing, Ongoing
<1>11. QED BY <1>7, <1>9, <1>10 DEF HostOK, Working

LEMMA UnmarkKeepsHost == ASSUME HostOK, Unmark PROVE HostOK'
<1>1. /\ cli' = "none" /\ result' = "reverted" /\ UNCHANGED <<mode, version, set, conflicted>>
      /\ UNCHANGED <<files, mixed>> /\ UNCHANGED host
  BY DEF Unmark, host
<1>2. marker' = <<>> /\ at' = 1
  BY DEF Unmark
<1>3. TypesOK /\ Fitting
  BY DEF HostOK, Working
<1>4. at' \in Nat /\ at' <= Patches + 1
  BY <1>2, PatchesNat
<1>5. TypesOK'
  BY <1>1, <1>3, <1>4 DEF TypesOK
<1>6. MarkerOK'
  <2>1. marker' \in Markers
    BY <1>2 DEF Markers
  <2>2. \A v \in Versions, s \in Sets : marker' # <<v, s>>
    BY <1>2
  <2>3. QED BY <2>1, <2>2 DEF MarkerOK, Marked
<1>7. Fitting' /\ Applying' /\ Undoing' /\ Ongoing' /\ FailureHasCause'
  BY <1>1, <1>3, FittingStays, NoFailure DEF Applying, Undoing, Ongoing
<1>8. QED BY <1>5, <1>6, <1>7 DEF HostOK, Working

\* Killed in the middle of undoing, some of the applied patches are reversed.
LEMMA KilledKeepsHost == ASSUME HostOK, Killed PROVE HostOK'
<1>1. /\ cli # "none" /\ cli' = "none" /\ result' = ""
      /\ UNCHANGED <<mode, version, set, conflicted>> /\ UNCHANGED <<marker, mixed>> /\ UNCHANGED host
  BY DEF Killed, HostOK, Working, Ongoing, host
<1>2. at' = at
  BY DEF Killed
<1>3. TypesOK /\ HPTypeOK /\ MarkerOK /\ Fitting
  BY TypesSplit DEF HostOK, Working, MarkerOK
<1>4. PICK k \in 0..at : files' = IF cli = "undo" /\ mode = "patch" THEN Reversed(k) ELSE files
  BY DEF Killed
<1>5. k \in Nat
  <2>1. at \in Nat
    BY <1>3 DEF TypesOK
  <2>2. QED BY <1>4, <2>1
<1>6. files' \in [Files -> Contents] /\ \A f \in Files : files'[f] \in {files[f], Pristine}
  <2>1. files' = files \/ files' = Reversed(k)
    BY <1>4
  <2>2. files \in [Files -> Contents]
    BY <1>3 DEF TypesOK
  <2>3. QED BY <1>3, <1>5, <2>1, <2>2, ReversedIsContent
<1>7. TypesOK'
  BY <1>1, <1>2, <1>3, <1>6 DEF TypesOK
<1>8. \A f \in Files : (Fits(f)' <=> Fits(f)) /\ Wanted(f)' = Wanted(f)
  BY <1>1, HostStays
<1>9. Fitting'
  BY <1>1, <1>3, <1>6, <1>8 DEF Fitting
<1>10. MarkerOK' /\ Applying' /\ Undoing' /\ Ongoing' /\ FailureHasCause'
  BY <1>1, <1>3, MarkerStays, NoFailure DEF Applying, Undoing, Ongoing
<1>11. QED BY <1>7, <1>9, <1>10 DEF HostOK, Working

LEMMA ReinstallKeepsHost == ASSUME HostOK, Reinstall PROVE HostOK'
<1>1. /\ cli = "none" /\ cli' = "none" /\ result' = "" /\ version' \in Versions /\ mixed' = FALSE
      /\ files' = AllPristine /\ UNCHANGED <<mode, set, conflicted>> /\ UNCHANGED <<mode, marker>>
  BY DEF Reinstall
<1>2. at' = at
  BY DEF Reinstall
<1>3. TypesOK /\ MarkerOK
  BY DEF HostOK
<1>4. TypesOK'
  BY <1>1, <1>2, <1>3, PristineIsContent DEF TypesOK
<1>5. MarkerOK' /\ Fitting' /\ Applying' /\ Undoing' /\ Ongoing' /\ FailureHasCause'
  BY <1>1, <1>3, MarkerStays, UntouchedFits, NoFailure DEF Applying, Undoing, Ongoing
<1>6. QED BY <1>4, <1>5 DEF HostOK, Working

LEMMA NewPatchSetKeepsHost == ASSUME HostOK, NewPatchSet PROVE HostOK'
<1>1. /\ cli = "none" /\ cli' = "none" /\ result' = "" /\ set' \in Sets /\ files' = files
      /\ UNCHANGED <<mode, version, conflicted>> /\ UNCHANGED <<mode, marker>>
      /\ mixed' = (mixed \/ files # AllPristine)
  BY DEF NewPatchSet
<1>2. at' = at
  BY DEF NewPatchSet
<1>3. TypesOK /\ MarkerOK
  BY DEF HostOK
<1>4. mixed' \in BOOLEAN
  BY <1>1
<1>5. TypesOK'
  BY <1>1, <1>2, <1>3, <1>4 DEF TypesOK
<1>6. Fitting'
  <2>1. CASE files = AllPristine
    BY <1>1, <2>1, UntouchedFits
  <2>2. CASE files # AllPristine
    BY <1>1, <2>2 DEF Fitting
  <2>3. QED BY <2>1, <2>2
<1>7. MarkerOK' /\ Applying' /\ Undoing' /\ Ongoing' /\ FailureHasCause'
  BY <1>1, <1>3, MarkerStays, NoFailure DEF Applying, Undoing, Ongoing
<1>8. QED BY <1>5, <1>6, <1>7 DEF HostOK, Working

LEMMA RestoreKeepsHost == ASSUME HostOK, NEW g \in Files, Restore(g) PROVE HostOK'
<1>1. /\ cli = "none" /\ cli' = "none" /\ result' = "" /\ files' = [files EXCEPT ![g] = Pristine]
      /\ UNCHANGED <<mode, version, set, conflicted>> /\ UNCHANGED <<marker, mixed>> /\ UNCHANGED host
  BY DEF Restore, host
<1>2. at' = at
  BY DEF Restore
<1>3. TypesOK /\ MarkerOK /\ Fitting
  BY DEF HostOK, Working
<1>4. files' \in [Files -> Contents] /\ \A f \in Files : files'[f] \in {files[f], Pristine}
  BY <1>1, <1>3, PristineIsContent DEF TypesOK
<1>5. TypesOK'
  BY <1>1, <1>2, <1>3, <1>4 DEF TypesOK
<1>6. \A f \in Files : (Fits(f)' <=> Fits(f)) /\ Wanted(f)' = Wanted(f)
  BY <1>1, HostStays
<1>7. Fitting'
  BY <1>1, <1>3, <1>4, <1>6 DEF Fitting
<1>8. MarkerOK' /\ Applying' /\ Undoing' /\ Ongoing' /\ FailureHasCause'
  BY <1>1, <1>3, MarkerStays, NoFailure DEF Applying, Undoing, Ongoing
<1>9. QED BY <1>5, <1>7, <1>8 DEF HostOK, Working

LEMMA MergeKeepsHost == ASSUME HostOK, Merge PROVE HostOK'
<1>1. /\ cli = "none" /\ cli' = "none" /\ result' = "" /\ conflicted' = ~ conflicted
      /\ UNCHANGED <<mode, version, set>> /\ UNCHANGED <<mode, marker>> /\ UNCHANGED <<files, mixed>>
  BY DEF Merge
<1>2. at' = at
  BY DEF Merge
<1>3. TypesOK /\ MarkerOK /\ Fitting
  BY DEF HostOK, Working
<1>4. conflicted' \in BOOLEAN
  BY <1>1
<1>5. TypesOK'
  BY <1>1, <1>2, <1>3, <1>4 DEF TypesOK
<1>6. Fitting'
  BY <1>1, <1>3 DEF Fitting, Fits, Wanted
<1>7. MarkerOK' /\ Applying' /\ Undoing' /\ Ongoing' /\ FailureHasCause'
  BY <1>1, <1>3, MarkerStays, NoFailure DEF Applying, Undoing, Ongoing
<1>8. QED BY <1>5, <1>6, <1>7 DEF HostOK, Working

LEMMA HostStepKeepsHost == ASSUME HostOK, HostStep PROVE HostOK'
  BY BeginApplyKeepsHost, ApplyOneKeepsHost, UndoKeepsHost, MarkKeepsHost, BeginRevertKeepsHost,
     RevertOneKeepsHost, UnmarkKeepsHost, KilledKeepsHost, ReinstallKeepsHost, NewPatchSetKeepsHost,
     RestoreKeepsHost, MergeKeepsHost DEF HostStep

LEMMA IdleKeepsHost == ASSUME HostOK, UNCHANGED hostVars PROVE HostOK'
<1>1. /\ UNCHANGED <<mode, version, set, conflicted>> /\ UNCHANGED <<cli, result, mixed>>
      /\ UNCHANGED <<mode, marker>> /\ UNCHANGED host
  BY DEF hostVars, host
<1>2. at' = at /\ files' = files
  BY DEF hostVars
<1>3. TypesOK /\ MarkerOK /\ Fitting /\ Applying /\ Undoing /\ Ongoing /\ FailureHasCause
  BY DEF HostOK, Working
<1>4. \A f \in Files : (Fits(f)' <=> Fits(f)) /\ Wanted(f)' = Wanted(f)
  BY <1>1, HostStays
<1>5. (Fits(at)' <=> Fits(at)) /\ (Disturbed' <=> Disturbed)
  BY <1>1, <1>2 DEF Fits, host, Disturbed
<1>6. TypesOK' /\ MarkerOK'
  BY <1>1, <1>2, <1>3, MarkerStays DEF TypesOK
<1>7. Fitting' /\ Ongoing'
  BY <1>1, <1>2, <1>3, FittingStays DEF Ongoing
<1>8. Applying'
  BY <1>1, <1>2, <1>3, <1>4 DEF Applying
<1>9. Undoing' /\ FailureHasCause'
  BY <1>1, <1>2, <1>3, <1>4, <1>5 DEF Undoing, FailureHasCause
<1>10. QED BY <1>6, <1>7, <1>8, <1>9 DEF HostOK, Working

\* What the check says of the files.
LEMMA CheckedIsPatched ==
  ASSUME HostOK, Check, ~ mixed, mode = "patch" => \A f \in Files : Fits(f), NEW f \in Files
  PROVE  files[f] = Wanted(f)
<1>1. TypesOK /\ Marked /\ Fitting
  BY DEF HostOK, MarkerOK, Working
<1>2. Fits(f)
  <2>1. CASE mode = "git"
    <3>1. version \in Versions /\ set \in Sets /\ marker = <<version, set>>
      BY <1>1 DEF TypesOK, Check
    <3>2. QED BY <1>1, <2>1, <3>1 DEF Marked, Fits
  <2>2. CASE mode = "patch"
    BY <2>2
  <2>3. QED BY <1>1, <2>1, <2>2 DEF TypesOK
<1>3. files[f] # Pristine
  BY DEF Check, SignaturesPresent
<1>4. QED BY <1>1, <1>2, <1>3 DEF Fitting

-----------------------------------------------------------------------------
(* The definitions *)

MaybeYaml == Yamls \cup {NoYaml}

LEMMA DefinitionTypesSplit ==
  DefinitionTypes <=>
    /\ yaml \in Yamls
    /\ first \in MaybeYaml /\ cache \in MaybeYaml /\ built \in MaybeYaml /\ run \in MaybeYaml
    /\ saved \in Nat /\ policy \in Nat /\ now \in Nat /\ stamp \in Nat /\ seen \in Nat /\ started \in Nat
    /\ written \in Nat
    /\ step \in Steps /\ missed \in BOOLEAN /\ app \in {"down", "up"}
  BY DEF DefinitionTypes, FDTypeOK, MaybeYaml

LEMMA MaxMtimeIsTime ==
  ASSUME DefinitionTypes, Times
  PROVE  MaxMtime \in Nat /\ MaxMtime <= now /\ saved <= MaxMtime
  BY DefinitionTypesSplit DEF Times, MaxMtime, TheLater

\* What get_flow_annotations leaves in the registry.
LEMMA AnnotationsAreThere ==
  ASSUME DefinitionTypes, Annotations
  PROVE  /\ cache' \in MaybeYaml /\ missed' \in BOOLEAN
         /\ stamp' = stamp \/ stamp' = seen
         /\ \/ cache' = yaml
            \/ cache' = cache /\ stamp' = stamp /\ missed' = missed
  BY DefinitionTypesSplit DEF Annotations, MaybeYaml

LEMMA SaveKeepsDefinitions == ASSUME Definitions, Save, UNCHANGED <<app, started>> PROVE Definitions'
<1>1. DefinitionTypes /\ Times
  BY DEF Definitions
<1>2. DefinitionTypes'
  <2>1. saved' \in Nat /\ now' \in Nat /\ written' \in Nat
    BY <1>1, DefinitionTypesSplit DEF Save
  <2>2. missed' \in BOOLEAN
    BY DEF Save, Unseen
  <2>3. yaml' \in Yamls /\ UNCHANGED <<policy, step, first, cache, stamp, seen, built, run>>
    BY DEF Save
  <2>4. QED BY <1>1, <2>1, <2>2, <2>3, DefinitionTypesSplit DEF DefinitionTypes, FDTypeOK, MaybeYaml
<1>3. Times'
  BY <1>1, DefinitionTypesSplit DEF Save, Times
<1>4. written' > started' /\ (saved' > now => saved' > stamp')
  BY <1>1, DefinitionTypesSplit DEF Save, Times
<1>5. Fresh'
  <2>1. step' = step /\ stamp' = stamp /\ missed' = Unseen(saved')
    BY DEF Save
  <2>2. ASSUME ~ missed', step = "stamping" PROVE FALSE
    BY <2>1, <2>2 DEF Unseen
  <2>3. ASSUME ~ missed', Registered PROVE saved' > stamp'
    <3>1. step \notin {"on", "registering"}
      BY <2>3 DEF Registered
    <3>2. ~ (saved' <= now)
      BY <2>1, <2>3, <3>1 DEF Unseen
    <3>3. saved' \in Nat /\ now \in Nat
      BY <1>1, DefinitionTypesSplit DEF Save
    <3>4. saved' > now
      BY <3>2, <3>3
    <3>5. QED BY <1>4, <3>4
  <2>4. QED BY <2>1, <2>2, <2>3 DEF Fresh, Registered
<1>6. Unsaved'
  BY <1>2, <1>4 DEF Unsaved, DefinitionTypes, FDTypeOK
<1>7. QED BY <1>2, <1>3, <1>5, <1>6 DEF Definitions

LEMMA PolicyKeepsDefinitions ==
  ASSUME Definitions, SavePolicy \/ RemovePolicy, UNCHANGED <<app, started>>
  PROVE  Definitions'
<1>1. DefinitionTypes /\ Times
  BY DEF Definitions
<1>2. DefinitionTypes'
  BY <1>1, DefinitionTypesSplit DEF SavePolicy, RemovePolicy, DefinitionTypes, FDTypeOK
<1>3. Times'
  BY <1>1, DefinitionTypesSplit DEF SavePolicy, RemovePolicy, Times
<1>4. Fresh' /\ Unsaved'
  BY DEF Definitions, SavePolicy, RemovePolicy, Fresh, Registered, Unsaved
<1>5. QED BY <1>2, <1>3, <1>4 DEF Definitions

\* The steps of a start and of a run that leave the registry alone, or look at the times only.
Quietly ==
    \/ ReadYaml
    \/ AskForAgents
    \/ ConnectEngine
    \/ AskForRun
    \/ EndRun

LEMMA QuietStepsKeepDefinitions ==
  ASSUME Definitions, Quietly, UNCHANGED <<app, started>>
  PROVE  Definitions'
<1>1. DefinitionTypes /\ Times /\ Fresh /\ Unsaved
  BY DEF Definitions
<1>2. /\ UNCHANGED <<yaml, saved, policy, now, written>> /\ UNCHANGED <<cache, stamp, built, missed>>
      /\ UNCHANGED <<app, started>>
  BY DEF Quietly, ReadYaml, AskForAgents, ConnectEngine, AskForRun, EndRun, Look, disk
<1>3. seen' \in Nat /\ seen' <= now
  <2>1. seen' = seen \/ seen' = MaxMtime
    BY DEF Quietly, ReadYaml, AskForAgents, ConnectEngine, AskForRun, EndRun, Look
  <2>2. QED BY <1>1, <2>1, MaxMtimeIsTime, DefinitionTypesSplit DEF Times
<1>4. first' \in MaybeYaml /\ run' \in MaybeYaml /\ (step' = "running" => run' = run)
  BY <1>1, DefinitionTypesSplit
     DEF Quietly, ReadYaml, AskForAgents, ConnectEngine, AskForRun, EndRun, Look, Goto, MaybeYaml
<1>5. /\ step' \in Steps \ {"stamping", "running"}
      /\ Registered' => Registered
      /\ step' \in {"connecting", "ready", "reading"} => step \in {"connecting", "ready", "reading", "running"}
  BY DEF Quietly, ReadYaml, AskForAgents, ConnectEngine, AskForRun, EndRun, Look, Goto, Registered, Steps
<1>6. DefinitionTypes'
  BY <1>1, <1>2, <1>3, <1>4, <1>5, DefinitionTypesSplit DEF DefinitionTypes, FDTypeOK, MaybeYaml
<1>7. Times'
  BY <1>1, <1>2, <1>3 DEF Times
<1>8. Fresh'
  BY <1>1, <1>2, <1>5 DEF Fresh
<1>9. Unsaved'
  BY <1>1, <1>2, <1>5 DEF Unsaved
<1>10. QED BY <1>6, <1>7, <1>8, <1>9 DEF Definitions

LEMMA RegisterKeepsDefinitions ==
  ASSUME Definitions, RegisterFlow, UNCHANGED <<app, started>>
  PROVE  Definitions'
<1>1. DefinitionTypes /\ Times
  BY DEF Definitions
<1>2. /\ (step' = "stamping" /\ cache' = yaml) \/ (step' = "failed" /\ cache' = NoYaml)
      /\ UNCHANGED <<yaml, saved, policy, now, written>> /\ UNCHANGED <<first, stamp, seen, built, run, missed>>
  <2>1. CASE Valid(yaml)
    BY <2>1 DEF RegisterFlow, Goto, disk
  <2>2. CASE ~ Valid(yaml)
    BY <2>2 DEF RegisterFlow, Goto, disk
  <2>3. QED BY <2>1, <2>2
<1>3. DefinitionTypes'
  BY <1>1, <1>2, DefinitionTypesSplit DEF DefinitionTypes, FDTypeOK, MaybeYaml, Steps
<1>4. Times'
  BY <1>1, <1>2 DEF Times
<1>5. Fresh' /\ Unsaved'
  BY <1>2 DEF Fresh, Unsaved, Registered
<1>6. QED BY <1>3, <1>4, <1>5 DEF Definitions

LEMMA StampKeepsDefinitions ==
  ASSUME Definitions, StampFlow, UNCHANGED <<app, started>>
  PROVE  Definitions'
<1>1. DefinitionTypes /\ Times /\ Fresh /\ Unsaved
  BY DEF Definitions
<1>2. /\ step = "stamping" /\ step' = "asking" /\ stamp' = MaxMtime
      /\ UNCHANGED <<yaml, saved, policy, now, written>> /\ UNCHANGED <<first, cache, seen, built, run, missed>>
  BY DEF StampFlow, Goto, disk
<1>3. stamp' \in Nat /\ stamp' <= now
  BY <1>1, <1>2, MaxMtimeIsTime
<1>4. DefinitionTypes'
  BY <1>1, <1>2, <1>3, DefinitionTypesSplit DEF DefinitionTypes, FDTypeOK, MaybeYaml, Steps
<1>5. Times'
  BY <1>1, <1>2, <1>3 DEF Times
<1>6. Fresh' /\ Unsaved'
  BY <1>1, <1>2 DEF Fresh, Unsaved
<1>7. QED BY <1>4, <1>5, <1>6 DEF Definitions

\* get_flow_annotations of FlowAgent and of a run.
LEMMA ReadingKeepsDefinitions ==
  ASSUME Definitions, BuildAgents \/ StartRun, UNCHANGED <<app, started>>
  PROVE  Definitions'
<1>1. DefinitionTypes /\ Times /\ Fresh /\ Unsaved
  BY DEF Definitions
<1>2. Annotations /\ UNCHANGED <<yaml, saved, policy, now, written>> /\ UNCHANGED <<first, seen>>
  BY DEF BuildAgents, StartRun, disk
<1>3. /\ Registered /\ step' \in {"failed", "connecting", "ready", "running"}
      /\ step' = "connecting" => built' = cache'
      /\ step' \in {"ready", "running"} => built' = built /\ step = "reading"
      /\ step' = "running" => run' = cache'
      /\ built' \in {built, cache'} /\ run' \in {run, cache'}
  BY DEF BuildAgents, StartRun, Goto, Registered
<1>4. /\ cache' \in MaybeYaml /\ missed' \in BOOLEAN
      /\ stamp' = stamp \/ stamp' = seen
      /\ \/ cache' = yaml
         \/ cache' = cache /\ stamp' = stamp /\ missed' = missed
  BY <1>1, <1>2, AnnotationsAreThere
<1>5. stamp' \in Nat /\ stamp' <= now
  BY <1>1, <1>4, DefinitionTypesSplit DEF Times
<1>6. DefinitionTypes'
  BY <1>1, <1>2, <1>3, <1>4, <1>5, DefinitionTypesSplit DEF DefinitionTypes, FDTypeOK, MaybeYaml, Steps
<1>7. Times'
  BY <1>1, <1>2, <1>5 DEF Times
<1>8. Fresh'
  BY <1>1, <1>2, <1>3, <1>4 DEF Fresh
<1>9. Unsaved'
  BY <1>1, <1>2, <1>3, <1>4 DEF Unsaved
<1>10. QED BY <1>6, <1>7, <1>8, <1>9 DEF Definitions

LEMMA StartKeepsDefinitions == ASSUME Definitions, Start PROVE Definitions'
<1>1. DefinitionTypes /\ Times
  BY DEF Definitions
<1>2. /\ step' = "on" /\ app' = "up" /\ started' = now
      /\ UNCHANGED <<yaml, saved, policy, now, written>> /\ UNCHANGED <<first, cache, stamp, seen, built, run, missed>>
  BY DEF Start, disk
<1>3. DefinitionTypes'
  BY <1>1, <1>2, DefinitionTypesSplit DEF DefinitionTypes, FDTypeOK, MaybeYaml, Steps
<1>4. Times'
  BY <1>1, <1>2, DefinitionTypesSplit DEF Times
<1>5. Fresh' /\ Unsaved'
  BY <1>2 DEF Fresh, Unsaved, Registered
<1>6. QED BY <1>3, <1>4, <1>5 DEF Definitions

LEMMA StopKeepsDefinitions == ASSUME Definitions, Stop PROVE Definitions'
<1>1. DefinitionTypes /\ Times
  BY DEF Definitions
<1>2. /\ step' = "off" /\ app' = "down" /\ UNCHANGED <<yaml, saved, policy, now, written>> /\ started' = started
      /\ first' = NoYaml /\ cache' = NoYaml /\ built' = NoYaml /\ run' = NoYaml /\ missed' = FALSE
  BY DEF Stop, disk
<1>3. stamp' = 0 /\ seen' = 0
  BY DEF Stop
<1>4. DefinitionTypes'
  <2>1. stamp' \in Nat /\ seen' \in Nat
    BY <1>3
  <2>2. QED BY <1>1, <1>2, <2>1, DefinitionTypesSplit DEF DefinitionTypes, FDTypeOK, MaybeYaml, Steps
<1>5. Times'
  BY <1>1, <1>2, <1>3, DefinitionTypesSplit DEF Times
<1>6. Fresh' /\ Unsaved'
  BY <1>2 DEF Fresh, Unsaved, Registered
<1>7. QED BY <1>4, <1>5, <1>6 DEF Definitions

LEMMA IdleKeepsDefinitions == ASSUME Definitions, UNCHANGED <<fdVars, app, started>> PROVE Definitions'
  BY DEF Definitions, fdVars, DefinitionTypes, FDTypeOK, Times, Fresh, Unsaved, Registered

LEMMA DefinitionStepKeepsDefinitions ==
  ASSUME Definitions, DefinitionStep, UNCHANGED <<app, started>>
  PROVE  Definitions'
  BY SaveKeepsDefinitions, PolicyKeepsDefinitions, QuietStepsKeepDefinitions, RegisterKeepsDefinitions,
     StampKeepsDefinitions, ReadingKeepsDefinitions DEF DefinitionStep, Quietly

-----------------------------------------------------------------------------
(* The installation *)

LEMMA Initially == ASSUME Init PROVE Inv
<1>1. HPInit /\ FDInit /\ app = "down" /\ started = 0
  BY DEF Init
<1>2. files = AllPristine /\ cli = "none" /\ result = "" /\ marker = <<>> /\ mixed = FALSE
  BY <1>1 DEF HPInit
<1>3. at \in Nat /\ at <= Patches + 1
  <2>1. at = 1
    BY <1>1 DEF HPInit
  <2>2. QED BY <2>1, PatchesNat
<1>4. TypesOK
  BY <1>1, <1>2, <1>3, PristineIsContent DEF TypesOK, HPInit
<1>5. MarkerOK
  <2>1. marker = <<>>
    BY <1>2
  <2>2. marker \in Markers
    BY <2>1 DEF Markers
  <2>3. \A v \in Versions, s \in Sets : marker # <<v, s>>
    BY <2>1
  <2>4. QED BY <2>2, <2>3 DEF MarkerOK, Marked
<1>6. Working
  BY <1>2 DEF Working, Fitting, Applying, Undoing, Ongoing, FailureHasCause, AllPristine
<1>7. RunsOnPatchedHost
  BY <1>1 DEF RunsOnPatchedHost
<1>8. saved \in Nat /\ policy \in Nat /\ now \in Nat /\ written \in Nat /\ saved <= now /\ policy <= now /\ written <= now
  BY <1>1 DEF FDInit
<1>9. stamp \in Nat /\ seen \in Nat /\ started \in Nat /\ stamp <= now /\ seen <= now /\ started <= now
  <2>1. stamp = 0 /\ seen = 0 /\ started = 0
    BY <1>1 DEF FDInit
  <2>2. QED BY <1>8, <2>1
<1>10. DefinitionTypes
  BY <1>1, <1>8, <1>9 DEF FDInit, DefinitionTypes, FDTypeOK, Steps
<1>11. Times
  BY <1>8, <1>9 DEF Times
<1>12. Fresh /\ Unsaved
  BY <1>1 DEF FDInit, Fresh, Unsaved, Registered
<1>13. QED BY <1>4, <1>5, <1>6, <1>7, <1>10, <1>11, <1>12 DEF Inv, HostOK, Definitions

\* An application that runs stays on the host it was started on.
LEMMA RunningKeepsHost ==
  ASSUME RunsOnPatchedHost, UNCHANGED hostVars, app' = "up" => app = "up"
  PROVE  RunsOnPatchedHost'
  BY DEF RunsOnPatchedHost, hostVars, Fits, Wanted

LEMMA Preserved == ASSUME Inv, [Next]_vars PROVE Inv'
<1>1. HostOK /\ RunsOnPatchedHost /\ Definitions
  BY DEF Inv
<1>2. CASE Start
  <2>1. Check /\ UNCHANGED hostVars
    BY <1>2 DEF Start
  <2>2. RunsOnPatchedHost'
    <3>1. ~ mixed /\ (mode = "patch" => \A f \in Files : Fits(f)) => \A f \in Files : files[f] = Wanted(f)
      BY <1>1, <2>1, CheckedIsPatched
    <3>2. QED BY <2>1, <3>1 DEF RunsOnPatchedHost, hostVars, Fits, Wanted
  <2>3. QED BY <1>1, <1>2, <2>1, <2>2, IdleKeepsHost, StartKeepsDefinitions DEF Inv
<1>3. CASE Stop
  <2>1. UNCHANGED hostVars /\ app' = "down"
    BY <1>3 DEF Stop
  <2>2. QED BY <1>1, <1>3, <2>1, IdleKeepsHost, RunningKeepsHost, StopKeepsDefinitions DEF Inv
<1>4. CASE WhileDown
  <2>1. app = "down" /\ app' = app /\ HostStep /\ UNCHANGED <<fdVars, app, started>>
    BY <1>4 DEF WhileDown
  <2>2. RunsOnPatchedHost'
    BY <2>1 DEF RunsOnPatchedHost
  <2>3. QED BY <1>1, <2>1, <2>2, HostStepKeepsHost, IdleKeepsDefinitions DEF Inv
<1>5. CASE WhileUp
  <2>1. DefinitionStep /\ UNCHANGED hostVars /\ UNCHANGED <<app, started>> /\ app' = app
    BY <1>5 DEF WhileUp
  <2>2. QED BY <1>1, <2>1, IdleKeepsHost, RunningKeepsHost, DefinitionStepKeepsDefinitions DEF Inv
<1>6. CASE UNCHANGED vars
  <2>1. UNCHANGED hostVars /\ UNCHANGED <<fdVars, app, started>> /\ app' = app
    BY <1>6 DEF vars
  <2>2. QED BY <1>1, <2>1, IdleKeepsHost, RunningKeepsHost, IdleKeepsDefinitions DEF Inv
<1>7. QED BY <1>2, <1>3, <1>4, <1>5, <1>6 DEF Next

\* The inductive invariant holds in every state.
THEOREM InvHolds == Spec => []Inv
<1>1. Init => Inv
  BY Initially
<1>2. Inv /\ [Next]_vars => Inv'
  BY Preserved
<1>3. QED BY <1>1, <1>2, PTL DEF Spec

\* The types (HostPatch, FlowDefinitions, cli/start.py).
THEOREM TypeCorrect == Spec => []TypeOK
<1>1. Inv => TypeOK
  BY TypesSplit DEF Inv, HostOK, MarkerOK, Definitions, DefinitionTypes, TypeOK
<1>2. QED BY <1>1, InvHolds, PTL

\* The check, which reads a marker and one signature per file, lets no application start on a file
\* that is patched in part only (_hostpatch.py:109), with the two exceptions the property names.
THEOREM StartsOnPatchedHost == Spec => []RunsOnPatchedHost
<1>1. Inv => RunsOnPatchedHost
  BY DEF Inv
<1>2. QED BY <1>1, InvHolds, PTL

\* A patch-host that undoes what it did had a patch that does not fit, or met a conflict marker in
\* the checkout: no earlier command that was killed or failed half-way makes it fail
\* (_hostpatch.py:148, 166).
THEOREM FailuresHaveCauses == Spec => []FailureHasCause
<1>1. Inv => FailureHasCause
  BY DEF Inv, HostOK, Working
<1>2. QED BY <1>1, InvHolds, PTL

\* What the registry keeps is what is on disk, or it will be found too old (process_registry.py:105).
THEOREM StaleIsAlwaysNoticed == Spec => []StaleIsNoticed
<1>1. ASSUME Inv PROVE StaleIsNoticed
  <2>1. DefinitionTypes /\ Times /\ Fresh
    BY <1>1 DEF Inv, Definitions
  <2>2. MaxMtime \in Nat /\ saved <= MaxMtime /\ saved \in Nat /\ stamp \in Nat
    BY <2>1, MaxMtimeIsTime, DefinitionTypesSplit
  <2>3. Registered /\ ~ missed => cache = yaml \/ saved > stamp
    BY <2>1 DEF Fresh
  <2>4. saved > stamp => MaxMtime > stamp
    BY <2>2
  <2>5. QED BY <2>3, <2>4 DEF StaleIsNoticed, Registered
<1>2. QED BY <1>1, InvHolds, PTL

\* One definition: what the engine does not do itself the FlowAgent has an agent for, unless the
\* agent is missing or unusable or the hook cannot be read (flow_config.py:165, 250).
LEMMA OneDefinitionAgrees ==
  ASSUME NEW y
  PROVE  /\ \A t \in AgenticTasks(y) \ TaskAgents(y) : y.tasks[t].agent \in {"none", "faulty"}
         /\ EngineToolTasks(y) \subseteq ToolTasks(y)
         /\ DecisionGateways(y) \subseteq GatewayAgents(y)
         /\ \A h \in EngineHooks(y) \ Hooks(y) : ~ y.hooks[h].readable
<1>1. \A t \in AgenticTasks(y) \ TaskAgents(y) : y.tasks[t].agent \in {"none", "faulty"}
  BY DEF AgenticTasks, TaskAgents, HasAgent
<1>2. EngineToolTasks(y) \subseteq ToolTasks(y)
  BY DEF EngineToolTasks, AgenticTasks, ToolTasks, HasAgent
<1>3. DecisionGateways(y) \subseteq GatewayAgents(y)
  BY DEF GatewayAgents
<1>4. \A h \in EngineHooks(y) \ Hooks(y) : ~ y.hooks[h].readable
  BY DEF EngineHooks, Hooks
<1>5. QED BY <1>1, <1>2, <1>3, <1>4

\* Without a save since the start the engine and the FlowAgent act on one definition, although they
\* read it at different times through the registry.
THEOREM DelegatesAreAlwaysKnown == Spec => []DelegatesAreKnown
<1>1. ASSUME Inv PROVE DelegatesAreKnown
  <2>1. step = "running" /\ written <= started => built = run
    BY <1>1 DEF Inv, Definitions, Unsaved
  <2>2. QED BY <2>1, OneDefinitionAgrees DEF DelegatesAreKnown
<1>2. QED BY <1>1, InvHolds, PTL
=============================================================================
