------------------------------- MODULE PamPatch -------------------------------
(***************************************************************************)
(* How bench/pamtiming/Makefile puts the probe into /etc/pam.d and takes   *)
(* it out again: `make enable-su', `make enable-sshd' (both run _patch)    *)
(* and `make disable', on files that the administrator edits meanwhile.    *)
(*                                                                         *)
(* A recipe is a list of shell commands.  It can stop after any of them,   *)
(* and a `cp' that finds the disk full, or is interrupted, leaves a part   *)
(* of its output behind.  One recipe runs at a time.                       *)
(***************************************************************************)
EXTENDS Naturals, Sequences, SequencesExt

CONSTANTS
  MaxEnables,  \* bound on the calls of _patch
  MaxEdits,    \* bound on the edits by others
  MaxTorn      \* bound on the copies that fail half way

ASSUME NumberAssumption == MaxEnables \in Nat /\ MaxEdits \in Nat /\ MaxTorn \in Nat

VARIABLES
  pamd,        \* pamd[f]: the lines of /etc/pam.d/f
  bak,         \* bak[f]: of f.warrant-bak, or NoFile
  new,         \* new[f]: of f.new, or NoFile
  make,        \* the recipe that runs, the command it is at, its file
  enables, edits, torn,
  (* History, read by properties only. *)
  versions,    \* versions[f]: what f was, without the probe, whenever someone
               \* other than make wrote it
  visits       \* visits[f]: how often disable has been at f since the last
               \* _patch began there, two standing for more

files == <<pamd, bak, new>>
bounds == <<enables, edits, torn>>
history == <<versions, visits>>
vars == <<files, make, bounds, history>>

-----------------------------------------------------------------------------
\* The files disable visits, in its order.
Service == <<"sshd", "su">>
File == {"sshd", "su"}

\* The line after which the probe goes (common-session or pam_systemd.so), the
\* two lines of the probe, and lines of somebody else.
Line == {"anchor", "mark", "probe", "auth", "edit"}
NoFile == <<"no file">>
Recipe == {"none", "cp", "cp_part", "awk", "check", "mv", "disable"}

\* The file without the probe.
Strip(s) ==
  FoldLeft(LAMBDA acc, l : IF l \in {"mark", "probe"} THEN acc ELSE Append(acc, l), <<>>, s)

TypeOK ==
  /\ pamd \in [File -> Seq(Line)]
  /\ bak \in [File -> Seq(Line) \cup {NoFile}]
  /\ new \in [File -> Seq(Line) \cup {NoFile}]
  /\ make \in [at : Recipe, file : File]
  /\ visits \in [File -> 0..2]
  /\ enables \in 0..MaxEnables /\ edits \in 0..MaxEdits /\ torn \in 0..MaxTorn

NoRecipe == [at |-> "none", file |-> "sshd"]

Init ==
  /\ pamd \in [File -> {<<"auth", "anchor", "auth">>, <<"auth">>}]
  /\ bak = [f \in File |-> NoFile]
  /\ new = [f \in File |-> NoFile]
  /\ make = NoRecipe
  /\ enables = 0 /\ edits = 0 /\ torn = 0
  /\ versions = [f \in File |-> {pamd[f]}]
  /\ visits = [f \in File |-> 0]

-----------------------------------------------------------------------------
(* _patch *)

\* Mutant: the lines are put before the anchor.
WithProbeBefore(s) ==
  IF ~Contains(s, "anchor") THEN s
  ELSE InsertAt(InsertAt(s, SelectInSeq(s, LAMBDA l : l = "anchor"), "probe"),
                SelectInSeq(s, LAMBDA l : l = "anchor"), "mark")

\* awk: the two lines after the first anchor, and only there.
WithProbe(s) ==
  LET first == SelectInSeq(s, LAMBDA l : l = "anchor")
  IN  IF first = 0 THEN s
      ELSE SubSeq(s, 1, first) \o <<"mark", "probe">> \o SubSeq(s, first + 1, Len(s))

\* The grep of line 112 only ends its own command when it finds the probe: the
\* recipe goes on to the copy in either case.
Enable(f) ==
  /\ make.at = "none" /\ enables < MaxEnables
  /\ make' = [at |-> "cp", file |-> f]
  /\ enables' = enables + 1
  /\ visits' = [visits EXCEPT ![f] = 0]
  /\ UNCHANGED <<files, edits, torn, versions>>

At(step, f) == make.at = step /\ make.file = f

\* cp -a opens the backup, which empties it, and writes it.
CopyOpen(f) ==
  /\ At("cp", f)
  /\ make' = [make EXCEPT !.at = "cp_part"]
  /\ bak' = [bak EXCEPT ![f] = <<>>]
  /\ UNCHANGED <<pamd, new, bounds, history>>

CopyWrite(f) ==
  /\ At("cp_part", f)
  /\ make' = [make EXCEPT !.at = "awk"]
  /\ bak' = [bak EXCEPT ![f] = pamd[f]]
  /\ UNCHANGED <<pamd, new, bounds, history>>

\* The disk is full or the copy is interrupted, and make stops.
CopyFails(f) ==
  /\ At("cp_part", f) /\ torn < MaxTorn
  /\ make' = NoRecipe
  /\ torn' = torn + 1
  /\ UNCHANGED <<files, enables, edits, history>>

Awk(f) ==
  /\ At("awk", f)
  /\ make' = [make EXCEPT !.at = "check"]
  /\ new' = [new EXCEPT ![f] = WithProbe(bak[f])]
  /\ UNCHANGED <<pamd, bak, bounds, history>>

\* grep -q on the new file; without the probe it is removed and make fails.
CheckNew(f) ==
  /\ At("check", f)
  /\ IF Contains(new[f], "mark")
       THEN make' = [make EXCEPT !.at = "mv"] /\ UNCHANGED new
       ELSE make' = NoRecipe /\ new' = [new EXCEPT ![f] = NoFile]
  /\ UNCHANGED <<pamd, bak, bounds, history>>

Move(f) ==
  /\ At("mv", f)
  /\ make' = NoRecipe
  /\ pamd' = [pamd EXCEPT ![f] = new[f]]
  /\ new' = [new EXCEPT ![f] = NoFile]
  /\ UNCHANGED <<bak, bounds, history>>

-----------------------------------------------------------------------------
(* disable *)

\* sed '/warrant-pamprobe/,+Nd': the line that matches and the N after it.
SedDelete(s, n) ==
  FoldLeft(LAMBDA acc, l :
             IF acc.skip > 0 THEN [acc EXCEPT !.skip = @ - 1]
             ELSE IF l = "mark" THEN [acc EXCEPT !.skip = n]
             ELSE [acc EXCEPT !.out = Append(@, l)],
           [out |-> <<>>, skip |-> 0], s).out

\* Mutant: one line too many is deleted.
WithoutProbeTwo(s) == SedDelete(s, 2)

WithoutProbe(s) == SedDelete(s, 1)

Disable ==
  /\ make.at = "none"
  /\ make' = [at |-> "disable", file |-> Service[1]]
  /\ UNCHANGED <<files, bounds, history>>

Visit(f) == [visits EXCEPT ![f] = IF @ = 2 THEN 2 ELSE @ + 1]

\* Mutant: the backup is copied back and kept.
RestoreKept(f) ==
  /\ At("disable", f)
  /\ make' = IF f = Last(Service) THEN NoRecipe ELSE [make EXCEPT !.file = Last(Service)]
  /\ pamd' = [pamd EXCEPT ![f] = IF bak[f] # NoFile THEN bak[f] ELSE WithoutProbe(@)]
  /\ visits' = Visit(f)
  /\ UNCHANGED <<bak, new, bounds, versions>>

\* One round of the loop: the backup is moved back when there is one, and only
\* otherwise are the lines of the probe deleted.
Restore(f) ==
  /\ At("disable", f)
  /\ make' = IF f = Last(Service) THEN NoRecipe ELSE [make EXCEPT !.file = Last(Service)]
  /\ pamd' = [pamd EXCEPT ![f] = IF bak[f] # NoFile THEN bak[f] ELSE WithoutProbe(@)]
  /\ bak' = [bak EXCEPT ![f] = NoFile]
  /\ visits' = Visit(f)
  /\ UNCHANGED <<new, bounds, versions>>

-----------------------------------------------------------------------------
(* Everybody else *)

\* make is interrupted between two commands.
Interrupt ==
  /\ make.at \notin {"none", "cp_part"}
  /\ make' = NoRecipe
  /\ UNCHANGED <<files, bounds, history>>

\* An administrator adds a line, at either end.
Edit(f) ==
  /\ edits < MaxEdits
  /\ edits' = edits + 1
  /\ pamd' \in { [pamd EXCEPT ![f] = Append(@, "edit")], [pamd EXCEPT ![f] = <<"edit">> \o @] }
  /\ versions' = [versions EXCEPT ![f] = @ \cup {Strip(pamd'[f])}]
  /\ UNCHANGED <<bak, new, make, enables, torn, visits>>

Next ==
  \/ \E f \in File :
       Enable(f) \/ CopyOpen(f) \/ CopyWrite(f) \/ CopyFails(f) \/ Awk(f) \/ CheckNew(f)
         \/ Move(f) \/ Restore(f) \/ Edit(f)
  \/ Disable \/ Interrupt

Spec == Init /\ [][Next]_vars

-----------------------------------------------------------------------------
(* Properties *)

\* While no copy fails, the file sshd and su read at a login is always one that
\* somebody wrote in full, give or take the probe: no recipe, interrupted
\* anywhere or run twice, takes a line of the stack away or reorders it.  And
\* "after common-session" (Makefile:107), torn or not: wherever a probe line is,
\* pam_systemd ran before it, with the mark directly above it.
StackIsWhole ==
  /\ torn = 0 => \A f \in File : Strip(pamd[f]) \in versions[f]
  /\ \A f \in File : \A i \in DOMAIN pamd[f] :
       pamd[f][i] = "probe" =>
         /\ i > 2 /\ pamd[f][i - 1] = "mark"
         /\ \E j \in 1..(i - 2) : pamd[f][j] = "anchor"

\* Two calls of disable without a _patch between them leave no probe, also after
\* several of _patch: the first may restore a backup that has the probe in it,
\* but no backup remains then and the second deletes by the mark.
TwoDisablesClean == \A f \in File : visits[f] = 2 => ~Contains(pamd[f], "probe")

\* Makefile:9: "disable removes every inserted line and restores the backup".
DisableRemovesAll ==
  [][\A f \in File : (visits[f] = 0 /\ visits'[f] = 1) => ~Contains(pamd'[f], "probe")]_vars
=============================================================================
