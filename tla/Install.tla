------------------------------ MODULE Install ------------------------------
(***************************************************************************)
(* Unit files and the symbolic links of /etc/sysmaster that enable them    *)
(* (core/bin/manager/pre_install.rs and the file commands of the unit      *)
(* manager): enable, disable, mask, unmask, and the presets applied at     *)
(* every start of the manager.                                             *)
(*                                                                         *)
(* A unit file sits in /usr/lib/sysmaster and never changes.  A link is    *)
(* [dir, name, to]: in the top directory of /etc/sysmaster (an alias or a  *)
(* mask) or in <target>.wants or <target>.requires, and it points to a     *)
(* file of lib, to an entry of the top directory, or to /dev/null.         *)
(***************************************************************************)
EXTENDS Naturals, Sequences, FiniteSets, SequencesExt

CONSTANTS
  Name,      \* the unit names
  File,      \* [Name -> unit file, or NoFile]
  NoFile,
  PresetFile, \* the .preset files: [dir : {1, 2}, file : Nat, rules : Seq([act, match])]
  Asked,     \* bound: the names the commands use
  MaxCmds    \* bound: commands of the administrator and changes from outside

\* The [Install] section.
InstallSection == [WantedBy : SUBSET Name, RequiredBy : SUBSET Name, Also : SUBSET Name, Alias : SUBSET Name]

ASSUME InstallAssumption ==
  /\ IsFiniteSet(Name) /\ NoFile \notin Name /\ Asked \subseteq Name
  /\ \A n \in Name : File[n] # NoFile => File[n].install \in InstallSection
  /\ \A p \in PresetFile : \A i \in 1..Len(p.rules) :
        p.rules[i].act \in {"enable", "disable", "unknown"} /\ p.rules[i].match \subseteq Name
  /\ MaxCmds \in Nat

VARIABLES
  links,     \* the symbolic links under /etc/sysmaster
  disabled,  \* history variable: disabled by the administrator and enabled by nothing since
  cmds       \* number of commands so far

ivars == <<links, disabled, cmds>>

Top == <<"top">>
Dir == {Top} \cup ({"wants", "requires"} \X Name)
Dest == ({"lib", "etc"} \X Name) \cup {<<"null">>}
Link == [dir : Dir, name : Name, to : Dest]

ITypeOK == links \subseteq Link /\ disabled \subseteq Name /\ cmds \in 0..MaxCmds

\* Path::canonicalize of an entry of the top directory or of a link: the unit file it
\* ends in, or NoFile (dangling, a loop, or /dev/null).
TopLinks(n) == {l \in links : l.dir = Top /\ l.name = n}
Canon[k \in Nat] ==
  [d \in Dest |->
     IF d[1] = "lib" THEN IF File[d[2]] # NoFile THEN d[2] ELSE NoFile
     ELSE IF d[1] = "null" \/ k = 0 \/ TopLinks(d[2]) = {} THEN NoFile
     ELSE Canon[k - 1][(CHOOSE l \in TopLinks(d[2]) : TRUE).to]]

canonicalize(d) == Canon[Cardinality(Name)][d]

Etc(n) == canonicalize(<<"etc", n>>)

-----------------------------------------------------------------------------
(* Discovery: UnitInstall and the search of its file. *)

\* unit_file_search with unit_file_load: every search path that has the name (a mask is
\* not a file and is skipped) adds its sections, and the last one is the path.
files(n) == {f \in {IF File[n] # NoFile THEN n ELSE NoFile, Etc(n)} : f # NoFile}
Regular(n) == files(n) # {}
path(n) == IF Etc(n) # NoFile THEN <<"etc", n>> ELSE <<"lib", n>>
section(n, field) == UNION {File[f].install[field] : f \in files(n)}

\* unit_install_discover: the unit and, recursively, what its Also= names.  A name that
\* has its type already is not searched again, so a cycle of Also= ends.
also(S) == S \cup UNION {section(n, "Also") : n \in S}
Reach[k \in Nat] ==
  [S \in SUBSET Name |-> LET T == also(S) IN IF k = 0 \/ T = S THEN S ELSE Reach[k - 1][T]]

unit_install_discover(n) == Reach[Cardinality(Name)][{n}]

\* install_symlinks: the aliases and dropins of a unit.
install_symlinks(n) ==
  {[dir |-> Top, name |-> a, to |-> path(n)] : a \in section(n, "Alias")}
  \cup {[dir |-> <<"wants", t>>, name |-> n, to |-> path(n)] : t \in section(n, "WantedBy")}
  \cup {[dir |-> <<"requires", t>>, name |-> n, to |-> path(n)] : t \in section(n, "RequiredBy")}

\* apply_enable_unit_install: the regular files among the discovered ones.  A link whose
\* name is taken is left as it is, and of two units that claim one alias the first in the
\* order of a HashMap gets it.
Clash(k, l) == k.dir = l.dir /\ k.name = l.name
apply_enable(S) ==
  LET new == {l \in UNION {install_symlinks(n) : n \in {x \in S : Regular(x)}} :
                ~ \E o \in links : Clash(o, l)}
  IN  {links \cup N : N \in {X \in SUBSET new : \A l \in new : \E k \in X : Clash(k, l) /\ \A j \in X : Clash(j, l) => j = k}}

\* remove_symlinks: every link whose own name, or whose target's name, is to be removed.
\* Mutant: only the name of the link counts.
remove_by_name(S) == {l \in links : l.name \notin S}

remove_symlinks(S) == {l \in links : l.name \notin S /\ ~ (l.to[1] # "null" /\ l.to[2] \in S)}

-----------------------------------------------------------------------------
(* Presets. *)

\* preset_config_files: of two files with one name that of /etc (directory 1) counts; the
\* rest is sorted by path, so by directory before name.
preset_config_files ==
  LET kept == {p \in PresetFile : ~ \E q \in PresetFile : q.file = p.file /\ q.dir < p.dir}
  IN  SetToSortSeq(kept, LAMBDA p, q : p.dir < q.dir \/ (p.dir = q.dir /\ p.file < q.file))

read_presets == FlattenSeq([i \in 1..Len(preset_config_files) |-> preset_config_files[i].rules])

\* The first rule that matches; without one, disable.
unit_preset_action(n) ==
  LET hit == {i \in 1..Len(read_presets) : n \in read_presets[i].match}
  IN  IF hit = {} THEN "disable" ELSE read_presets[CHOOSE i \in hit : \A j \in hit : i <= j].act

\* preset_all in PresetMode::Enable, which removes nothing: the files and the top links in
\* the order of the directories; preset_one_file skips a name that a context holds already.
\* So a unit that a disabled one names in Also= is enabled only if it comes before that one:
\* F are the enabled ones that come first.  The result is the enable context.
preset_all ==
  LET names == {n \in Name : File[n] # NoFile \/ \E l \in links : l.dir = Top /\ l.name = n}
      off == {n \in names : unit_preset_action(n) = "disable"}
      all(S) == UNION {unit_install_discover(n) : n \in S}
  IN  {all(F) \cup all((names \ off) \ all(off \ all(F))) : F \in SUBSET (names \ off)}

\* Manager::preset_all, at each start.
PresetAll ==
  \E S \in preset_all :
    /\ links' \in apply_enable(S)
    /\ disabled' = disabled \ S

-----------------------------------------------------------------------------
(* Commands of the administrator. *)

IInit == links = {} /\ disabled = {} /\ cmds = 0

Command == cmds < MaxCmds /\ cmds' = cmds + 1

unit_enable_files(n) ==
  /\ Command
  /\ links' \in apply_enable(unit_install_discover(n))
  /\ disabled' = disabled \ unit_install_discover(n)

unit_disable_files(n) ==
  /\ Command
  /\ links' = remove_symlinks(unit_install_discover(n))
  /\ disabled' = disabled \cup unit_install_discover(n)

\* mask_unit fails when the name is taken; unmask_unit removes only a link to /dev/null.
MaskLink(n) == [dir |-> Top, name |-> n, to |-> <<"null">>]

mask_unit(n) ==
  /\ Command
  /\ ~ \E l \in links : l.dir = Top /\ l.name = n
  /\ links' = links \cup {MaskLink(n)}
  /\ UNCHANGED disabled

unmask_unit(n) ==
  /\ Command
  /\ MaskLink(n) \in links
  /\ links' = links \ {MaskLink(n)}
  /\ UNCHANGED disabled

-----------------------------------------------------------------------------
(* Properties. *)

\* build_id_dropin: the units the links of a directory lead to.
dropin(kind, t) == {canonicalize(l.to) : l \in {k \in links : k.dir = <<kind, t>>}} \ {NoFile}

\* A unit the administrator disabled is not pulled in by any target, whichever of its
\* names it had been enabled by, until something enables it again
\* (remove_symlinks, unit_install_discover, build_id_dropin).
DisabledNotPulled ==
  \A n \in disabled, t \in Name : n \notin dropin("wants", t) \cup dropin("requires", t)
=============================================================================
