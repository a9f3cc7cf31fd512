------------------------------ MODULE MCUnits ------------------------------
(***************************************************************************)
(* Unit files for the run of Mount with UnitLoad and Install.              *)
(***************************************************************************)
EXTENDS Mount

NoInstall == [WantedBy |-> {}, RequiredBy |-> {}, Also |-> {}, Alias |-> {}]

\* multi binds to svc, and pulls in help when it is enabled; nick is an alias of svc; odd is a name of
\* no type; the section of help is refused.
MCType == [n \in Name |-> CASE n \in {"basic", "shut", "multi"} -> "target" [] n = "dev" -> "mount"
                            [] n = "odd" -> "invalid" [] OTHER -> "service"]

Plain == [list |-> <<>>, ddeps |-> TRUE, ok |-> TRUE, install |-> NoInstall]

MCFile == [n \in Name |->
  CASE n \in {"basic", "shut"} -> Plain
    [] n = "multi" -> [Plain EXCEPT !.list = [BindsTo |-> <<"svc">>]]
    [] n = "svc"   -> [Plain EXCEPT !.list = [OnFailure |-> <<"help">>, After |-> <<"help", "odd">>],
                                    !.install.WantedBy = {"multi"}, !.install.Alias = {"nick"}]
    [] n = "help"  -> [Plain EXCEPT !.ddeps = FALSE, !.ok = FALSE,
                                    !.install.WantedBy = {"multi"}, !.install.Also = {"svc"}]
    [] OTHER -> NoFile]

MCPresets == {[dir |-> 1, file |-> 50, rules |-> <<[act |-> "enable", match |-> {"help"}]>>],
              [dir |-> 2, file |-> 10, rules |-> <<[act |-> "disable", match |-> {"help", "svc"}]>>]}

MCPointName == [p \in Point |-> "dev"]
=============================================================================
