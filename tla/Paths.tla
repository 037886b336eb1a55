------------------------------- MODULE Paths -------------------------------
(***************************************************************************)
(* Path names (kernel/fs/vfs.c).  A path name is a record: whether it      *)
(* starts with the separator, and the components strtok_r() cuts it into   *)
(* (empty components are skipped there, so "//a///b" has two).  The        *)
(* characters inside a component matter only for "." and "..".             *)
(***************************************************************************)
EXTENDS Naturals, Sequences, SequencesExt

(* list_push() and list_pop() on the component list, and the loop body     *)
(* that applies one component to it.                                       *)
ListPush(list, name) == Append(list, name)

ListPop(list) == IF list = <<>> THEN list ELSE Front(list)

(* The mutant keeps ".." of the root as a component.                       *)
PushComponentKeepsDotDot(list, name) ==
    CASE name = "." -> list
      [] name = ".." /\ list # <<>> -> ListPop(list)
      [] OTHER -> ListPush(list, name)

PushComponent(list, name) ==
    CASE name = "." -> list
      [] name = ".." -> ListPop(list)
      [] OTHER -> ListPush(list, name)

(* create_path_component_list(): the components a path name stands for,    *)
(* after those of the working directory when it is relative.  The path     *)
(* "/" is answered without a list, which is the same empty list.           *)
CreatePathComponentList(cwd, path) ==
    FoldLeft(PushComponent, IF path.absolute THEN <<>> ELSE cwd, path.names)

(* vfs_canonicalize_path(): the same list, joined as an absolute path that *)
(* has no "." and no "..".                                                 *)
VfsCanonicalizePath(cwd, path) ==
    [absolute |-> TRUE, names |-> CreatePathComponentList(cwd, path)]
=============================================================================
