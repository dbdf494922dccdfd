-------------------------------- MODULE Paths --------------------------------
(***************************************************************************)
(* std::filesystem as app.cpp and platform.cpp use it.  A path is absolute *)
(* or not and has parts; a disk maps the parts of each absolute path that  *)
(* exists to what is there.  Links, `.', `..' and rights do not appear.    *)
(***************************************************************************)
EXTENDS Integers, Sequences

CONSTANT Cwd   \* the working directory, an absolute path

Path == [abs : BOOLEAN, parts : Seq(STRING)]
NoPath == [abs |-> FALSE, parts |-> << >>]

ASSUME PathsAssumption == Cwd \in Path /\ Cwd.abs

\* `dir / p': an absolute right side replaces the left one
Join(dir, p) == IF p.abs THEN p ELSE [dir EXCEPT !.parts = @ \o p.parts]
Within(dir, name) == [dir EXCEPT !.parts = Append(@, name)]

\* canonical
Canonical(p) == Join(Cwd, p)

Kind(disk, p) ==
  IF p # NoPath /\ Canonical(p).parts \in DOMAIN disk THEN disk[Canonical(p).parts] ELSE "nothing"
Exists(disk, p) == Kind(disk, p) # "nothing"
IsFile(disk, p) == Kind(disk, p) = "file"
IsDir(disk, p)  == Kind(disk, p) = "dir"

HasParent(p) == p.abs \/ Len(p.parts) > 1
Parent(p)    == [p EXCEPT !.parts = SubSeq(@, 1, Len(@) - 1)]

\* what exists is in a directory, up to the root
InDirectories(disk) ==
  /\ << >> \in DOMAIN disk /\ disk[<< >>] = "dir"
  /\ \A q \in DOMAIN disk : \A n \in 0 .. Len(q) - 1 :
       SubSeq(q, 1, n) \in DOMAIN disk /\ disk[SubSeq(q, 1, n)] = "dir"

\* what directory_iterator finds in a directory, when it is a regular file
FilesIn(disk, dir) ==
  LET parts == Canonical(dir).parts
  IN {Within(dir, q[Len(q)]) : q \in {r \in DOMAIN disk :
        Len(r) > 0 /\ SubSeq(r, 1, Len(r) - 1) = parts /\ disk[r] = "file"}}
==============================================================================
